------------------------ MODULE LinuxRuntimeProofs ------------------------
(***************************************************************************)
(* What the fence files say of the machine, proved for any set of          *)
(* executions, any number of helper connections and any number of crashes. *)
(*                                                                         *)
(* The argument has four layers.  The flock: a connection that holds it    *)
(* has the lock file open under its name, so two holders would hold the    *)
(* same file, and a lock is removed only by its holder.  The files: only   *)
(* the holder writes the state, so what it read stays true.  The client:   *)
(* the Manager waits for one connection at a time, so a connection that is *)
(* up answers the call in progress, and one that lost its client can start *)
(* nothing new.  Stop and tombstone: a Stop holds the flock or finds the   *)
(* execution stopped already, so the launches it does not kill are refused *)
(* by the revoked state they read.                                         *)
(***************************************************************************)
EXTENDS LinuxRuntime, TLAPS

USE DEF agent, fence, host

---------------------------------------------------------------------------
(* Values *)

PCs == {"idle", "check", "open", "flock", "ready", "launch", "spawn", "mark", "revoke", "kill",
        "close", "fenced", "verify", "end", "endkill", "observe", "prepare", "handoff", "remove",
        "finalize", "wsremove", "validate", "validated", "fin", "finlock", "resume", "ptemp",
        "pwrite", "plink", "punlink", "rmstate", "rmlock", "rmdir", "gc"}
Fds == {"none", "path", "gone"}
OpRec == [kind : Kinds \cup {"none"}, e : Execs \cup {0}, pc : PCs, up : BOOLEAN, made : BOOLEAN,
          fd : Fds, held : BOOLEAN, launched : BOOLEAN, revoked : BOOLEAN, killed : BOOLEAN]

JournalStates == {"none", "preparing", "prepared", "starting", "running", "cleaning",
                  "released", "failed", "cleanup_failed"}
Nexts == Kinds \cup {"none", "cas", "unwind"}
Goals == {"none", "failed", "released", "starting", "cleanup_failed"}
CallRec == [next : Nexts, e : Execs \cup {0}, to : Goals]

Leaves     == {"absent", "empty", "busy"}
Workspaces == {"absent", "root", "runner"}
Locks      == {"none", "new", "ok"}
Levels     == {"none", "active", "launched", "revoked", "torn"}
Pubs       == {"none", "torn", "temp", "linked", "done"}

AgentTyped ==
    /\ call \in CallRec /\ jrn \in [Execs -> JournalStates] /\ ep \in [Execs -> 0..2]
    /\ stopped \subseteq Execs

HostTyped ==
    /\ cg \in [Execs -> Leaves] /\ ws \in [Execs -> Workspaces] /\ boot \in 1..2
    /\ lock \in [Execs -> Locks] /\ st \in [Execs -> Levels] /\ pub \in [Execs -> Pubs]
    /\ dir \in [Execs -> BOOLEAN]
    /\ mu \in Ops \cup {0} /\ srv \in {"up", "closing", "down"}

Typed == op \in [Ops -> OpRec] /\ AgentTyped /\ HostTyped

---------------------------------------------------------------------------
(* The inductive invariant *)

\* The steps of FinalizeFence that run under the flock
Publishing == {"ptemp", "pwrite", "plink", "punlink", "rmstate", "rmlock"}

\* Where a connection is tells what it was asked for.
KindShape(o) ==
    /\ op[o].pc = "idle" => op[o].kind = "none" /\ ~op[o].up
    /\ op[o].pc # "idle" => op[o].e \in Execs
    /\ op[o].pc \in {"check", "open", "flock"} =>
           op[o].kind \in {"start", "stop", "alive", "finalize"}
    /\ op[o].pc \in {"ready", "revoke", "kill", "close", "end", "endkill"} =>
           op[o].kind \in {"start", "stop"}
    /\ op[o].pc \in {"launch", "spawn", "mark", "fenced", "verify"} => op[o].kind = "start"
    /\ op[o].pc = "observe" => op[o].kind = "alive"
    /\ op[o].pc \in {"prepare", "handoff"} => op[o].kind = "prepare"
    /\ op[o].pc = "remove" => op[o].kind = "remove"
    /\ op[o].pc = "gc" => op[o].kind = "gc"
    /\ op[o].pc \in Publishing \cup {"finalize", "wsremove", "validate", "validated", "fin",
                                     "finlock", "resume", "rmdir"} => op[o].kind = "finalize"

\* A holder has the lock open under its name; a session works under the
\* flock unless it found a tombstone, and was then told that it is revoked.
FlockShape(o) ==
    /\ op[o].held => op[o].fd = "path"
    /\ op[o].fd = "path" => lock[op[o].e] # "none"
    /\ op[o].pc \in {"idle", "check", "open", "flock", "prepare", "handoff", "remove", "gc",
                     "finalize", "wsremove", "validate", "fin", "finlock", "resume", "rmdir"} =>
           ~op[o].held
    /\ op[o].pc \in Publishing \cup {"spawn", "mark"} => op[o].held
    /\ op[o].pc \in {"ready", "launch"} => op[o].held \/ op[o].revoked
    /\ op[o].pc = "kill" => op[o].revoked

\* launchMu is held across one launch.
LaunchMu == mu # 0 => op[mu].pc = "spawn"

\* What a session read of the state file under its flock is still true.
SessionShape(o) ==
    /\ op[o].held /\ op[o].kind \in {"start", "stop"} /\ st[op[o].e] = "launched" =>
           op[o].launched /\ ~op[o].revoked /\ ~op[o].killed
    /\ op[o].pc \in {"spawn", "mark"} => ~op[o].revoked
    /\ op[o].killed => op[o].revoked /\ op[o].pc \in {"close", "end", "endkill"}
    /\ op[o].pc = "rmlock" => st[op[o].e] = "none"

\* A state file has a lock beside it, and both lie in the owner directory.
FenceFiles ==
    \A e \in Execs : (lock[e] = "none" => st[e] = "none") /\ (lock[e] # "none" => dir[e])

\* The state in which the journal has the execution of the call in progress
AgentShape ==
    /\ call.next # "none" => call.e \in Execs
    /\ call.next = "prepare" => jrn[call.e] = "preparing"
    /\ call.next = "cas" => jrn[call.e] = "prepared"
    /\ call.next = "start" => jrn[call.e] = "starting" /\ call.e \notin stopped
    /\ call.next = "unwind" =>
           jrn[call.e] = "starting" /\ call.to \in {"cleanup_failed", "starting", "failed"}
    /\ call.next = "alive" => jrn[call.e] = "running"
    /\ call.next = "stop" => jrn[call.e] = "cleaning"
    /\ call.next = "finalize" => jrn[call.e] = "cleaning" /\ call.e \in stopped
    /\ call.next = "gc" => jrn[call.e] = "released" /\ call.e \in stopped
    /\ call.next = "remove" =>
           /\ jrn[call.e] \in {"preparing", "cleaning"} /\ call.to \in {"failed", "released"}
           /\ jrn[call.e] = "preparing" => call.to = "failed"
    /\ \A e \in stopped : jrn[e] \notin {"none", "preparing", "prepared"}

\* The states of an execution whose workspace was never reported prepared
Unprepared == {"preparing", "failed", "cleanup_failed"}

\* A connection that is up is the one the Manager waits for; finalizations
\* are of stopped executions, and a preparation left behind is of one that
\* will never start.
ClientShape(o) ==
    /\ op[o].up => op[o].e = call.e /\ op[o].kind = Wanted
    /\ op[o].kind \in {"finalize", "gc"} => op[o].e \in stopped
    /\ op[o].kind = "prepare" =>
         /\ jrn[op[o].e] \in Unprepared /\ op[o].e \notin stopped
         /\ ~op[o].up => ~(call.next = "prepare" /\ call.e = op[o].e)

OneClient == \A o, p \in Ops : op[o].up /\ op[p].up => o = p

\* A Stop holds the flock or comes after another; no launch of a stopped
\* execution can still be admitted.
StopShape(o) ==
    /\ op[o].kind = "stop" /\ op[o].pc \in {"ready", "revoke", "kill", "close"} =>
           op[o].held \/ op[o].e \in stopped
    /\ op[o].kind = "stop" /\ op[o].pc = "close" => cg[op[o].e] # "busy"
    /\ op[o].e \in stopped =>
           op[o].pc # "spawn" /\ (op[o].pc = "launch" => op[o].revoked \/ op[o].launched)

\* What a finalization has checked stays so.
FinalShape(o) ==
    /\ op[o].kind = "finalize" /\ op[o].pc \notin {"finalize", "wsremove"} =>
           ws[op[o].e] = "absent"
    /\ op[o].pc \in Publishing \cup {"finlock", "resume", "rmdir"} => cg[op[o].e] = "absent"

TombstoneShape == \A e \in Execs : pub[e] # "none" => e \in stopped

LockInv ==
    /\ \A o \in Ops : KindShape(o) /\ FlockShape(o)
    /\ OneFenceHolder /\ LaunchMu

FileInv   == FenceFiles /\ \A o \in Ops : SessionShape(o)
ClientInv == AgentShape /\ OneClient /\ \A o \in Ops : ClientShape(o)
StopInv   == StopIsFinal /\ \A o \in Ops : StopShape(o)
FinalInv  == TombstoneShape /\ TombstoneIsProof /\ \A o \in Ops : FinalShape(o)

FenceInv == Typed /\ LockInv /\ FileInv /\ ClientInv /\ StopInv /\ FinalInv

---------------------------------------------------------------------------
(* The records of connections and calls *)

\* A connection that goes on keeps everything but its place.
LEMMA AtFields ==
  ASSUME NEW r \in OpRec, NEW x \in PCs
  PROVE  /\ At(r, x) \in OpRec /\ At(r, x).kind = r.kind /\ At(r, x).e = r.e
         /\ At(r, x).pc = x /\ At(r, x).up = r.up /\ At(r, x).made = r.made
         /\ At(r, x).fd = r.fd /\ At(r, x).held = r.held /\ At(r, x).launched = r.launched
         /\ At(r, x).revoked = r.revoked /\ At(r, x).killed = r.killed
  BY DEF At, OpRec

\* A connection that lost its client keeps everything but the client.
LEMMA LostFields ==
  ASSUME NEW r \in OpRec
  PROVE  /\ Lost(r) \in OpRec /\ Lost(r).kind = r.kind /\ Lost(r).e = r.e /\ Lost(r).pc = r.pc
         /\ ~Lost(r).up /\ Lost(r).made = r.made /\ Lost(r).fd = r.fd /\ Lost(r).held = r.held
         /\ Lost(r).launched = r.launched /\ Lost(r).revoked = r.revoked
         /\ Lost(r).killed = r.killed
  BY DEF Lost, OpRec

\* LockFence opens the lock file at its path.
LEMMA OpeningFields ==
  ASSUME NEW r \in OpRec, NEW l
  PROVE  /\ Opening(r, l) \in OpRec /\ Opening(r, l).kind = r.kind /\ Opening(r, l).e = r.e
         /\ Opening(r, l).pc = "flock" /\ Opening(r, l).up = r.up
         /\ (Opening(r, l).made <=> l = "none") /\ Opening(r, l).fd = "path"
         /\ Opening(r, l).held = r.held /\ Opening(r, l).launched = r.launched
         /\ Opening(r, l).revoked = r.revoked /\ Opening(r, l).killed = r.killed
<1>1. "flock" \in PCs /\ "path" \in Fds /\ (l = "none") \in BOOLEAN
  BY DEF PCs, Fds
<1> QED
  BY <1>1 DEF Opening, OpRec

\* LockFence with the flock has read the state.
LEMMA LockedFields ==
  ASSUME NEW r \in OpRec, NEW x \in PCs, NEW s
  PROVE  /\ Locked(r, x, s) \in OpRec /\ Locked(r, x, s).kind = r.kind
         /\ Locked(r, x, s).e = r.e /\ Locked(r, x, s).pc = x /\ Locked(r, x, s).up = r.up
         /\ ~Locked(r, x, s).made /\ Locked(r, x, s).fd = r.fd /\ Locked(r, x, s).held
         /\ (Locked(r, x, s).launched <=> s = "launched")
         /\ (Locked(r, x, s).revoked <=> s = "revoked") /\ Locked(r, x, s).killed = r.killed
  BY DEF Locked, OpRec

\* MarkLaunched sets launched.
LEMMA LaunchedFields ==
  ASSUME NEW r \in OpRec, NEW x \in PCs
  PROVE  /\ Launched(r, x) \in OpRec /\ Launched(r, x).kind = r.kind /\ Launched(r, x).e = r.e
         /\ Launched(r, x).pc = x /\ Launched(r, x).up = r.up /\ Launched(r, x).made = r.made
         /\ Launched(r, x).fd = r.fd /\ Launched(r, x).held = r.held
         /\ Launched(r, x).launched /\ Launched(r, x).revoked = r.revoked
         /\ Launched(r, x).killed = r.killed
  BY DEF Launched, OpRec

\* A revoked fence is known as revoked.
LEMMA RevokedFields ==
  ASSUME NEW r \in OpRec, NEW x \in PCs
  PROVE  /\ Revoked(r, x) \in OpRec /\ Revoked(r, x).kind = r.kind /\ Revoked(r, x).e = r.e
         /\ Revoked(r, x).pc = x /\ Revoked(r, x).up = r.up /\ Revoked(r, x).made = r.made
         /\ Revoked(r, x).fd = r.fd /\ Revoked(r, x).held = r.held
         /\ Revoked(r, x).launched = r.launched /\ Revoked(r, x).revoked
         /\ Revoked(r, x).killed = r.killed
  BY DEF Revoked, OpRec

\* KillAndWait sets killed.
LEMMA KilledFields ==
  ASSUME NEW r \in OpRec
  PROVE  /\ Killed(r) \in OpRec /\ Killed(r).kind = r.kind /\ Killed(r).e = r.e
         /\ Killed(r).pc = "close" /\ Killed(r).up = r.up /\ Killed(r).made = r.made
         /\ Killed(r).fd = r.fd /\ Killed(r).held = r.held /\ Killed(r).launched = r.launched
         /\ Killed(r).revoked = r.revoked /\ Killed(r).killed
  BY DEF Killed, OpRec, PCs

\* FinalizeFence opens the lock of the fence again.
LEMMA ReopenedFields ==
  ASSUME NEW r \in OpRec, NEW x \in PCs, NEW f \in Fds
  PROVE  /\ Reopened(r, x, f) \in OpRec /\ Reopened(r, x, f).kind = r.kind
         /\ Reopened(r, x, f).e = r.e /\ Reopened(r, x, f).pc = x
         /\ Reopened(r, x, f).up = r.up /\ Reopened(r, x, f).made = r.made
         /\ Reopened(r, x, f).fd = f /\ Reopened(r, x, f).held = r.held
         /\ Reopened(r, x, f).launched = r.launched /\ Reopened(r, x, f).revoked = r.revoked
         /\ Reopened(r, x, f).killed = r.killed
  BY DEF Reopened, OpRec

\* FinalizeFence takes the flock.
LEMMA RelockedFields ==
  ASSUME NEW r \in OpRec, NEW x \in PCs
  PROVE  /\ Relocked(r, x) \in OpRec /\ Relocked(r, x).kind = r.kind /\ Relocked(r, x).e = r.e
         /\ Relocked(r, x).pc = x /\ Relocked(r, x).up = r.up /\ Relocked(r, x).made = r.made
         /\ Relocked(r, x).fd = r.fd /\ Relocked(r, x).held
         /\ Relocked(r, x).launched = r.launched /\ Relocked(r, x).revoked = r.revoked
         /\ Relocked(r, x).killed = r.killed
  BY DEF Relocked, OpRec

\* A fence that is closed gives up file and flock.
LEMMA UnlockedFields ==
  ASSUME NEW r \in OpRec, NEW x \in PCs
  PROVE  /\ Unlocked(r, x) \in OpRec /\ Unlocked(r, x).kind = r.kind /\ Unlocked(r, x).e = r.e
         /\ Unlocked(r, x).pc = x /\ Unlocked(r, x).up = r.up /\ Unlocked(r, x).made = r.made
         /\ Unlocked(r, x).fd = "none" /\ ~Unlocked(r, x).held
         /\ Unlocked(r, x).launched = r.launched /\ Unlocked(r, x).revoked = r.revoked
         /\ Unlocked(r, x).killed = r.killed
  BY DEF Unlocked, OpRec, Fds

\* Removing a lock file leaves its openers a file without a name.
LEMMA NamelessFields ==
  ASSUME NEW r \in OpRec
  PROVE  /\ Nameless(r) \in OpRec /\ Nameless(r).kind = r.kind /\ Nameless(r).e = r.e
         /\ Nameless(r).pc = r.pc /\ Nameless(r).up = r.up /\ Nameless(r).made = r.made
         /\ Nameless(r).fd = "gone" /\ Nameless(r).held = r.held
         /\ Nameless(r).launched = r.launched /\ Nameless(r).revoked = r.revoked
         /\ Nameless(r).killed = r.killed
  BY DEF Nameless, OpRec, Fds

\* A closed connection is the one nobody has.
LEMMA NoOpFields ==
  /\ NoOp \in OpRec /\ NoOp.kind = "none" /\ NoOp.e = 0 /\ NoOp.pc = "idle"
  /\ ~NoOp.up /\ ~NoOp.made /\ NoOp.fd = "none" /\ ~NoOp.held
  /\ ~NoOp.launched /\ ~NoOp.revoked /\ ~NoOp.killed
  BY DEF NoOp, OpRec, Kinds, PCs, Fds

\* A new connection holds nothing and has its client.
LEMMA DialledFields ==
  ASSUME NEW k \in Kinds, NEW x \in Execs \cup {0}
  PROVE  /\ Dialled(k, x) \in OpRec /\ Dialled(k, x).kind = k /\ Dialled(k, x).e = x
         /\ Dialled(k, x).pc = IF k \in {"start", "stop", "alive"} THEN "check" ELSE k
         /\ Dialled(k, x).up /\ ~Dialled(k, x).made /\ Dialled(k, x).fd = "none"
         /\ ~Dialled(k, x).held /\ ~Dialled(k, x).launched /\ ~Dialled(k, x).revoked
         /\ ~Dialled(k, x).killed
  BY DEF Dialled, NoOp, OpRec, Kinds, PCs, Fds

\* A new call of the Manager
LEMMA CallingFields ==
  ASSUME NEW n \in Nexts, NEW x \in Execs \cup {0}, NEW t \in Goals
  PROVE  /\ Calling(n, x, t) \in CallRec /\ Calling(n, x, t).next = n
         /\ Calling(n, x, t).e = x /\ Calling(n, x, t).to = t
  BY DEF Calling, CallRec

\* A call goes on with its execution and its goal.
LEMMA ThenFields ==
  ASSUME NEW c \in CallRec, NEW n \in Nexts
  PROVE  /\ Then(c, n) \in CallRec /\ Then(c, n).next = n
         /\ Then(c, n).e = c.e /\ Then(c, n).to = c.to
  BY DEF Then, CallRec

\* A call goes on with its execution and another goal.
LEMMA ThenToFields ==
  ASSUME NEW c \in CallRec, NEW n \in Nexts, NEW t \in Goals
  PROVE  /\ ThenTo(c, n, t) \in CallRec /\ ThenTo(c, n, t).next = n
         /\ ThenTo(c, n, t).e = c.e /\ ThenTo(c, n, t).to = t
  BY DEF ThenTo, CallRec

\* Between two calls nothing is to be done.
LEMMA NoCallFields ==
  /\ NoCall \in CallRec /\ NoCall.next = "none" /\ NoCall.e = 0 /\ NoCall.to = "none"
  BY DEF NoCall, CallRec, Nexts, Goals

\* A failed Start leaves one of three states behind.
LEMMA UnwindsTo ==
  ASSUME NEW x
  PROVE  Unwinds(x) \in {"cleanup_failed", "starting", "failed"}
  BY DEF Unwinds

---------------------------------------------------------------------------
(* What the steps with several outcomes do *)

\* A failed request closes its connection; no Stop succeeded.
LEMMA FailEnds ==
  ASSUME NEW o \in Ops, ReplyEnd(o, FALSE)
  PROVE  op' = [op EXCEPT ![o] = NoOp] /\ stopped' = stopped
  BY DEF ReplyEnd, Release, Set, Replies, Fails, agent

\* Adapter.Start with the fence closes, or asks for the launch.
LEMMA StartReadyEffect ==
  ASSUME NEW o \in Ops, StartReady(o)
  PROVE  /\ op[o].pc = "ready" /\ op[o].kind = "start" /\ op[o].up
         /\ UNCHANGED <<agent, mu, srv, fence, host, events>>
         /\ \E x \in {"fenced", "verify", "launch"} : op' = [op EXCEPT ![o] = At(op[o], x)]
  BY DEF StartReady, To, Set

\* ExecLauncher.Launch gives up launchMu, and may have filled the leaf.
LEMMA SpawnEffect ==
  ASSUME NEW o \in Ops, Spawn(o)
  PROVE  /\ op[o].pc = "spawn" /\ mu = o /\ mu' = 0 /\ UNCHANGED <<agent, srv, fence, ws, boot>>
         /\ cg' = cg \/ (cg[op[o].e] # "absent" /\ cg' = [cg EXCEPT ![op[o].e] = "busy"])
         /\ \E x \in {"mark", "end"} : op' = [op EXCEPT ![o] = At(op[o], x)]
  BY DEF Spawn, To, Set

\* MarkLaunched writes the state, or the session ends.
LEMMA MarkLaunchedEffect ==
  ASSUME NEW o \in Ops, MarkLaunched(o)
  PROVE  /\ op[o].pc = "mark" /\ UNCHANGED <<agent, mu, srv, dir, lock, pub, host>>
         /\ \/ st' = st /\ op' = [op EXCEPT ![o] = At(op[o], "end")]
            \/ /\ st' = [st EXCEPT ![op[o].e] = "launched"]
               /\ \E x \in {"close", "end"} : op' = [op EXCEPT ![o] = Launched(op[o], x)]
  BY DEF MarkLaunched, To, Set

\* Revoke writes the state under the flock, or the session ends.
LEMMA RevokeEffect ==
  ASSUME NEW o \in Ops, Revoke(o)
  PROVE  /\ op[o].pc = "revoke" /\ UNCHANGED <<agent, mu, srv, dir, lock, pub, host>>
         /\ \/ st' = st /\ op' = [op EXCEPT ![o] = At(op[o], "end")]
            \/ /\ st' = [st EXCEPT ![op[o].e] = IF op[o].held THEN "revoked" ELSE st[op[o].e]]
               /\ \E x \in {"kill", "end"} : op' = [op EXCEPT ![o] = Revoked(op[o], x)]
  BY DEF Revoke, To, Set

\* KillAndWait of a session leaves no process, or the session ends.
LEMMA KillEffect ==
  ASSUME NEW o \in Ops, Kill(o)
  PROVE  /\ op[o].pc = "kill" /\ UNCHANGED <<agent, mu, srv, fence, ws, boot>>
         /\ cg' = cg \/ \E c \in {"absent", "empty"} : cg' = [cg EXCEPT ![op[o].e] = c]
         /\ \/ op' = [op EXCEPT ![o] = Killed(op[o])]
            \/ op' = [op EXCEPT ![o] = At(op[o], "end")]
  BY DEF Kill, KillAndWait, Set

\* FinalizeFence answers, or opens the lock of an owner without leaf.
LEMMA FinalizeFenceEffect ==
  ASSUME NEW o \in Ops, FinalizeFence(o)
  PROVE  /\ op[o].pc = "fin" /\ UNCHANGED <<mu, srv, dir, lock, st, host, events>>
         /\ \/ ReplyEnd(o, TRUE) \/ ReplyEnd(o, FALSE)
            \/ /\ UNCHANGED agent /\ cg[op[o].e] = "absent"
               /\ \E x \in {"rmdir", "resume", "finlock"}, f \in {"none", "path"} :
                    /\ op' = [op EXCEPT ![o] = Reopened(op[o], x, f)]
                    /\ f = "path" => lock[op[o].e] # "none"
<1>1. /\ op[o].pc = "fin" /\ UNCHANGED <<mu, srv, dir, lock, st, host, events>>
      /\ \/ ReplyEnd(o, TRUE) \/ ReplyEnd(o, FALSE)
         \/ /\ UNCHANGED agent /\ cg[op[o].e] = "absent"
            /\ \/ op' = [op EXCEPT ![o] = Reopened(op[o], "rmdir", "none")]
               \/ op' = [op EXCEPT ![o] = Reopened(op[o], "resume", "path")] /\ lock[op[o].e] # "none"
               \/ op' = [op EXCEPT ![o] = Reopened(op[o], "finlock", "path")] /\ lock[op[o].e] # "none"
  BY DEF FinalizeFence, Set, CgroupAbsent
<1> QED
  BY <1>1

\* Publishing fails, or goes on with the next file.
LEMMA PublishEffect ==
  ASSUME NEW o \in Ops, Publish(o)
  PROVE  /\ op[o].pc \in {"ptemp", "pwrite", "plink", "punlink"}
         /\ UNCHANGED <<mu, srv, dir, lock, st, host, events>>
         /\ \/ ReplyEnd(o, FALSE) /\ UNCHANGED pub
            \/ /\ UNCHANGED agent
               /\ \E p : pub' = [pub EXCEPT ![op[o].e] = p]
               /\ \E x \in {"rmstate", "pwrite", "plink", "punlink"} :
                    op' = [op EXCEPT ![o] = At(op[o], x)]
<1>1. CASE op[o].pc = "ptemp" /\ PublishTemp(o)
  BY <1>1 DEF Publish, PublishTemp, To, Set
<1>2. ASSUME NEW from, NEW to, NEW x \in {"rmstate", "plink", "punlink"},
             PublishFurther(o, from, to, x)
      PROVE  \/ ReplyEnd(o, FALSE) /\ UNCHANGED pub
             \/ /\ UNCHANGED agent
                /\ pub' = [pub EXCEPT ![op[o].e] = to] /\ op' = [op EXCEPT ![o] = At(op[o], x)]
  BY <1>2 DEF PublishFurther, To, Set
<1>3. UNCHANGED <<mu, srv, dir, lock, st, host, events>>
  BY DEF Publish
<1>4. \/ op[o].pc = "ptemp" /\ PublishTemp(o)
      \/ op[o].pc = "pwrite" /\ PublishFurther(o, "torn", "temp", "plink")
      \/ op[o].pc = "plink" /\ PublishFurther(o, "temp", "linked", "punlink")
      \/ op[o].pc = "punlink" /\ PublishFurther(o, "linked", "done", "rmstate")
  BY DEF Publish
<1> QED
  BY <1>1, <1>2, <1>3, <1>4

---------------------------------------------------------------------------
(* The Manager's side *)

\* What an answer about e changes for the other calls and connections
Moved(e, kind) ==
    /\ AgentTyped' /\ AgentShape'
    /\ \A x \in Execs \ {e} : jrn'[x] = jrn[x]
    /\ call'.next \notin {"prepare", "start", "cas"}
    /\ kind # "prepare" /\ jrn[e] \in Unprepared => jrn'[e] \in Unprepared

\* A call whose operation succeeded goes on from a journal state it expects.
LEMMA SucceedsMoves ==
  ASSUME Typed, AgentShape, Wanted \in Kinds, Succeeds(call.e, Wanted)
  PROVE  /\ Moved(call.e, Wanted)
         /\ stopped' = IF Wanted = "stop" THEN stopped \cup {call.e} ELSE stopped
<1>1. call.next # "none" /\ call.e \in Execs /\ call.next # "cas" /\ Wanted # "unwind"
  BY DEF AgentShape, Wanted, Kinds
<1>2. Wanted \in {"prepare", "start", "stop", "alive", "finalize", "gc", "remove"}
  BY DEF Kinds
<1> USE DEF Succeeds, Typed, AgentTyped, AgentShape, Moved, Unprepared, JournalStates
<1>3. CASE Wanted \in {"prepare", "start"}
  BY <1>1, <1>3, NoCallFields DEF Wanted
<1>4. CASE call.next = "stop"
  BY <1>1, <1>4, ThenFields DEF Wanted, Kinds, Nexts, CallRec
<1>5. CASE call.next = "unwind"
  BY <1>1, <1>5, ThenFields, NoCallFields DEF Wanted, Kinds, Nexts, CallRec
<1>6. CASE Wanted = "finalize"
  BY <1>1, <1>6, ThenFields DEF Wanted, Kinds, Nexts, CallRec
<1>7. CASE Wanted \in {"alive", "gc", "remove"}
  BY <1>1, <1>7, NoCallFields DEF Wanted
<1> QED
  BY <1>2, <1>3, <1>4, <1>5, <1>6, <1>7 DEF Wanted

\* So does a call whose operation failed.
LEMMA FailsMoves ==
  ASSUME Typed, AgentShape, Wanted \in Kinds, NEW x, Fails(call.e, Wanted, x)
  PROVE  /\ Moved(call.e, Wanted) /\ stopped' = stopped
         /\ jrn[call.e] \in Unprepared => jrn'[call.e] \in Unprepared
<1>1. call.next # "none" /\ call.e \in Execs /\ call.next # "cas" /\ Wanted # "unwind"
  BY DEF AgentShape, Wanted, Kinds
<1>2. Wanted \in {"prepare", "start", "stop", "alive", "finalize", "gc", "remove"}
  BY DEF Kinds
<1> USE DEF Fails, Typed, AgentTyped, AgentShape, Moved, Unprepared, JournalStates
<1>3. CASE Wanted = "prepare"
  BY <1>1, <1>3, ThenToFields DEF Wanted, Kinds, Nexts, CallRec, Goals
<1>4. CASE Wanted = "start"
  BY <1>1, <1>4, ThenToFields, UnwindsTo DEF Wanted, Kinds, Nexts, CallRec, Goals
<1>5. CASE Wanted = "alive"
  BY <1>1, <1>5, ThenFields DEF Wanted, Kinds, Nexts, CallRec
<1>6. CASE Wanted \in {"stop", "finalize", "gc", "remove"}
  BY <1>1, <1>6, NoCallFields DEF Wanted, Kinds, Nexts, CallRec
<1> QED
  BY <1>2, <1>3, <1>4, <1>5, <1>6

\* An answer over a connection that is up is an answer to the call in progress.
LEMMA Heard ==
  ASSUME Typed, AgentShape, NEW o \in Ops, KindShape(o), ClientShape(o), op[o].up
  PROVE  /\ op[o].kind \in Kinds /\ op[o].e \in Execs
         /\ Succeeds(op[o].e, op[o].kind) =>
              /\ Moved(op[o].e, op[o].kind)
              /\ stopped' = IF op[o].kind = "stop" THEN stopped \cup {op[o].e} ELSE stopped
         /\ Fails(op[o].e, op[o].kind, op[o].pc) =>
              /\ Moved(op[o].e, op[o].kind) /\ stopped' = stopped
              /\ jrn[op[o].e] \in Unprepared => jrn'[op[o].e] \in Unprepared
<1>1. op[o].pc \in PCs /\ op[o].pc # "idle"
  BY DEF KindShape, Typed, OpRec
<1>2. op[o].kind \in Kinds /\ op[o].e \in Execs
  BY <1>1 DEF KindShape, PCs, Kinds, Publishing
<1>3. Wanted = op[o].kind /\ call.e = op[o].e
  BY DEF ClientShape
<1> QED
  BY <1>2, <1>3, SucceedsMoves, FailsMoves

\* The Manager, if it waits for the helper, sees its operation fail.
LEMMA ClientsFailed ==
  ASSUME ClientsFail
  PROVE  UNCHANGED agent \/ \E o \in Ops : op[o].up /\ Fails(op[o].e, op[o].kind, op[o].pc)
<1>1. CASE \E o \in Ops : op[o].up
  <2> DEFINE w == CHOOSE o \in Ops : op[o].up
  <2>1. w \in Ops /\ op[w].up
    BY <1>1, Zenon
  <2>2. Fails(op[w].e, op[w].kind, op[w].pc)
    BY <1>1, Zenon DEF ClientsFail
  <2> QED
    BY <2>1, <2>2, Zenon
<1> QED
  BY <1>1, Zenon DEF ClientsFail

\* A step that leaves the Manager alone keeps what is true of it.
LEMMA AgentFrame ==
  ASSUME Typed, AgentShape, UNCHANGED agent
  PROVE  AgentTyped' /\ AgentShape'
  BY DEF Typed, AgentTyped, AgentShape

\* The helper going away stops nothing.
LEMMA ClientsFailStopsNone ==
  ASSUME ClientsFail
  PROVE  stopped' = stopped
  BY ClientsFailed DEF Fails

\* A request opens a connection for the execution of the call in progress.
LEMMA DialOpens ==
  ASSUME FenceInv, NEW o \in Ops, Dial(o)
  PROVE  /\ Wanted \in Kinds /\ call.e \in Execs
         /\ op[o].pc = "idle"
         /\ op' = [op EXCEPT ![o] = Dialled(Wanted, call.e)]
         /\ op'[o].kind = Wanted /\ op'[o].e = call.e /\ op'[o].up
         /\ op'[o].pc = IF Wanted \in {"start", "stop", "alive"} THEN "check" ELSE Wanted
         /\ op'[o].fd = "none" /\ ~op'[o].held /\ ~op'[o].killed /\ ~op'[o].revoked
<1>1. Wanted \in Kinds /\ call.e \in Execs
  BY DEF Dial, FenceInv, ClientInv, AgentShape, Wanted, Kinds
<1>2. op[o].pc = "idle"
  BY NoOpFields DEF Dial
<1>3. op' = [op EXCEPT ![o] = Dialled(Wanted, call.e)] /\ op'[o] = Dialled(Wanted, call.e)
  BY DEF Dial, FenceInv, Typed
<1> QED
  BY <1>1, <1>2, <1>3, DialledFields

---------------------------------------------------------------------------
(* Types *)

\* Connections stay well typed.
LEMMA OpTyped ==
  ASSUME FenceInv, Next
  PROVE  op' \in [Ops -> OpRec]
<1> USE DEF FenceInv, Typed, PCs, Fds
<1>1. ASSUME NEW o \in Ops, LockCheck(o) PROVE op' \in [Ops -> OpRec]
  BY <1>1, RevokedFields, AtFields, NoOpFields DEF LockCheck, ReplyEnd, Release, To, Set,
     Opened, Finalized, Replies
<1>2. ASSUME NEW o \in Ops, LockOpen(o) PROVE op' \in [Ops -> OpRec]
  BY <1>2, OpeningFields DEF LockOpen, Set
<1>3. ASSUME NEW o \in Ops, LockTake(o) PROVE op' \in [Ops -> OpRec]
  BY <1>3, LockedFields, NoOpFields DEF LockTake, ReplyEnd, Release, Set, Opened, SameFile,
     FlockFree, Replies
<1>4. ASSUME NEW o \in Ops, StartReady(o) PROVE op' \in [Ops -> OpRec]
  BY <1>4, AtFields DEF StartReady, To, Set
<1>5. ASSUME NEW o \in Ops, StopReady(o) PROVE op' \in [Ops -> OpRec]
  BY <1>5, AtFields DEF StopReady, To, Set
<1>6. ASSUME NEW o \in Ops, Launch(o) PROVE op' \in [Ops -> OpRec]
  BY <1>6, AtFields DEF Launch, To, Set
<1>7. ASSUME NEW o \in Ops, Spawn(o) PROVE op' \in [Ops -> OpRec]
  BY <1>7, AtFields DEF Spawn, To, Set
<1>8. ASSUME NEW o \in Ops, MarkLaunched(o) PROVE op' \in [Ops -> OpRec]
  BY <1>8, AtFields, LaunchedFields DEF MarkLaunched, To, Set
<1>9. ASSUME NEW o \in Ops, Revoke(o) PROVE op' \in [Ops -> OpRec]
  BY <1>9, AtFields, RevokedFields DEF Revoke, To, Set
<1>10. ASSUME NEW o \in Ops, Kill(o) PROVE op' \in [Ops -> OpRec]
  BY <1>10, AtFields, KilledFields DEF Kill, KillAndWait, Set
<1>11. ASSUME NEW o \in Ops, Close(o) PROVE op' \in [Ops -> OpRec]
  BY <1>11, AtFields, LostFields, NoOpFields DEF Close, To, Set, Release, Replies
<1>12. ASSUME NEW o \in Ops, End(o) PROVE op' \in [Ops -> OpRec]
  BY <1>12, AtFields, LostFields, NoOpFields DEF End, ReplyEnd, Release, Set, Replies
<1>13. ASSUME NEW o \in Ops, EndKill(o) PROVE op' \in [Ops -> OpRec]
  BY <1>13, NoOpFields DEF EndKill, KillAndWait, Set
<1>14. ASSUME NEW o \in Ops, HangUp(o) PROVE op' \in [Ops -> OpRec]
  BY <1>14, AtFields DEF HangUp, To, Set
<1>15. ASSUME NEW o \in Ops, Alive(o) PROVE op' \in [Ops -> OpRec]
  BY <1>15, NoOpFields DEF Alive, ReplyEnd, Release, Set, Replies
<1>16. ASSUME NEW o \in Ops, PrepareOfficial(o) PROVE op' \in [Ops -> OpRec]
  BY <1>16, AtFields, NoOpFields DEF PrepareOfficial, To, ReplyEnd, Release, Set, Replies
<1>17. ASSUME NEW o \in Ops, HandOff(o) PROVE op' \in [Ops -> OpRec]
  BY <1>17, NoOpFields DEF HandOff, ReplyEnd, Release, Set, Replies
<1>18. ASSUME NEW o \in Ops, RemoveWorkspace(o) PROVE op' \in [Ops -> OpRec]
  BY <1>18, NoOpFields DEF RemoveWorkspace, ReplyEnd, Release, Set, Replies
<1>19. ASSUME NEW o \in Ops, FenceFinalized(o) PROVE op' \in [Ops -> OpRec]
  BY <1>19, AtFields, NoOpFields DEF FenceFinalized, To, ReplyEnd, Release, Set, Recovered,
     Replies
<1>20. ASSUME NEW o \in Ops, FinalizeWorkspace(o) PROVE op' \in [Ops -> OpRec]
  BY <1>20, AtFields, NoOpFields DEF FinalizeWorkspace, To, ReplyEnd, Release, Set, Replies
<1>21. ASSUME NEW o \in Ops, ValidateFinalization(o) PROVE op' \in [Ops -> OpRec]
  BY <1>21, AtFields, NoOpFields DEF ValidateFinalization, To, ReplyEnd, Release, Set,
     Recovered, Replies
<1>22. ASSUME NEW o \in Ops, Validated(o) PROVE op' \in [Ops -> OpRec]
  BY <1>22, UnlockedFields, NoOpFields DEF Validated, ReplyEnd, Release, Set, Replies
<1>23. ASSUME NEW o \in Ops, FinalizeFence(o) PROVE op' \in [Ops -> OpRec]
  <2>1. CASE op' = [op EXCEPT ![o] = NoOp]
    BY <2>1, NoOpFields
  <2>2. ASSUME NEW x \in {"rmdir", "resume", "finlock"}, NEW f \in {"none", "path"},
               op' = [op EXCEPT ![o] = Reopened(op[o], x, f)]
        PROVE  op' \in [Ops -> OpRec]
    <3>1. x \in PCs /\ f \in Fds /\ op[o] \in OpRec
      OBVIOUS
    <3>2. Reopened(op[o], x, f) \in OpRec
      BY <3>1, ReopenedFields
    <3> QED
      BY <2>2, <3>2
  <2> QED
    BY <1>23, <2>1, <2>2, FinalizeFenceEffect DEF ReplyEnd, Release, Set
<1>24. ASSUME NEW o \in Ops, FinalizeLock(o) PROVE op' \in [Ops -> OpRec]
  BY <1>24, RelockedFields, NoOpFields DEF FinalizeLock, ReplyEnd, Release, Set, SameFile,
     FlockFree, Replies
<1>25. ASSUME NEW o \in Ops, Publish(o) PROVE op' \in [Ops -> OpRec]
  <2>1. CASE op' = [op EXCEPT ![o] = NoOp]
    BY <2>1, NoOpFields
  <2>2. ASSUME NEW x \in {"rmstate", "pwrite", "plink", "punlink"},
               op' = [op EXCEPT ![o] = At(op[o], x)]
        PROVE  op' \in [Ops -> OpRec]
    <3>1. x \in PCs /\ op[o] \in OpRec
      BY DEF Publishing
    <3>2. At(op[o], x) \in OpRec
      BY <3>1, AtFields
    <3> QED
      BY <2>2, <3>2
  <2> QED
    BY <1>25, <2>1, <2>2, PublishEffect, FailEnds
<1>26. ASSUME NEW o \in Ops, RemoveFiles(o) PROVE op' \in [Ops -> OpRec]
  BY <1>26, AtFields, UnlockedFields, NamelessFields DEF RemoveFiles, To, Set
<1>27. ASSUME NEW o \in Ops, RemoveDirectory(o) PROVE op' \in [Ops -> OpRec]
  BY <1>27, NoOpFields DEF RemoveDirectory, ReplyEnd, Release, Set, Replies
<1>28. ASSUME NEW o \in Ops, GarbageCollectFence(o) PROVE op' \in [Ops -> OpRec]
  BY <1>28, NoOpFields DEF GarbageCollectFence, ReplyEnd, Release, Set, Recovered, Replies
<1>29. ASSUME NEW o \in Ops, Abort(o) PROVE op' \in [Ops -> OpRec]
  BY <1>29, NoOpFields DEF Abort, Release, Set
<1>30. ASSUME NEW o \in Ops, Dial(o) PROVE op' \in [Ops -> OpRec]
  BY <1>30, DialOpens, DialledFields
<1>31. ASSUME NEW o \in Ops, Timeout(o) PROVE op' \in [Ops -> OpRec]
  BY <1>31, LostFields DEF Timeout, Set
<1>32. ASSUME NEW x \in Execs, Create(x) PROVE op' \in [Ops -> OpRec]
  BY <1>32 DEF Create
<1>33. ASSUME NEW x \in Execs, PrepareContainment(x) PROVE op' \in [Ops -> OpRec]
  BY <1>33 DEF PrepareContainment, EnsureCgroup
<1>34. ASSUME NEW x \in Execs, Destroy(x) PROVE op' \in [Ops -> OpRec]
  BY <1>34 DEF Destroy
<1>35. ASSUME NEW x \in Execs, Recover(x) PROVE op' \in [Ops -> OpRec]
  BY <1>35 DEF Recover
<1>36. ASSUME NEW x \in Execs, CollectAgain(x) PROVE op' \in [Ops -> OpRec]
  BY <1>36 DEF CollectAgain
<1>37. ASSUME NEW x \in Execs, RunnerExits(x) PROVE op' \in [Ops -> OpRec]
  BY <1>37 DEF RunnerExits
<1>38. ASSUME CommitStarting PROVE op' \in [Ops -> OpRec]
  BY <1>38 DEF CommitStarting
<1>39. ASSUME DialFails PROVE op' \in [Ops -> OpRec]
  BY <1>39 DEF DialFails
<1>40. ASSUME AgentCrash PROVE op' \in [Ops -> OpRec]
  BY <1>40, LostFields DEF AgentCrash, LoseClients
<1>41. ASSUME HelperCrash PROVE op' \in [Ops -> OpRec]
  BY <1>41, NoOpFields DEF HelperCrash, Torn, Writing
<1>42. ASSUME Reboot PROVE op' \in [Ops -> OpRec]
  BY <1>42, NoOpFields DEF Reboot, Torn, Writing
<1>43. ASSUME SupervisorStop PROVE op' \in [Ops -> OpRec]
  BY <1>43, LostFields DEF SupervisorStop, LoseClients
<1>44. ASSUME Shutdown PROVE op' \in [Ops -> OpRec]
  BY <1>44, NoOpFields DEF Shutdown, ShutdownAble
<1>45. ASSUME HelperStart PROVE op' \in [Ops -> OpRec]
  BY <1>45 DEF HelperStart
<1>46. ASSUME NEW o \in Ops, StartCancelled(o) PROVE op' \in [Ops -> OpRec]
  BY <1>46, AtFields DEF StartCancelled, To, Set
<1> QED
  BY <1>1, <1>2, <1>3, <1>4, <1>5, <1>6, <1>7, <1>8, <1>9, <1>10, <1>11, <1>12, <1>13, <1>14,
     <1>15, <1>16, <1>17, <1>18, <1>19, <1>20, <1>21, <1>22, <1>23, <1>24, <1>25, <1>26,
     <1>27, <1>28, <1>29, <1>30, <1>31, <1>32, <1>33, <1>34, <1>35, <1>36, <1>37, <1>38,
     <1>39, <1>40, <1>41, <1>42, <1>43, <1>44, <1>45, <1>46 DEF Next, Serve

\* So do files, leaves and workspaces.
LEMMA HostStep ==
  ASSUME FenceInv, Next
  PROVE  HostTyped'
<1> USE DEF FenceInv, Typed, HostTyped, Leaves, Workspaces, Locks, Levels, Pubs
<1>1. ASSUME NEW o \in Ops, LockCheck(o) PROVE HostTyped'
  BY <1>1 DEF LockCheck, ReplyEnd, Replies
<1>2. ASSUME NEW o \in Ops, LockOpen(o) PROVE HostTyped'
  <2>1. dir' \in [Execs -> BOOLEAN]
    BY <1>2 DEF LockOpen
  <2>2. lock' \in [Execs -> Locks]
    BY <1>2 DEF LockOpen
  <2> QED
    BY <1>2, <2>1, <2>2 DEF LockOpen
<1>3. ASSUME NEW o \in Ops, LockTake(o) PROVE HostTyped'
  <2>1. /\ lock' \in [Execs -> Locks] /\ UNCHANGED <<mu, srv, dir, pub, cg, ws, boot>>
    BY <1>3 DEF LockTake
  <2>2. \/ st' = st
        \/ st' = [st EXCEPT ![op[o].e] = IF st[op[o].e] = "none" THEN "active" ELSE st[op[o].e]]
    BY <1>3 DEF LockTake
  <2>3. st' \in [Execs -> Levels]
    BY <2>2
  <2> QED
    BY <2>1, <2>3
<1>4. ASSUME NEW o \in Ops, StartReady(o) PROVE HostTyped'
  BY <1>4 DEF StartReady
<1>5. ASSUME NEW o \in Ops, StopReady(o) PROVE HostTyped'
  BY <1>5 DEF StopReady
<1>6. ASSUME NEW o \in Ops, Launch(o) PROVE HostTyped'
  BY <1>6 DEF Launch
<1>7. ASSUME NEW o \in Ops, Spawn(o) PROVE HostTyped'
  BY <1>7 DEF Spawn
<1>8. ASSUME NEW o \in Ops, MarkLaunched(o) PROVE HostTyped'
  BY <1>8 DEF MarkLaunched
<1>9. ASSUME NEW o \in Ops, Revoke(o) PROVE HostTyped'
  BY <1>9 DEF Revoke
<1>10. ASSUME NEW o \in Ops, Kill(o) PROVE HostTyped'
  BY <1>10 DEF Kill, KillAndWait
<1>11. ASSUME NEW o \in Ops, Close(o) PROVE HostTyped'
  BY <1>11 DEF Close, Replies
<1>12. ASSUME NEW o \in Ops, End(o) PROVE HostTyped'
  BY <1>12 DEF End, ReplyEnd, Replies
<1>13. ASSUME NEW o \in Ops, EndKill(o) PROVE HostTyped'
  BY <1>13 DEF EndKill, KillAndWait
<1>14. ASSUME NEW o \in Ops, HangUp(o) PROVE HostTyped'
  BY <1>14 DEF HangUp
<1>15. ASSUME NEW o \in Ops, Alive(o) PROVE HostTyped'
  BY <1>15 DEF Alive, ReplyEnd, Replies
<1>16. ASSUME NEW o \in Ops, PrepareOfficial(o) PROVE HostTyped'
  BY <1>16 DEF PrepareOfficial, ReplyEnd, Replies
<1>17. ASSUME NEW o \in Ops, HandOff(o) PROVE HostTyped'
  BY <1>17 DEF HandOff, ReplyEnd, Replies
<1>18. ASSUME NEW o \in Ops, RemoveWorkspace(o) PROVE HostTyped'
  BY <1>18 DEF RemoveWorkspace, ReplyEnd, Replies
<1>19. ASSUME NEW o \in Ops, FenceFinalized(o) PROVE HostTyped'
  BY <1>19 DEF FenceFinalized, ReplyEnd, Recovered, Replies
<1>20. ASSUME NEW o \in Ops, FinalizeWorkspace(o) PROVE HostTyped'
  BY <1>20 DEF FinalizeWorkspace, ReplyEnd, Replies
<1>21. ASSUME NEW o \in Ops, ValidateFinalization(o) PROVE HostTyped'
  BY <1>21 DEF ValidateFinalization, ReplyEnd, Recovered, Replies
<1>22. ASSUME NEW o \in Ops, Validated(o) PROVE HostTyped'
  BY <1>22 DEF Validated, ReplyEnd, Replies
<1>23. ASSUME NEW o \in Ops, FinalizeFence(o) PROVE HostTyped'
  BY <1>23 DEF FinalizeFence, ReplyEnd, Recovered, Replies
<1>24. ASSUME NEW o \in Ops, FinalizeLock(o) PROVE HostTyped'
  BY <1>24 DEF FinalizeLock, ReplyEnd, Replies
<1>25. ASSUME NEW o \in Ops, Publish(o) PROVE HostTyped'
  BY <1>25 DEF Publish, PublishTemp, PublishFurther, ReplyEnd, Recovered, Replies
<1>26. ASSUME NEW o \in Ops, RemoveFiles(o) PROVE HostTyped'
  BY <1>26 DEF RemoveFiles
<1>27. ASSUME NEW o \in Ops, RemoveDirectory(o) PROVE HostTyped'
  BY <1>27 DEF RemoveDirectory, ReplyEnd, Replies
<1>28. ASSUME NEW o \in Ops, GarbageCollectFence(o) PROVE HostTyped'
  BY <1>28 DEF GarbageCollectFence, ReplyEnd, Recovered, Replies
<1>29. ASSUME NEW o \in Ops, Abort(o) PROVE HostTyped'
  BY <1>29 DEF Abort
<1>30. ASSUME NEW o \in Ops, Dial(o) PROVE HostTyped'
  BY <1>30 DEF Dial
<1>31. ASSUME NEW o \in Ops, Timeout(o) PROVE HostTyped'
  BY <1>31 DEF Timeout
<1>32. ASSUME NEW x \in Execs, Create(x) PROVE HostTyped'
  BY <1>32 DEF Create
<1>33. ASSUME NEW x \in Execs, PrepareContainment(x) PROVE HostTyped'
  BY <1>33 DEF PrepareContainment, EnsureCgroup
<1>34. ASSUME NEW x \in Execs, Destroy(x) PROVE HostTyped'
  BY <1>34 DEF Destroy
<1>35. ASSUME NEW x \in Execs, Recover(x) PROVE HostTyped'
  BY <1>35 DEF Recover
<1>36. ASSUME NEW x \in Execs, CollectAgain(x) PROVE HostTyped'
  BY <1>36 DEF CollectAgain
<1>37. ASSUME NEW x \in Execs, RunnerExits(x) PROVE HostTyped'
  BY <1>37 DEF RunnerExits
<1>38. ASSUME CommitStarting PROVE HostTyped'
  BY <1>38 DEF CommitStarting
<1>39. ASSUME DialFails PROVE HostTyped'
  BY <1>39 DEF DialFails
<1>40. ASSUME AgentCrash PROVE HostTyped'
  BY <1>40 DEF AgentCrash
<1>41. ASSUME HelperCrash PROVE HostTyped'
  BY <1>41 DEF HelperCrash, Torn
<1>42. ASSUME Reboot PROVE HostTyped'
  BY <1>42 DEF Reboot, Torn
<1>43. ASSUME SupervisorStop PROVE HostTyped'
  BY <1>43 DEF SupervisorStop
<1>44. ASSUME Shutdown PROVE HostTyped'
  BY <1>44 DEF Shutdown
<1>45. ASSUME HelperStart PROVE HostTyped'
  BY <1>45 DEF HelperStart
<1>46. ASSUME NEW o \in Ops, StartCancelled(o) PROVE HostTyped'
  BY <1>46 DEF StartCancelled
<1> QED
  BY <1>1, <1>2, <1>3, <1>4, <1>5, <1>6, <1>7, <1>8, <1>9, <1>10, <1>11, <1>12, <1>13, <1>14,
     <1>15, <1>16, <1>17, <1>18, <1>19, <1>20, <1>21, <1>22, <1>23, <1>24, <1>25, <1>26,
     <1>27, <1>28, <1>29, <1>30, <1>31, <1>32, <1>33, <1>34, <1>35, <1>36, <1>37, <1>38,
     <1>39, <1>40, <1>41, <1>42, <1>43, <1>44, <1>45, <1>46 DEF Next, Serve

---------------------------------------------------------------------------
(* The flock and the files *)

\* A connection may go on where its request can be, with no flock it had not.
LEMMA LockMoved ==
  ASSUME FenceInv, NEW o \in Ops, NEW r \in OpRec, op' = [op EXCEPT ![o] = r],
         lock' = lock, mu' = mu, op[o].pc # "spawn",
         r.held => op[o].held /\ r.e = op[o].e, KindShape(o)', FlockShape(o)'
  PROVE  LockInv'
<1>1. op'[o] = r /\ \A q \in Ops \ {o} : op'[q] = op[q]
  BY DEF FenceInv, Typed
<1>2. \A q \in Ops \ {o} : KindShape(q)'
  BY <1>1 DEF FenceInv, LockInv, KindShape
<1>3. \A q \in Ops \ {o} : FlockShape(q)'
  BY <1>1 DEF FenceInv, LockInv, FlockShape
<1>4. OneFenceHolder'
  BY <1>1 DEF FenceInv, LockInv, OneFenceHolder
<1>5. LaunchMu'
  BY <1>1 DEF FenceInv, LockInv, LaunchMu, Typed, HostTyped
<1> QED
  BY <1>2, <1>3, <1>4, <1>5 DEF LockInv

\* A connection may end.
LEMMA LockGone ==
  ASSUME FenceInv, NEW o \in Ops, op' = [op EXCEPT ![o] = NoOp],
         lock' = lock, mu' = mu, op[o].pc # "spawn"
  PROVE  LockInv'
<1>1. op'[o] = NoOp
  BY DEF FenceInv, Typed
<1>2. KindShape(o)' /\ FlockShape(o)'
  BY <1>1, NoOpFields DEF KindShape, FlockShape, Publishing
<1> QED
  BY <1>2, NoOpFields, LockMoved

\* A connection may go on where the same kind of request may be, if its
\* hold of the flock fits the place.
LEMMA LockWalked ==
  ASSUME FenceInv, NEW o \in Ops, NEW x \in PCs, op' = [op EXCEPT ![o] = At(op[o], x)],
         lock' = lock, mu' = mu, op[o].pc \notin {"idle", "spawn"}, KindShape(o)', FlockShape(o)'
  PROVE  LockInv'
<1>1. op[o] \in OpRec
  BY DEF FenceInv, Typed
<1> QED
  BY <1>1, AtFields, LockMoved

\* One connection holds the flock of a fence, with the lock open under its
\* name, and a connection is where its request can be.
LEMMA LockStep ==
  ASSUME FenceInv, Next
  PROVE  LockInv'
<1> USE DEF FenceInv, LockInv, Typed, HostTyped, PCs, Fds, KindShape, Publishing, FlockShape,
        OneFenceHolder, LaunchMu
<1>1. ASSUME NEW o \in Ops, LockCheck(o) PROVE LockInv'
  <2> HIDE DEF FenceInv, LockInv, Typed, HostTyped, PCs, Fds, KindShape, FlockShape,
          OneFenceHolder, LaunchMu
  <2>0. op[o] \in OpRec /\ KindShape(o) /\ FlockShape(o)
    BY DEF FenceInv, Typed, LockInv
  <2>1. op[o].pc = "check" /\ lock' = lock /\ mu' = mu
    BY <1>1 DEF LockCheck, fence
  <2>2. CASE op' = [op EXCEPT ![o] = NoOp]
    BY <2>1, <2>2, LockGone
  <2>3. CASE op' = [op EXCEPT ![o] = At(op[o], "open")]
    <3>1. op'[o] = At(op[o], "open") /\ "open" \in PCs
      BY <2>3 DEF FenceInv, Typed, PCs
    <3>2. KindShape(o)' /\ FlockShape(o)'
      BY <2>0, <2>1, <3>1, AtFields DEF KindShape, FlockShape, Publishing
    <3> QED
      BY <2>1, <2>3, <3>1, <3>2, LockWalked
  <2>4. CASE op' = [op EXCEPT ![o] = Revoked(op[o], Opened(o))]
    <3> DEFINE r == Revoked(op[o], Opened(o))
    <3>1. /\ op'[o] = r /\ Opened(o) \in PCs
          /\ Opened(o) \in {"validated", "observe", "ready"}
          /\ Opened(o) = "validated" => op[o].kind = "finalize"
          /\ Opened(o) = "observe" => op[o].kind = "alive"
          /\ Opened(o) = "ready" => op[o].kind \notin {"finalize", "alive"}
      BY <2>4 DEF FenceInv, Typed, PCs, Opened
    <3>2. /\ r \in OpRec /\ r.kind = op[o].kind /\ r.e = op[o].e /\ r.pc = Opened(o)
          /\ r.fd = op[o].fd /\ r.held = op[o].held /\ r.revoked
      BY <2>0, <3>1, RevokedFields
    <3>3. KindShape(o)'
      BY <2>0, <2>1, <3>1, <3>2 DEF KindShape, Publishing
    <3>4. FlockShape(o)'
      BY <2>0, <2>1, <3>1, <3>2 DEF FlockShape, Publishing
    <3> HIDE DEF r
    <3> QED
      BY <2>1, <2>4, <3>2, <3>3, <3>4, LockMoved DEF r
  <2> QED
    BY <1>1, <2>2, <2>3, <2>4 DEF LockCheck, ReplyEnd, Release, To, Set
<1>2. ASSUME NEW o \in Ops, LockOpen(o) PROVE LockInv'
  <2> HIDE DEF FenceInv, LockInv, Typed, HostTyped, PCs, Fds, KindShape, FlockShape,
          OneFenceHolder, LaunchMu
  <2> DEFINE e == op[o].e
             r == Opening(op[o], lock[e])
  <2>0. op[o] \in OpRec /\ KindShape(o) /\ FlockShape(o)
    BY DEF FenceInv, Typed, LockInv
  <2>1. /\ op[o].pc = "open" /\ mu' = mu /\ op' = [op EXCEPT ![o] = r]
        /\ lock' = [lock EXCEPT ![e] = IF lock[e] = "none" THEN "new" ELSE lock[e]]
    BY <1>2 DEF LockOpen, Set
  <2>2. op'[o] = r /\ \A q \in Ops \ {o} : op'[q] = op[q]
    BY <2>1 DEF FenceInv, Typed
  <2>3. e \in Execs
    BY <2>0, <2>1 DEF KindShape
  <2>4. lock'[e] # "none" /\ \A x : lock[x] # "none" => lock'[x] # "none"
    BY <2>1, <2>3 DEF FenceInv, Typed, HostTyped
  <2>5. r.kind = op[o].kind /\ r.e = e /\ r.pc = "flock" /\ r.fd = "path" /\ r.held = op[o].held
    BY <2>0, OpeningFields
  <2> HIDE DEF r
  <2>6. KindShape(o)' /\ FlockShape(o)'
    BY <2>0, <2>1, <2>2, <2>3, <2>4, <2>5 DEF KindShape, FlockShape, Publishing
  <2>7. \A q \in Ops \ {o} : KindShape(q)'
    BY <2>2 DEF FenceInv, LockInv, KindShape
  <2>8. \A q \in Ops \ {o} : FlockShape(q)'
    BY <2>2, <2>4 DEF FenceInv, LockInv, FlockShape
  <2>9. OneFenceHolder'
    BY <2>2, <2>5 DEF FenceInv, LockInv, OneFenceHolder
  <2>10. LaunchMu'
    BY <2>1, <2>2 DEF FenceInv, LockInv, LaunchMu, Typed, HostTyped
  <2> QED
    BY <2>6, <2>7, <2>8, <2>9, <2>10 DEF LockInv
<1>3. ASSUME NEW o \in Ops, LockTake(o) PROVE LockInv'
  BY <1>3, LockedFields, NoOpFields DEF LockTake, ReplyEnd, Release, Set, Opened, SameFile,
     FlockFree, Replies
<1>4. ASSUME NEW o \in Ops, StartReady(o) PROVE LockInv'
  <2> HIDE DEF FenceInv, LockInv, Typed, HostTyped, PCs, Fds, KindShape, FlockShape,
          OneFenceHolder, LaunchMu
  <2>1. op[o].pc = "ready" /\ op[o].kind = "start" /\ lock' = lock /\ mu' = mu
    BY <1>4, StartReadyEffect DEF fence
  <2>2. PICK x \in {"fenced", "verify", "launch"} : op' = [op EXCEPT ![o] = At(op[o], x)]
    BY <1>4, StartReadyEffect
  <2>3. op[o] \in OpRec /\ op'[o] = At(op[o], x) /\ KindShape(o) /\ FlockShape(o) /\ x \in PCs
    BY <2>2 DEF FenceInv, Typed, LockInv, PCs
  <2>4. KindShape(o)' /\ FlockShape(o)'
    BY <2>1, <2>3, AtFields DEF KindShape, FlockShape, Publishing
  <2> QED
    BY <2>1, <2>2, <2>3, <2>4, LockWalked
<1>5. ASSUME NEW o \in Ops, StopReady(o) PROVE LockInv'
  <2> HIDE DEF FenceInv, LockInv, Typed, HostTyped, PCs, Fds, KindShape, FlockShape,
          OneFenceHolder, LaunchMu
  <2>1. op[o].pc = "ready" /\ op[o].kind = "stop" /\ lock' = lock /\ mu' = mu
    BY <1>5 DEF StopReady, fence
  <2>2. op' = [op EXCEPT ![o] = At(op[o], "revoke")]
    BY <1>5 DEF StopReady, To, Set
  <2>3. op[o] \in OpRec /\ op'[o] = At(op[o], "revoke") /\ KindShape(o) /\ FlockShape(o)
        /\ "revoke" \in PCs
    BY <2>2 DEF FenceInv, Typed, LockInv, PCs
  <2>4. KindShape(o)' /\ FlockShape(o)'
    BY <2>1, <2>3, AtFields DEF KindShape, FlockShape, Publishing
  <2> QED
    BY <2>1, <2>2, <2>3, <2>4, LockWalked
<1>6. ASSUME NEW o \in Ops, Launch(o) PROVE LockInv'
  BY <1>6, AtFields DEF Launch, To, Set
<1>7. ASSUME NEW o \in Ops, Spawn(o) PROVE LockInv'
  <2> HIDE DEF FenceInv, LockInv, Typed, HostTyped, PCs, Fds, KindShape, FlockShape,
          OneFenceHolder, LaunchMu
  <2>1. op[o].pc = "spawn" /\ mu' = 0 /\ lock' = lock
    BY <1>7, SpawnEffect DEF fence
  <2>2. PICK x \in {"mark", "end"} : op' = [op EXCEPT ![o] = At(op[o], x)]
    BY <1>7, SpawnEffect
  <2>3. /\ op[o] \in OpRec /\ KindShape(o) /\ FlockShape(o) /\ x \in PCs
        /\ op'[o] = At(op[o], x) /\ \A q \in Ops \ {o} : op'[q] = op[q]
    BY <2>2 DEF FenceInv, Typed, LockInv, PCs
  <2>4. KindShape(o)' /\ FlockShape(o)'
    BY <2>1, <2>3, AtFields DEF KindShape, FlockShape, Publishing
  <2>5. \A q \in Ops \ {o} : KindShape(q)'
    BY <2>3 DEF FenceInv, LockInv, KindShape
  <2>6. \A q \in Ops \ {o} : FlockShape(q)'
    BY <2>1, <2>3 DEF FenceInv, LockInv, FlockShape
  <2>7. op'[o].held = op[o].held /\ op'[o].e = op[o].e
    BY <2>3, AtFields
  <2>8. OneFenceHolder'
    BY <2>3, <2>7 DEF FenceInv, LockInv, OneFenceHolder
  <2>9. LaunchMu'
    BY <2>1 DEF LaunchMu
  <2> QED
    BY <2>4, <2>5, <2>6, <2>8, <2>9 DEF LockInv
<1>8. ASSUME NEW o \in Ops, MarkLaunched(o) PROVE LockInv'
  <2> HIDE DEF FenceInv, LockInv, Typed, HostTyped, PCs, Fds, KindShape, FlockShape,
          OneFenceHolder, LaunchMu
  <2>0. op[o] \in OpRec /\ KindShape(o) /\ FlockShape(o)
    BY DEF FenceInv, Typed, LockInv
  <2>1. op[o].pc = "mark" /\ lock' = lock /\ mu' = mu
    BY <1>8, MarkLaunchedEffect
  <2>2. CASE op' = [op EXCEPT ![o] = At(op[o], "end")]
    <3>1. op'[o] = At(op[o], "end") /\ "end" \in PCs
      BY <2>2 DEF FenceInv, Typed, PCs
    <3>2. KindShape(o)' /\ FlockShape(o)'
      BY <2>0, <2>1, <3>1, AtFields DEF KindShape, FlockShape, Publishing
    <3> QED
      BY <2>1, <2>2, <3>1, <3>2, LockWalked
  <2>3. ASSUME NEW x \in {"close", "end"}, op' = [op EXCEPT ![o] = Launched(op[o], x)]
        PROVE  LockInv'
    <3> DEFINE r == Launched(op[o], x)
    <3>1. op'[o] = r /\ x \in PCs
      BY <2>3 DEF FenceInv, Typed, PCs
    <3>2. /\ r \in OpRec /\ r.kind = op[o].kind /\ r.e = op[o].e /\ r.pc = x
          /\ r.fd = op[o].fd /\ r.held = op[o].held /\ r.revoked = op[o].revoked
      BY <2>0, <3>1, LaunchedFields
    <3>3. KindShape(o)' /\ FlockShape(o)'
      BY <2>0, <2>1, <3>1, <3>2 DEF KindShape, FlockShape, Publishing
    <3> HIDE DEF r
    <3> QED
      BY <2>1, <2>3, <3>2, <3>3, LockMoved DEF r
  <2> QED
    BY <1>8, <2>2, <2>3, MarkLaunchedEffect
<1>9. ASSUME NEW o \in Ops, Revoke(o) PROVE LockInv'
  <2> HIDE DEF FenceInv, LockInv, Typed, HostTyped, PCs, Fds, KindShape, FlockShape,
          OneFenceHolder, LaunchMu
  <2>0. op[o] \in OpRec /\ KindShape(o) /\ FlockShape(o)
    BY DEF FenceInv, Typed, LockInv
  <2>1. op[o].pc = "revoke" /\ lock' = lock /\ mu' = mu
    BY <1>9, RevokeEffect
  <2>2. CASE op' = [op EXCEPT ![o] = At(op[o], "end")]
    <3>1. op'[o] = At(op[o], "end") /\ "end" \in PCs
      BY <2>2 DEF FenceInv, Typed, PCs
    <3>2. KindShape(o)' /\ FlockShape(o)'
      BY <2>0, <2>1, <3>1, AtFields DEF KindShape, FlockShape, Publishing
    <3> QED
      BY <2>1, <2>2, <3>1, <3>2, LockWalked
  <2>3. ASSUME NEW x \in {"kill", "end"}, op' = [op EXCEPT ![o] = Revoked(op[o], x)]
        PROVE  LockInv'
    <3> DEFINE r == Revoked(op[o], x)
    <3>1. op'[o] = r /\ x \in PCs
      BY <2>3 DEF FenceInv, Typed, PCs
    <3>2. /\ r \in OpRec /\ r.kind = op[o].kind /\ r.e = op[o].e /\ r.pc = x
          /\ r.fd = op[o].fd /\ r.held = op[o].held /\ r.revoked
      BY <2>0, <3>1, RevokedFields
    <3>3. KindShape(o)' /\ FlockShape(o)'
      BY <2>0, <2>1, <3>1, <3>2 DEF KindShape, FlockShape, Publishing
    <3> HIDE DEF r
    <3> QED
      BY <2>1, <2>3, <3>2, <3>3, LockMoved DEF r
  <2> QED
    BY <1>9, <2>2, <2>3, RevokeEffect
<1>10. ASSUME NEW o \in Ops, Kill(o) PROVE LockInv'
  <2> HIDE DEF FenceInv, LockInv, Typed, HostTyped, PCs, Fds, KindShape, FlockShape,
          OneFenceHolder, LaunchMu
  <2>0. op[o] \in OpRec /\ KindShape(o) /\ FlockShape(o)
    BY DEF FenceInv, Typed, LockInv
  <2>1. op[o].pc = "kill" /\ lock' = lock /\ mu' = mu
    BY <1>10, KillEffect DEF fence
  <2>2. CASE op' = [op EXCEPT ![o] = At(op[o], "end")]
    <3>1. op'[o] = At(op[o], "end") /\ "end" \in PCs
      BY <2>2 DEF FenceInv, Typed, PCs
    <3>2. KindShape(o)' /\ FlockShape(o)'
      BY <2>0, <2>1, <3>1, AtFields DEF KindShape, FlockShape, Publishing
    <3> QED
      BY <2>1, <2>2, <3>1, <3>2, LockWalked
  <2>3. CASE op' = [op EXCEPT ![o] = Killed(op[o])]
    <3>1. op'[o] = Killed(op[o])
      BY <2>3 DEF FenceInv, Typed
    <3>2. KindShape(o)' /\ FlockShape(o)'
      BY <2>0, <2>1, <3>1, KilledFields DEF KindShape, FlockShape, Publishing
    <3> QED
      BY <2>0, <2>1, <2>3, <3>2, KilledFields, LockMoved
  <2> QED
    BY <1>10, <2>2, <2>3, KillEffect
<1>11. ASSUME NEW o \in Ops, Close(o) PROVE LockInv'
  BY <1>11, AtFields, LostFields, NoOpFields DEF Close, To, Set, Release, Replies
<1>12. ASSUME NEW o \in Ops, End(o) PROVE LockInv'
  BY <1>12, AtFields, LostFields, NoOpFields DEF End, ReplyEnd, Release, Set, Replies
<1>13. ASSUME NEW o \in Ops, EndKill(o) PROVE LockInv'
  BY <1>13, NoOpFields DEF EndKill, KillAndWait, Set
<1>14. ASSUME NEW o \in Ops, HangUp(o) PROVE LockInv'
  BY <1>14, AtFields DEF HangUp, To, Set
<1>15. ASSUME NEW o \in Ops, Alive(o) PROVE LockInv'
  BY <1>15, NoOpFields DEF Alive, ReplyEnd, Release, Set, Replies
<1>16. ASSUME NEW o \in Ops, PrepareOfficial(o) PROVE LockInv'
  BY <1>16, AtFields, NoOpFields DEF PrepareOfficial, To, ReplyEnd, Release, Set, Replies
<1>17. ASSUME NEW o \in Ops, HandOff(o) PROVE LockInv'
  BY <1>17, NoOpFields DEF HandOff, ReplyEnd, Release, Set, Replies
<1>18. ASSUME NEW o \in Ops, RemoveWorkspace(o) PROVE LockInv'
  BY <1>18, NoOpFields DEF RemoveWorkspace, ReplyEnd, Release, Set, Replies
<1>19. ASSUME NEW o \in Ops, FenceFinalized(o) PROVE LockInv'
  BY <1>19, AtFields, NoOpFields DEF FenceFinalized, To, ReplyEnd, Release, Set, Recovered,
     Replies
<1>20. ASSUME NEW o \in Ops, FinalizeWorkspace(o) PROVE LockInv'
  BY <1>20, AtFields, NoOpFields DEF FinalizeWorkspace, To, ReplyEnd, Release, Set, Replies
<1>21. ASSUME NEW o \in Ops, ValidateFinalization(o) PROVE LockInv'
  BY <1>21, AtFields, NoOpFields DEF ValidateFinalization, To, ReplyEnd, Release, Set,
     Recovered, Replies
<1>22. ASSUME NEW o \in Ops, Validated(o) PROVE LockInv'
  BY <1>22, UnlockedFields, NoOpFields DEF Validated, ReplyEnd, Release, Set, Replies
<1>23. ASSUME NEW o \in Ops, FinalizeFence(o) PROVE LockInv'
  <2> HIDE DEF FenceInv, LockInv, Typed, HostTyped, PCs, Fds, KindShape, FlockShape,
          OneFenceHolder, LaunchMu
  <2>1. op[o].pc = "fin" /\ lock' = lock /\ mu' = mu
    BY <1>23, FinalizeFenceEffect
  <2>2. op[o] \in OpRec /\ KindShape(o) /\ FlockShape(o)
    BY DEF FenceInv, Typed, LockInv
  <2>3. CASE op' = [op EXCEPT ![o] = NoOp]
    BY <2>1, <2>3, LockGone
  <2>4. ASSUME NEW x \in {"rmdir", "resume", "finlock"}, NEW f \in {"none", "path"},
               op' = [op EXCEPT ![o] = Reopened(op[o], x, f)], f = "path" => lock[op[o].e] # "none"
        PROVE  LockInv'
    <3> DEFINE r == Reopened(op[o], x, f)
    <3>1. op'[o] = r /\ x \in PCs /\ f \in Fds
      BY <2>4 DEF FenceInv, Typed, PCs, Fds
    <3>2. /\ r \in OpRec /\ r.kind = op[o].kind /\ r.e = op[o].e /\ r.pc = x
          /\ r.fd = f /\ r.held = op[o].held /\ r.revoked = op[o].revoked
      BY <2>2, <3>1, ReopenedFields
    <3>3. KindShape(o)'
      BY <2>1, <2>2, <3>1, <3>2 DEF KindShape, Publishing
    <3>4. FlockShape(o)'
      BY <2>1, <2>2, <2>4, <3>1, <3>2 DEF FlockShape, Publishing
    <3> HIDE DEF r
    <3> QED
      BY <2>1, <2>4, <3>2, <3>3, <3>4, LockMoved DEF r
  <2> QED
    BY <1>23, <2>3, <2>4, FinalizeFenceEffect DEF ReplyEnd, Release, Set
<1>24. ASSUME NEW o \in Ops, FinalizeLock(o) PROVE LockInv'
  BY <1>24, RelockedFields, NoOpFields DEF FinalizeLock, ReplyEnd, Release, Set, SameFile,
     FlockFree, Replies
<1>25. ASSUME NEW o \in Ops, Publish(o) PROVE LockInv'
  <2> HIDE DEF FenceInv, LockInv, Typed, HostTyped, PCs, Fds, KindShape, FlockShape,
          OneFenceHolder, LaunchMu
  <2>1. op[o].pc \in {"ptemp", "pwrite", "plink", "punlink"} /\ lock' = lock /\ mu' = mu
    BY <1>25, PublishEffect
  <2>2. op[o] \in OpRec /\ KindShape(o) /\ FlockShape(o)
    BY DEF FenceInv, Typed, LockInv
  <2>3. CASE op' = [op EXCEPT ![o] = NoOp]
    BY <2>1, <2>3, LockGone
  <2>4. ASSUME NEW x \in {"rmstate", "pwrite", "plink", "punlink"},
               op' = [op EXCEPT ![o] = At(op[o], x)]
        PROVE  LockInv'
    <3>1. op'[o] = At(op[o], x) /\ x \in PCs
      BY <2>4 DEF FenceInv, Typed, PCs, Publishing
    <3>2. KindShape(o)'
      BY <2>1, <2>2, <3>1, AtFields DEF KindShape, Publishing
    <3>3. FlockShape(o)'
      BY <2>1, <2>2, <3>1, AtFields DEF FlockShape, Publishing
    <3> QED
      BY <2>1, <2>4, <3>1, <3>2, <3>3, LockWalked
  <2> QED
    BY <1>25, <2>3, <2>4, PublishEffect, FailEnds
<1>26. ASSUME NEW o \in Ops, RemoveFiles(o) PROVE LockInv'
  <2>1. CASE op[o].pc = "rmstate"
    BY <1>26, <2>1, AtFields DEF RemoveFiles, To, Set
  <2>2. CASE op[o].pc = "rmlock"
    <3>1. /\ op[o].held /\ op[o].fd = "path" /\ op[o].e \in Execs
          /\ lock' = [lock EXCEPT ![op[o].e] = "none"] /\ mu' = mu
      BY <1>26, <2>2 DEF RemoveFiles
    <3>2. op'[o] = Unlocked(op[o], "rmdir")
      BY <1>26, <2>2 DEF RemoveFiles
    <3>3. \A q \in Ops \ {o} :
            op'[q] = IF op[q].e = op[o].e /\ op[q].fd = "path" THEN Nameless(op[q]) ELSE op[q]
      BY <1>26, <2>2 DEF RemoveFiles
    <3>4. \A q \in Ops \ {o} : op[q].held => op[q].e # op[o].e
      BY <3>1
    <3>5. \A q \in Ops \ {o} :
            /\ op'[q].kind = op[q].kind /\ op'[q].pc = op[q].pc /\ op'[q].e = op[q].e
            /\ op'[q].up = op[q].up /\ op'[q].held = op[q].held
            /\ op'[q].revoked = op[q].revoked
            /\ op'[q].fd = IF op[q].e = op[o].e /\ op[q].fd = "path" THEN "gone" ELSE op[q].fd
      BY <3>3, NamelessFields
    <3>6. \A q \in Ops : KindShape(q)'
      BY <2>2, <3>2, <3>5, UnlockedFields
    <3>7. \A q \in Ops : FlockShape(q)'
      BY <2>2, <3>1, <3>2, <3>4, <3>5, UnlockedFields
    <3> QED
      BY <2>2, <3>1, <3>2, <3>5, <3>6, <3>7, UnlockedFields
  <2> QED
    BY <1>26, <2>1, <2>2 DEF RemoveFiles
<1>27. ASSUME NEW o \in Ops, RemoveDirectory(o) PROVE LockInv'
  BY <1>27, NoOpFields DEF RemoveDirectory, ReplyEnd, Release, Set, Replies
<1>28. ASSUME NEW o \in Ops, GarbageCollectFence(o) PROVE LockInv'
  BY <1>28, NoOpFields DEF GarbageCollectFence, ReplyEnd, Release, Set, Recovered, Replies
<1>29. ASSUME NEW o \in Ops, Abort(o) PROVE LockInv'
  BY <1>29, NoOpFields DEF Abort, Release, Set
<1>30. ASSUME NEW o \in Ops, Dial(o) PROVE LockInv'
  <2>1. UNCHANGED <<lock, mu>>
    BY <1>30 DEF Dial
  <2> QED
    BY <1>30, <2>1, DialOpens DEF Kinds
<1>31. ASSUME NEW o \in Ops, Timeout(o) PROVE LockInv'
  BY <1>31, LostFields DEF Timeout, Set
<1>32. ASSUME NEW x \in Execs, Create(x) PROVE LockInv'
  BY <1>32 DEF Create
<1>33. ASSUME NEW x \in Execs, PrepareContainment(x) PROVE LockInv'
  BY <1>33 DEF PrepareContainment, EnsureCgroup
<1>34. ASSUME NEW x \in Execs, Destroy(x) PROVE LockInv'
  BY <1>34 DEF Destroy
<1>35. ASSUME NEW x \in Execs, Recover(x) PROVE LockInv'
  BY <1>35 DEF Recover
<1>36. ASSUME NEW x \in Execs, CollectAgain(x) PROVE LockInv'
  BY <1>36 DEF CollectAgain
<1>37. ASSUME NEW x \in Execs, RunnerExits(x) PROVE LockInv'
  BY <1>37 DEF RunnerExits
<1>38. ASSUME CommitStarting PROVE LockInv'
  BY <1>38 DEF CommitStarting
<1>39. ASSUME DialFails PROVE LockInv'
  BY <1>39 DEF DialFails
<1>40. ASSUME AgentCrash PROVE LockInv'
  BY <1>40, LostFields DEF AgentCrash, LoseClients
<1>41. ASSUME HelperCrash PROVE LockInv'
  BY <1>41, NoOpFields DEF HelperCrash, Torn, Writing
<1>42. ASSUME Reboot PROVE LockInv'
  BY <1>42, NoOpFields DEF Reboot, Torn, Writing
<1>43. ASSUME SupervisorStop PROVE LockInv'
  BY <1>43, LostFields DEF SupervisorStop, LoseClients
<1>44. ASSUME Shutdown PROVE LockInv'
  BY <1>44, NoOpFields DEF Shutdown, ShutdownAble
<1>45. ASSUME HelperStart PROVE LockInv'
  BY <1>45 DEF HelperStart
<1>46. ASSUME NEW o \in Ops, StartCancelled(o) PROVE LockInv'
  <2> HIDE DEF FenceInv, LockInv, Typed, HostTyped, PCs, Fds, KindShape, FlockShape,
          OneFenceHolder, LaunchMu
  <2>1. op[o].pc = "close" /\ op[o].kind = "start" /\ lock' = lock /\ mu' = mu
    BY <1>46 DEF StartCancelled, fence
  <2>2. op' = [op EXCEPT ![o] = At(op[o], "revoke")]
    BY <1>46 DEF StartCancelled, To, Set
  <2>3. op[o] \in OpRec /\ op'[o] = At(op[o], "revoke") /\ KindShape(o) /\ FlockShape(o)
        /\ "revoke" \in PCs
    BY <2>2 DEF FenceInv, Typed, LockInv, PCs
  <2>4. KindShape(o)' /\ FlockShape(o)'
    BY <2>1, <2>3, AtFields DEF KindShape, FlockShape, Publishing
  <2> QED
    BY <2>1, <2>2, <2>3, <2>4, LockWalked
<1> QED
  BY <1>1, <1>2, <1>3, <1>4, <1>5, <1>6, <1>7, <1>8, <1>9, <1>10, <1>11, <1>12, <1>13, <1>14,
     <1>15, <1>16, <1>17, <1>18, <1>19, <1>20, <1>21, <1>22, <1>23, <1>24, <1>25, <1>26,
     <1>27, <1>28, <1>29, <1>30, <1>31, <1>32, <1>33, <1>34, <1>35, <1>36, <1>37, <1>38,
     <1>39, <1>40, <1>41, <1>42, <1>43, <1>44, <1>45, <1>46 DEF Next, Serve

\* A step that leaves the files alone disturbs only its own session.
LEMMA FileMoved ==
  ASSUME FenceInv, NEW o \in Ops, NEW r, op' = [op EXCEPT ![o] = r],
         UNCHANGED <<dir, lock, st>>, SessionShape(o)'
  PROVE  FileInv'
<1>1. \A q \in Ops \ {o} : op'[q] = op[q]
  BY DEF FenceInv, Typed
<1>2. \A q \in Ops \ {o} : SessionShape(q)'
  BY <1>1 DEF FenceInv, FileInv, SessionShape
<1>3. FenceFiles'
  BY DEF FenceInv, FileInv, FenceFiles
<1> QED
  BY <1>2, <1>3 DEF FileInv

\* What the holder of the flock read of the state stays true, and the files
\* lie in their directory.
LEMMA FileStep ==
  ASSUME FenceInv, Next
  PROVE  FileInv'
<1> USE DEF FenceInv, LockInv, Typed, HostTyped, PCs, Fds, KindShape, Publishing, FlockShape,
        OneFenceHolder, FileInv, SessionShape, FenceFiles, Levels
<1>1. ASSUME NEW o \in Ops, LockCheck(o) PROVE FileInv'
  BY <1>1, RevokedFields, AtFields, NoOpFields DEF LockCheck, ReplyEnd, Release, To, Set,
     Opened, Finalized, Replies
<1>2. ASSUME NEW o \in Ops, LockOpen(o) PROVE FileInv'
  BY <1>2, OpeningFields DEF LockOpen, Set
<1>3. ASSUME NEW o \in Ops, LockTake(o) PROVE FileInv'
  <2> DEFINE e == op[o].e
             now == IF st[e] = "none" THEN "active" ELSE st[e]
  <2>1. /\ op[o].pc = "flock" /\ e \in Execs /\ dir' = dir
        /\ lock' = [lock EXCEPT ![e] = IF op[o].made /\ op[o].fd = "path" THEN "ok" ELSE @]
    BY <1>3 DEF LockTake
  <2>2. CASE op' = [op EXCEPT ![o] = NoOp] /\ st' = st
    BY <2>1, <2>2, NoOpFields
  <2>3. CASE /\ op' = [op EXCEPT ![o] = Locked(op[o], Opened(o), now)]
             /\ st' = [st EXCEPT ![e] = now] /\ op[o].fd = "path"
    <3>1. \A q \in Ops \ {o} : op'[q] = op[q] /\ (op[q].held => op[q].e # e)
      BY <1>3, <2>3 DEF LockTake, FlockFree
    <3>2. op'[o] = Locked(op[o], Opened(o), now) /\ Opened(o) \in {"validated", "observe", "ready"}
      BY <2>3 DEF Opened
    <3>3. SessionShape(o)'
      <4>1. op[o] \in OpRec /\ Opened(o) \in PCs /\ ~op[o].killed
        BY <2>1, <3>2
      <4>2. /\ op'[o].pc = Opened(o) /\ op'[o].e = e /\ op'[o].killed = op[o].killed
            /\ (op'[o].launched <=> now = "launched") /\ (op'[o].revoked <=> now = "revoked")
        BY <3>2, <4>1, LockedFields
      <4>3. st'[e] = now
        BY <2>1, <2>3
      <4> HIDE DEF FenceInv, now, e
      <4> QED
        BY <3>2, <4>1, <4>2, <4>3
    <3>4. \A q \in Ops \ {o} : SessionShape(q)'
      BY <2>1, <2>3, <3>1
    <3>5. \A x \in Execs : lock[x] # "none" => lock'[x] # "none"
      BY <2>1
    <3>6. lock[e] # "none"
      BY <2>1, <2>3
    <3>7. FenceFiles'
      BY <2>1, <2>3, <3>5, <3>6
    <3> HIDE DEF SessionShape, FenceFiles
    <3> QED
      BY <3>3, <3>4, <3>7
  <2> QED
    BY <1>3, <2>2, <2>3 DEF LockTake, ReplyEnd, Release, Set, Replies, SameFile
<1>4. ASSUME NEW o \in Ops, StartReady(o) PROVE FileInv'
  <2> HIDE DEF FenceInv, LockInv, Typed, HostTyped, PCs, Fds, KindShape, FlockShape,
          OneFenceHolder, FileInv, SessionShape, FenceFiles
  <2>0. op[o] \in OpRec /\ KindShape(o) /\ FlockShape(o) /\ SessionShape(o)
    BY DEF FenceInv, Typed, LockInv, FileInv
  <2>1. op[o].pc = "ready" /\ UNCHANGED <<dir, lock, st>>
    BY <1>4, StartReadyEffect DEF fence
  <2>2. PICK x \in {"fenced", "verify", "launch"} : op' = [op EXCEPT ![o] = At(op[o], x)]
    BY <1>4, StartReadyEffect
  <2>3. op'[o] = At(op[o], x) /\ x \in PCs
    BY <2>2 DEF FenceInv, Typed, PCs
  <2>4. SessionShape(o)'
    BY <2>0, <2>1, <2>3, AtFields DEF SessionShape
  <2> QED
    BY <2>1, <2>2, <2>4, FileMoved
<1>5. ASSUME NEW o \in Ops, StopReady(o) PROVE FileInv'
  BY <1>5, AtFields DEF StopReady, To, Set
<1>6. ASSUME NEW o \in Ops, Launch(o) PROVE FileInv'
  BY <1>6, AtFields DEF Launch, To, Set
<1>7. ASSUME NEW o \in Ops, Spawn(o) PROVE FileInv'
  <2> HIDE DEF FenceInv, LockInv, Typed, HostTyped, PCs, Fds, KindShape, FlockShape,
          OneFenceHolder, FileInv, SessionShape, FenceFiles
  <2>0. op[o] \in OpRec /\ SessionShape(o)
    BY DEF FenceInv, Typed, FileInv
  <2>1. op[o].pc = "spawn" /\ UNCHANGED <<dir, lock, st>>
    BY <1>7, SpawnEffect DEF fence
  <2>2. PICK x \in {"mark", "end"} : op' = [op EXCEPT ![o] = At(op[o], x)]
    BY <1>7, SpawnEffect
  <2>3. op'[o] = At(op[o], x) /\ x \in PCs
    BY <2>2 DEF FenceInv, Typed, PCs
  <2>4. SessionShape(o)'
    BY <2>0, <2>1, <2>2, <2>3, AtFields DEF SessionShape
  <2> QED
    BY <2>1, <2>2, <2>4, FileMoved
<1>8. ASSUME NEW o \in Ops, MarkLaunched(o) PROVE FileInv'
  <2> HIDE DEF FenceInv, LockInv, Typed, HostTyped, PCs, Fds, KindShape, FlockShape,
          OneFenceHolder, FileInv, SessionShape, FenceFiles
  <2>0. op[o] \in OpRec /\ KindShape(o) /\ FlockShape(o) /\ SessionShape(o)
    BY DEF FenceInv, Typed, LockInv, FileInv
  <2> DEFINE e == op[o].e
  <2>1. op[o].pc = "mark" /\ e \in Execs /\ UNCHANGED <<dir, lock>>
    BY <1>8, <2>0, MarkLaunchedEffect DEF KindShape
  <2>2. CASE st' = st /\ op' = [op EXCEPT ![o] = At(op[o], "end")]
    <3>1. op'[o] = At(op[o], "end") /\ "end" \in PCs
      BY <2>2 DEF FenceInv, Typed, PCs
    <3>2. SessionShape(o)'
      BY <2>0, <2>1, <2>2, <3>1, AtFields DEF SessionShape
    <3> QED
      BY <2>1, <2>2, <3>2, FileMoved
  <2>3. ASSUME NEW x \in {"close", "end"}, op' = [op EXCEPT ![o] = Launched(op[o], x)],
               st' = [st EXCEPT ![e] = "launched"]
        PROVE  FileInv'
    <3>1. /\ op'[o] = Launched(op[o], x) /\ x \in PCs /\ \A q \in Ops \ {o} : op'[q] = op[q]
          /\ st'[e] = "launched" /\ \A y \in Execs \ {e} : st'[y] = st[y]
      BY <2>1, <2>3 DEF FenceInv, Typed, HostTyped, PCs
    <3>2. op[o].held /\ op[o].kind = "start" /\ ~op[o].revoked /\ ~op[o].killed
      BY <2>0, <2>1 DEF KindShape, FlockShape, SessionShape, Publishing
    <3>3. SessionShape(o)'
      BY <2>0, <3>1, <3>2, LaunchedFields DEF SessionShape
    <3>4. \A q \in Ops \ {o} : op[q].held => op[q].e # e
      BY <3>2 DEF FenceInv, LockInv, OneFenceHolder
    <3>5. \A q \in Ops : (op[q].held => op[q].e \in Execs) /\ (op[q].pc = "rmlock" => op[q].held)
      BY DEF FenceInv, LockInv, KindShape, FlockShape, Publishing
    <3>6. \A q \in Ops \ {o} : SessionShape(q)'
      BY <3>1, <3>4, <3>5 DEF FenceInv, FileInv, SessionShape
    <3>7. lock[e] # "none"
      BY <2>0, <3>2 DEF FlockShape
    <3>8. FenceFiles'
      BY <2>1, <3>1, <3>7 DEF FenceInv, FileInv, FenceFiles
    <3> QED
      BY <3>3, <3>6, <3>8 DEF FileInv
  <2> QED
    BY <1>8, <2>2, <2>3, MarkLaunchedEffect
<1>9. ASSUME NEW o \in Ops, Revoke(o) PROVE FileInv'
  <2> HIDE DEF FenceInv, LockInv, Typed, HostTyped, PCs, Fds, KindShape, FlockShape,
          OneFenceHolder, FileInv, SessionShape, FenceFiles
  <2>0. op[o] \in OpRec /\ KindShape(o) /\ FlockShape(o) /\ SessionShape(o)
    BY DEF FenceInv, Typed, LockInv, FileInv
  <2> DEFINE e == op[o].e
  <2>1. op[o].pc = "revoke" /\ e \in Execs /\ UNCHANGED <<dir, lock>>
    BY <1>9, <2>0, RevokeEffect DEF KindShape
  <2>2. CASE st' = st /\ op' = [op EXCEPT ![o] = At(op[o], "end")]
    <3>1. op'[o] = At(op[o], "end") /\ "end" \in PCs
      BY <2>2 DEF FenceInv, Typed, PCs
    <3>2. SessionShape(o)'
      BY <2>0, <2>1, <2>2, <3>1, AtFields DEF SessionShape
    <3> QED
      BY <2>1, <2>2, <3>2, FileMoved
  <2>3. ASSUME NEW x \in {"kill", "end"}, op' = [op EXCEPT ![o] = Revoked(op[o], x)],
               ~op[o].held, st' = st
        PROVE  FileInv'
    <3>1. op'[o] = Revoked(op[o], x) /\ x \in PCs
      BY <2>3 DEF FenceInv, Typed, PCs
    <3>2. SessionShape(o)'
      BY <2>0, <2>1, <2>3, <3>1, RevokedFields DEF SessionShape
    <3> QED
      BY <2>1, <2>3, <3>2, FileMoved
  <2>4. ASSUME NEW x \in {"kill", "end"}, op' = [op EXCEPT ![o] = Revoked(op[o], x)],
               op[o].held, st' = [st EXCEPT ![e] = "revoked"]
        PROVE  FileInv'
    <3>1. /\ op'[o] = Revoked(op[o], x) /\ x \in PCs /\ \A q \in Ops \ {o} : op'[q] = op[q]
          /\ st'[e] = "revoked" /\ \A y \in Execs \ {e} : st'[y] = st[y]
      BY <2>1, <2>4 DEF FenceInv, Typed, HostTyped, PCs
    <3>2. ~op[o].killed
      BY <2>0, <2>1 DEF SessionShape
    <3>3. SessionShape(o)'
      BY <2>0, <3>1, <3>2, RevokedFields DEF SessionShape
    <3>4. \A q \in Ops \ {o} : op[q].held => op[q].e # e
      BY <2>4 DEF FenceInv, LockInv, OneFenceHolder
    <3>5. \A q \in Ops : (op[q].held => op[q].e \in Execs) /\ (op[q].pc = "rmlock" => op[q].held)
      BY DEF FenceInv, LockInv, KindShape, FlockShape, Publishing
    <3>6. \A q \in Ops \ {o} : SessionShape(q)'
      BY <3>1, <3>4, <3>5 DEF FenceInv, FileInv, SessionShape
    <3>7. lock[e] # "none"
      BY <2>0, <2>4 DEF FlockShape
    <3>8. FenceFiles'
      BY <2>1, <3>1, <3>7 DEF FenceInv, FileInv, FenceFiles
    <3> QED
      BY <3>3, <3>6, <3>8 DEF FileInv
  <2>5. [st EXCEPT ![e] = st[e]] = st
    BY DEF FenceInv, Typed, HostTyped
  <2> QED
    BY <1>9, <2>2, <2>3, <2>4, <2>5, RevokeEffect
<1>10. ASSUME NEW o \in Ops, Kill(o) PROVE FileInv'
  <2> HIDE DEF FenceInv, LockInv, Typed, HostTyped, PCs, Fds, KindShape, FlockShape,
          OneFenceHolder, FileInv, SessionShape, FenceFiles
  <2>0. op[o] \in OpRec /\ SessionShape(o)
    BY DEF FenceInv, Typed, FileInv
  <2>1. op[o].pc = "kill" /\ UNCHANGED <<dir, lock, st>>
    BY <1>10, KillEffect DEF fence
  <2>2. op[o].kind \in {"start", "stop"} /\ op[o].revoked
    BY <2>1 DEF FenceInv, LockInv, KindShape, FlockShape
  <2>3. PICK r \in {Killed(op[o]), At(op[o], "end")} : op' = [op EXCEPT ![o] = r]
    BY <1>10, KillEffect
  <2>4. op'[o] = r /\ "end" \in PCs
    BY <2>3 DEF FenceInv, Typed, PCs
  <2>5. SessionShape(o)'
    <3>1. CASE r = Killed(op[o])
      <4>1. /\ op'[o].e = op[o].e /\ op'[o].kind = op[o].kind /\ op'[o].held = op[o].held
            /\ op'[o].pc = "close" /\ op'[o].launched = op[o].launched /\ op'[o].revoked
        BY <2>0, <2>2, <2>4, <3>1, KilledFields
      <4> QED
        BY <2>0, <2>1, <2>2, <4>1 DEF SessionShape
    <3>2. CASE r = At(op[o], "end")
      BY <2>0, <2>1, <2>4, <3>2, AtFields DEF SessionShape
    <3> QED
      BY <2>3, <3>1, <3>2
  <2> QED
    BY <2>1, <2>3, <2>5, FileMoved
<1>11. ASSUME NEW o \in Ops, Close(o) PROVE FileInv'
  BY <1>11, AtFields, LostFields, NoOpFields DEF Close, To, Set, Release, Replies
<1>12. ASSUME NEW o \in Ops, End(o) PROVE FileInv'
  BY <1>12, AtFields, LostFields, NoOpFields DEF End, ReplyEnd, Release, Set, Replies
<1>13. ASSUME NEW o \in Ops, EndKill(o) PROVE FileInv'
  BY <1>13, NoOpFields DEF EndKill, KillAndWait, Set
<1>14. ASSUME NEW o \in Ops, HangUp(o) PROVE FileInv'
  BY <1>14, AtFields DEF HangUp, To, Set
<1>15. ASSUME NEW o \in Ops, Alive(o) PROVE FileInv'
  BY <1>15, NoOpFields DEF Alive, ReplyEnd, Release, Set, Replies
<1>16. ASSUME NEW o \in Ops, PrepareOfficial(o) PROVE FileInv'
  BY <1>16, AtFields, NoOpFields DEF PrepareOfficial, To, ReplyEnd, Release, Set, Replies
<1>17. ASSUME NEW o \in Ops, HandOff(o) PROVE FileInv'
  BY <1>17, NoOpFields DEF HandOff, ReplyEnd, Release, Set, Replies
<1>18. ASSUME NEW o \in Ops, RemoveWorkspace(o) PROVE FileInv'
  BY <1>18, NoOpFields DEF RemoveWorkspace, ReplyEnd, Release, Set, Replies
<1>19. ASSUME NEW o \in Ops, FenceFinalized(o) PROVE FileInv'
  BY <1>19, AtFields, NoOpFields DEF FenceFinalized, To, ReplyEnd, Release, Set, Recovered,
     Replies
<1>20. ASSUME NEW o \in Ops, FinalizeWorkspace(o) PROVE FileInv'
  BY <1>20, AtFields, NoOpFields DEF FinalizeWorkspace, To, ReplyEnd, Release, Set, Replies
<1>21. ASSUME NEW o \in Ops, ValidateFinalization(o) PROVE FileInv'
  BY <1>21, AtFields, NoOpFields DEF ValidateFinalization, To, ReplyEnd, Release, Set,
     Recovered, Replies
<1>22. ASSUME NEW o \in Ops, Validated(o) PROVE FileInv'
  BY <1>22, UnlockedFields, NoOpFields DEF Validated, ReplyEnd, Release, Set, Replies
<1>23. ASSUME NEW o \in Ops, FinalizeFence(o) PROVE FileInv'
  <2> HIDE DEF FenceInv, LockInv, Typed, HostTyped, PCs, Fds, KindShape, FlockShape,
          OneFenceHolder, FileInv, SessionShape, FenceFiles
  <2>1. op[o].pc = "fin" /\ UNCHANGED <<dir, lock, st>>
    BY <1>23, FinalizeFenceEffect
  <2>2. op[o] \in OpRec /\ KindShape(o) /\ SessionShape(o)
    BY DEF FenceInv, Typed, LockInv, FileInv
  <2>3. CASE op' = [op EXCEPT ![o] = NoOp]
    <3>1. op'[o] = NoOp
      BY <2>3 DEF FenceInv, Typed
    <3>2. SessionShape(o)'
      BY <3>1, NoOpFields DEF SessionShape
    <3> QED
      BY <2>1, <2>3, <3>2, FileMoved
  <2>4. ASSUME NEW x \in {"rmdir", "resume", "finlock"}, NEW f \in {"none", "path"},
               op' = [op EXCEPT ![o] = Reopened(op[o], x, f)]
        PROVE  FileInv'
    <3> DEFINE r == Reopened(op[o], x, f)
    <3>1. op'[o] = r /\ x \in PCs /\ f \in Fds
      BY <2>4 DEF FenceInv, Typed, PCs, Fds
    <3>2. /\ r.kind = op[o].kind /\ r.e = op[o].e /\ r.pc = x /\ r.held = op[o].held
          /\ r.revoked = op[o].revoked /\ r.launched = op[o].launched /\ r.killed = op[o].killed
      BY <2>2, <3>1, ReopenedFields
    <3>3. SessionShape(o)'
      BY <2>1, <2>2, <3>1, <3>2 DEF SessionShape
    <3> QED
      BY <2>1, <2>4, <3>3, FileMoved
  <2> QED
    BY <1>23, <2>3, <2>4, FinalizeFenceEffect DEF ReplyEnd, Release, Set
<1>24. ASSUME NEW o \in Ops, FinalizeLock(o) PROVE FileInv'
  BY <1>24, RelockedFields, NoOpFields DEF FinalizeLock, ReplyEnd, Release, Set, SameFile,
     FlockFree, Replies
<1>25. ASSUME NEW o \in Ops, Publish(o) PROVE FileInv'
  <2> HIDE DEF FenceInv, LockInv, Typed, HostTyped, PCs, Fds, KindShape, FlockShape,
          OneFenceHolder, FileInv, SessionShape, FenceFiles
  <2>1. op[o].pc \in {"ptemp", "pwrite", "plink", "punlink"} /\ UNCHANGED <<dir, lock, st>>
    BY <1>25, PublishEffect
  <2>2. op[o] \in OpRec /\ SessionShape(o)
    BY DEF FenceInv, Typed, FileInv
  <2>3. CASE op' = [op EXCEPT ![o] = NoOp]
    <3>1. op'[o] = NoOp
      BY <2>3 DEF FenceInv, Typed
    <3>2. SessionShape(o)'
      BY <3>1, NoOpFields DEF SessionShape
    <3> QED
      BY <2>1, <2>3, <3>2, FileMoved
  <2>4. ASSUME NEW x \in {"rmstate", "pwrite", "plink", "punlink"},
               op' = [op EXCEPT ![o] = At(op[o], x)]
        PROVE  FileInv'
    <3>1. op'[o] = At(op[o], x) /\ x \in PCs
      BY <2>4 DEF FenceInv, Typed, PCs, Publishing
    <3>2. SessionShape(o)'
      BY <2>1, <2>2, <3>1, AtFields DEF SessionShape
    <3> QED
      BY <2>1, <2>4, <3>2, FileMoved
  <2> QED
    BY <1>25, <2>3, <2>4, PublishEffect, FailEnds
<1>26. ASSUME NEW o \in Ops, RemoveFiles(o) PROVE FileInv'
  BY <1>26, AtFields, UnlockedFields, NamelessFields DEF RemoveFiles, To, Set
<1>27. ASSUME NEW o \in Ops, RemoveDirectory(o) PROVE FileInv'
  BY <1>27, NoOpFields DEF RemoveDirectory, ReplyEnd, Release, Set, Replies
<1>28. ASSUME NEW o \in Ops, GarbageCollectFence(o) PROVE FileInv'
  BY <1>28, NoOpFields DEF GarbageCollectFence, ReplyEnd, Release, Set, Recovered, Replies
<1>29. ASSUME NEW o \in Ops, Abort(o) PROVE FileInv'
  BY <1>29, NoOpFields DEF Abort, Release, Set
<1>30. ASSUME NEW o \in Ops, Dial(o) PROVE FileInv'
  <2>1. UNCHANGED <<lock, st, dir>>
    BY <1>30 DEF Dial
  <2> QED
    BY <1>30, <2>1, DialOpens DEF Kinds
<1>31. ASSUME NEW o \in Ops, Timeout(o) PROVE FileInv'
  BY <1>31, LostFields DEF Timeout, Set
<1>32. ASSUME NEW x \in Execs, Create(x) PROVE FileInv'
  BY <1>32 DEF Create
<1>33. ASSUME NEW x \in Execs, PrepareContainment(x) PROVE FileInv'
  BY <1>33 DEF PrepareContainment, EnsureCgroup
<1>34. ASSUME NEW x \in Execs, Destroy(x) PROVE FileInv'
  BY <1>34 DEF Destroy
<1>35. ASSUME NEW x \in Execs, Recover(x) PROVE FileInv'
  BY <1>35 DEF Recover
<1>36. ASSUME NEW x \in Execs, CollectAgain(x) PROVE FileInv'
  BY <1>36 DEF CollectAgain
<1>37. ASSUME NEW x \in Execs, RunnerExits(x) PROVE FileInv'
  BY <1>37 DEF RunnerExits
<1>38. ASSUME CommitStarting PROVE FileInv'
  BY <1>38 DEF CommitStarting
<1>39. ASSUME DialFails PROVE FileInv'
  BY <1>39 DEF DialFails
<1>40. ASSUME AgentCrash PROVE FileInv'
  BY <1>40, LostFields DEF AgentCrash, LoseClients
<1>41. ASSUME HelperCrash PROVE FileInv'
  BY <1>41, NoOpFields DEF HelperCrash, Torn, Writing
<1>42. ASSUME Reboot PROVE FileInv'
  BY <1>42, NoOpFields DEF Reboot, Torn, Writing
<1>43. ASSUME SupervisorStop PROVE FileInv'
  BY <1>43, LostFields DEF SupervisorStop, LoseClients
<1>44. ASSUME Shutdown PROVE FileInv'
  BY <1>44, NoOpFields DEF Shutdown, ShutdownAble
<1>45. ASSUME HelperStart PROVE FileInv'
  BY <1>45 DEF HelperStart
<1>46. ASSUME NEW o \in Ops, StartCancelled(o) PROVE FileInv'
  BY <1>46, AtFields DEF StartCancelled, To, Set
<1> QED
  BY <1>1, <1>2, <1>3, <1>4, <1>5, <1>6, <1>7, <1>8, <1>9, <1>10, <1>11, <1>12, <1>13, <1>14,
     <1>15, <1>16, <1>17, <1>18, <1>19, <1>20, <1>21, <1>22, <1>23, <1>24, <1>25, <1>26,
     <1>27, <1>28, <1>29, <1>30, <1>31, <1>32, <1>33, <1>34, <1>35, <1>36, <1>37, <1>38,
     <1>39, <1>40, <1>41, <1>42, <1>43, <1>44, <1>45, <1>46 DEF Next, Serve

---------------------------------------------------------------------------
(* The client of a connection *)

SameClient(o) == op'[o].kind = op[o].kind /\ op'[o].e = op[o].e
Ended(o)      == op'[o].kind = "none" /\ ~op'[o].up

\* All that the Manager sees of a step of the helper: nothing, or the answer
\* of the connection it waits for, which then is up no more.
Session(o) ==
    /\ \A q \in Ops \ {o} : SameClient(q) /\ (op'[q].up <=> op[q].up)
    /\ \/ UNCHANGED agent /\ (Ended(o) \/ (SameClient(o) /\ (op'[o].up <=> op[o].up)))
       \/ op[o].up /\ Succeeds(op[o].e, op[o].kind) /\ Ended(o)
       \/ /\ op[o].up /\ Fails(op[o].e, op[o].kind, op[o].pc)
          /\ ~op'[o].up /\ (Ended(o) \/ SameClient(o))

\* Every step of a connection, and the loss of its client, is such a step.
LEMMA Sessions ==
  ASSUME Typed, NEW o \in Ops, Serve(o) \/ StartCancelled(o) \/ Timeout(o)
  PROVE  Session(o)
<1> USE DEF Typed, PCs, Fds, Session, SameClient, Ended
<1>1. ASSUME LockCheck(o) PROVE Session(o)
  BY <1>1, RevokedFields, AtFields, NoOpFields DEF LockCheck, ReplyEnd, Release, To, Set,
     Opened, Finalized, Replies
<1>2. ASSUME LockOpen(o) PROVE Session(o)
  BY <1>2, OpeningFields DEF LockOpen, Set
<1>3. ASSUME LockTake(o) PROVE Session(o)
  BY <1>3, LockedFields, NoOpFields DEF LockTake, ReplyEnd, Release, Set, Opened, SameFile,
     FlockFree, Replies
<1>4. ASSUME StartReady(o) PROVE Session(o)
  BY <1>4, AtFields DEF StartReady, To, Set
<1>5. ASSUME StopReady(o) PROVE Session(o)
  BY <1>5, AtFields DEF StopReady, To, Set
<1>6. ASSUME Launch(o) PROVE Session(o)
  BY <1>6, AtFields DEF Launch, To, Set
<1>7. ASSUME Spawn(o) PROVE Session(o)
  BY <1>7, AtFields DEF Spawn, To, Set
<1>8. ASSUME MarkLaunched(o) PROVE Session(o)
  BY <1>8, AtFields, LaunchedFields DEF MarkLaunched, To, Set
<1>9. ASSUME Revoke(o) PROVE Session(o)
  BY <1>9, AtFields, RevokedFields DEF Revoke, To, Set
<1>10. ASSUME Kill(o) PROVE Session(o)
  BY <1>10, AtFields, KilledFields DEF Kill, KillAndWait, Set
<1>11. ASSUME Close(o) PROVE Session(o)
  BY <1>11, AtFields, LostFields, NoOpFields DEF Close, To, Set, Release, Replies
<1>12. ASSUME End(o) PROVE Session(o)
  BY <1>12, AtFields, LostFields, NoOpFields DEF End, ReplyEnd, Release, Set, Replies,
     Committed
<1>13. ASSUME EndKill(o) PROVE Session(o)
  BY <1>13, NoOpFields DEF EndKill, KillAndWait, Set
<1>14. ASSUME HangUp(o) PROVE Session(o)
  BY <1>14, AtFields DEF HangUp, To, Set
<1>15. ASSUME Alive(o) PROVE Session(o)
  BY <1>15, NoOpFields DEF Alive, ReplyEnd, Release, Set, Replies
<1>16. ASSUME PrepareOfficial(o) PROVE Session(o)
  BY <1>16, AtFields, NoOpFields DEF PrepareOfficial, To, ReplyEnd, Release, Set, Replies
<1>17. ASSUME HandOff(o) PROVE Session(o)
  BY <1>17, NoOpFields DEF HandOff, ReplyEnd, Release, Set, Replies
<1>18. ASSUME RemoveWorkspace(o) PROVE Session(o)
  BY <1>18, NoOpFields DEF RemoveWorkspace, ReplyEnd, Release, Set, Replies
<1>19. ASSUME FenceFinalized(o) PROVE Session(o)
  BY <1>19, AtFields, NoOpFields DEF FenceFinalized, To, ReplyEnd, Release, Set, Recovered,
     Replies
<1>20. ASSUME FinalizeWorkspace(o) PROVE Session(o)
  BY <1>20, AtFields, NoOpFields DEF FinalizeWorkspace, To, ReplyEnd, Release, Set, Replies
<1>21. ASSUME ValidateFinalization(o) PROVE Session(o)
  BY <1>21, AtFields, NoOpFields DEF ValidateFinalization, To, ReplyEnd, Release, Set,
     Recovered, Replies
<1>22. ASSUME Validated(o) PROVE Session(o)
  BY <1>22, UnlockedFields, NoOpFields DEF Validated, ReplyEnd, Release, Set, Replies
<1>23. ASSUME FinalizeFence(o) PROVE Session(o)
  <2>1. op[o] \in OpRec
    OBVIOUS
  <2>2. CASE ReplyEnd(o, TRUE) \/ ReplyEnd(o, FALSE)
    BY <2>2, NoOpFields DEF ReplyEnd, Release, Set, Replies
  <2>3. ASSUME NEW x \in {"rmdir", "resume", "finlock"}, NEW f \in {"none", "path"},
               op' = [op EXCEPT ![o] = Reopened(op[o], x, f)], UNCHANGED agent
        PROVE  Session(o)
    <3>1. x \in PCs /\ f \in Fds /\ op'[o] = Reopened(op[o], x, f)
      BY <2>3
    <3>2. \A q \in Ops \ {o} : op'[q] = op[q]
      BY <2>3
    <3>3. SameClient(o) /\ (op'[o].up <=> op[o].up)
      <4>1. /\ op'[o].kind = op[o].kind /\ op'[o].e = op[o].e /\ op'[o].up = op[o].up
            /\ op'[o].pc = x
        <5> HIDE DEF FenceInv, PCs, Fds
        <5> QED
          BY <2>1, <3>1, ReopenedFields
      <4> QED
        BY <4>1
    <3> QED
      BY <2>3, <3>2, <3>3
  <2> HIDE DEF Session
  <2> QED
    BY <1>23, <2>2, <2>3, FinalizeFenceEffect
<1>24. ASSUME FinalizeLock(o) PROVE Session(o)
  BY <1>24, RelockedFields, NoOpFields DEF FinalizeLock, ReplyEnd, Release, Set, SameFile,
     FlockFree, Replies
<1>25. ASSUME Publish(o) PROVE Session(o)
  <2>1. op[o] \in OpRec
    OBVIOUS
  <2>2. CASE ReplyEnd(o, FALSE)
    BY <2>2, NoOpFields DEF ReplyEnd, Release, Set, Replies
  <2>3. ASSUME NEW x \in {"rmstate", "pwrite", "plink", "punlink"},
               op' = [op EXCEPT ![o] = At(op[o], x)], UNCHANGED agent
        PROVE  Session(o)
    BY <2>1, <2>3, AtFields DEF Publishing
  <2> HIDE DEF Session
  <2> QED
    BY <1>25, <2>2, <2>3, PublishEffect
<1>26. ASSUME RemoveFiles(o) PROVE Session(o)
  BY <1>26, AtFields, UnlockedFields, NamelessFields DEF RemoveFiles, To, Set
<1>27. ASSUME RemoveDirectory(o) PROVE Session(o)
  BY <1>27, NoOpFields DEF RemoveDirectory, ReplyEnd, Release, Set, Replies
<1>28. ASSUME GarbageCollectFence(o) PROVE Session(o)
  BY <1>28, NoOpFields DEF GarbageCollectFence, ReplyEnd, Release, Set, Recovered, Replies
<1>29. ASSUME Abort(o) PROVE Session(o)
  BY <1>29, NoOpFields DEF Abort, Release, Set
<1>30. ASSUME Timeout(o) PROVE Session(o)
  BY <1>30, LostFields DEF Timeout, Set
<1>31. ASSUME StartCancelled(o) PROVE Session(o)
  BY <1>31, AtFields DEF StartCancelled, To, Set
<1> QED
  BY <1>1, <1>2, <1>3, <1>4, <1>5, <1>6, <1>7, <1>8, <1>9, <1>10, <1>11, <1>12, <1>13, <1>14,
     <1>15, <1>16, <1>17, <1>18, <1>19, <1>20, <1>21, <1>22, <1>23, <1>24, <1>25, <1>26,
     <1>27, <1>28, <1>29, <1>30, <1>31 DEF Serve

\* The Manager goes on from the answer of its own connection.
LEMMA SessionAgent ==
  ASSUME FenceInv, NEW o \in Ops, Session(o)
  PROVE  AgentTyped' /\ AgentShape'
<1>1. CASE UNCHANGED agent
  BY <1>1, AgentFrame DEF FenceInv, ClientInv
<1>2. CASE ~UNCHANGED agent
  BY <1>2, Heard DEF FenceInv, LockInv, ClientInv, Session, Moved
<1> QED
  BY <1>1, <1>2

\* After a step of a connection the connections that are up still are the one
\* the Manager waits for, and preparations left behind stay harmless.
LEMMA SessionClients ==
  ASSUME FenceInv, NEW o \in Ops, Session(o)
  PROVE  (\A q \in Ops : ClientShape(q)') /\ OneClient'
<1>1. (\A q \in Ops : ClientShape(q) /\ KindShape(q)) /\ OneClient /\ AgentShape /\ Typed
  BY DEF FenceInv, LockInv, ClientInv
<1>2. \A q \in Ops : op[q].kind # "none" => op[q].e \in Execs
  BY <1>1 DEF KindShape
<1>3. CASE UNCHANGED agent /\ (Ended(o) \/ (SameClient(o) /\ (op'[o].up <=> op[o].up)))
  <2>1. \A q \in Ops : Ended(q) \/ (SameClient(q) /\ (op'[q].up <=> op[q].up))
    BY <1>1, <1>3 DEF Session
  <2> QED
    BY <1>1, <1>3, <2>1 DEF ClientShape, OneClient, SameClient, Ended, Wanted
<1>4. CASE op[o].up /\ Succeeds(op[o].e, op[o].kind) /\ Ended(o)
  <2>1. \A q \in Ops : ~op'[q].up
    BY <1>1, <1>4 DEF Session, OneClient, Ended
  <2>2. /\ Moved(op[o].e, op[o].kind)
        /\ stopped' = IF op[o].kind = "stop" THEN stopped \cup {op[o].e} ELSE stopped
    BY <1>1, <1>4, Heard
  <2>3. ASSUME NEW q \in Ops, op'[q].kind # "none"
        PROVE  q # o /\ SameClient(q) /\ ~op[q].up
    BY <1>1, <1>4, <2>3 DEF Session, OneClient, Ended
  <2>4. op[o].kind = "stop" => jrn[op[o].e] \notin Unprepared
    BY <1>1, <1>4 DEF AgentShape, ClientShape, Wanted, Unprepared
  <2>5. op[o].kind = "prepare" => call.next = "prepare" /\ call.e = op[o].e
    BY <1>1, <1>4 DEF ClientShape, Wanted
  <2>6. ASSUME NEW q \in Ops PROVE ClientShape(q)'
    BY <1>1, <1>2, <1>4, <2>1, <2>2, <2>3, <2>4, <2>5 DEF Moved, ClientShape, SameClient
  <2> QED
    BY <2>1, <2>6 DEF OneClient
<1>5. CASE /\ op[o].up /\ Fails(op[o].e, op[o].kind, op[o].pc)
           /\ ~op'[o].up /\ (Ended(o) \/ SameClient(o))
  <2>1. \A q \in Ops : ~op'[q].up
    BY <1>1, <1>5 DEF Session, OneClient
  <2>2. /\ Moved(op[o].e, op[o].kind) /\ stopped' = stopped
        /\ jrn[op[o].e] \in Unprepared => jrn'[op[o].e] \in Unprepared
    BY <1>1, <1>5, Heard
  <2>3. ASSUME NEW q \in Ops, op'[q].kind # "none" PROVE SameClient(q)
    BY <1>5, <2>3 DEF Session, Ended
  <2>4. ASSUME NEW q \in Ops PROVE ClientShape(q)'
    BY <1>1, <1>2, <1>5, <2>1, <2>2, <2>3 DEF Moved, ClientShape, SameClient
  <2> QED
    BY <2>1, <2>4 DEF OneClient
<1> QED
  BY <1>3, <1>4, <1>5 DEF Session

\* The Manager between two operations waits for no connection.
LEMMA NoneWaited ==
  ASSUME FenceInv, call.next \in {"none", "cas"}
  PROVE  \A q \in Ops : ~op[q].up
<1>1. ASSUME NEW q \in Ops, op[q].up PROVE FALSE
  <2>1. op[q].kind \in Kinds
    BY <1>1, Heard DEF FenceInv, LockInv, ClientInv
  <2>2. op[q].kind = call.next
    BY <1>1 DEF FenceInv, ClientInv, ClientShape, Wanted
  <2> QED
    BY <2>1, <2>2 DEF Kinds
<1> QED
  BY <1>1

\* Without a connection that is up only preparations left behind matter.
LEMMA PartedClients ==
  ASSUME FenceInv, \A q \in Ops : ~op'[q].up /\ (Ended(q) \/ SameClient(q)),
         stopped' = stopped,
         \A x \in Execs : jrn[x] \in Unprepared => jrn'[x] \in Unprepared,
         call'.next = "prepare" => \A q \in Ops : op'[q].kind = "prepare" => op'[q].e # call'.e
  PROVE  (\A q \in Ops : ClientShape(q)') /\ OneClient'
<1>1. \A q \in Ops : ClientShape(q) /\ (op[q].kind # "none" => op[q].e \in Execs)
  BY DEF FenceInv, LockInv, ClientInv, KindShape
<1> QED
  BY <1>1 DEF ClientShape, OneClient, SameClient, Ended

\* The Manager's own steps and the failures of the helper go from expected
\* journal states to expected ones.
LEMMA ClientStep ==
  ASSUME FenceInv, Next
  PROVE  AgentTyped' /\ ClientInv'
<1> DEFINE G == AgentTyped' /\ ClientInv'
<1> USE DEF ClientInv
<1>0. /\ Typed /\ AgentTyped /\ AgentShape /\ OneClient
      /\ \A q \in Ops : ClientShape(q) /\ KindShape(q)
  BY DEF FenceInv, LockInv, Typed
<1>1. ASSUME NEW o \in Ops, Serve(o) \/ StartCancelled(o) \/ Timeout(o) PROVE G
  BY <1>0, <1>1, Sessions, SessionAgent, SessionClients
<1>2. ASSUME NEW o \in Ops, Dial(o) PROVE G
  <2>1. UNCHANGED agent /\ \A q \in Ops \ {o} : op'[q] = op[q] /\ ~op[q].up
    BY <1>2, <1>0 DEF Dial, Typed
  <2>2. AgentTyped' /\ AgentShape'
    BY <1>0, <2>1, AgentFrame
  <2>3. Wanted' = Wanted
    BY <2>1 DEF Wanted
  <2>4. op'[o].kind = Wanted /\ op'[o].e = call.e /\ op'[o].up
    BY <1>2, DialOpens
  <2>5. /\ Wanted \in {"finalize", "gc"} => call.e \in stopped
        /\ Wanted = "prepare" => jrn[call.e] \in Unprepared /\ call.e \notin stopped
    BY <1>0 DEF AgentShape, Wanted, Unprepared
  <2>6. \A q \in Ops : ClientShape(q)'
    BY <1>0, <2>1, <2>3, <2>4, <2>5 DEF ClientShape
  <2>7. OneClient'
    BY <2>1 DEF OneClient
  <2> QED
    BY <2>2, <2>6, <2>7
<1>3. ASSUME NEW x \in Execs, Create(x) PROVE G
  <2>1. call.next = "none" /\ UNCHANGED <<op, stopped>> /\ jrn[x] = "none"
        /\ jrn' = [jrn EXCEPT ![x] = "preparing"] /\ call' = Calling("prepare", x, "none")
        /\ ep' = ep
    BY <1>3, NoCallFields DEF Create
  <2>2. call' \in CallRec /\ call'.next = "prepare" /\ call'.e = x
    BY <2>1, CallingFields DEF Nexts, Goals, Kinds
  <2>3. AgentTyped' /\ AgentShape'
    BY <1>0, <2>1, <2>2 DEF AgentTyped, AgentShape, JournalStates
  <2>4. \A q \in Ops : ~op'[q].up /\ SameClient(q)
    BY <2>1, NoneWaited DEF SameClient
  <2>5. \A q \in Ops : op'[q].kind = "prepare" => op'[q].e # x
    BY <1>0, <2>1 DEF ClientShape, Unprepared
  <2>6. \A y \in Execs : jrn[y] \in Unprepared => jrn'[y] \in Unprepared
    BY <1>0, <2>1 DEF AgentTyped, Unprepared
  <2> QED
    BY <2>1, <2>2, <2>3, <2>4, <2>5, <2>6, PartedClients
<1>4. ASSUME NEW x \in Execs, PrepareContainment(x) PROVE G
  <2>1. call.next = "none" /\ UNCHANGED <<op, stopped, jrn, ep>> /\ jrn[x] = "prepared"
        /\ call' = Calling("cas", x, "none")
    BY <1>4, NoCallFields DEF PrepareContainment
  <2>2. call' \in CallRec /\ call'.next = "cas" /\ call'.e = x
    BY <2>1, CallingFields DEF Nexts, Goals
  <2>3. AgentTyped' /\ AgentShape'
    BY <1>0, <2>1, <2>2 DEF AgentTyped, AgentShape
  <2>4. \A q \in Ops : ~op'[q].up /\ SameClient(q)
    BY <2>1, NoneWaited DEF SameClient
  <2> QED
    BY <2>1, <2>2, <2>3, <2>4, PartedClients
<1>5. ASSUME NEW x \in Execs, Destroy(x) PROVE G
  <2>1. call.next = "none" /\ UNCHANGED <<op, stopped, ep>>
    BY <1>5, NoCallFields DEF Destroy
  <2>2. \/ /\ jrn[x] = "preparing" /\ jrn' = [jrn EXCEPT ![x] = "cleanup_failed"]
           /\ call' = NoCall
        \/ /\ jrn[x] \in {"prepared", "starting", "running", "cleaning"}
           /\ jrn' = [jrn EXCEPT ![x] = "cleaning"]
           /\ call' \in {Calling("stop", x, "none"), Calling("remove", x, "released")}
    BY <1>5 DEF Destroy
  <2>3. /\ Calling("stop", x, "none") \in CallRec /\ Calling("stop", x, "none").next = "stop"
        /\ Calling("stop", x, "none").e = x
        /\ Calling("remove", x, "released") \in CallRec
        /\ Calling("remove", x, "released").next = "remove"
        /\ Calling("remove", x, "released").e = x
        /\ Calling("remove", x, "released").to = "released"
    BY CallingFields DEF Nexts, Goals, Kinds
  <2>4. AgentTyped' /\ AgentShape' /\ call'.next # "prepare"
    BY <1>0, <2>1, <2>2, <2>3, NoCallFields DEF AgentTyped, AgentShape, JournalStates
  <2>5. \A q \in Ops : ~op'[q].up /\ SameClient(q)
    BY <2>1, NoneWaited DEF SameClient
  <2>6. \A y \in Execs : jrn[y] \in Unprepared => jrn'[y] \in Unprepared
    BY <1>0, <2>2 DEF AgentTyped, Unprepared
  <2> QED
    BY <2>1, <2>4, <2>5, <2>6, PartedClients
<1>6. ASSUME NEW x \in Execs, Recover(x) \/ CollectAgain(x) PROVE G
  <2>1. call.next = "none" /\ UNCHANGED <<op, stopped, jrn, ep>>
    BY <1>6, NoCallFields DEF Recover, CollectAgain
  <2>2. \/ jrn[x] = "running" /\ call' = Calling("alive", x, "none")
        \/ jrn[x] = "released" /\ x \in stopped /\ call' = Calling("gc", x, "none")
    BY <1>6 DEF Recover, CollectAgain, FenceInv, FinalInv, TombstoneShape
  <2>3. /\ call' \in CallRec /\ call'.e = x
        /\ \/ call'.next = "alive" /\ jrn[x] = "running"
           \/ call'.next = "gc" /\ jrn[x] = "released" /\ x \in stopped
    BY <2>2, CallingFields DEF Nexts, Goals, Kinds
  <2>4. AgentTyped' /\ AgentShape'
    BY <1>0, <2>1, <2>3 DEF AgentTyped, AgentShape
  <2>5. \A q \in Ops : ~op'[q].up /\ SameClient(q)
    BY <2>1, NoneWaited DEF SameClient
  <2> QED
    BY <2>1, <2>3, <2>4, <2>5, PartedClients
<1>7. CASE CommitStarting
  <2>1. call.next = "cas" /\ UNCHANGED <<op, stopped>> /\ call.e \in Execs
        /\ jrn[call.e] = "prepared" /\ call.e \notin stopped
    BY <1>0, <1>7 DEF CommitStarting, AgentShape
  <2>2. \/ /\ jrn' = [jrn EXCEPT ![call.e] = "starting"] /\ ep' = [ep EXCEPT ![call.e] = boot]
           /\ call' = Then(call, "start")
        \/ call' = NoCall /\ UNCHANGED <<jrn, ep>>
    BY <1>7 DEF CommitStarting
  <2>3. /\ Then(call, "start") \in CallRec /\ Then(call, "start").next = "start"
        /\ Then(call, "start").e = call.e
    BY <1>0, ThenFields DEF AgentTyped, Nexts, Kinds
  <2>4. AgentTyped'
    BY <1>0, <2>1, <2>2, <2>3, NoCallFields DEF AgentTyped, JournalStates, Typed, HostTyped
  <2>5. AgentShape' /\ call'.next # "prepare"
    BY <1>0, <2>1, <2>2, <2>3, NoCallFields DEF AgentTyped, AgentShape
  <2>6. \A q \in Ops : ~op'[q].up /\ SameClient(q)
    BY <2>1, NoneWaited DEF SameClient
  <2>7. \A y \in Execs : jrn[y] \in Unprepared => jrn'[y] \in Unprepared
    BY <1>0, <2>1, <2>2 DEF AgentTyped, Unprepared
  <2> QED
    BY <2>1, <2>4, <2>5, <2>6, <2>7, PartedClients
<1>8. CASE DialFails
  <2>1. Moved(call.e, Wanted) /\ stopped' = stopped
        /\ (jrn[call.e] \in Unprepared => jrn'[call.e] \in Unprepared)
    BY <1>0, <1>8, FailsMoves DEF DialFails
  <2>2. \A q \in Ops : ~op'[q].up /\ SameClient(q)
    BY <1>8 DEF DialFails, SameClient
  <2> QED
    BY <2>1, <2>2, PartedClients DEF Moved
<1>9. CASE AgentCrash
  <2>1. call' = NoCall /\ UNCHANGED <<jrn, ep, stopped>>
        /\ \A q \in Ops : ~op'[q].up /\ SameClient(q)
    BY <1>0, <1>9, LostFields DEF AgentCrash, LoseClients, Typed, SameClient
  <2>2. AgentTyped' /\ AgentShape'
    BY <1>0, <2>1, NoCallFields DEF AgentTyped, AgentShape
  <2> QED
    BY <2>1, <2>2, NoCallFields, PartedClients
<1>10. CASE Reboot
  <2>1. call' = NoCall /\ UNCHANGED <<jrn, ep, stopped>> /\ \A q \in Ops : Ended(q)
    BY <1>10, NoOpFields DEF Reboot, Ended
  <2>2. AgentTyped' /\ AgentShape'
    BY <1>0, <2>1, NoCallFields DEF AgentTyped, AgentShape
  <2> QED
    BY <2>1, <2>2, NoCallFields, PartedClients DEF Ended
<1>11. CASE HelperCrash \/ SupervisorStop
  <2>1. \A q \in Ops : ~op'[q].up /\ (Ended(q) \/ SameClient(q))
    BY <1>0, <1>11, NoOpFields, LostFields
       DEF HelperCrash, SupervisorStop, LoseClients, Typed, Ended, SameClient
  <2>2. HelperCrash => \A q \in Ops : Ended(q)
    BY NoOpFields DEF HelperCrash, Ended
  <2>3. ClientsFail
    BY <1>11 DEF HelperCrash, SupervisorStop
  <2>4. CASE UNCHANGED agent /\ \A q \in Ops : ~op[q].up
    <3>1. AgentTyped' /\ AgentShape'
      BY <1>0, <2>4, AgentFrame
    <3>2. call'.next = "prepare" => \A q \in Ops : op'[q].kind = "prepare" => op'[q].e # call'.e
      BY <1>0, <2>1, <2>4 DEF ClientShape, Ended, SameClient
    <3> QED
      BY <2>1, <2>4, <3>1, <3>2, PartedClients
  <2>5. ASSUME NEW o \in Ops, op[o].up, Fails(op[o].e, op[o].kind, op[o].pc) PROVE G
    <3>1. /\ Moved(op[o].e, op[o].kind) /\ stopped' = stopped
          /\ jrn[op[o].e] \in Unprepared => jrn'[op[o].e] \in Unprepared
      BY <1>0, <2>5, Heard
    <3> QED
      BY <2>1, <3>1, PartedClients DEF Moved
  <2> QED
    BY <2>3, <2>4, <2>5, ClientsFailed DEF ClientsFail
<1>12. CASE (\E x \in Execs : RunnerExits(x)) \/ Shutdown \/ HelperStart
  <2>1. UNCHANGED <<agent, op>>
    BY <1>12 DEF RunnerExits, Shutdown, HelperStart
  <2>2. AgentTyped' /\ AgentShape'
    BY <1>0, <2>1, AgentFrame
  <2> QED
    BY <1>0, <2>1, <2>2 DEF ClientShape, OneClient, Wanted
<1> QED
  BY <1>1, <1>2, <1>3, <1>4, <1>5, <1>6, <1>7, <1>8, <1>9, <1>10, <1>11, <1>12 DEF Next

---------------------------------------------------------------------------
(* Stop and tombstone *)

\* A step that leaves leaves and Stops alone disturbs only its own session.
LEMMA StopMoved ==
  ASSUME FenceInv, NEW o \in Ops, NEW r, op' = [op EXCEPT ![o] = r], cg' = cg,
         stopped' = stopped, StopShape(o)'
  PROVE  StopInv'
<1>1. \A q \in Ops \ {o} : op'[q] = op[q]
  BY DEF FenceInv, Typed
<1>2. \A q \in Ops \ {o} : StopShape(q)'
  BY <1>1 DEF FenceInv, StopInv, StopShape
<1>3. StopIsFinal'
  BY DEF FenceInv, StopInv, StopIsFinal
<1> QED
  BY <1>2, <1>3 DEF StopInv

\* Likewise a step that leaves leaves and workspaces alone.
LEMMA FinalMoved ==
  ASSUME FenceInv, NEW o \in Ops, NEW r, op' = [op EXCEPT ![o] = r], UNCHANGED <<cg, ws>>,
         FinalShape(o)', TombstoneShape', TombstoneIsProof'
  PROVE  FinalInv'
<1>1. \A q \in Ops \ {o} : op'[q] = op[q]
  BY DEF FenceInv, Typed
<1>2. \A q \in Ops \ {o} : FinalShape(q)'
  BY <1>1 DEF FenceInv, FinalInv, FinalShape
<1> QED
  BY <1>2 DEF FinalInv

\* Without a step of the publication, too, the tombstones stay proofs.
LEMMA TombstonesKept ==
  ASSUME FenceInv, UNCHANGED <<cg, ws, pub>>, stopped' = stopped
  PROVE  TombstoneShape' /\ TombstoneIsProof'
  BY DEF FenceInv, FinalInv, TombstoneShape, TombstoneIsProof

\* Nothing of a stopped execution runs or can still be launched.
LEMMA StopStep ==
  ASSUME FenceInv, Next
  PROVE  StopInv'
<1> USE DEF FenceInv, LockInv, Typed, HostTyped, PCs, Fds, KindShape, Publishing, AgentTyped,
        StopInv, FinalInv, ClientInv, FlockShape, OneFenceHolder, StopShape, StopIsFinal,
        TombstoneShape
<1>1. ASSUME NEW o \in Ops, LockCheck(o) PROVE StopInv'
  BY SMTT(30), <1>1, RevokedFields, AtFields, NoOpFields, Heard DEF LockCheck, ReplyEnd, Release, To,
     Set, Opened, Finalized, Replies
<1>2. ASSUME NEW o \in Ops, LockOpen(o) PROVE StopInv'
  BY SMTT(30), <1>2, OpeningFields, Heard DEF LockOpen, Set
<1>3. ASSUME NEW o \in Ops, LockTake(o) PROVE StopInv'
  BY <1>3, LockedFields, NoOpFields, Heard DEF LockTake, ReplyEnd, Release, Set, Opened,
     SameFile, FlockFree, Replies
<1>4. ASSUME NEW o \in Ops, StartReady(o) PROVE StopInv'
  <2> HIDE DEF FenceInv, LockInv, Typed, HostTyped, PCs, Fds, KindShape, AgentTyped, StopInv,
          FinalInv, ClientInv, FlockShape, OneFenceHolder, StopShape, StopIsFinal, TombstoneShape
  <2>0. op[o] \in OpRec /\ KindShape(o) /\ StopShape(o)
    BY DEF FenceInv, Typed, LockInv, StopInv
  <2>1. op[o].pc = "ready" /\ op[o].kind = "start" /\ op[o].up /\ cg' = cg /\ stopped' = stopped
    BY <1>4, StartReadyEffect DEF agent, host
  <2>2. PICK x \in {"fenced", "verify", "launch"} : op' = [op EXCEPT ![o] = At(op[o], x)]
    BY <1>4, StartReadyEffect
  <2>3. op[o].e \notin stopped
    BY <2>1 DEF FenceInv, ClientInv, ClientShape, AgentShape, Wanted
  <2>4. op'[o] = At(op[o], x) /\ x \in PCs
    BY <2>2 DEF FenceInv, Typed, PCs
  <2>5. StopShape(o)'
    BY <2>0, <2>1, <2>3, <2>4, AtFields DEF StopShape
  <2> QED
    BY <2>1, <2>2, <2>5, StopMoved
<1>5. ASSUME NEW o \in Ops, StopReady(o) PROVE StopInv'
  BY <1>5, AtFields, Heard DEF StopReady, To, Set
<1>6. ASSUME NEW o \in Ops, Launch(o) PROVE StopInv'
  BY <1>6, AtFields, Heard DEF Launch, To, Set
<1>7. ASSUME NEW o \in Ops, Spawn(o) PROVE StopInv'
  <2> HIDE DEF FenceInv, LockInv, Typed, HostTyped, PCs, Fds, KindShape, AgentTyped, StopInv,
          FinalInv, ClientInv, FlockShape, OneFenceHolder, StopShape, StopIsFinal, TombstoneShape
  <2>0. op[o] \in OpRec /\ KindShape(o) /\ StopShape(o)
    BY DEF FenceInv, Typed, LockInv, StopInv
  <2> DEFINE e == op[o].e
  <2>1. op[o].pc = "spawn" /\ stopped' = stopped
    BY <1>7, SpawnEffect DEF agent
  <2>2. PICK x \in {"mark", "end"} : op' = [op EXCEPT ![o] = At(op[o], x)]
    BY <1>7, SpawnEffect
  <2>3. op'[o] = At(op[o], x) /\ x \in PCs /\ \A q \in Ops \ {o} : op'[q] = op[q]
    BY <2>2 DEF FenceInv, Typed, PCs
  <2>4. op[o].kind = "start" /\ e \in Execs /\ e \notin stopped /\ op[o].held
    BY <2>0, <2>1 DEF KindShape, StopShape, FenceInv, LockInv, FlockShape
  <2>5. \A y \in Execs \ {e} : cg'[y] = cg[y]
    BY <1>7, SpawnEffect DEF FenceInv, Typed, HostTyped
  <2>6. StopShape(o)'
    BY <2>0, <2>1, <2>3, <2>4, AtFields DEF StopShape
  <2>7. \A q \in Ops \ {o} : op[q].held => op[q].e # e
    BY <2>4 DEF FenceInv, LockInv, OneFenceHolder
  <2>8. \A q \in Ops \ {o} : StopShape(q)'
    <3>1. \A q \in Ops : op[q].pc = "close" => op[q].e \in Execs
      BY DEF FenceInv, LockInv, KindShape
    <3> QED
      BY <2>1, <2>3, <2>4, <2>5, <2>7, <3>1 DEF FenceInv, StopInv, StopShape
  <2>9. StopIsFinal'
    <3>1. stopped \subseteq Execs
      BY DEF FenceInv, Typed, AgentTyped
    <3> QED
      BY <2>1, <2>4, <2>5, <3>1 DEF FenceInv, StopInv, StopIsFinal
  <2> QED
    BY <2>6, <2>8, <2>9 DEF StopInv
<1>8. ASSUME NEW o \in Ops, MarkLaunched(o) PROVE StopInv'
  <2> HIDE DEF FenceInv, LockInv, Typed, HostTyped, PCs, Fds, KindShape, AgentTyped, StopInv,
          FinalInv, ClientInv, FlockShape, OneFenceHolder, StopShape, StopIsFinal, TombstoneShape
  <2>0. op[o] \in OpRec /\ KindShape(o) /\ StopShape(o)
    BY DEF FenceInv, Typed, LockInv, StopInv
  <2>1. op[o].pc = "mark" /\ cg' = cg /\ stopped' = stopped
    BY <1>8, MarkLaunchedEffect DEF agent, host
  <2>2. op[o].kind = "start"
    BY <2>0, <2>1 DEF KindShape
  <2>3. CASE op' = [op EXCEPT ![o] = At(op[o], "end")]
    <3>1. op'[o] = At(op[o], "end") /\ "end" \in PCs
      BY <2>3 DEF FenceInv, Typed, PCs
    <3>2. StopShape(o)'
      BY <2>0, <2>1, <2>2, <3>1, AtFields DEF StopShape
    <3> QED
      BY <2>1, <2>3, <3>2, StopMoved
  <2>4. ASSUME NEW x \in {"close", "end"}, op' = [op EXCEPT ![o] = Launched(op[o], x)]
        PROVE  StopInv'
    <3>1. op'[o] = Launched(op[o], x) /\ x \in PCs
      BY <2>4 DEF FenceInv, Typed, PCs
    <3>2. StopShape(o)'
      BY <2>0, <2>1, <2>2, <3>1, LaunchedFields DEF StopShape
    <3> QED
      BY <2>1, <2>4, <3>2, StopMoved
  <2> QED
    BY <1>8, <2>3, <2>4, MarkLaunchedEffect
<1>9. ASSUME NEW o \in Ops, Revoke(o) PROVE StopInv'
  <2> HIDE DEF FenceInv, LockInv, Typed, HostTyped, PCs, Fds, KindShape, AgentTyped, StopInv,
          FinalInv, ClientInv, FlockShape, OneFenceHolder, StopShape, StopIsFinal, TombstoneShape
  <2>0. op[o] \in OpRec /\ KindShape(o) /\ StopShape(o)
    BY DEF FenceInv, Typed, LockInv, StopInv
  <2>1. op[o].pc = "revoke" /\ cg' = cg /\ stopped' = stopped
    BY <1>9, RevokeEffect DEF agent, host
  <2>2. CASE op' = [op EXCEPT ![o] = At(op[o], "end")]
    <3>1. op'[o] = At(op[o], "end") /\ "end" \in PCs
      BY <2>2 DEF FenceInv, Typed, PCs
    <3>2. StopShape(o)'
      BY <2>0, <2>1, <3>1, AtFields DEF StopShape
    <3> QED
      BY <2>1, <2>2, <3>2, StopMoved
  <2>3. ASSUME NEW x \in {"kill", "end"}, op' = [op EXCEPT ![o] = Revoked(op[o], x)]
        PROVE  StopInv'
    <3>1. op'[o] = Revoked(op[o], x) /\ x \in PCs
      BY <2>3 DEF FenceInv, Typed, PCs
    <3>2. StopShape(o)'
      BY <2>0, <2>1, <3>1, RevokedFields DEF StopShape
    <3> QED
      BY <2>1, <2>3, <3>2, StopMoved
  <2> QED
    BY <1>9, <2>2, <2>3, RevokeEffect
<1>10. ASSUME NEW o \in Ops, Kill(o) PROVE StopInv'
  <2> HIDE DEF FenceInv, LockInv, Typed, HostTyped, PCs, Fds, KindShape, AgentTyped, StopInv,
          FinalInv, ClientInv, FlockShape, OneFenceHolder, StopShape, StopIsFinal, TombstoneShape
  <2>0. op[o] \in OpRec /\ KindShape(o) /\ StopShape(o)
    BY DEF FenceInv, Typed, LockInv, StopInv
  <2>1. op[o].pc = "kill" /\ op[o].e \in Execs /\ stopped' = stopped
    BY <1>10, <2>0, KillEffect DEF agent, KindShape
  <2>2. \A y \in Execs : cg'[y] = "busy" => cg[y] = "busy"
    BY <1>10, KillEffect DEF FenceInv, Typed, HostTyped
  <2>3. \A q \in Ops \ {o} : op'[q] = op[q]
    BY <1>10, KillEffect DEF FenceInv, Typed
  <2>4. \A q \in Ops : op[q].pc = "close" => op[q].e \in Execs
    BY DEF FenceInv, LockInv, KindShape
  <2>5. \A q \in Ops \ {o} : StopShape(q)'
    BY <2>1, <2>2, <2>3, <2>4 DEF FenceInv, StopInv, StopShape
  <2>6. ASSUME op' = [op EXCEPT ![o] = At(op[o], "end")] PROVE StopShape(o)'
    <3>1. op'[o] = At(op[o], "end") /\ "end" \in PCs
      BY <2>6 DEF FenceInv, Typed, PCs
    <3> QED
      BY <2>0, <2>1, <3>1, AtFields DEF StopShape
  <2>7. ASSUME op' = [op EXCEPT ![o] = Killed(op[o])], cg'[op[o].e] # "busy"
        PROVE  StopShape(o)'
    <3>1. op'[o] = Killed(op[o])
      BY <2>7 DEF FenceInv, Typed
    <3> QED
      BY <2>0, <2>1, <2>7, <3>1, KilledFields DEF StopShape
  <2>8. StopShape(o)'
    <3>1. \/ op' = [op EXCEPT ![o] = At(op[o], "end")]
          \/ op' = [op EXCEPT ![o] = Killed(op[o])] /\ cg'[op[o].e] # "busy"
      BY <1>10, <2>1 DEF Kill, KillAndWait, Set, FenceInv, Typed, HostTyped
    <3> QED
      BY <2>6, <2>7, <3>1
  <2>9. StopIsFinal'
    <3>1. stopped \subseteq Execs
      BY DEF FenceInv, Typed, AgentTyped
    <3> QED
      BY <2>1, <2>2, <3>1 DEF FenceInv, StopInv, StopIsFinal
  <2> QED
    BY <2>5, <2>8, <2>9 DEF StopInv
<1>11. ASSUME NEW o \in Ops, Close(o) PROVE StopInv'
  BY <1>11, AtFields, LostFields, NoOpFields, Heard DEF Close, To, Set, Release, Replies
<1>12. ASSUME NEW o \in Ops, End(o) PROVE StopInv'
  BY <1>12, AtFields, LostFields, NoOpFields, Heard DEF End, ReplyEnd, Release, Set, Replies
<1>13. ASSUME NEW o \in Ops, EndKill(o) PROVE StopInv'
  BY <1>13, NoOpFields, Heard DEF EndKill, KillAndWait, Set
<1>14. ASSUME NEW o \in Ops, HangUp(o) PROVE StopInv'
  BY <1>14, AtFields, Heard DEF HangUp, To, Set
<1>15. ASSUME NEW o \in Ops, Alive(o) PROVE StopInv'
  BY <1>15, NoOpFields, Heard DEF Alive, ReplyEnd, Release, Set, Replies
<1>16. ASSUME NEW o \in Ops, PrepareOfficial(o) PROVE StopInv'
  BY <1>16, AtFields, NoOpFields, Heard DEF PrepareOfficial, To, ReplyEnd, Release, Set,
     Replies
<1>17. ASSUME NEW o \in Ops, HandOff(o) PROVE StopInv'
  BY <1>17, NoOpFields, Heard DEF HandOff, ReplyEnd, Release, Set, Replies
<1>18. ASSUME NEW o \in Ops, RemoveWorkspace(o) PROVE StopInv'
  BY <1>18, NoOpFields, Heard DEF RemoveWorkspace, ReplyEnd, Release, Set, Replies
<1>19. ASSUME NEW o \in Ops, FenceFinalized(o) PROVE StopInv'
  BY <1>19, AtFields, NoOpFields, Heard DEF FenceFinalized, To, ReplyEnd, Release, Set,
     Recovered, Replies
<1>20. ASSUME NEW o \in Ops, FinalizeWorkspace(o) PROVE StopInv'
  BY <1>20, AtFields, NoOpFields, Heard DEF FinalizeWorkspace, To, ReplyEnd, Release, Set,
     Replies
<1>21. ASSUME NEW o \in Ops, ValidateFinalization(o) PROVE StopInv'
  BY <1>21, AtFields, NoOpFields, Heard DEF ValidateFinalization, To, ReplyEnd, Release, Set,
     Recovered, Replies
<1>22. ASSUME NEW o \in Ops, Validated(o) PROVE StopInv'
  BY <1>22, UnlockedFields, NoOpFields, Heard DEF Validated, ReplyEnd, Release, Set, Replies
<1>23. ASSUME NEW o \in Ops, FinalizeFence(o) PROVE StopInv'
  <2> HIDE DEF FenceInv, LockInv, Typed, HostTyped, PCs, Fds, KindShape, AgentTyped, StopInv,
          FinalInv, ClientInv, FlockShape, OneFenceHolder, StopShape, StopIsFinal, TombstoneShape
  <2>0. op[o] \in OpRec /\ KindShape(o) /\ StopShape(o)
    BY DEF FenceInv, Typed, LockInv, StopInv
  <2>1. op[o].pc = "fin" /\ op[o].kind = "finalize" /\ cg' = cg
    BY <1>23, <2>0, FinalizeFenceEffect DEF KindShape, Publishing, host
  <2>2. stopped' = stopped
    BY <1>23, <2>1, FinalizeFenceEffect DEF ReplyEnd, Replies, Succeeds, Fails, agent
  <2>3. CASE op' = [op EXCEPT ![o] = NoOp]
    <3>1. op'[o] = NoOp
      BY <2>3 DEF FenceInv, Typed
    <3>2. StopShape(o)'
      BY <3>1, NoOpFields DEF StopShape
    <3> QED
      BY <2>1, <2>2, <2>3, <3>2, StopMoved
  <2>4. ASSUME NEW x \in {"rmdir", "resume", "finlock"}, NEW f \in {"none", "path"},
               op' = [op EXCEPT ![o] = Reopened(op[o], x, f)]
        PROVE  StopInv'
    <3>1. op'[o] = Reopened(op[o], x, f) /\ x \in PCs /\ f \in Fds
      BY <2>4 DEF FenceInv, Typed, PCs, Fds
    <3>2. op'[o].pc = x /\ op'[o].kind = "finalize"
      BY <2>0, <2>1, <3>1, ReopenedFields
    <3>3. StopShape(o)'
      BY <3>2 DEF StopShape
    <3> QED
      BY <2>1, <2>2, <2>4, <3>3, StopMoved
  <2> QED
    BY <1>23, <2>3, <2>4, FinalizeFenceEffect DEF ReplyEnd, Release, Set
<1>24. ASSUME NEW o \in Ops, FinalizeLock(o) PROVE StopInv'
  BY <1>24, RelockedFields, NoOpFields, Heard DEF FinalizeLock, ReplyEnd, Release, Set,
     SameFile, FlockFree, Replies
<1>25. ASSUME NEW o \in Ops, Publish(o) PROVE StopInv'
  <2> HIDE DEF FenceInv, LockInv, Typed, HostTyped, PCs, Fds, KindShape, AgentTyped, StopInv,
          FinalInv, ClientInv, FlockShape, OneFenceHolder, StopShape, StopIsFinal, TombstoneShape
  <2>0. op[o] \in OpRec /\ KindShape(o) /\ StopShape(o)
    BY DEF FenceInv, Typed, LockInv, StopInv
  <2>1. op[o].pc \in {"ptemp", "pwrite", "plink", "punlink"} /\ cg' = cg
    BY <1>25, PublishEffect DEF host
  <2>2. stopped' = stopped
    BY <1>25, PublishEffect, FailEnds DEF agent
  <2>3. CASE op' = [op EXCEPT ![o] = NoOp]
    <3>1. op'[o] = NoOp
      BY <2>3 DEF FenceInv, Typed
    <3>2. StopShape(o)'
      BY <3>1, NoOpFields DEF StopShape
    <3> QED
      BY <2>1, <2>2, <2>3, <3>2, StopMoved
  <2>4. ASSUME NEW x \in {"rmstate", "pwrite", "plink", "punlink"},
               op' = [op EXCEPT ![o] = At(op[o], x)]
        PROVE  StopInv'
    <3>1. op'[o] = At(op[o], x) /\ x \in PCs
      BY <2>4 DEF FenceInv, Typed, PCs, Publishing
    <3>2. StopShape(o)'
      BY <3>1, <2>0, AtFields DEF StopShape
    <3> QED
      BY <2>1, <2>2, <2>4, <3>2, StopMoved
  <2> QED
    BY <1>25, <2>3, <2>4, PublishEffect, FailEnds
<1>26. ASSUME NEW o \in Ops, RemoveFiles(o) PROVE StopInv'
  BY SMTT(30), <1>26, AtFields, UnlockedFields, NamelessFields, Heard DEF RemoveFiles, To, Set
<1>27. ASSUME NEW o \in Ops, RemoveDirectory(o) PROVE StopInv'
  BY <1>27, NoOpFields, Heard DEF RemoveDirectory, ReplyEnd, Release, Set, Replies
<1>28. ASSUME NEW o \in Ops, GarbageCollectFence(o) PROVE StopInv'
  BY <1>28, NoOpFields, Heard DEF GarbageCollectFence, ReplyEnd, Release, Set, Recovered,
     Replies
<1>29. ASSUME NEW o \in Ops, Abort(o) PROVE StopInv'
  BY <1>29, NoOpFields, Heard DEF Abort, Release, Set
<1>30. ASSUME NEW o \in Ops, Dial(o) PROVE StopInv'
  <2>1. UNCHANGED <<cg, stopped>>
    BY <1>30 DEF Dial
  <2> QED
    BY <1>30, <2>1, DialOpens DEF Kinds
<1>31. ASSUME NEW o \in Ops, Timeout(o) PROVE StopInv'
  BY <1>31, LostFields, Heard DEF Timeout, Set
<1>32. ASSUME NEW x \in Execs, Create(x) PROVE StopInv'
  BY <1>32, Heard DEF Create
<1>33. ASSUME NEW x \in Execs, PrepareContainment(x) PROVE StopInv'
  BY <1>33, Heard DEF PrepareContainment, EnsureCgroup
<1>34. ASSUME NEW x \in Execs, Destroy(x) PROVE StopInv'
  BY <1>34, Heard DEF Destroy
<1>35. ASSUME NEW x \in Execs, Recover(x) PROVE StopInv'
  BY <1>35, Heard DEF Recover
<1>36. ASSUME NEW x \in Execs, CollectAgain(x) PROVE StopInv'
  BY <1>36, Heard DEF CollectAgain
<1>37. ASSUME NEW x \in Execs, RunnerExits(x) PROVE StopInv'
  BY <1>37, Heard DEF RunnerExits
<1>38. ASSUME CommitStarting PROVE StopInv'
  BY <1>38, Heard DEF CommitStarting
<1>39. ASSUME DialFails PROVE StopInv'
  BY <1>39 DEF DialFails, Fails
<1>40. ASSUME AgentCrash PROVE StopInv'
  BY <1>40, LostFields, Heard DEF AgentCrash, LoseClients
<1>41. ASSUME HelperCrash PROVE StopInv'
  <2>1. (\A q \in Ops : op'[q] = NoOp) /\ stopped' = stopped
    BY <1>41, ClientsFailStopsNone DEF HelperCrash
  <2>2. \A x \in Execs : cg'[x] # "busy"
    BY <1>41 DEF HelperCrash
  <2>3. stopped \subseteq Execs
    BY DEF AgentTyped
  <2> QED
    BY <2>1, <2>2, <2>3, NoOpFields
<1>42. ASSUME Reboot PROVE StopInv'
  BY <1>42, NoOpFields, Heard DEF Reboot, Torn, Writing
<1>43. ASSUME SupervisorStop PROVE StopInv'
  <2>1. op' = LoseClients /\ stopped' = stopped /\ cg' = cg
    BY <1>43, ClientsFailStopsNone DEF SupervisorStop
  <2> QED
    BY <2>1, LostFields DEF LoseClients
<1>44. ASSUME Shutdown PROVE StopInv'
  BY <1>44, NoOpFields, Heard DEF Shutdown, ShutdownAble
<1>45. ASSUME HelperStart PROVE StopInv'
  BY <1>45, Heard DEF HelperStart
<1>46. ASSUME NEW o \in Ops, StartCancelled(o) PROVE StopInv'
  BY <1>46, AtFields, Heard DEF StartCancelled, To, Set
<1> QED
  BY <1>1, <1>2, <1>3, <1>4, <1>5, <1>6, <1>7, <1>8, <1>9, <1>10, <1>11, <1>12, <1>13, <1>14,
     <1>15, <1>16, <1>17, <1>18, <1>19, <1>20, <1>21, <1>22, <1>23, <1>24, <1>25, <1>26,
     <1>27, <1>28, <1>29, <1>30, <1>31, <1>32, <1>33, <1>34, <1>35, <1>36, <1>37, <1>38,
     <1>39, <1>40, <1>41, <1>42, <1>43, <1>44, <1>45, <1>46 DEF Next, Serve

\* A tombstone is of a stopped execution whose leaf and workspace are gone.
LEMMA FinalStep ==
  ASSUME FenceInv, Next
  PROVE  FinalInv'
<1> USE DEF FenceInv, LockInv, Typed, HostTyped, PCs, Fds, KindShape, Publishing, FinalInv,
        StopInv, ClientInv, FinalShape, StopIsFinal, AgentShape, ClientShape, TombstoneShape,
        TombstoneIsProof
<1>1. ASSUME NEW o \in Ops, LockCheck(o) PROVE FinalInv'
  BY SMTT(30), <1>1, RevokedFields, AtFields, NoOpFields, Heard DEF LockCheck, ReplyEnd, Release, To,
     Set, Opened, Finalized, Replies
<1>2. ASSUME NEW o \in Ops, LockOpen(o) PROVE FinalInv'
  BY <1>2, OpeningFields, Heard DEF LockOpen, Set
<1>3. ASSUME NEW o \in Ops, LockTake(o) PROVE FinalInv'
  BY <1>3, LockedFields, NoOpFields, Heard DEF LockTake, ReplyEnd, Release, Set, Opened,
     SameFile, FlockFree, Replies
<1>4. ASSUME NEW o \in Ops, StartReady(o) PROVE FinalInv'
  <2> HIDE DEF FenceInv, LockInv, Typed, HostTyped, PCs, Fds, KindShape, FinalInv, StopInv,
          ClientInv, FinalShape, StopIsFinal, AgentShape, ClientShape, TombstoneShape,
          TombstoneIsProof
  <2>0. op[o] \in OpRec /\ KindShape(o) /\ FinalShape(o)
    BY DEF FenceInv, Typed, LockInv, FinalInv
  <2>1. /\ op[o].kind = "start" /\ UNCHANGED <<cg, ws>>
        /\ TombstoneShape' /\ TombstoneIsProof'
    BY <1>4, StartReadyEffect, TombstonesKept DEF agent, host, fence
  <2>2. PICK x \in {"fenced", "verify", "launch"} : op' = [op EXCEPT ![o] = At(op[o], x)]
    BY <1>4, StartReadyEffect
  <2>3. op'[o] = At(op[o], x) /\ x \in PCs
    BY <2>2 DEF FenceInv, Typed, PCs
  <2>4. FinalShape(o)'
    BY <2>0, <2>1, <2>3, AtFields DEF FinalShape, Publishing
  <2> QED
    BY <2>1, <2>2, <2>4, FinalMoved
<1>5. ASSUME NEW o \in Ops, StopReady(o) PROVE FinalInv'
  BY <1>5, AtFields, Heard DEF StopReady, To, Set
<1>6. ASSUME NEW o \in Ops, Launch(o) PROVE FinalInv'
  BY <1>6, AtFields, Heard DEF Launch, To, Set
<1>7. ASSUME NEW o \in Ops, Spawn(o) PROVE FinalInv'
  <2> HIDE DEF FenceInv, LockInv, Typed, HostTyped, PCs, Fds, KindShape, FinalInv, StopInv,
          ClientInv, FinalShape, StopIsFinal, AgentShape, ClientShape, TombstoneShape,
          TombstoneIsProof
  <2>0. op[o] \in OpRec /\ KindShape(o) /\ FinalShape(o)
    BY DEF FenceInv, Typed, LockInv, FinalInv
  <2>1. /\ op[o].kind = "start" /\ op[o].e \in Execs /\ UNCHANGED <<ws, pub, stopped>>
    BY <1>7, <2>0, SpawnEffect DEF KindShape, fence, agent
  <2>2. \A y \in Execs : cg[y] = "absent" => cg'[y] = "absent"
    BY <1>7, <2>1, SpawnEffect DEF FenceInv, Typed, HostTyped
  <2>3. PICK x \in {"mark", "end"} : op' = [op EXCEPT ![o] = At(op[o], x)]
    BY <1>7, SpawnEffect
  <2>4. op'[o] = At(op[o], x) /\ x \in PCs /\ \A q \in Ops \ {o} : op'[q] = op[q]
    BY <2>3 DEF FenceInv, Typed, PCs
  <2>5. FinalShape(o)'
    BY <2>0, <2>1, <2>4, AtFields DEF FinalShape, Publishing
  <2>6. \A q \in Ops : op[q].pc # "idle" => op[q].e \in Execs
    BY DEF FenceInv, LockInv, KindShape
  <2>7. \A q \in Ops \ {o} : FinalShape(q)'
    BY <2>1, <2>2, <2>4, <2>6 DEF FenceInv, FinalInv, FinalShape, Publishing
  <2>8. TombstoneShape' /\ TombstoneIsProof'
    BY <2>1, <2>2 DEF FenceInv, FinalInv, TombstoneShape, TombstoneIsProof
  <2> QED
    BY <2>5, <2>7, <2>8 DEF FinalInv
<1>8. ASSUME NEW o \in Ops, MarkLaunched(o) PROVE FinalInv'
  <2> HIDE DEF FenceInv, LockInv, Typed, HostTyped, PCs, Fds, KindShape, FinalInv, StopInv,
          ClientInv, FinalShape, StopIsFinal, AgentShape, ClientShape, TombstoneShape,
          TombstoneIsProof
  <2>0. op[o] \in OpRec /\ KindShape(o) /\ FinalShape(o)
    BY DEF FenceInv, Typed, LockInv, FinalInv
  <2>1. /\ op[o].kind = "start" /\ UNCHANGED <<cg, ws>>
        /\ TombstoneShape' /\ TombstoneIsProof'
    BY <1>8, <2>0, MarkLaunchedEffect, TombstonesKept DEF agent, host, KindShape
  <2>2. CASE op' = [op EXCEPT ![o] = At(op[o], "end")]
    <3>1. op'[o] = At(op[o], "end") /\ "end" \in PCs
      BY <2>2 DEF FenceInv, Typed, PCs
    <3>2. FinalShape(o)'
      BY <2>0, <2>1, <3>1, AtFields DEF FinalShape, Publishing
    <3> QED
      BY <2>1, <2>2, <3>2, FinalMoved
  <2>3. ASSUME NEW x \in {"close", "end"}, op' = [op EXCEPT ![o] = Launched(op[o], x)]
        PROVE  FinalInv'
    <3>1. op'[o] = Launched(op[o], x) /\ x \in PCs
      BY <2>3 DEF FenceInv, Typed, PCs
    <3>2. FinalShape(o)'
      BY <2>0, <2>1, <3>1, LaunchedFields DEF FinalShape, Publishing
    <3> QED
      BY <2>1, <2>3, <3>2, FinalMoved
  <2> QED
    BY <1>8, <2>2, <2>3, MarkLaunchedEffect
<1>9. ASSUME NEW o \in Ops, Revoke(o) PROVE FinalInv'
  <2> HIDE DEF FenceInv, LockInv, Typed, HostTyped, PCs, Fds, KindShape, FinalInv, StopInv,
          ClientInv, FinalShape, StopIsFinal, AgentShape, ClientShape, TombstoneShape,
          TombstoneIsProof
  <2>0. op[o] \in OpRec /\ KindShape(o) /\ FinalShape(o)
    BY DEF FenceInv, Typed, LockInv, FinalInv
  <2>1. /\ op[o].kind \in {"start", "stop"} /\ UNCHANGED <<cg, ws>>
        /\ TombstoneShape' /\ TombstoneIsProof'
    BY <1>9, <2>0, RevokeEffect, TombstonesKept DEF agent, host, KindShape
  <2>2. CASE op' = [op EXCEPT ![o] = At(op[o], "end")]
    <3>1. op'[o] = At(op[o], "end") /\ "end" \in PCs
      BY <2>2 DEF FenceInv, Typed, PCs
    <3>2. FinalShape(o)'
      BY <2>0, <2>1, <3>1, AtFields DEF FinalShape, Publishing
    <3> QED
      BY <2>1, <2>2, <3>2, FinalMoved
  <2>3. ASSUME NEW x \in {"kill", "end"}, op' = [op EXCEPT ![o] = Revoked(op[o], x)]
        PROVE  FinalInv'
    <3>1. op'[o] = Revoked(op[o], x) /\ x \in PCs
      BY <2>3 DEF FenceInv, Typed, PCs
    <3>2. FinalShape(o)'
      BY <2>0, <2>1, <3>1, RevokedFields DEF FinalShape, Publishing
    <3> QED
      BY <2>1, <2>3, <3>2, FinalMoved
  <2> QED
    BY <1>9, <2>2, <2>3, RevokeEffect
<1>10. ASSUME NEW o \in Ops, Kill(o) PROVE FinalInv'
  <2> HIDE DEF FenceInv, LockInv, Typed, HostTyped, PCs, Fds, KindShape, FinalInv, StopInv,
          ClientInv, FinalShape, StopIsFinal, AgentShape, ClientShape, TombstoneShape,
          TombstoneIsProof
  <2>0. op[o] \in OpRec /\ KindShape(o) /\ FinalShape(o)
    BY DEF FenceInv, Typed, LockInv, FinalInv
  <2>1. op[o].kind \in {"start", "stop"} /\ op[o].e \in Execs
    BY <1>10, <2>0, KillEffect DEF KindShape
  <2>2. /\ UNCHANGED <<ws, pub, stopped>>
        /\ \A x \in Execs : cg[x] = "absent" => cg'[x] = "absent"
    <3>1. UNCHANGED <<ws, pub, stopped>>
      BY <1>10, KillEffect DEF fence, agent
    <3>2. cg[op[o].e] # "absent" \/ cg' = cg
      BY <1>10 DEF Kill, KillAndWait
    <3> QED
      BY <1>10, <3>1, <3>2, KillEffect DEF FenceInv, Typed, HostTyped
  <2>3. TombstoneShape' /\ TombstoneIsProof'
    BY <2>2 DEF FenceInv, FinalInv, TombstoneShape, TombstoneIsProof
  <2>4. \A q \in Ops \ {o} : op'[q] = op[q]
    BY <1>10, KillEffect DEF FenceInv, Typed
  <2>5. \A q \in Ops \ {o} : FinalShape(q)'
    <3>1. \A q \in Ops : op[q].pc # "idle" => op[q].e \in Execs
      BY DEF FenceInv, LockInv, KindShape
    <3> QED
      BY <2>2, <2>4, <3>1 DEF FenceInv, FinalInv, FinalShape, Publishing
  <2>6. op'[o].kind \in {"start", "stop"} /\ op'[o].pc \in {"close", "end"}
    <3>1. CASE op' = [op EXCEPT ![o] = Killed(op[o])]
      BY <2>0, <2>1, <3>1, KilledFields DEF FenceInv, Typed
    <3>2. CASE op' = [op EXCEPT ![o] = At(op[o], "end")]
      <4>1. "end" \in PCs
        BY DEF PCs
      <4> QED
        BY <2>0, <2>1, <3>2, <4>1, AtFields DEF FenceInv, Typed
    <3> QED
      BY <1>10, <3>1, <3>2, KillEffect
  <2>7. FinalShape(o)'
    BY <2>6 DEF FinalShape, Publishing
  <2> QED
    BY <2>3, <2>5, <2>7 DEF FinalInv
<1>11. ASSUME NEW o \in Ops, Close(o) PROVE FinalInv'
  BY <1>11, AtFields, LostFields, NoOpFields, Heard DEF Close, To, Set, Release, Replies
<1>12. ASSUME NEW o \in Ops, End(o) PROVE FinalInv'
  BY <1>12, AtFields, LostFields, NoOpFields, Heard DEF End, ReplyEnd, Release, Set, Replies
<1>13. ASSUME NEW o \in Ops, EndKill(o) PROVE FinalInv'
  BY <1>13, NoOpFields, Heard DEF EndKill, KillAndWait, Set
<1>14. ASSUME NEW o \in Ops, HangUp(o) PROVE FinalInv'
  BY <1>14, AtFields, Heard DEF HangUp, To, Set
<1>15. ASSUME NEW o \in Ops, Alive(o) PROVE FinalInv'
  BY <1>15, NoOpFields, Heard DEF Alive, ReplyEnd, Release, Set, Replies
<1>16. ASSUME NEW o \in Ops, PrepareOfficial(o) PROVE FinalInv'
  BY <1>16, AtFields, NoOpFields, Heard DEF PrepareOfficial, To, ReplyEnd, Release, Set,
     Replies
<1>17. ASSUME NEW o \in Ops, HandOff(o) PROVE FinalInv'
  BY <1>17, NoOpFields, Heard DEF HandOff, ReplyEnd, Release, Set, Replies
<1>18. ASSUME NEW o \in Ops, RemoveWorkspace(o) PROVE FinalInv'
  BY <1>18, NoOpFields, Heard DEF RemoveWorkspace, ReplyEnd, Release, Set, Replies
<1>19. ASSUME NEW o \in Ops, FenceFinalized(o) PROVE FinalInv'
  BY <1>19, AtFields, NoOpFields, Heard DEF FenceFinalized, To, ReplyEnd, Release, Set,
     Recovered, Replies
<1>20. ASSUME NEW o \in Ops, FinalizeWorkspace(o) PROVE FinalInv'
  BY <1>20, AtFields, NoOpFields, Heard DEF FinalizeWorkspace, To, ReplyEnd, Release, Set,
     Replies
<1>21. ASSUME NEW o \in Ops, ValidateFinalization(o) PROVE FinalInv'
  BY <1>21, AtFields, NoOpFields, Heard DEF ValidateFinalization, To, ReplyEnd, Release, Set,
     Recovered, Replies
<1>22. ASSUME NEW o \in Ops, Validated(o) PROVE FinalInv'
  BY <1>22, UnlockedFields, NoOpFields, Heard DEF Validated, ReplyEnd, Release, Set, Replies
<1>23. ASSUME NEW o \in Ops, FinalizeFence(o) PROVE FinalInv'
  <2> DEFINE e == op[o].e
  <2>1. /\ op[o].pc = "fin" /\ op[o].kind = "finalize" /\ e \in stopped /\ UNCHANGED <<cg, ws>>
        /\ ws[e] = "absent"
    BY <1>23 DEF FinalizeFence
  <2>2. stopped \subseteq stopped'
    BY <1>23, Heard DEF FinalizeFence, ReplyEnd, Replies
  <2>3. \/ op' = [op EXCEPT ![o] = NoOp]
        \/ cg[e] = "absent" /\ op' = [op EXCEPT ![o] = Reopened(op[o], "rmdir", "none")]
        \/ cg[e] = "absent" /\ op' = [op EXCEPT ![o] = Reopened(op[o], "resume", "path")]
        \/ cg[e] = "absent" /\ op' = [op EXCEPT ![o] = Reopened(op[o], "finlock", "path")]
    BY <1>23 DEF FinalizeFence, ReplyEnd, Release, Set, Replies, CgroupAbsent
  <2>4. \A q \in Ops : FinalShape(q)'
    <3>1. \A q \in Ops \ {o} : FinalShape(q)'
      BY <2>1, <2>3
    <3>2. CASE op' = [op EXCEPT ![o] = NoOp]
      BY <3>1, <3>2, NoOpFields
    <3>3. ASSUME NEW x \in {"rmdir", "resume", "finlock"}, NEW f \in {"none", "path"},
                 op' = [op EXCEPT ![o] = Reopened(op[o], x, f)], cg[e] = "absent"
          PROVE  FinalShape(o)'
      <4>1. op'[o] = Reopened(op[o], x, f) /\ x \in PCs /\ f \in Fds /\ op[o] \in OpRec
        BY <3>3
      <4> HIDE DEF FenceInv, PCs, Fds
      <4>2. op'[o].e = e
        BY <4>1, ReopenedFields
      <4> QED
        BY <2>1, <3>3, <4>2
    <3> HIDE DEF FinalShape
    <3> QED
      BY <2>3, <3>1, <3>2, <3>3
  <2>5. /\ \A x \in Execs : pub'[x] # "none" => x \in stopped
        /\ \A x \in Execs : pub'[x] \in {"linked", "done"} => pub[x] \in {"linked", "done"}
    BY <1>23, <2>1 DEF FinalizeFence, Recovered
  <2> QED
    BY <2>1, <2>2, <2>4, <2>5
<1>24. ASSUME NEW o \in Ops, FinalizeLock(o) PROVE FinalInv'
  BY <1>24, RelockedFields, NoOpFields, Heard DEF FinalizeLock, ReplyEnd, Release, Set,
     SameFile, FlockFree, Replies
<1>25. ASSUME NEW o \in Ops, Publish(o) PROVE FinalInv'
  <2> HIDE DEF FenceInv, LockInv, Typed, HostTyped, PCs, Fds, KindShape, FinalInv, StopInv,
          ClientInv, FinalShape, StopIsFinal, AgentShape, ClientShape, TombstoneShape,
          TombstoneIsProof
  <2>0. op[o] \in OpRec /\ KindShape(o) /\ FinalShape(o)
    BY DEF FenceInv, Typed, LockInv, FinalInv
  <2>1. /\ op[o].pc \in {"ptemp", "pwrite", "plink", "punlink"} /\ UNCHANGED <<cg, ws>>
        /\ stopped' = stopped
    BY <1>25, PublishEffect, FailEnds DEF host, agent
  <2>2. op[o].kind = "finalize" /\ op[o].e \in Execs
    BY <2>0, <2>1 DEF KindShape, Publishing
  <2>3. op[o].e \in stopped /\ cg[op[o].e] = "absent" /\ ws[op[o].e] = "absent"
    BY <2>0, <2>1, <2>2 DEF FenceInv, ClientInv, ClientShape, FinalShape, Publishing
  <2>4. \A x \in Execs \ {op[o].e} : pub'[x] = pub[x]
    BY <1>25, PublishEffect DEF FenceInv, Typed, HostTyped
  <2>5. TombstoneShape' /\ TombstoneIsProof'
    BY <2>1, <2>3, <2>4 DEF FenceInv, FinalInv, TombstoneShape, TombstoneIsProof
  <2>6. CASE op' = [op EXCEPT ![o] = NoOp]
    <3>1. op'[o] = NoOp
      BY <2>6 DEF FenceInv, Typed
    <3>2. FinalShape(o)'
      BY <3>1, NoOpFields DEF FinalShape, Publishing
    <3> QED
      BY <2>1, <2>5, <2>6, <3>2, FinalMoved
  <2>7. ASSUME NEW x \in {"rmstate", "pwrite", "plink", "punlink"},
               op' = [op EXCEPT ![o] = At(op[o], x)]
        PROVE  FinalInv'
    <3>1. op'[o] = At(op[o], x) /\ x \in PCs
      BY <2>7 DEF FenceInv, Typed, PCs, Publishing
    <3>2. FinalShape(o)'
      BY <2>0, <2>1, <2>3, <3>1, AtFields DEF FinalShape
    <3> QED
      BY <2>1, <2>5, <2>7, <3>2, FinalMoved
  <2> QED
    BY <1>25, <2>6, <2>7, PublishEffect, FailEnds
<1>26. ASSUME NEW o \in Ops, RemoveFiles(o) PROVE FinalInv'
  BY SMTT(30), <1>26, AtFields, UnlockedFields, NamelessFields, Heard DEF RemoveFiles, To, Set
<1>27. ASSUME NEW o \in Ops, RemoveDirectory(o) PROVE FinalInv'
  BY <1>27, NoOpFields, Heard DEF RemoveDirectory, ReplyEnd, Release, Set, Replies
<1>28. ASSUME NEW o \in Ops, GarbageCollectFence(o) PROVE FinalInv'
  BY <1>28, NoOpFields, Heard DEF GarbageCollectFence, ReplyEnd, Release, Set, Recovered,
     Replies
<1>29. ASSUME NEW o \in Ops, Abort(o) PROVE FinalInv'
  BY <1>29, NoOpFields, Heard DEF Abort, Release, Set
<1>30. ASSUME NEW o \in Ops, Dial(o) PROVE FinalInv'
  <2>1. UNCHANGED <<cg, ws, pub, stopped>>
    BY <1>30 DEF Dial
  <2> QED
    BY <1>30, <2>1, DialOpens DEF Kinds
<1>31. ASSUME NEW o \in Ops, Timeout(o) PROVE FinalInv'
  BY <1>31, LostFields, Heard DEF Timeout, Set
<1>32. ASSUME NEW x \in Execs, Create(x) PROVE FinalInv'
  BY <1>32, Heard DEF Create
<1>33. ASSUME NEW x \in Execs, PrepareContainment(x) PROVE FinalInv'
  BY <1>33, Heard DEF PrepareContainment, EnsureCgroup
<1>34. ASSUME NEW x \in Execs, Destroy(x) PROVE FinalInv'
  BY <1>34, Heard DEF Destroy
<1>35. ASSUME NEW x \in Execs, Recover(x) PROVE FinalInv'
  BY <1>35, Heard DEF Recover
<1>36. ASSUME NEW x \in Execs, CollectAgain(x) PROVE FinalInv'
  BY <1>36, Heard DEF CollectAgain
<1>37. ASSUME NEW x \in Execs, RunnerExits(x) PROVE FinalInv'
  BY <1>37, Heard DEF RunnerExits
<1>38. ASSUME CommitStarting PROVE FinalInv'
  BY <1>38, Heard DEF CommitStarting
<1>39. ASSUME DialFails PROVE FinalInv'
  BY <1>39 DEF DialFails, Fails
<1>40. ASSUME AgentCrash PROVE FinalInv'
  BY <1>40, LostFields, Heard DEF AgentCrash, LoseClients
<1>41. ASSUME HelperCrash PROVE FinalInv'
  <2>1. (\A q \in Ops : op'[q] = NoOp) /\ stopped' = stopped /\ UNCHANGED <<pub, ws>>
    BY <1>41, ClientsFailStopsNone DEF HelperCrash
  <2>2. \A x \in Execs : cg[x] = "absent" => cg'[x] = "absent"
    BY <1>41 DEF HelperCrash
  <2> QED
    BY <2>1, <2>2, NoOpFields
<1>42. ASSUME Reboot PROVE FinalInv'
  BY <1>42, NoOpFields, Heard DEF Reboot, Torn, Writing
<1>43. ASSUME SupervisorStop PROVE FinalInv'
  <2>1. op' = LoseClients /\ stopped' = stopped /\ UNCHANGED <<cg, ws, pub>>
    BY <1>43, ClientsFailStopsNone DEF SupervisorStop
  <2> QED
    BY <2>1, LostFields DEF LoseClients
<1>44. ASSUME Shutdown PROVE FinalInv'
  BY <1>44, NoOpFields, Heard DEF Shutdown, ShutdownAble
<1>45. ASSUME HelperStart PROVE FinalInv'
  BY <1>45, Heard DEF HelperStart
<1>46. ASSUME NEW o \in Ops, StartCancelled(o) PROVE FinalInv'
  BY <1>46, AtFields, Heard DEF StartCancelled, To, Set
<1> QED
  BY <1>1, <1>2, <1>3, <1>4, <1>5, <1>6, <1>7, <1>8, <1>9, <1>10, <1>11, <1>12, <1>13, <1>14,
     <1>15, <1>16, <1>17, <1>18, <1>19, <1>20, <1>21, <1>22, <1>23, <1>24, <1>25, <1>26,
     <1>27, <1>28, <1>29, <1>30, <1>31, <1>32, <1>33, <1>34, <1>35, <1>36, <1>37, <1>38,
     <1>39, <1>40, <1>41, <1>42, <1>43, <1>44, <1>45, <1>46 DEF Next, Serve

---------------------------------------------------------------------------
(* Theorems *)

\* The invariant holds before the first request.
LEMMA FenceInit == Init => FenceInv
<1> SUFFICES ASSUME Init PROVE FenceInv
  OBVIOUS
<1>1. \A o \in Ops : op[o] = NoOp
  BY DEF Init
<1>2. Typed
  BY NoOpFields, NoCallFields
     DEF Init, Typed, AgentTyped, HostTyped, JournalStates, Leaves, Workspaces, Locks, Levels, Pubs
<1>3. LockInv /\ FileInv
  BY <1>1, NoOpFields DEF Init, LockInv, FileInv, KindShape, FlockShape, SessionShape,
     OneFenceHolder, LaunchMu, FenceFiles, Publishing
<1>4. ClientInv /\ StopInv /\ FinalInv
  BY <1>1, NoOpFields, NoCallFields DEF Init, ClientInv, StopInv, FinalInv, AgentShape, OneClient,
     ClientShape, StopIsFinal, StopShape, TombstoneShape, TombstoneIsProof, FinalShape, Publishing
<1> QED
  BY <1>2, <1>3, <1>4 DEF FenceInv

\* Every step keeps it.
LEMMA FenceStep == FenceInv /\ [Next]_vars => FenceInv'
<1> SUFFICES ASSUME FenceInv, [Next]_vars PROVE FenceInv'
  OBVIOUS
<1>1. CASE Next
  BY <1>1, OpTyped, HostStep, LockStep, FileStep, ClientStep, StopStep, FinalStep
     DEF FenceInv, Typed
<1>2. CASE UNCHANGED vars
  <2>1. UNCHANGED <<jrn, ep, call, stopped, op, mu, srv, dir, lock, st, pub, cg, ws, boot>>
    BY <1>2 DEF vars
  <2>2. Typed' /\ LockInv' /\ FileInv'
    BY <2>1 DEF FenceInv, Typed, AgentTyped, HostTyped, LockInv, KindShape, FlockShape,
       OneFenceHolder, LaunchMu, FileInv, SessionShape, FenceFiles
  <2>3. ClientInv' /\ StopInv' /\ FinalInv'
    BY <2>1 DEF FenceInv, ClientInv, AgentShape, OneClient, ClientShape, Wanted, StopInv,
       StopIsFinal, StopShape, FinalInv, TombstoneShape, TombstoneIsProof, FinalShape
  <2> QED
    BY <2>2, <2>3 DEF FenceInv
<1> QED
  BY <1>1, <1>2

\* The invariant says what the fence promises.
LEMMA FenceImplied == FenceInv => FenceIsTrue
<1> SUFFICES ASSUME FenceInv PROVE FenceIsTrue
  OBVIOUS
<1>1. TypeOK
  BY DEF FenceInv, LockInv, FileInv, Typed, AgentTyped, HostTyped, LaunchMu, FenceFiles, TypeOK,
     JournalStates, Leaves, Workspaces, Locks, Levels, Pubs
<1> QED
  BY <1>1 DEF FenceInv, LockInv, StopInv, FinalInv, FenceIsTrue

\* For any executions, connections and failures: one connection acts under a
\* fence (LockFence), no process of an execution runs once Stop has returned
\* nil for it, and a tombstone (publishFinalizedFence) proves that leaf and
\* workspace are gone.
THEOREM FenceHolds == Spec => []FenceIsTrue
<1>1. Spec => []FenceInv
  BY FenceInit, FenceStep, PTL DEF Spec
<1> QED
  BY <1>1, FenceImplied, PTL

\* The steps that write a state file.
LEMMA StateWriters ==
  ASSUME Next
  PROVE  \/ UNCHANGED st
         \/ \E o \in Ops : LockTake(o) \/ MarkLaunched(o) \/ Revoke(o) \/ End(o) \/ RemoveFiles(o)
         \/ HelperCrash \/ Reboot \/ Shutdown
<1>1. ASSUME NEW o \in Ops,
             \/ LockCheck(o) \/ LockOpen(o) \/ StartReady(o) \/ StopReady(o) \/ Launch(o)
             \/ Spawn(o) \/ Kill(o) \/ Close(o) \/ EndKill(o) \/ HangUp(o) \/ Alive(o)
             \/ StartCancelled(o)
      PROVE  UNCHANGED st
  BY <1>1 DEF LockCheck, LockOpen, StartReady, StopReady, Launch, Spawn, Kill, Close, EndKill,
     HangUp, Alive, StartCancelled, fence
<1>2. ASSUME NEW o \in Ops,
             \/ PrepareOfficial(o) \/ HandOff(o) \/ RemoveWorkspace(o) \/ FenceFinalized(o)
             \/ FinalizeWorkspace(o) \/ ValidateFinalization(o) \/ Validated(o)
      PROVE  UNCHANGED st
  BY <1>2 DEF PrepareOfficial, HandOff, RemoveWorkspace, FenceFinalized, FinalizeWorkspace,
     ValidateFinalization, Validated, fence
<1>3. ASSUME NEW o \in Ops,
             \/ FinalizeFence(o) \/ FinalizeLock(o) \/ Publish(o) \/ RemoveDirectory(o)
             \/ GarbageCollectFence(o) \/ Abort(o) \/ Dial(o) \/ Timeout(o)
      PROVE  UNCHANGED st
  BY <1>3 DEF FinalizeFence, FinalizeLock, Publish, RemoveDirectory, GarbageCollectFence, Abort,
     Dial, Timeout, fence
<1>4. ASSUME NEW x \in Execs,
             \/ Create(x) \/ PrepareContainment(x) \/ Destroy(x) \/ Recover(x)
             \/ CollectAgain(x) \/ RunnerExits(x)
      PROVE  UNCHANGED st
  BY <1>4 DEF Create, PrepareContainment, Destroy, Recover, CollectAgain, RunnerExits, fence
<1>5. CASE CommitStarting \/ DialFails \/ AgentCrash \/ SupervisorStop \/ HelperStart
  BY <1>5 DEF CommitStarting, DialFails, AgentCrash, SupervisorStop, HelperStart, fence
<1> QED
  BY <1>1, <1>2, <1>3, <1>4, <1>5 DEF Next, Serve

\* A step that revokes a durable launch is asked for by a Stop or by the Start
\* that made it, or is the helper's shutdown.
LEMMA RevokedBy ==
  ASSUME FenceInv, Next, NEW e \in Execs, st[e] = "launched", st'[e] = "revoked"
  PROVE  \/ srv # "up"
         \/ \E o \in Ops : op[o].e = e /\ op[o].pc = "revoke" /\ MayRevoke(o)
<1>1. ASSUME NEW o \in Ops, LockTake(o) \/ MarkLaunched(o) \/ RemoveFiles(o) PROVE FALSE
  <2>1. \/ st' = st
        \/ st' = [st EXCEPT ![op[o].e] = IF st[op[o].e] = "none" THEN "active" ELSE st[op[o].e]]
        \/ \E s \in {"launched", "none"} : st' = [st EXCEPT ![op[o].e] = s]
    BY <1>1 DEF LockTake, MarkLaunched, RemoveFiles
  <2> QED
    BY <2>1 DEF FenceInv, Typed, HostTyped
<1>2. ASSUME NEW o \in Ops, Revoke(o)
      PROVE  op[o].e = e /\ op[o].pc = "revoke" /\ MayRevoke(o)
  <2>1. op[o].pc = "revoke" /\ op[o].e = e /\ op[o].held
    BY <1>2 DEF Revoke, FenceInv, Typed, HostTyped
  <2> QED
    BY <2>1 DEF MayRevoke, FenceInv, LockInv, FileInv, KindShape, SessionShape
<1>3. ASSUME NEW o \in Ops, End(o) PROVE srv # "up"
  BY <1>3 DEF End, Committed, FenceInv, LockInv, FileInv, Typed, HostTyped, KindShape, SessionShape
<1>4. CASE HelperCrash \/ Reboot
  BY <1>4 DEF HelperCrash, Reboot, Torn
<1>5. CASE Shutdown
  BY <1>5 DEF Shutdown
<1> QED
  BY <1>1, <1>2, <1>3, <1>4, <1>5, StateWriters

\* For any executions, connections and failures: a durable launch is revoked
\* while the helper is up only because a Stop, or the Adapter.Start that made it
\* and was cancelled, asked for it, so that the loss of an Agent's session alone
\* never does (serveFenceSession's committed session).
THEOREM AgentLossHarmless == Spec => AgentLossKeepsRunner
<1>1. Spec => []FenceInv
  BY FenceInit, FenceStep, PTL DEF Spec
<1>2. FenceInv /\ [Next]_vars =>
        [\A e \in Execs : st[e] = "launched" /\ st'[e] = "revoked" =>
           \/ srv # "up"
           \/ \E o \in Ops : op[o].e = e /\ op[o].pc = "revoke" /\ MayRevoke(o)]_vars
  BY RevokedBy
<1> QED
  BY <1>1, <1>2, PTL DEF Spec, AgentLossKeepsRunner

=============================================================================
