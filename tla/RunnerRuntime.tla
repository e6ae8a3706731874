--------------------------- MODULE RunnerRuntime ---------------------------
(***************************************************************************)
(* The Agent's execution runtime: internal/runner/runtime.go over the     *)
(* revisioned runner journal (internal/runner/journal.go, SQLite form in   *)
(* internal/store/runner_journal.go) and the platform Supervisor and       *)
(* Cleaner contracts (internal/runner/process.go).                         *)
(*                                                                         *)
(* One execution ID is modelled: executions share no state but a           *)
(* Manager's mutex.  Several Managers (overlapping or restarted Agent      *)
(* processes) share the journal, the workspace and the platform.  A        *)
(* Manager runs one call at a time (Manager.mu); calls of different        *)
(* Managers interleave between any two journal or platform accesses.       *)
(* A caller cancellation (ctx) shows up as the failure of the access in    *)
(* progress.                                                               *)
(***************************************************************************)
EXTENDS Naturals, FiniteSets

CONSTANTS
    Managers,       \* overlapping runner.Manager instances
    Tokens,         \* fence tokens newOpaqueToken can draw
    NoToken         \* the empty FenceToken of a record without containment

ASSUME TokenAssumption == NoToken \notin Tokens

VARIABLES
    journal,        \* the durable VersionedRecord; state "none" before Create
    workspace,      \* directory at the execution's deterministic RootName
    live,           \* tokens whose containment holds a running process
    stopped,        \* tokens whose fence the platform durably revoked
    finalized,      \* tokens with a cleanup tombstone on disk
    drawn,          \* tokens already drawn
    launched,       \* history: tokens whose Start delivered the JIT config
    revokedEver,    \* history: tokens a successful Stop ever fenced
    pc,             \* the next access of each Manager's call
    cont,           \* where the call continues after a compareAndSwap
    goal,           \* the candidate record of that compareAndSwap
    rec,            \* the call's local VersionedRecord
    cas,            \* the error class of the last compareAndSwap
    tok,            \* the containment token of the call's Start
    op,             \* the call is EnsurePrepared ("prepare") or EnsureRunning ("run")
    owned,          \* Manager.owned: revision of the adopted Running record
    cleanupOwned    \* Manager.cleanupOwned: revision of the Cleaning claim

durable  == <<journal, workspace>>
platform == <<live, stopped, finalized, launched, revokedEver>>
memory   == <<owned, cleanupOwned>>
call     == <<pc, cont, goal, rec, cas, tok, op>>
vars     == <<durable, platform, drawn, call, memory>>

---------------------------------------------------------------------------
(* Records.  JITDigest is set exactly with Containment and Tombstone      *)
(* exactly in cleanup_failed, so neither is a field of its own; the writer *)
(* stands for the MutationToken of the latest revision.                    *)

ActiveStates   == {"prepared", "starting", "running"}
TerminalStates == {"released", "failed", "cleanup_failed"}
States == {"none", "preparing", "cleaning"} \cup ActiveStates \cup TerminalStates

Writers == Managers \cup {"nobody"}

Record == [state  : States,
           rev    : Nat,
           ref    : {"unset", "set"},        \* WorkspaceRef
           fence  : Tokens \cup {NoToken},   \* Containment.FenceToken
           pid    : {0, 1},
           writer : Writers]

NoRecord == [state |-> "none", rev |-> 0, ref |-> "unset", fence |-> NoToken,
             pid |-> 0, writer |-> "nobody"]

\* The candidate records of the lifecycle transitions.
Created(m)           == [NoRecord EXCEPT !.state = "preparing", !.rev = 1, !.writer = m]
Prepared(r)          == [r EXCEPT !.state = "prepared", !.ref = "set"]
FailedPreparation(r) == [r EXCEPT !.state = "failed"]
Starting(r, t)       == [r EXCEPT !.state = "starting", !.fence = t]
RolledBack(r)        == [r EXCEPT !.state = "prepared", !.pid = 0, !.fence = NoToken]
Running(r)           == [r EXCEPT !.state = "running", !.pid = 1]
Cleaning(r)          == [r EXCEPT !.state = "cleaning"]
Released(r)          == [r EXCEPT !.state = "released", !.pid = 0]
FailedStart(r)       == [r EXCEPT !.state = "failed", !.pid = 0, !.ref = "unset",
                                  !.fence = NoToken]
CleanupFailed(r)     == [r EXCEPT !.state = "cleanup_failed"]

\* The lifecycle data of two versioned records agree.
SameRecord(a, b) ==
    a.state = b.state /\ a.ref = b.ref /\ a.fence = b.fence /\ a.pid = b.pid

\* Whether r is still the Starting or Running record of the Start with token t.
SameStartedRuntime(r, t) ==
    /\ r.fence = t /\ r.ref = "set"
    /\ \/ r.state = "starting" /\ r.pid = 0
       \/ r.state = "running"  /\ r.pid = 1

Labels == {"idle", "create", "mkroot", "prepare", "rmprep", "runload",
           "deliver", "start", "stop_fenced", "stop_changed", "stop_failed",
           "stop_deliver", "stop_unstarted", "stop_uncommitted", "fail_check",
           "destroy", "stop", "finalize", "check", "remove", "gc",
           "quarantine", "cas", "reload", "terminal_reload",
           "after_prepared", "after_failed_prep", "after_starting",
           "after_rollback", "after_unstarted", "after_running",
           "after_fail_claim", "after_claim", "after_terminal",
           "after_terminal_retry", "after_quarantine"}

---------------------------------------------------------------------------
(* Control of one call *)

Goto(m, l) == pc' = [pc EXCEPT ![m] = l]

Step(m, l) == Goto(m, l) /\ UNCHANGED <<cont, goal, rec, cas, tok, op>>

\* Continue at l, where none of the call's locals is read again.
Drop(m, l) ==
    /\ Goto(m, l)
    /\ cont' = [cont EXCEPT ![m] = "idle"]
    /\ goal' = [goal EXCEPT ![m] = NoRecord]
    /\ rec' = [rec EXCEPT ![m] = NoRecord]
    /\ cas' = [cas EXCEPT ![m] = "ok"]
    /\ tok' = [tok EXCEPT ![m] = NoToken]
    /\ op' = [op EXCEPT ![m] = "prepare"]

Return(m) == Drop(m, "idle")

\* Begin compareAndSwap(candidate) and continue at k with its result.
Swap(m, candidate, k) ==
    /\ Goto(m, "cas")
    /\ cont' = [cont EXCEPT ![m] = k]
    /\ goal' = [goal EXCEPT ![m] = candidate]
    /\ UNCHANGED <<rec, cas, tok, op>>

Forget(m)          == owned' = [owned EXCEPT ![m] = 0]
ForgetCleanup(m)   == cleanupOwned' = [cleanupOwned EXCEPT ![m] = 0]
OwnsCleanup(m, r)  == r.state = "cleaning" /\ cleanupOwned[m] = r.rev

\* What workspaceMatches may report: a match is never invented, but a match
\* can be missed (unreadable root, failed validation, cancelled context).
WorkspaceMatches(seen) ==
    /\ seen \in BOOLEAN
    /\ seen => workspace = "own"

---------------------------------------------------------------------------
(* compareAndSwap: journal write, and the reload that resolves an error *)

Written(m) == [goal[m] EXCEPT !.rev = goal[m].rev + 1, !.writer = m]

\* Mutant: an unconditional, last-writer-wins update.
LastWriterWins(m) ==
    /\ pc[m] = "cas"
    /\ Goto(m, cont[m])
    /\ journal' = Written(m)
    /\ rec' = [rec EXCEPT ![m] = Written(m)]
    /\ cas' = [cas EXCEPT ![m] = "ok"]
    /\ UNCHANGED <<workspace, platform, drawn, cont, goal, tok, op, memory>>

\* CompareAndSwap of the journal answers: the revision matched or it did not.
CasAnswer(m) ==
    /\ pc[m] = "cas"
    /\ Goto(m, cont[m])
    /\ IF journal.rev = goal[m].rev
         THEN /\ journal' = Written(m)
              /\ rec' = [rec EXCEPT ![m] = Written(m)]
              /\ cas' = [cas EXCEPT ![m] = "ok"]
         ELSE /\ rec' = [rec EXCEPT ![m] = journal]
              /\ cas' = [cas EXCEPT ![m] = "reconciliation"]
              /\ UNCHANGED journal
    /\ UNCHANGED <<workspace, platform, drawn, cont, goal, tok, op, memory>>

\* The write reports an error; it may or may not have been committed.
CasError(m) ==
    /\ pc[m] = "cas"
    /\ Goto(m, "reload")
    /\ \/ UNCHANGED journal
       \/ journal.rev = goal[m].rev /\ journal' = Written(m)
    /\ UNCHANGED <<workspace, platform, drawn, cont, goal, rec, cas, tok, op, memory>>

\* The reload recognises its own write by revision, token and content.
ReloadResult(m) ==
    IF journal.rev = goal[m].rev + 1 /\ journal.writer = m /\ SameRecord(journal, goal[m])
      THEN "ok"
      ELSE IF journal.rev = goal[m].rev THEN "journal" ELSE "reconciliation"

CasReload(m) ==
    /\ pc[m] = "reload"
    /\ Goto(m, cont[m])
    /\ \/ /\ rec' = [rec EXCEPT ![m] = journal]
          /\ cas' = [cas EXCEPT ![m] = ReloadResult(m)]
       \/ \* the reload fails too: the caller keeps its unwritten candidate
          /\ rec' = [rec EXCEPT ![m] = goal[m]]
          /\ cas' = [cas EXCEPT ![m] = "journal"]
    /\ UNCHANGED <<durable, platform, drawn, cont, goal, tok, op, memory>>

---------------------------------------------------------------------------
(* EnsurePrepared *)

\* Load the record.  An existing one only decides how the call returns: a
\* Prepared or Running record lets EnsureRunning go on, any other ends it.
EnsurePrepared(m) ==
    /\ pc[m] = "idle"
    /\ \E kind \in {"prepare", "run"}, seen \in BOOLEAN :
         /\ WorkspaceMatches(seen)
         /\ op' = [op EXCEPT ![m] = kind]
         /\ \/ journal.state = "none" /\ Goto(m, "create")
            \/ /\ kind = "run" /\ seen
               /\ journal.state \in {"prepared", "running"}
               /\ Goto(m, "runload")
    /\ UNCHANGED <<durable, platform, drawn, cont, goal, rec, cas, tok, memory>>

\* Journal.Create is insert-only; an error may hide a committed insert.
Create(m) ==
    /\ pc[m] = "create"
    /\ \/ /\ journal.state = "none"
          /\ journal' = Created(m)
          /\ \/ Goto(m, "mkroot") /\ rec' = [rec EXCEPT ![m] = Created(m)]
                /\ UNCHANGED <<cont, goal, cas, tok, op>>
             \/ Return(m)
       \/ Return(m) /\ UNCHANGED journal
    /\ UNCHANGED <<workspace, platform, drawn, memory>>

\* makeExecutionRoot: Mkdir of a name that must not exist yet.
MakeExecutionRoot(m) ==
    /\ pc[m] = "mkroot"
    /\ \/ workspace = "absent" /\ workspace' = "bare" /\ Step(m, "prepare")
       \/ workspace' \in {workspace, "bare"} /\ Drop(m, "quarantine")
    /\ UNCHANGED <<journal, platform, drawn, memory>>

\* Materialize the package and capture the workspace identity, or fail.
PrepareWorkspace(m) ==
    /\ pc[m] = "prepare"
    /\ \/ /\ workspace' = "own"
          /\ Swap(m, Prepared(rec[m]), "after_prepared")
       \/ UNCHANGED workspace /\ Step(m, "rmprep")
    /\ UNCHANGED <<journal, platform, drawn, memory>>

\* Mutant: Failed is committed although the root could not be removed.
FailWithoutRemoval(m) ==
    /\ pc[m] = "rmprep"
    /\ workspace' \in {workspace, "absent"}
    /\ Swap(m, FailedPreparation(rec[m]), "after_failed_prep")
    /\ UNCHANGED <<journal, platform, drawn, memory>>

\* A failed preparation removes its root and then commits Failed.
FailPreparation(m) ==
    /\ pc[m] = "rmprep"
    /\ \/ /\ workspace' = "absent"
          /\ Swap(m, FailedPreparation(rec[m]), "after_failed_prep")
       \/ UNCHANGED workspace /\ Drop(m, "quarantine")
    /\ UNCHANGED <<journal, platform, drawn, memory>>

\* Whatever the Prepared commit answered, a stale owner deletes nothing.
AfterPrepared(m) ==
    /\ pc[m] = "after_prepared"
    /\ Drop(m, IF cas[m] = "ok" /\ op[m] = "run" THEN "runload" ELSE "idle")
    /\ UNCHANGED <<durable, platform, drawn, memory>>

AfterFailedPreparation(m) ==
    /\ pc[m] = "after_failed_prep"
    /\ Return(m)
    /\ UNCHANGED <<durable, platform, drawn, memory>>

---------------------------------------------------------------------------
(* EnsureRunning *)

\* Only a Prepared record with its workspace in place is claimed for Start.
ClaimStarting(m) ==
    /\ pc[m] = "runload"
    /\ \/ /\ journal.state = "prepared" /\ workspace = "own"
          /\ \E t \in Tokens \ drawn :
               /\ drawn' = drawn \cup {t}
               /\ tok' = [tok EXCEPT ![m] = t]
               /\ goal' = [goal EXCEPT ![m] = Starting(journal, t)]
          /\ Goto(m, "cas")
          /\ cont' = [cont EXCEPT ![m] = "after_starting"]
          /\ UNCHANGED <<rec, cas, op>>
       \/ Return(m) /\ UNCHANGED drawn
    /\ UNCHANGED <<durable, platform, memory>>

AfterStarting(m) ==
    /\ pc[m] = "after_starting"
    /\ IF cas[m] = "ok" THEN Step(m, "deliver") ELSE Return(m)
    /\ UNCHANGED <<durable, platform, drawn, memory>>

\* JIT.Deliver: the callback may be refused before Start is attempted (with
\* an error, or never invoked at all), or see that the workspace changed.
DeliverJIT(m) ==
    /\ pc[m] = "deliver"
    /\ \/ Step(m, "stop_deliver")
       \/ Step(m, "stop_unstarted")
       \/ Step(m, "stop_changed")
       \/ workspace = "own" /\ Step(m, "start")
    /\ UNCHANGED <<durable, platform, drawn, memory>>

\* Supervisor.Start linearizes with Stop on the fence token, verifies the
\* workspace under that fence and only then hands over the JIT config.
SupervisorStart(m) ==
    /\ pc[m] = "start"
    /\ LET t == tok[m] IN
       \/ /\ t \notin stopped /\ workspace = "own"
          /\ launched' = launched \cup {t}
          /\ \/ live' = live \cup {t}
                /\ \/ Swap(m, Running(rec[m]), "after_running")
                   \/ Step(m, "stop_failed")      \* ErrStartFailed, bad PID
                   \/ Step(m, "stop_changed")     \* foreign containment returned
             \/ UNCHANGED live /\ Step(m, "stop_failed")
       \/ UNCHANGED <<live, launched>> /\ Step(m, "stop_fenced")
       \/ UNCHANGED <<live, launched>> /\ Step(m, "stop_changed")
       \/ UNCHANGED <<live, launched>> /\ Step(m, "stop_failed")
    /\ UNCHANGED <<durable, stopped, finalized, revokedEver, drawn, memory>>

---------------------------------------------------------------------------
(* Supervisor.Stop *)

\* Success: the token is fenced and its descendant boundary is empty.
StopSucceeds(t) ==
    /\ stopped' = stopped \cup {t}
    /\ live' = live \ {t}
    /\ revokedEver' = revokedEver \cup {t}
    /\ UNCHANGED <<finalized, launched>>

\* Failure: the fence is revoked before the kill, and either may have failed.
StopFails(t) ==
    /\ \/ UNCHANGED <<stopped, live>>
       \/ stopped' = stopped \cup {t} /\ live' \in {live, live \ {t}}
    /\ UNCHANGED <<finalized, launched, revokedEver>>

StopLabels == {"stop_fenced", "stop_changed", "stop_failed", "stop_deliver",
               "stop_unstarted", "stop_uncommitted"}

\* After a Start that did not commit Running, the call stops its own token
\* and then gives up the claim the way the failure requires.
StopOwnStart(m) ==
    /\ pc[m] \in StopLabels
    /\ \/ StopFails(tok[m]) /\ Drop(m, "quarantine")
       \/ /\ StopSucceeds(tok[m])
          /\ \/ pc[m] = "stop_changed" /\ Drop(m, "quarantine")
             \/ pc[m] = "stop_fenced" /\ Return(m)
             \/ /\ pc[m] = "stop_failed"
                /\ Swap(m, Cleaning(rec[m]), "after_fail_claim")
             \/ /\ pc[m] \in {"stop_deliver", "stop_unstarted"}
                /\ Swap(m, RolledBack(rec[m]),
                        IF pc[m] = "stop_deliver" THEN "after_rollback" ELSE "after_unstarted")
             \/ /\ pc[m] = "stop_uncommitted"
                /\ IF SameStartedRuntime(rec[m], tok[m])
                     THEN Swap(m, Cleaning(rec[m]), "after_fail_claim")
                     ELSE Return(m)
    /\ UNCHANGED <<durable, drawn, memory>>

AfterRollback(m) ==
    /\ pc[m] \in {"after_rollback", "after_unstarted"}
    /\ Drop(m, IF pc[m] = "after_unstarted" /\ cas[m] # "ok" THEN "quarantine" ELSE "idle")
    /\ UNCHANGED <<durable, platform, drawn, memory>>

\* A started process without a durable Running record is stopped, not replayed.
AfterRunning(m) ==
    /\ pc[m] = "after_running"
    /\ \/ /\ cas[m] = "ok"
          /\ owned' = [owned EXCEPT ![m] = rec[m].rev]
          /\ Return(m)
       \/ /\ cas[m] # "ok"
          /\ Step(m, "stop_uncommitted")
          /\ UNCHANGED owned
    /\ UNCHANGED <<durable, platform, drawn, cleanupOwned>>

\* failStartedExecution claims Cleaning, again while another Manager has only
\* moved the same runtime from Starting to Running.
AfterFailClaim(m) ==
    /\ pc[m] = "after_fail_claim"
    /\ \/ /\ cas[m] = "ok"
          /\ cleanupOwned' = [cleanupOwned EXCEPT ![m] = rec[m].rev]
          /\ Forget(m)
          /\ Step(m, "fail_check")
       \/ /\ cas[m] = "reconciliation" /\ SameStartedRuntime(rec[m], tok[m])
          /\ Swap(m, Cleaning(rec[m]), "after_fail_claim")
          /\ UNCHANGED memory
       \/ /\ cas[m] # "ok"
          /\ Return(m)
          /\ UNCHANGED memory
    /\ UNCHANGED <<durable, platform, drawn>>

\* The failed execution's root is removed only while its identity matches.
FailCheck(m) ==
    /\ pc[m] = "fail_check"
    /\ \/ /\ workspace = "own"
          /\ Goto(m, "remove")
          /\ goal' = [goal EXCEPT ![m] = FailedStart(rec[m])]
          /\ UNCHANGED <<cont, rec, cas, tok, op>>
       \/ Drop(m, "quarantine")
    /\ UNCHANGED <<durable, platform, drawn, memory>>

---------------------------------------------------------------------------
(* Destroy *)

\* Mutant: teardown starts before the Cleaning intent is durable.
DestroyWithoutIntent(m) ==
    /\ pc[m] \in {"idle", "destroy"}
    /\ journal.state \notin TerminalStates \cup {"none", "preparing"}
    /\ rec' = [rec EXCEPT ![m] = journal]
    /\ Goto(m, "stop") /\ Forget(m)
    /\ UNCHANGED <<cont, goal, cas, tok, op, cleanupOwned, durable, platform, drawn>>

\* Destroy by a caller, or the Destroy a Recover ends with.
Destroy(m) ==
    /\ pc[m] \in {"idle", "destroy"}
    /\ journal.state # "none"
    /\ \/ /\ journal.state \in TerminalStates
          /\ Forget(m) /\ ForgetCleanup(m) /\ Return(m)
       \/ /\ journal.state \notin TerminalStates \cup {"cleaning"}
          /\ Swap(m, Cleaning(journal), "after_claim")
          /\ UNCHANGED memory
       \/ /\ OwnsCleanup(m, journal)
          /\ rec' = [rec EXCEPT ![m] = journal]
          /\ Goto(m, "stop") /\ Forget(m)
          /\ UNCHANGED <<cont, goal, cas, tok, op, cleanupOwned>>
       \/ /\ pc[m] = "destroy"        \* claim lost, or the journal is unreadable
          /\ Return(m)
          /\ UNCHANGED memory
    /\ UNCHANGED <<durable, platform, drawn>>

\* The Cleaning claim of Destroy and of Recover.
AfterClaim(m) ==
    /\ pc[m] = "after_claim"
    /\ \/ /\ cas[m] = "ok"
          /\ cleanupOwned' = [cleanupOwned EXCEPT ![m] = rec[m].rev]
          /\ Forget(m)
          /\ Step(m, "stop")
       \/ /\ cas[m] # "ok"
          /\ Return(m)
          /\ UNCHANGED memory
    /\ UNCHANGED <<durable, platform, drawn>>

\* Mutant: Stop is called for a record that has no containment.
StopWithoutContainment(m) ==
    /\ pc[m] = "stop"
    /\ StopSucceeds(rec[m].fence) /\ Step(m, "check")
    /\ UNCHANGED <<durable, drawn, memory>>

\* Fence and stop the process boundary before consulting the workspace.
DestroyStop(m) ==
    /\ pc[m] = "stop"
    /\ LET next == IF rec[m].ref = "unset" THEN "quarantine"
                   ELSE IF rec[m].fence # NoToken THEN "finalize" ELSE "check"
       IN  \/ rec[m].fence = NoToken /\ UNCHANGED platform /\ Step(m, next)
           \/ /\ rec[m].fence # NoToken
              /\ \/ StopSucceeds(rec[m].fence) /\ Step(m, next)
                 \/ StopFails(rec[m].fence) /\ Drop(m, "quarantine")
    /\ UNCHANGED <<durable, drawn, memory>>

\* FinalizeCleanup: remove the exact workspace (or accept its absence) under a
\* revoked, empty fence, then publish the tombstone.  A replay after the
\* tombstone only rechecks absence.
FinalizeCleanup(m) ==
    /\ pc[m] = "finalize"
    /\ LET t == rec[m].fence
           canRemove == workspace \in {"own", "absent"} /\ t \notin finalized
           replayed  == workspace = "absent" /\ t \in finalized
       IN  \/ /\ replayed \/ (canRemove /\ t \in stopped /\ t \notin live)
              /\ workspace' = "absent"
              /\ finalized' = finalized \cup {t}
              /\ Swap(m, Released(rec[m]), "after_terminal")
           \/ /\ \/ UNCHANGED workspace
                 \/ canRemove /\ workspace' = "absent"
              /\ UNCHANGED finalized
              /\ Drop(m, "quarantine")
    /\ UNCHANGED <<journal, live, stopped, launched, revokedEver, drawn, memory>>

\* Without a containment the identity is observed first ...
CheckWorkspace(m) ==
    /\ pc[m] = "check"
    /\ \/ /\ workspace = "own"
          /\ Goto(m, "remove")
          /\ goal' = [goal EXCEPT ![m] = Released(rec[m])]
          /\ UNCHANGED <<cont, rec, cas, tok, op>>
       \/ Drop(m, "quarantine")
    /\ UNCHANGED <<durable, platform, drawn, memory>>

\* ... and the root removed in a second access; absence is not success.
RemoveRoot(m) ==
    /\ pc[m] = "remove"
    /\ \/ /\ workspace # "absent"
          /\ workspace' = "absent"
          /\ Goto(m, "cas")
          /\ cont' = [cont EXCEPT ![m] = "after_terminal"]
          /\ UNCHANGED <<goal, rec, cas, tok, op>>
       \/ workspace' \in {workspace, "absent"} /\ Drop(m, "quarantine")
    /\ UNCHANGED <<journal, platform, drawn, memory>>

---------------------------------------------------------------------------
(* commitCleanupTerminal *)

\* The terminal record is committed by this call, or by an equal commit.
TerminalCommitted(m, r) == r.rev > goal[m].rev /\ SameRecord(r, goal[m])

Committed(m) ==
    /\ ForgetCleanup(m)
    /\ UNCHANGED owned
    /\ IF goal[m].state = "released" /\ goal[m].fence # NoToken
         THEN Step(m, "gc") ELSE Return(m)

AfterTerminal(m) ==
    /\ pc[m] \in {"after_terminal", "after_terminal_retry"}
    /\ LET done == cas[m] = "ok" \/ TerminalCommitted(m, rec[m])
       IN  \/ done /\ Committed(m)
           \/ /\ ~done /\ UNCHANGED memory
              /\ IF pc[m] = "after_terminal" /\ cas[m] = "journal"
                   THEN Step(m, "terminal_reload") ELSE Return(m)
    /\ UNCHANGED <<durable, platform, drawn>>

\* A journal error is resolved by one reload and at most one retry.
TerminalReload(m) ==
    /\ pc[m] = "terminal_reload"
    /\ \/ SameRecord(journal, goal[m]) /\ Committed(m)
       \/ /\ ~SameRecord(journal, goal[m]) /\ OwnsCleanup(m, journal)
          /\ Swap(m, goal[m], "after_terminal_retry")
          /\ UNCHANGED memory
       \/ Return(m) /\ UNCHANGED memory
    /\ UNCHANGED <<durable, platform, drawn>>

\* garbageCollectCleanup drops the tombstone, and with it the durable fence.
GarbageCollect(m) ==
    /\ pc[m] = "gc"
    /\ LET t == rec[m].fence IN
       \/ /\ t \in finalized
          /\ finalized' = finalized \ {t}
          /\ stopped' = stopped \ {t}
       \/ UNCHANGED <<finalized, stopped>>
    /\ Return(m)
    /\ UNCHANGED <<durable, live, launched, revokedEver, drawn, memory>>

---------------------------------------------------------------------------
(* quarantine: CleanupFailed over whatever the journal now holds *)

Quarantine(m) ==
    /\ pc[m] = "quarantine"
    /\ Forget(m)
    /\ \/ journal.state = "cleanup_failed" /\ ForgetCleanup(m) /\ Return(m)
       \/ /\ journal.state # "cleanup_failed"
          /\ Swap(m, CleanupFailed(journal), "after_quarantine")
          /\ UNCHANGED cleanupOwned
       \/ Return(m) /\ UNCHANGED cleanupOwned      \* the journal is unreadable
    /\ UNCHANGED <<durable, platform, drawn>>

AfterQuarantine(m) ==
    /\ pc[m] = "after_quarantine"
    /\ \/ cas[m] = "ok" /\ ForgetCleanup(m)
       \/ cas[m] # "ok" /\ UNCHANGED cleanupOwned
    /\ Return(m)
    /\ UNCHANGED <<durable, platform, drawn, owned>>

---------------------------------------------------------------------------
(* Recover *)

\* Running is adopted only if the platform still proves workspace and fence.
Adoptable(seen) ==
    /\ journal.state = "running" /\ seen
    /\ journal.fence \notin stopped

\* Mutant: an interrupted Start is recovered as if it had never begun.
RecoverToPrepared(m) ==
    /\ pc[m] = "idle"
    /\ journal.state = "starting"
    /\ Swap(m, RolledBack(journal), "after_rollback")
    /\ UNCHANGED <<durable, platform, drawn, memory>>

Recover(m) ==
    /\ pc[m] = "idle"
    /\ journal.state \notin {"none", "prepared"}
    /\ \E seen \in BOOLEAN :
         /\ WorkspaceMatches(seen)
         /\ \/ /\ journal.state \in TerminalStates
               /\ Forget(m) /\ ForgetCleanup(m)
               /\ rec' = [rec EXCEPT ![m] = journal]
               /\ Goto(m, IF journal.state = "released" /\ journal.fence # NoToken
                            THEN "gc" ELSE "idle")
               /\ UNCHANGED <<cont, goal, cas, tok, op>>
            \/ /\ Adoptable(seen)
               /\ owned' = [owned EXCEPT ![m] = journal.rev]
               /\ UNCHANGED <<call, cleanupOwned>>
            \/ /\ journal.state \in {"preparing", "starting", "running"}
               /\ Swap(m, Cleaning(journal), "after_claim")
               /\ UNCHANGED memory
            \/ /\ journal.state = "cleaning"
               /\ cleanupOwned' = [cleanupOwned EXCEPT ![m] = journal.rev]
               /\ Drop(m, "destroy")
               /\ UNCHANGED owned
    /\ UNCHANGED <<durable, platform, drawn>>

---------------------------------------------------------------------------
(* Environment *)

\* The runner's descendant tree exits (job done, kill, host reboot).
ProcessExit(t) ==
    /\ t \in live
    /\ live' = live \ {t}
    /\ UNCHANGED <<durable, stopped, finalized, launched, revokedEver, drawn, call, memory>>

\* Something else now sits at the execution's RootName.
ReplaceWorkspace ==
    /\ workspace = "own"
    /\ workspace' = "foreign"
    /\ UNCHANGED <<journal, platform, drawn, call, memory>>

\* The Agent process dies; a new one starts with empty ownership maps.
Crash(m) ==
    /\ pc[m] # "idle" \/ owned[m] # 0 \/ cleanupOwned[m] # 0
    /\ Return(m) /\ Forget(m) /\ ForgetCleanup(m)
    /\ UNCHANGED <<durable, platform, drawn>>

---------------------------------------------------------------------------
Init ==
    /\ journal = NoRecord
    /\ workspace = "absent"
    /\ live = {} /\ stopped = {} /\ finalized = {}
    /\ drawn = {} /\ launched = {} /\ revokedEver = {}
    /\ pc = [m \in Managers |-> "idle"]
    /\ cont = [m \in Managers |-> "idle"]
    /\ goal = [m \in Managers |-> NoRecord]
    /\ rec = [m \in Managers |-> NoRecord]
    /\ cas = [m \in Managers |-> "ok"]
    /\ tok = [m \in Managers |-> NoToken]
    /\ op = [m \in Managers |-> "prepare"]
    /\ owned = [m \in Managers |-> 0]
    /\ cleanupOwned = [m \in Managers |-> 0]

\* One access of the call manager m is executing.
CallStep(m) ==
    \/ CasAnswer(m) \/ CasError(m) \/ CasReload(m)
    \/ Create(m) \/ MakeExecutionRoot(m) \/ PrepareWorkspace(m)
    \/ FailPreparation(m) \/ AfterPrepared(m) \/ AfterFailedPreparation(m)
    \/ ClaimStarting(m) \/ AfterStarting(m) \/ DeliverJIT(m) \/ SupervisorStart(m)
    \/ StopOwnStart(m) \/ AfterRollback(m) \/ AfterRunning(m)
    \/ AfterFailClaim(m) \/ FailCheck(m)
    \/ AfterClaim(m) \/ DestroyStop(m) \/ FinalizeCleanup(m)
    \/ CheckWorkspace(m) \/ RemoveRoot(m)
    \/ AfterTerminal(m) \/ TerminalReload(m) \/ GarbageCollect(m)
    \/ Quarantine(m) \/ AfterQuarantine(m)

Next ==
    \/ \E m \in Managers :
         EnsurePrepared(m) \/ Destroy(m) \/ Recover(m) \/ CallStep(m) \/ Crash(m)
    \/ \E t \in Tokens : ProcessExit(t)
    \/ ReplaceWorkspace

Spec == Init /\ [][Next]_vars

---------------------------------------------------------------------------
(* Properties *)

\* The durable record and the platform state have their types.
StateTypeOK ==
    /\ journal \in Record
    /\ workspace \in {"absent", "bare", "own", "foreign"}
    /\ live \subseteq Tokens /\ stopped \subseteq Tokens
    /\ finalized \subseteq Tokens /\ drawn \subseteq Tokens
    /\ launched \subseteq Tokens /\ revokedEver \subseteq Tokens

\* The locals of every call in progress have their types.
CallTypeOK ==
    /\ pc \in [Managers -> Labels]
    /\ cont \in [Managers -> Labels]
    /\ goal \in [Managers -> Record]
    /\ rec \in [Managers -> Record]
    /\ cas \in [Managers -> {"ok", "journal", "reconciliation"}]
    /\ tok \in [Managers -> Tokens \cup {NoToken}]
    /\ op \in [Managers -> {"prepare", "run"}]

\* The ownership maps of every Manager hold revisions.
MemoryTypeOK ==
    /\ owned \in [Managers -> Nat]
    /\ cleanupOwned \in [Managers -> Nat]

\* Type correctness of the journal record, the platform and the call state.
TypeOK == StateTypeOK /\ CallTypeOK /\ MemoryTypeOK

\* A running process always belongs to the containment token of the durable
\* record, and that record still owes its teardown: the journal never says
\* prepared, released or failed while a runner is alive (EnsureRunning's
\* failure paths, Destroy's stop before delete, quarantine).
LiveIsJournaled ==
    \A t \in live :
        /\ journal.fence = t
        /\ journal.state \in {"starting", "running", "cleaning", "cleanup_failed"}

\* The one-job JIT config reaches at most one Start of an execution, however
\* many Managers, crashes and ambiguous journal writes happen ("journal records
\* make replays safe across manager recreation").
AtMostOneLaunch == \A s, t \in launched : s = t

\* Released and Failed are only committed over an empty boundary and a removed
\* workspace: capacity is never handed back over a live runner or credentials.
TerminalIsClean ==
    journal.state \in {"released", "failed"} => live = {} /\ workspace = "absent"

\* Once a JIT config was delivered its root can hold credentials, so the
\* journal never again offers that workspace as preparing or prepared.
CredentialsNeverReoffered ==
    launched # {} => journal.state \notin {"none", "preparing", "prepared"}

\* Destroy and failStartedExecution persist the Cleaning intent before the
\* first destructive access: an identified workspace only disappears while the
\* journal already refuses to admit it.
IntentBeforeRemoval ==
    [][workspace = "own" /\ workspace' = "absent"
         => journal.state \in {"cleaning"} \cup TerminalStates]_vars

\* After Stop succeeded for a token no Start carrying it creates a process,
\* even once garbage collection has dropped the durable fence.
NoStartAfterStop ==
    [][\A t \in revokedEver : t \in live' => t \in live]_vars

\* A lifecycle verdict is never taken back: Released or Failed can only be
\* downgraded to the quarantine, and the quarantine is final.
VerdictStands ==
    [][/\ journal.state = "cleanup_failed" => journal' = journal
       /\ journal.state \in {"released", "failed"} =>
             journal' = journal \/ journal'.state = "cleanup_failed"]_vars

\* RunnerLifecycle over the durable record and the processes of the platform.
Lifecycle == INSTANCE RunnerLifecycle
    WITH record  <- journal.state,
         rooted  <- (journal.ref = "set"),
         live    <- (live # {}),
         started <- (launched # {})

\* What the Manager promises of one execution is RunnerLifecycle: whatever
\* interleaves, every step of the journal and of the processes is one of its
\* moves or invisible to it.
LifecycleSpec == Lifecycle!Spec

\* Teardown is ordered and final: the intent is durable before anything is removed,
\* a stopped token starts nothing, and a verdict is not taken back (Destroy, Recover,
\* quarantine).
TeardownIsFinal == IntentBeforeRemoval /\ NoStartAfterStop /\ VerdictStands

\* The journal covers what the platform holds: no process without a record that owes
\* its teardown, nothing left under a record that says clean.
JournalCoversRunner == LiveIsJournaled /\ TerminalIsClean

\* The one-time JIT configuration is spent once and its root never offered again
\* (EnsureRunning, Recover).
ConfigurationSpentOnce == AtMostOneLaunch /\ CredentialsNeverReoffered

===========================================================================
