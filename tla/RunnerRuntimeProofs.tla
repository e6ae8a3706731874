------------------------ MODULE RunnerRuntimeProofs ------------------------
(***************************************************************************)
(* Machine-checked facts about RunnerRuntime, for any set of Managers and  *)
(* of fence tokens.                                                        *)
(***************************************************************************)
EXTENDS RunnerRuntime, TLAPS

USE DEF durable, platform, memory, call

---------------------------------------------------------------------------
(* From the draw of its token until it gives the claim up, an EnsureRunning *)
(* call knows the containment token of its Start.                           *)

StartLabels == StopLabels \cup
    {"after_starting", "deliver", "start", "after_rollback", "after_unstarted",
     "after_running", "after_fail_claim"}

TokenHeld ==
    \A m \in Managers :
        pc[m] \in StartLabels \/ cont[m] \in StartLabels => tok[m] \in Tokens

---------------------------------------------------------------------------
(* Records *)

\* The fields of a journal record (runner.Record) have their types.
LEMMA RecordFields ==
  ASSUME NEW r \in Record
  PROVE  /\ r.state \in States /\ r.rev \in Nat /\ r.ref \in {"unset", "set"}
         /\ r.fence \in Tokens \cup {NoToken} /\ r.pid \in {0, 1}
         /\ r.writer \in Writers
  BY DEF Record

\* The absent record that load reports as not found has no revision, workspace
\* or token.
LEMMA NoRecordFields ==
  /\ NoRecord \in Record /\ NoRecord.state = "none" /\ NoRecord.rev = 0
  /\ NoRecord.ref = "unset" /\ NoRecord.fence = NoToken /\ NoRecord.pid = 0
  BY DEF NoRecord, Record, States, Writers

\* The Preparing record that create inserts is a record at revision 1.
LEMMA CreatedFields ==
  ASSUME NEW m \in Managers
  PROVE  /\ Created(m) \in Record /\ Created(m).state = "preparing" /\ Created(m).rev = 1
         /\ Created(m).ref = "unset" /\ Created(m).fence = NoToken /\ Created(m).pid = 0
  BY DEF Created, Record, NoRecord, States, Writers

\* The candidate of EnsurePrepared adds the WorkspaceRef.
LEMMA PreparedFields ==
  ASSUME NEW r \in Record
  PROVE  /\ Prepared(r) \in Record /\ Prepared(r).state = "prepared"
         /\ Prepared(r).rev = r.rev /\ Prepared(r).ref = "set"
         /\ Prepared(r).fence = r.fence /\ Prepared(r).pid = r.pid
  BY DEF Prepared, Record, States, ActiveStates

\* The Failed candidate of EnsurePrepared changes nothing but the state.
LEMMA FailedPreparationFields ==
  ASSUME NEW r \in Record
  PROVE  /\ FailedPreparation(r) \in Record /\ FailedPreparation(r).state = "failed"
         /\ FailedPreparation(r).rev = r.rev /\ FailedPreparation(r).ref = r.ref
         /\ FailedPreparation(r).fence = r.fence /\ FailedPreparation(r).pid = r.pid
  BY DEF FailedPreparation, Record, States, TerminalStates

\* The candidate of the Starting claim adds the start token.
LEMMA StartingFields ==
  ASSUME NEW r \in Record, NEW t \in Tokens
  PROVE  /\ Starting(r, t) \in Record /\ Starting(r, t).state = "starting"
         /\ Starting(r, t).rev = r.rev /\ Starting(r, t).ref = r.ref
         /\ Starting(r, t).fence = t /\ Starting(r, t).pid = r.pid
  BY DEF Starting, Record, States, ActiveStates

\* The rollback of a Start that never began forgets the token.
LEMMA RolledBackFields ==
  ASSUME NEW r \in Record
  PROVE  /\ RolledBack(r) \in Record /\ RolledBack(r).state = "prepared"
         /\ RolledBack(r).rev = r.rev /\ RolledBack(r).ref = r.ref
         /\ RolledBack(r).fence = NoToken /\ RolledBack(r).pid = 0
  BY DEF RolledBack, Record, States, ActiveStates

\* The candidate of the Running commit adds the process identity.
LEMMA RunningFields ==
  ASSUME NEW r \in Record
  PROVE  /\ Running(r) \in Record /\ Running(r).state = "running"
         /\ Running(r).rev = r.rev /\ Running(r).ref = r.ref
         /\ Running(r).fence = r.fence /\ Running(r).pid = 1
  BY DEF Running, Record, States, ActiveStates

\* The Cleaning claim changes nothing but the state.
LEMMA CleaningFields ==
  ASSUME NEW r \in Record
  PROVE  /\ Cleaning(r) \in Record /\ Cleaning(r).state = "cleaning"
         /\ Cleaning(r).rev = r.rev /\ Cleaning(r).ref = r.ref
         /\ Cleaning(r).fence = r.fence /\ Cleaning(r).pid = r.pid
  BY DEF Cleaning, Record, States

\* The Released candidate keeps workspace and token and forgets the process.
LEMMA ReleasedFields ==
  ASSUME NEW r \in Record
  PROVE  /\ Released(r) \in Record /\ Released(r).state = "released"
         /\ Released(r).rev = r.rev /\ Released(r).ref = r.ref
         /\ Released(r).fence = r.fence /\ Released(r).pid = 0
  BY DEF Released, Record, States, TerminalStates

\* The Failed candidate of a Start forgets workspace, token and process.
LEMMA FailedStartFields ==
  ASSUME NEW r \in Record
  PROVE  /\ FailedStart(r) \in Record /\ FailedStart(r).state = "failed"
         /\ FailedStart(r).rev = r.rev /\ FailedStart(r).ref = "unset"
         /\ FailedStart(r).fence = NoToken /\ FailedStart(r).pid = 0
  BY DEF FailedStart, Record, States, TerminalStates

\* The quarantine changes nothing but the state.
LEMMA CleanupFailedFields ==
  ASSUME NEW r \in Record
  PROVE  /\ CleanupFailed(r) \in Record /\ CleanupFailed(r).state = "cleanup_failed"
         /\ CleanupFailed(r).rev = r.rev /\ CleanupFailed(r).ref = r.ref
         /\ CleanupFailed(r).fence = r.fence /\ CleanupFailed(r).pid = r.pid
  BY DEF CleanupFailed, Record, States, TerminalStates

\* What CompareAndSwap stores is a record at the next revision.
LEMMA WrittenFields ==
  ASSUME NEW m \in Managers, goal[m] \in Record
  PROVE  /\ Written(m) \in Record /\ Written(m).state = goal[m].state
         /\ Written(m).rev = goal[m].rev + 1 /\ Written(m).ref = goal[m].ref
         /\ Written(m).fence = goal[m].fence /\ Written(m).pid = goal[m].pid
<1>1. goal[m].rev + 1 \in Nat
  BY DEF Record
<1>2. m \in Writers
  BY DEF Writers
<1> QED
  BY <1>1, <1>2 DEF Written, Record

---------------------------------------------------------------------------
(* The control operators keep the call variables typed *)

\* A step that only moves the program counter keeps the call typed.
LEMMA StepType ==
  ASSUME CallTypeOK, NEW m \in Managers, NEW l \in Labels, Step(m, l)
  PROVE  CallTypeOK'
  BY DEF CallTypeOK, Step, Goto

\* A step that forgets the locals of the call keeps it typed.
LEMMA DropType ==
  ASSUME CallTypeOK, NEW m \in Managers, NEW l \in Labels, Drop(m, l)
  PROVE  CallTypeOK'
  BY NoRecordFields DEF CallTypeOK, Drop, Goto, Labels

\* A step that enters compareAndSwap with a record keeps the call typed.
LEMMA SwapType ==
  ASSUME CallTypeOK, NEW m \in Managers, NEW c \in Record, NEW k \in Labels,
         Swap(m, c, k)
  PROVE  CallTypeOK'
  BY DEF CallTypeOK, Swap, Goto, Labels

---------------------------------------------------------------------------
(***************************************************************************)
(* Every step keeps the types of the journal, of the platform state and of *)
(* the calls in progress.                                                  *)
(***************************************************************************)
LEMMA TypeStep == TypeOK /\ TokenHeld /\ [Next]_vars => TypeOK'
<1> SUFFICES ASSUME TypeOK, TokenHeld, [Next]_vars PROVE TypeOK'
  OBVIOUS
<1> USE DEF TypeOK, StateTypeOK, MemoryTypeOK
<1>a. /\ journal \in Record
      /\ \A m \in Managers : rec[m] \in Record /\ goal[m] \in Record
      /\ \A m \in Managers : tok[m] \in Tokens \cup {NoToken} /\ cont[m] \in Labels
  BY DEF CallTypeOK
<1>1. ASSUME NEW m \in Managers, EnsurePrepared(m) PROVE TypeOK'
  BY <1>1, <1>a
     DEF EnsurePrepared, WorkspaceMatches, CallTypeOK, Goto, Labels
<1>2. ASSUME NEW m \in Managers, Destroy(m) PROVE TypeOK'
  <2>1. Cleaning(journal) \in Record
    BY <1>a, CleaningFields
  <2>2. StateTypeOK' /\ MemoryTypeOK'
    BY <1>2, <1>a, <2>1 DEF Destroy, Forget, ForgetCleanup, Return, OwnsCleanup
  <2>3. ASSUME Return(m) PROVE CallTypeOK'
    BY <2>3, DropType DEF Return, Labels
  <2>4. ASSUME Swap(m, Cleaning(journal), "after_claim") PROVE CallTypeOK'
    BY <2>1, <2>4, SwapType DEF Labels
  <2>5. ASSUME Goto(m, "stop"), rec' = [rec EXCEPT ![m] = journal],
               UNCHANGED <<cont, goal, cas, tok, op>>
        PROVE  CallTypeOK'
    BY <1>a, <2>5 DEF CallTypeOK, Goto, Labels
  <2>6. CallTypeOK'
    BY <1>2, <2>3, <2>4, <2>5 DEF Destroy
  <2> QED
    BY <2>2, <2>6
<1>3. ASSUME NEW m \in Managers, Recover(m) PROVE TypeOK'
  <2>1. Cleaning(journal) \in Record /\ journal.rev \in Nat
    BY <1>a, CleaningFields, RecordFields
  <2>2. StateTypeOK' /\ MemoryTypeOK'
    BY <1>3, <1>a, <2>1 DEF Recover, WorkspaceMatches, Forget, ForgetCleanup, Adoptable
  <2>3. ASSUME Drop(m, "destroy") PROVE CallTypeOK'
    BY <2>3, DropType DEF Labels
  <2>4. ASSUME Swap(m, Cleaning(journal), "after_claim") PROVE CallTypeOK'
    BY <2>1, <2>4, SwapType DEF Labels
  <2>5. ASSUME UNCHANGED call PROVE CallTypeOK'
    BY <2>5 DEF CallTypeOK
  <2>6. ASSUME NEW l \in {"gc", "idle"}, Goto(m, l),
               rec' = [rec EXCEPT ![m] = journal],
               UNCHANGED <<cont, goal, cas, tok, op>>
        PROVE  CallTypeOK'
    BY <1>a, <2>6 DEF CallTypeOK, Goto, Labels
  <2>7. CallTypeOK'
    BY <1>3, <2>3, <2>4, <2>5, <2>6 DEF Recover
  <2> QED
    BY <2>2, <2>7
<1>4. ASSUME NEW m \in Managers, Crash(m) PROVE TypeOK'
  BY <1>4, <1>a, DropType
     DEF Crash, Return, Forget, ForgetCleanup, Labels
<1>5. ASSUME NEW m \in Managers, CasAnswer(m) PROVE TypeOK'
  <2>1. Written(m) \in Record
    BY <1>a, WrittenFields
  <2>2. StateTypeOK' /\ MemoryTypeOK'
    BY <1>5, <1>a, <2>1 DEF CasAnswer
  <2>3. PICK r \in Record, c \in {"ok", "reconciliation"} :
          rec' = [rec EXCEPT ![m] = r] /\ cas' = [cas EXCEPT ![m] = c]
    BY <1>5, <1>a, <2>1 DEF CasAnswer
  <2>4. Goto(m, cont[m]) /\ UNCHANGED <<cont, goal, tok, op>>
    BY <1>5 DEF CasAnswer
  <2>5. CallTypeOK'
    BY <1>a, <2>3, <2>4 DEF CallTypeOK, Goto
  <2> QED
    BY <2>2, <2>5
<1>6. ASSUME NEW m \in Managers, CasError(m) PROVE TypeOK'
  BY <1>6, <1>a, WrittenFields
     DEF CasError, CallTypeOK, Goto, Labels
<1>7. ASSUME NEW m \in Managers, CasReload(m) PROVE TypeOK'
  BY <1>7, <1>a
     DEF CasReload, ReloadResult, SameRecord, CallTypeOK, Goto, Labels
<1>8. ASSUME NEW m \in Managers, Create(m) PROVE TypeOK'
  <2>1. Created(m) \in Record
    BY CreatedFields
  <2>2. StateTypeOK' /\ MemoryTypeOK'
    BY <1>8, <1>a, <2>1 DEF Create, Return
  <2>3. CallTypeOK'
    BY <1>8, <1>a, <2>1, DropType
       DEF Create, Return, CallTypeOK, Goto, Labels
  <2> QED
    BY <2>2, <2>3
<1>9. ASSUME NEW m \in Managers, MakeExecutionRoot(m) PROVE TypeOK'
  BY <1>9, <1>a, StepType, DropType
     DEF MakeExecutionRoot, Labels
<1>10. ASSUME NEW m \in Managers, PrepareWorkspace(m) PROVE TypeOK'
  BY <1>10, <1>a, PreparedFields, StepType, SwapType
     DEF PrepareWorkspace, Labels
<1>11. ASSUME NEW m \in Managers, FailPreparation(m) PROVE TypeOK'
  BY <1>11, <1>a, FailedPreparationFields, DropType, SwapType
     DEF FailPreparation, Labels
<1>12. ASSUME NEW m \in Managers, AfterPrepared(m) PROVE TypeOK'
  BY <1>12, <1>a, DropType
     DEF AfterPrepared, Labels
<1>13. ASSUME NEW m \in Managers, AfterFailedPreparation(m) PROVE TypeOK'
  BY <1>13, <1>a, DropType
     DEF AfterFailedPreparation, Return, Labels
<1>14. ASSUME NEW m \in Managers, ClaimStarting(m) PROVE TypeOK'
  <2>1. \A t \in Tokens : Starting(journal, t) \in Record
    BY <1>a, StartingFields
  <2>2. StateTypeOK' /\ MemoryTypeOK'
    BY <1>14, <1>a, <2>1 DEF ClaimStarting, Return
  <2>3. ASSUME Return(m) PROVE CallTypeOK'
    BY <2>3, DropType DEF Return, Labels
  <2>4. ASSUME NEW t \in Tokens,
               tok' = [tok EXCEPT ![m] = t],
               goal' = [goal EXCEPT ![m] = Starting(journal, t)],
               Goto(m, "cas"), cont' = [cont EXCEPT ![m] = "after_starting"],
               UNCHANGED <<rec, cas, op>>
        PROVE  CallTypeOK'
    BY <2>1, <2>4 DEF CallTypeOK, Goto, Labels
  <2>5. CallTypeOK'
    BY <1>14, <2>3, <2>4 DEF ClaimStarting
  <2> QED
    BY <2>2, <2>5
<1>15. ASSUME NEW m \in Managers, AfterStarting(m) PROVE TypeOK'
  BY <1>15, <1>a, StepType, DropType
     DEF AfterStarting, Return, Labels
<1>16. ASSUME NEW m \in Managers, DeliverJIT(m) PROVE TypeOK'
  BY <1>16, <1>a, StepType, DropType
     DEF DeliverJIT, Labels
<1>17. ASSUME NEW m \in Managers, SupervisorStart(m) PROVE TypeOK'
  <2>0. tok[m] \in Tokens
    BY <1>17 DEF TokenHeld, StartLabels, StopLabels, SupervisorStart
  <2>1. Running(rec[m]) \in Record
    BY <1>a, RunningFields
  <2>2. StateTypeOK' /\ MemoryTypeOK'
    BY <1>17, <1>a, <2>0 DEF SupervisorStart
  <2>3. CallTypeOK'
    BY <1>17, <1>a, <2>1, StepType, SwapType
       DEF SupervisorStart, Labels
  <2> QED
    BY <2>2, <2>3
<1>18. ASSUME NEW m \in Managers, StopOwnStart(m) PROVE TypeOK'
  <2>0. tok[m] \in Tokens
    BY <1>18 DEF TokenHeld, StartLabels, StopLabels, StopOwnStart
  <2>1. Cleaning(rec[m]) \in Record /\ RolledBack(rec[m]) \in Record
    BY <1>a, CleaningFields, RolledBackFields
  <2>2. StateTypeOK' /\ MemoryTypeOK'
    BY <1>18, <1>a, <2>0 DEF StopOwnStart, StopFails, StopSucceeds
  <2>3. CallTypeOK'
    BY <1>18, <1>a, <2>1, DropType, SwapType
       DEF StopOwnStart, StopFails, StopSucceeds, Return, SameStartedRuntime, Labels
  <2> QED
    BY <2>2, <2>3
<1>19. ASSUME NEW m \in Managers, AfterRollback(m) PROVE TypeOK'
  BY <1>19, <1>a, DropType
     DEF AfterRollback, Labels
<1>20. ASSUME NEW m \in Managers, AfterRunning(m) PROVE TypeOK'
  BY <1>20, <1>a, StepType, DropType, RecordFields
     DEF AfterRunning, Return, Labels
<1>21. ASSUME NEW m \in Managers, AfterFailClaim(m) PROVE TypeOK'
  <2>1. Cleaning(rec[m]) \in Record /\ rec[m].rev \in Nat
    BY <1>a, CleaningFields, RecordFields
  <2>2. StateTypeOK' /\ MemoryTypeOK'
    BY <1>21, <1>a, <2>1 DEF AfterFailClaim, Forget, SameStartedRuntime, Return
  <2>3. CallTypeOK'
    BY <1>21, <1>a, <2>1, StepType, DropType, SwapType
       DEF AfterFailClaim, Forget, SameStartedRuntime, Return, Labels
  <2> QED
    BY <2>2, <2>3
<1>22. ASSUME NEW m \in Managers, FailCheck(m) PROVE TypeOK'
  <2>1. FailedStart(rec[m]) \in Record
    BY <1>a, FailedStartFields
  <2>2. StateTypeOK' /\ MemoryTypeOK'
    BY <1>22, <1>a, <2>1 DEF FailCheck
  <2>3. CallTypeOK'
    BY <1>22, <1>a, <2>1, DropType
       DEF FailCheck, CallTypeOK, Goto, Labels
  <2> QED
    BY <2>2, <2>3
<1>23. ASSUME NEW m \in Managers, AfterClaim(m) PROVE TypeOK'
  BY <1>23, <1>a, StepType, DropType, RecordFields
     DEF AfterClaim, Forget, Return, Labels
<1>24. ASSUME NEW m \in Managers, DestroyStop(m) PROVE TypeOK'
  BY <1>24, <1>a, StepType, DropType, RecordFields
     DEF DestroyStop, StopSucceeds, StopFails, Labels
<1>25. ASSUME NEW m \in Managers, FinalizeCleanup(m) PROVE TypeOK'
  BY <1>25, <1>a, ReleasedFields, DropType, SwapType, RecordFields
     DEF FinalizeCleanup, Labels
<1>26. ASSUME NEW m \in Managers, CheckWorkspace(m) PROVE TypeOK'
  <2>1. Released(rec[m]) \in Record
    BY <1>a, ReleasedFields
  <2>2. StateTypeOK' /\ MemoryTypeOK'
    BY <1>26, <1>a, <2>1 DEF CheckWorkspace
  <2>3. CallTypeOK'
    BY <1>26, <1>a, <2>1, DropType
       DEF CheckWorkspace, CallTypeOK, Goto, Labels
  <2> QED
    BY <2>2, <2>3
<1>27. ASSUME NEW m \in Managers, RemoveRoot(m) PROVE TypeOK'
  BY <1>27, <1>a, DropType
     DEF RemoveRoot, CallTypeOK, Goto, Labels
<1>28. ASSUME NEW m \in Managers, AfterTerminal(m) PROVE TypeOK'
  BY <1>28, <1>a, StepType, DropType
     DEF AfterTerminal, TerminalCommitted, SameRecord, Committed, ForgetCleanup, Return, Labels
<1>29. ASSUME NEW m \in Managers, TerminalReload(m) PROVE TypeOK'
  BY <1>29, <1>a, StepType, DropType, SwapType
     DEF TerminalReload, SameRecord, Committed, ForgetCleanup, Return, OwnsCleanup, Labels
<1>30. ASSUME NEW m \in Managers, GarbageCollect(m) PROVE TypeOK'
  BY <1>30, <1>a, DropType
     DEF GarbageCollect, Return, Labels
<1>31. ASSUME NEW m \in Managers, Quarantine(m) PROVE TypeOK'
  <2>1. CleanupFailed(journal) \in Record
    BY <1>a, CleanupFailedFields
  <2>2. StateTypeOK' /\ MemoryTypeOK'
    BY <1>31, <1>a, <2>1 DEF Quarantine, Forget, ForgetCleanup, Return
  <2>3. CallTypeOK'
    BY <1>31, <1>a, <2>1, DropType, SwapType
       DEF Quarantine, Forget, ForgetCleanup, Return, Labels
  <2> QED
    BY <2>2, <2>3
<1>32. ASSUME NEW m \in Managers, AfterQuarantine(m) PROVE TypeOK'
  BY <1>32, <1>a, DropType
     DEF AfterQuarantine, ForgetCleanup, Return, Labels
<1>33. ASSUME NEW t \in Tokens, ProcessExit(t) PROVE TypeOK'
  BY <1>33 DEF ProcessExit, CallTypeOK
<1>34. CASE ReplaceWorkspace
  BY <1>34 DEF ReplaceWorkspace, CallTypeOK
<1>35. CASE UNCHANGED vars
  BY <1>35 DEF vars, CallTypeOK
<1> QED
  BY <1>1, <1>2, <1>3, <1>4, <1>5, <1>6, <1>7, <1>8, <1>9, <1>10, <1>11, <1>12,
     <1>13, <1>14, <1>15, <1>16, <1>17, <1>18, <1>19, <1>20, <1>21, <1>22, <1>23,
     <1>24, <1>25, <1>26, <1>27, <1>28, <1>29, <1>30, <1>31, <1>32, <1>33, <1>34,
     <1>35
     DEF Next, CallStep

\* Moving the program counter keeps the token of a call that needs one.
LEMMA HeldAfterStep ==
  ASSUME CallTypeOK, TokenHeld, NEW m \in Managers, NEW l \in Labels, Step(m, l),
         l \in StartLabels => tok[m] \in Tokens
  PROVE  TokenHeld'
  BY DEF CallTypeOK, TokenHeld, Step, Goto

\* A call that forgets its locals does not go on to Start or Stop a token.
LEMMA HeldAfterDrop ==
  ASSUME CallTypeOK, TokenHeld, NEW m \in Managers, NEW l \in Labels \ StartLabels,
         Drop(m, l)
  PROVE  TokenHeld'
  BY DEF CallTypeOK, TokenHeld, Drop, Goto, StartLabels, StopLabels

\* Entering compareAndSwap keeps the token for the continuation.
LEMMA HeldAfterSwap ==
  ASSUME CallTypeOK, TokenHeld, NEW m \in Managers, NEW c, NEW k \in Labels,
         Swap(m, c, k), k \in StartLabels => tok[m] \in Tokens
  PROVE  TokenHeld'
  BY DEF CallTypeOK, TokenHeld, Swap, Goto, StartLabels, StopLabels

(***************************************************************************)
(* A call that reaches Start or Stop still knows its token.                *)
(***************************************************************************)
LEMMA HeldStep == TypeOK /\ TokenHeld /\ [Next]_vars => TokenHeld'
<1> SUFFICES ASSUME TypeOK, TokenHeld, [Next]_vars PROVE TokenHeld'
  OBVIOUS
<1> USE DEF TypeOK
<1>1. ASSUME NEW m \in Managers, EnsurePrepared(m) PROVE TokenHeld'
  BY <1>1
     DEF EnsurePrepared, Labels, StartLabels, StopLabels, Goto, CallTypeOK, TokenHeld
<1>2. ASSUME NEW m \in Managers, Destroy(m) PROVE TokenHeld'
  BY <1>2, HeldAfterDrop, HeldAfterSwap
     DEF Destroy, Return, Labels, StartLabels, StopLabels, Goto, CallTypeOK, TokenHeld
<1>3. ASSUME NEW m \in Managers, Recover(m) PROVE TokenHeld'
  BY <1>3, HeldAfterDrop, HeldAfterSwap
     DEF Recover, Labels, StartLabels, StopLabels, Goto, CallTypeOK, TokenHeld
<1>4. ASSUME NEW m \in Managers, Crash(m) PROVE TokenHeld'
  BY <1>4, HeldAfterDrop
     DEF Crash, Return, Labels, StartLabels, StopLabels, TokenHeld
<1>5. ASSUME NEW m \in Managers, CasAnswer(m) PROVE TokenHeld'
  BY <1>5
     DEF CasAnswer, Labels, StartLabels, StopLabels, Goto, CallTypeOK, TokenHeld
<1>6. ASSUME NEW m \in Managers, CasError(m) PROVE TokenHeld'
  BY <1>6
     DEF CasError, Labels, StartLabels, StopLabels, Goto, CallTypeOK, TokenHeld
<1>7. ASSUME NEW m \in Managers, CasReload(m) PROVE TokenHeld'
  BY <1>7
     DEF CasReload, Labels, StartLabels, StopLabels, Goto, CallTypeOK, TokenHeld
<1>8. ASSUME NEW m \in Managers, Create(m) PROVE TokenHeld'
  BY <1>8, HeldAfterDrop
     DEF Create, Return, Labels, StartLabels, StopLabels, Goto, CallTypeOK, TokenHeld
<1>9. ASSUME NEW m \in Managers, MakeExecutionRoot(m) PROVE TokenHeld'
  BY <1>9, HeldAfterStep, HeldAfterDrop
     DEF MakeExecutionRoot, Labels, StartLabels, StopLabels, TokenHeld
<1>10. ASSUME NEW m \in Managers, PrepareWorkspace(m) PROVE TokenHeld'
  BY <1>10, HeldAfterStep, HeldAfterSwap
     DEF PrepareWorkspace, Labels, StartLabels, StopLabels, TokenHeld
<1>11. ASSUME NEW m \in Managers, FailPreparation(m) PROVE TokenHeld'
  BY <1>11, HeldAfterDrop, HeldAfterSwap
     DEF FailPreparation, Labels, StartLabels, StopLabels, TokenHeld
<1>12. ASSUME NEW m \in Managers, AfterPrepared(m) PROVE TokenHeld'
  BY <1>12, HeldAfterDrop
     DEF AfterPrepared, Labels, StartLabels, StopLabels, TokenHeld
<1>13. ASSUME NEW m \in Managers, AfterFailedPreparation(m) PROVE TokenHeld'
  BY <1>13, HeldAfterDrop
     DEF AfterFailedPreparation, Return, Labels, StartLabels, StopLabels, TokenHeld
<1>14. ASSUME NEW m \in Managers, ClaimStarting(m) PROVE TokenHeld'
  BY <1>14, HeldAfterDrop
     DEF ClaimStarting, Return, Labels, StartLabels, StopLabels, Goto, CallTypeOK, TokenHeld
<1>15. ASSUME NEW m \in Managers, AfterStarting(m) PROVE TokenHeld'
  BY <1>15, HeldAfterStep, HeldAfterDrop
     DEF AfterStarting, Return, Labels, StartLabels, StopLabels, TokenHeld
<1>16. ASSUME NEW m \in Managers, DeliverJIT(m) PROVE TokenHeld'
  BY <1>16, HeldAfterStep
     DEF DeliverJIT, Labels, StartLabels, StopLabels, TokenHeld
<1>17. ASSUME NEW m \in Managers, SupervisorStart(m) PROVE TokenHeld'
  BY <1>17, HeldAfterStep, HeldAfterSwap
     DEF SupervisorStart, Labels, StartLabels, StopLabels, TokenHeld
<1>18. ASSUME NEW m \in Managers, StopOwnStart(m) PROVE TokenHeld'
  BY <1>18, HeldAfterDrop, HeldAfterSwap
     DEF StopOwnStart, Return, Labels, StartLabels, StopLabels, TokenHeld
<1>19. ASSUME NEW m \in Managers, AfterRollback(m) PROVE TokenHeld'
  BY <1>19, HeldAfterDrop
     DEF AfterRollback, Labels, StartLabels, StopLabels, TokenHeld
<1>20. ASSUME NEW m \in Managers, AfterRunning(m) PROVE TokenHeld'
  BY <1>20, HeldAfterStep, HeldAfterDrop
     DEF AfterRunning, Return, Labels, StartLabels, StopLabels, TokenHeld
<1>21. ASSUME NEW m \in Managers, AfterFailClaim(m) PROVE TokenHeld'
  BY <1>21, HeldAfterStep, HeldAfterDrop, HeldAfterSwap
     DEF AfterFailClaim, Return, Labels, StartLabels, StopLabels, TokenHeld
<1>22. ASSUME NEW m \in Managers, FailCheck(m) PROVE TokenHeld'
  BY <1>22, HeldAfterDrop
     DEF FailCheck, Labels, StartLabels, StopLabels, Goto, CallTypeOK, TokenHeld
<1>23. ASSUME NEW m \in Managers, AfterClaim(m) PROVE TokenHeld'
  BY <1>23, HeldAfterStep, HeldAfterDrop
     DEF AfterClaim, Return, Labels, StartLabels, StopLabels, TokenHeld
<1>24. ASSUME NEW m \in Managers, DestroyStop(m) PROVE TokenHeld'
  BY <1>24, HeldAfterStep, HeldAfterDrop
     DEF DestroyStop, Labels, StartLabels, StopLabels, TokenHeld
<1>25. ASSUME NEW m \in Managers, FinalizeCleanup(m) PROVE TokenHeld'
  BY <1>25, HeldAfterDrop, HeldAfterSwap
     DEF FinalizeCleanup, Labels, StartLabels, StopLabels, TokenHeld
<1>26. ASSUME NEW m \in Managers, CheckWorkspace(m) PROVE TokenHeld'
  BY <1>26, HeldAfterDrop
     DEF CheckWorkspace, Labels, StartLabels, StopLabels, Goto, CallTypeOK, TokenHeld
<1>27. ASSUME NEW m \in Managers, RemoveRoot(m) PROVE TokenHeld'
  BY <1>27, HeldAfterDrop
     DEF RemoveRoot, Labels, StartLabels, StopLabels, Goto, CallTypeOK, TokenHeld
<1>28. ASSUME NEW m \in Managers, AfterTerminal(m) PROVE TokenHeld'
  BY <1>28, HeldAfterStep, HeldAfterDrop
     DEF AfterTerminal, Return, Committed, Labels, StartLabels, StopLabels, TokenHeld
<1>29. ASSUME NEW m \in Managers, TerminalReload(m) PROVE TokenHeld'
  BY <1>29, HeldAfterStep, HeldAfterDrop, HeldAfterSwap
     DEF TerminalReload, Return, Committed, Labels, StartLabels, StopLabels, TokenHeld
<1>30. ASSUME NEW m \in Managers, GarbageCollect(m) PROVE TokenHeld'
  BY <1>30, HeldAfterDrop
     DEF GarbageCollect, Return, Labels, StartLabels, StopLabels, TokenHeld
<1>31. ASSUME NEW m \in Managers, Quarantine(m) PROVE TokenHeld'
  BY <1>31, HeldAfterDrop, HeldAfterSwap
     DEF Quarantine, Return, Labels, StartLabels, StopLabels, TokenHeld
<1>32. ASSUME NEW m \in Managers, AfterQuarantine(m) PROVE TokenHeld'
  BY <1>32, HeldAfterDrop
     DEF AfterQuarantine, Return, Labels, StartLabels, StopLabels, TokenHeld
<1>33. ASSUME NEW t \in Tokens, ProcessExit(t) PROVE TokenHeld'
  BY <1>33 DEF ProcessExit, TokenHeld
<1>34. CASE ReplaceWorkspace
  BY <1>34 DEF ReplaceWorkspace, TokenHeld
<1>35. CASE UNCHANGED vars
  BY <1>35 DEF vars, TokenHeld
<1> QED
  BY <1>1, <1>2, <1>3, <1>4, <1>5, <1>6, <1>7, <1>8, <1>9, <1>10, <1>11, <1>12,
     <1>13, <1>14, <1>15, <1>16, <1>17, <1>18, <1>19, <1>20, <1>21, <1>22, <1>23,
     <1>24, <1>25, <1>26, <1>27, <1>28, <1>29, <1>30, <1>31, <1>32, <1>33, <1>34,
     <1>35
     DEF Next, CallStep

(***************************************************************************)
(* Type correctness of the runner runtime.                                 *)
(***************************************************************************)
THEOREM TypeCorrect == Spec => []TypeOK
<1>1. Init => TypeOK /\ TokenHeld
  BY NoRecordFields DEF Init, TypeOK, StateTypeOK, CallTypeOK, MemoryTypeOK, Labels,
                      TokenHeld, StartLabels, StopLabels
<1> QED
  BY <1>1, TypeStep, HeldStep, PTL DEF Spec

---------------------------------------------------------------------------
(* The inductive invariant.  A compareAndSwap only writes over the revision *)
(* its candidate was built from, so what a call knows about its record is   *)
(* stated under the condition that the revision is still the journal's: a   *)
(* write by another Manager makes it vacuous.  What must survive such a     *)
(* write is stated without the condition.                                   *)

\* The record already owes or has had its teardown.
Settled == {"cleaning"} \cup TerminalStates

\* The execution's root is gone for good: no call can create it again.
Retired ==
    /\ journal.state \in {"released", "cleanup_failed"}
    /\ journal.ref = "set" /\ workspace = "absent"

\* The record each journal state goes with.
JournalShape ==
    /\ journal.state = "none" => journal = NoRecord
    /\ journal.state # "none" => journal.rev > 0
    /\ journal.fence # NoToken => journal.ref = "set"
    /\ journal.state = "preparing" =>
         journal.ref = "unset" /\ journal.fence = NoToken /\ journal.pid = 0
    /\ journal.state = "prepared" =>
         journal.ref = "set" /\ journal.fence = NoToken /\ journal.pid = 0
    /\ journal.state = "starting" =>
         journal.ref = "set" /\ journal.fence # NoToken /\ journal.pid = 0
    /\ journal.state = "running" =>
         journal.ref = "set" /\ journal.fence \in launched
    /\ journal.state = "released" => journal.ref = "set" /\ workspace = "absent"
    /\ journal.state = "failed" =>
         journal.ref = "unset" /\ journal.fence = NoToken /\ workspace = "absent"

\* What the platform holds against the record.
PlatformShape ==
    /\ live \subseteq launched
    /\ finalized \subseteq stopped
    /\ LiveIsJournaled
    /\ AtMostOneLaunch
    /\ journal.fence # NoToken => launched \subseteq {journal.fence}
    /\ journal.fence = NoToken /\ launched # {} =>
         journal.state \in {"failed", "cleanup_failed"}
    /\ revokedEver \subseteq stopped \/ Retired

\* A token is drawn by one call, and known before it is used.
TokenShape ==
    /\ launched \subseteq drawn
    /\ journal.fence \in drawn \cup {NoToken}
    /\ \A m \in Managers : tok[m] \in drawn \cup {NoToken}
    /\ \A m, n \in Managers : m # n /\ tok[m] = tok[n] => tok[m] = NoToken

PrepLabels == {"mkroot", "prepare", "rmprep"}

Preparing(m) ==
    \/ pc[m] \in PrepLabels
    \/ pc[m] = "cas" /\ cont[m] \in {"after_prepared", "after_failed_prep"}

\* The one call that created the record works in a root no other call reaches;
\* until it has identified that root nobody holds a record with a WorkspaceRef.
PreparerShape ==
    /\ \A m, n \in Managers : Preparing(m) /\ Preparing(n) => m = n
    /\ \A m \in Managers : pc[m] \in PrepLabels =>
         /\ journal.state \in {"preparing", "cleaning", "cleanup_failed"}
         /\ journal.ref = "unset"
         /\ rec[m].state = "preparing"
         /\ workspace = IF pc[m] = "mkroot" THEN "absent" ELSE "bare"
    /\ journal.state = "none" => workspace = "absent"
    /\ journal.state = "none" \/ (\E m \in Managers : pc[m] \in PrepLabels) =>
         \A n \in Managers : rec[n].ref = "unset" /\ goal[n].ref = "unset"

\* Where a call continues after a compareAndSwap.
AfterLabels ==
    {"after_prepared", "after_failed_prep", "after_starting", "after_rollback",
     "after_unstarted", "after_running", "after_fail_claim", "after_claim",
     "after_terminal", "after_terminal_retry", "after_quarantine"}

CasLabels ==
    AfterLabels \cup {"cas", "reload", "terminal_reload", "gc", "stop_uncommitted"}

\* What a call knows: its revisions are of the past, its record is the
\* journal's while the revision is, and a verdict it has read still stands.
Knows(m) ==
    /\ rec[m].rev <= journal.rev /\ goal[m].rev <= journal.rev
    /\ pc[m] \notin CasLabels => cas[m] = "ok"
    /\ pc[m] \notin {"idle", "create", "runload"} => journal.state # "none"
    /\ cas[m] # "journal" =>
         /\ rec[m].rev = journal.rev => rec[m] = journal
         /\ rec[m].state \in Settled => journal.state \in Settled
         /\ rec[m].state = "released" => Retired
    /\ pc[m] = "gc" => Retired

\* Calls between the Starting claim and the end of their Start.
Owns(m) ==
    \/ pc[m] \in {"deliver", "start", "fail_check", "after_running", "after_fail_claim"}
                   \cup StopLabels
    \/ pc[m] = "after_starting" /\ cas[m] = "ok"
    \/ pc[m] \in {"cas", "reload"} /\ cont[m] \in {"after_running", "after_fail_claim"}
    \/ pc[m] = "cas" /\ cont[m] \in {"after_rollback", "after_unstarted"}

Unlaunched(m) ==
    \/ pc[m] \in {"after_starting", "deliver", "start", "stop_deliver", "stop_unstarted"}
    \/ /\ pc[m] \in {"cas", "reload"}
       /\ cont[m] \in {"after_starting", "after_rollback", "after_unstarted"}

\* The fence of the record is the token of the call that owns the Start; only
\* that call can clear it.
OwnerKnows(m) ==
    /\ Owns(m) => tok[m] # NoToken /\ journal.fence = tok[m]
    /\ Unlaunched(m) => tok[m] # NoToken /\ tok[m] \notin launched
    /\ \/ pc[m] \in {"deliver", "start", "stop_deliver", "stop_unstarted", "stop_failed"}
       \/ pc[m] = "after_starting" /\ cas[m] = "ok"
       => rec[m].state = "starting" /\ rec[m].fence = tok[m] /\ rec[m].ref = "set"
    /\ /\ pc[m] \in {"after_running", "stop_uncommitted"}
       /\ rec[m].rev = journal.rev /\ SameStartedRuntime(rec[m], tok[m])
       => journal.state \in {"starting", "running"}
    /\ \/ pc[m] \in {"after_fail_claim", "fail_check"}
       \/ pc[m] \in {"cas", "reload"} /\ cont[m] = "after_fail_claim"
       => tok[m] \notin live

\* Calls that tear the execution down hold a record that says so.
CleanerKnows(m) ==
    /\ \/ pc[m] \in {"stop", "finalize", "check", "remove", "fail_check"}
       \/ pc[m] \in {"after_claim", "after_fail_claim"} /\ cas[m] = "ok"
       => rec[m].state = "cleaning"
    /\ \/ pc[m] \in {"finalize", "check", "remove", "fail_check"}
       \/ pc[m] = "after_fail_claim" /\ cas[m] = "ok"
       => rec[m].ref = "set"
    /\ pc[m] = "check" => rec[m].fence = NoToken
    /\ pc[m] = "finalize" =>
         /\ rec[m].fence # NoToken
         /\ rec[m].rev = journal.rev =>
              rec[m].fence \in stopped /\ rec[m].fence \notin live

AtTerminal(m) ==
    \/ pc[m] \in {"remove", "after_terminal", "terminal_reload"}
    \/ pc[m] \in {"cas", "reload"} /\ cont[m] \in {"after_terminal", "after_terminal_retry"}

\* A verdict about to be committed is true of workspace and processes.
VerdictIsTrue(m) ==
    /\ AtTerminal(m) =>
         /\ goal[m].state \in {"released", "failed"}
         /\ goal[m].rev = journal.rev =>
              /\ journal.state = "cleaning" /\ journal.ref = "set" /\ live = {}
              /\ pc[m] # "remove" => workspace = "absent"
              /\ goal[m].state = "released" =>
                   /\ goal[m].ref = "set" /\ goal[m].fence = journal.fence
                   /\ journal.fence # NoToken => journal.fence \in stopped
              /\ goal[m].state = "failed" =>
                   /\ goal[m].ref = "unset" /\ goal[m].fence = NoToken
                   /\ tok[m] # NoToken /\ tok[m] = journal.fence
    /\ pc[m] \in {"after_terminal", "after_terminal_retry"} =>
         /\ cas[m] = "ok" => rec[m].state = goal[m].state
         /\ cas[m] = "journal" => rec[m].rev = goal[m].rev

\* A candidate that can still be written is a legal successor of the record.
CandidateFits(m) ==
    /\ pc[m] \in {"cas", "reload"} => cont[m] \in AfterLabels
    /\ pc[m] \in {"cas", "reload"} /\ cont[m] = "after_starting" =>
         goal[m].state = "starting" /\ goal[m].fence = tok[m] /\ goal[m].ref = "set"
    /\ pc[m] \in {"cas", "reload"} /\ cont[m] = "after_fail_claim" =>
         goal[m].state = "cleaning" /\ goal[m].ref = "set"
    /\ pc[m] \in {"cas", "reload"} /\ cont[m] = "after_claim" =>
         goal[m].state = "cleaning"
    /\ pc[m] = "cas" /\ cont[m] = "after_running" => tok[m] \in launched
    /\ pc[m] = "reload" /\ cont[m] = "after_running" /\ goal[m].rev = journal.rev =>
         journal.state = "starting"
    /\ pc[m] = "cas" /\ goal[m].rev = journal.rev =>
         /\ cont[m] = "after_prepared" =>
              /\ journal.state = "preparing" /\ goal[m].state = "prepared"
              /\ goal[m].ref = "set" /\ goal[m].fence = NoToken /\ goal[m].pid = 0
         /\ cont[m] = "after_failed_prep" =>
              /\ journal.state = "preparing" /\ goal[m].state = "failed"
              /\ goal[m].ref = "unset" /\ goal[m].fence = NoToken
              /\ workspace = "absent"
         /\ cont[m] = "after_starting" => journal.state = "prepared" /\ goal[m].pid = 0
         /\ cont[m] \in {"after_rollback", "after_unstarted"} =>
              /\ journal.state = "starting" /\ goal[m].state = "prepared"
              /\ goal[m].ref = "set" /\ goal[m].fence = NoToken /\ goal[m].pid = 0
         /\ cont[m] = "after_running" =>
              /\ journal.state = "starting" /\ goal[m].state = "running"
              /\ goal[m].ref = "set" /\ goal[m].fence = tok[m]
         /\ cont[m] = "after_fail_claim" =>
              /\ journal.state \in {"starting", "running"}
              /\ goal[m].fence = tok[m]
         /\ cont[m] = "after_claim" =>
              /\ journal.state \notin Settled \cup {"none"}
              /\ goal[m].ref = journal.ref /\ goal[m].fence = journal.fence
         /\ cont[m] = "after_quarantine" =>
              /\ journal.state \notin {"none", "cleanup_failed"}
              /\ goal[m].state = "cleanup_failed"
              /\ goal[m].ref = journal.ref /\ goal[m].fence = journal.fence

\* The durable state and the platform against each other.
Books == JournalShape /\ PlatformShape /\ TokenShape

\* What one call may rely on.
CallShape(m) ==
    Knows(m) /\ OwnerKnows(m) /\ CleanerKnows(m) /\ VerdictIsTrue(m) /\ CandidateFits(m)

Shapes == Books /\ PreparerShape /\ \A m \in Managers : CallShape(m)

\* What a compareAndSwap that reaches the journal does to the record.
LegalWrite(m) ==
    /\ journal'.rev = journal.rev + 1
    /\ \/ /\ cont[m] = "after_prepared"
          /\ journal.state = "preparing" /\ journal'.state = "prepared"
          /\ journal'.ref = "set" /\ journal'.fence = NoToken /\ journal'.pid = 0
       \/ /\ cont[m] = "after_failed_prep"
          /\ journal.state = "preparing" /\ journal'.state = "failed"
          /\ journal'.ref = "unset" /\ journal'.fence = NoToken /\ workspace = "absent"
       \/ /\ cont[m] = "after_starting"
          /\ journal.state = "prepared" /\ journal'.state = "starting"
          /\ journal'.ref = "set" /\ journal'.pid = 0
          /\ journal'.fence = tok[m] /\ tok[m] # NoToken /\ tok[m] \notin launched
       \/ /\ cont[m] \in {"after_rollback", "after_unstarted"}
          /\ journal.state = "starting" /\ journal'.state = "prepared"
          /\ journal'.ref = "set" /\ journal'.fence = NoToken /\ journal'.pid = 0
          /\ journal.fence = tok[m] /\ tok[m] \notin launched
       \/ /\ cont[m] = "after_running"
          /\ journal.state = "starting" /\ journal'.state = "running"
          /\ journal'.ref = "set" /\ journal'.fence = tok[m]
          /\ journal.fence = tok[m] /\ tok[m] \in launched
       \/ /\ cont[m] \in {"after_claim", "after_fail_claim"}
          /\ journal.state \notin Settled \cup {"none"} /\ journal'.state = "cleaning"
          /\ journal'.ref = journal.ref /\ journal'.fence = journal.fence
       \/ /\ cont[m] \in {"after_terminal", "after_terminal_retry"}
          /\ journal.state = "cleaning" /\ journal'.state = "released"
          /\ journal.ref = "set" /\ journal'.ref = "set" /\ journal'.fence = journal.fence
          /\ live = {} /\ workspace = "absent"
       \/ /\ cont[m] \in {"after_terminal", "after_terminal_retry"}
          /\ journal.state = "cleaning" /\ journal'.state = "failed"
          /\ journal.ref = "set" /\ journal'.ref = "unset" /\ journal'.fence = NoToken
          /\ journal.fence = tok[m] /\ tok[m] # NoToken
          /\ live = {} /\ workspace = "absent"
       \/ /\ cont[m] = "after_quarantine"
          /\ journal.state \notin {"none", "cleanup_failed"}
          /\ journal'.state = "cleanup_failed"
          /\ journal'.ref = journal.ref /\ journal'.fence = journal.fence

\* The call of n does not move.
Kept(n) ==
    /\ pc'[n] = pc[n] /\ cont'[n] = cont[n] /\ goal'[n] = goal[n]
    /\ rec'[n] = rec[n] /\ cas'[n] = cas[n] /\ tok'[n] = tok[n]

\* A step that writes no record, starts no process, forgets no fence and
\* creates no root.
Benign ==
    /\ UNCHANGED <<journal, drawn, launched>>
    /\ live' \subseteq live /\ stopped \subseteq stopped'
    /\ finalized' \subseteq stopped'
    /\ revokedEver' \subseteq revokedEver \cup stopped'
    /\ workspace = "absent" => workspace' = "absent"

\* The call of m touches nothing a preparing call relies on.
LeavesPreparer(m) ==
    /\ pc'[m] \notin PrepLabels /\ (Preparing(m)' => Preparing(m))
    /\ \/ pc[m] \in PrepLabels
       \/ /\ rec'[m].ref \in {rec[m].ref, goal[m].ref, journal.ref, "unset"}
          /\ goal'[m].ref \in {rec[m].ref, goal[m].ref, journal.ref, "unset"}
          /\ workspace' = workspace \/ rec[m].ref = "set"

\* Only the call of m moves.
Alone(m) ==
    /\ \A n \in Managers \ {m} : Kept(n)
    /\ tok' \in {tok, [tok EXCEPT ![m] = NoToken]}

\* The steps that write no record and launch, draw or create nothing.
Quiet(m) ==
    \/ EnsurePrepared(m) \/ Destroy(m) \/ Recover(m) \/ Crash(m) \/ CasReload(m)
    \/ FailPreparation(m) \/ AfterPrepared(m) \/ AfterFailedPreparation(m)
    \/ AfterStarting(m) \/ DeliverJIT(m) \/ StopOwnStart(m) \/ AfterRollback(m)
    \/ AfterRunning(m) \/ AfterFailClaim(m) \/ FailCheck(m) \/ AfterClaim(m)
    \/ DestroyStop(m) \/ FinalizeCleanup(m) \/ CheckWorkspace(m) \/ RemoveRoot(m)
    \/ AfterTerminal(m) \/ TerminalReload(m) \/ Quarantine(m) \/ AfterQuarantine(m)

---------------------------------------------------------------------------

\* The records of a typed state are records.
LEMMA Typed ==
  ASSUME TypeOK
  PROVE  journal \in Record /\ \A m \in Managers : rec[m] \in Record /\ goal[m] \in Record
  BY DEF TypeOK, StateTypeOK, CallTypeOK

\* A compareAndSwap that finds its revision makes a move of the lifecycle.
LEMMA WriteIsLegal ==
  ASSUME TypeOK, Books, NEW m \in Managers, CallShape(m),
         pc[m] = "cas", journal.rev = goal[m].rev, journal' = Written(m)
  PROVE  LegalWrite(m) /\ journal' \in Record /\ SameRecord(journal', goal[m])
<1> USE DEF CallShape, CandidateFits, LegalWrite
<1>1. /\ journal'.rev = journal.rev + 1 /\ journal'.state = goal[m].state
      /\ journal'.ref = goal[m].ref /\ journal'.fence = goal[m].fence
      /\ journal'.pid = goal[m].pid /\ journal' \in Record
  BY Typed, WrittenFields
<1>2. cont[m] \in AfterLabels
  OBVIOUS
<1>3. CASE cont[m] \in {"after_prepared", "after_failed_prep", "after_claim",
                     "after_quarantine"}
  BY <1>1, <1>3 DEF SameRecord
<1>4. CASE cont[m] \in {"after_starting", "after_rollback", "after_unstarted"}
  BY <1>1, <1>4 DEF OwnerKnows, Owns, Unlaunched, SameRecord
<1>5. CASE cont[m] \in {"after_running", "after_fail_claim"}
  <2>1. journal.fence = tok[m] /\ journal.ref = "set"
    BY <1>5 DEF OwnerKnows, Owns, Books, JournalShape
  <2> QED
    BY <1>1, <1>5, <2>1 DEF Settled, TerminalStates, SameRecord
<1>6. CASE cont[m] \in {"after_terminal", "after_terminal_retry"}
  BY <1>1, <1>6 DEF VerdictIsTrue, AtTerminal, SameRecord
<1> QED
  BY <1>2, <1>3, <1>4, <1>5, <1>6 DEF AfterLabels

\* No write brings back a root that is gone for good.
LEMMA WriteKeepsRetired ==
  \A m \in Managers : LegalWrite(m) /\ UNCHANGED workspace => (Retired => Retired')
  BY DEF LegalWrite, Retired, Settled, TerminalStates

\* A legal write keeps the record and the platform in agreement.
LEMMA WriteKeepsBooks ==
  ASSUME TypeOK, Books, NEW m \in Managers, CallShape(m), pc[m] = "cas", LegalWrite(m),
         journal' \in Record, UNCHANGED <<workspace, platform, drawn, tok>>
  PROVE  Books'
<1> USE Typed, RecordFields, TokenAssumption DEF Books, LegalWrite
<1>1. JournalShape'
  BY DEF JournalShape, CallShape, Knows
<1>2. PlatformShape'
  <2>1. Retired => Retired'
    BY WriteKeepsRetired
  <2>2. LiveIsJournaled'
    BY DEF JournalShape, PlatformShape, LiveIsJournaled
  <2>3. journal'.fence # NoToken => launched \subseteq {journal'.fence}
    BY DEF JournalShape, PlatformShape
  <2>4. journal'.fence = NoToken /\ launched # {} =>
          journal'.state \in {"failed", "cleanup_failed"}
    BY DEF JournalShape, PlatformShape, Settled, TerminalStates
  <2> QED
    BY <2>1, <2>2, <2>3, <2>4 DEF PlatformShape, AtMostOneLaunch
<1>3. TokenShape'
  BY DEF TokenShape
<1> QED
  BY <1>1, <1>2, <1>3

\* A write moves the revision on: what other calls know of it becomes vacuous,
\* and the token of a call that owns its Start stays in the record.
LEMMA WriteSparesCalls ==
  ASSUME TypeOK, Books, NEW m \in Managers, CallShape(m), pc[m] = "cas", LegalWrite(m),
         UNCHANGED <<workspace, platform, drawn>>,
         NEW n \in Managers \ {m}, CallShape(n), Kept(n)
  PROVE  CallShape(n)'
<1> USE Typed, RecordFields DEF CallShape, Kept
<1>1. /\ rec[n].rev < journal'.rev /\ goal[n].rev < journal'.rev
      /\ journal'.rev = journal.rev + 1
  BY DEF LegalWrite, Knows
<1>2. Knows(n)'
  BY <1>1, WriteKeepsRetired DEF LegalWrite, Knows, Settled, TerminalStates
<1>3. OwnerKnows(n)'
  <2>1. Owns(n) => journal'.fence = journal.fence
    BY DEF Books, JournalShape, TokenShape, LegalWrite, OwnerKnows
  <2>2. (Owns(n)' <=> Owns(n)) /\ (Unlaunched(n)' <=> Unlaunched(n))
    BY DEF Owns, Unlaunched
  <2> QED
    BY <1>1, <2>1, <2>2 DEF OwnerKnows, SameStartedRuntime
<1>4. CleanerKnows(n)'
  BY <1>1 DEF CleanerKnows
<1>5. VerdictIsTrue(n)'
  BY <1>1 DEF VerdictIsTrue, AtTerminal
<1>6. CandidateFits(n)'
  BY <1>1 DEF CandidateFits
<1> QED
  BY <1>2, <1>3, <1>4, <1>5, <1>6

\* A write by another call leaves the preparing call its root.
LEMMA WriteSparesPreparer ==
  ASSUME TypeOK, Shapes, NEW m \in Managers, pc[m] = "cas", LegalWrite(m),
         SameRecord(journal', goal[m]), UNCHANGED workspace,
         \A n \in Managers \ {m} : Kept(n),
         pc'[m] \notin PrepLabels, goal'[m] = goal[m], ~Preparing(m)',
         rec'[m].ref \in {rec[m].ref, goal[m].ref}
  PROVE  PreparerShape'
<1>1. ASSUME NEW n \in Managers, pc[n] \in PrepLabels
      PROVE  /\ journal'.state \in {"preparing", "cleaning", "cleanup_failed"}
             /\ journal'.ref = "unset" /\ goal[m].ref = "unset"
  <2>1. n # m
    BY <1>1 DEF PrepLabels
  <2>2. /\ ~Preparing(m) /\ journal.ref = "unset" /\ goal[m].ref = "unset"
        /\ journal.state \in {"preparing", "cleaning", "cleanup_failed"}
    BY <1>1, <2>1 DEF Shapes, PreparerShape, Preparing
  <2> QED
    BY <2>2 DEF LegalWrite, Preparing, Shapes, Books, JournalShape
<1>2. journal.state # "none" /\ journal'.state # "none"
  BY DEF Shapes, CallShape, Knows, LegalWrite, Settled
<1>3. \A n \in Managers : /\ pc'[n] \in PrepLabels => pc'[n] = pc[n] /\ rec'[n] = rec[n]
                          /\ Preparing(n)' => Preparing(n)
  BY DEF Preparing, Kept
<1>4. ASSUME NEW k \in Managers, pc'[k] \in PrepLabels, NEW n \in Managers
      PROVE  rec'[n].ref = "unset" /\ goal'[n].ref = "unset"
  BY <1>3, <1>4 DEF Kept, Shapes, PreparerShape
<1> QED
  BY <1>1, <1>2, <1>3, <1>4 DEF Shapes, PreparerShape

\* A step that only forgets, stops or removes keeps the books.
LEMMA BenignBooks ==
  ASSUME TypeOK, Books, Benign, NEW m \in Managers, tok' \in {tok, [tok EXCEPT ![m] = NoToken]}
  PROVE  Books'
<1> USE DEF Books, Benign
<1>1. JournalShape'
  BY DEF JournalShape
<1>2. PlatformShape'
  BY DEF PlatformShape, LiveIsJournaled, AtMostOneLaunch, Retired
<1>3. \A n \in Managers : tok'[n] \in {tok[n], NoToken}
  BY DEF TypeOK, CallTypeOK
<1>4. TokenShape'
  BY <1>3 DEF TokenShape
<1> QED
  BY <1>1, <1>2, <1>4

\* A step that only forgets, stops or removes takes nothing from other calls.
LEMMA BenignSparesCalls ==
  ASSUME Benign, NEW n \in Managers, CallShape(n), Kept(n)
  PROVE  CallShape(n)'
<1> USE DEF Benign, Kept, CallShape
<1>1. Knows(n)'
  BY DEF Knows, Retired
<1>2. OwnerKnows(n)'
  BY DEF OwnerKnows, Owns, Unlaunched, SameStartedRuntime
<1>3. CleanerKnows(n)'
  BY DEF CleanerKnows
<1>4. VerdictIsTrue(n)'
  BY DEF VerdictIsTrue, AtTerminal
<1>5. CandidateFits(n)'
  BY DEF CandidateFits
<1> QED
  BY <1>1, <1>2, <1>3, <1>4, <1>5

\* A step of another call leaves the preparing call its root.
LEMMA PreparersApart ==
  ASSUME TypeOK, Books, PreparerShape, NEW m \in Managers, UNCHANGED journal,
         \A n \in Managers \ {m} : Kept(n), LeavesPreparer(m)
  PROVE  PreparerShape'
<1> DEFINE Unrooted == journal.state = "none" \/ \E n \in Managers : pc[n] \in PrepLabels
<1>1. \A n \in Managers : /\ pc'[n] \in PrepLabels => pc'[n] = pc[n] /\ rec'[n] = rec[n]
                          /\ Preparing(n)' => Preparing(n)
  BY DEF Preparing, Kept, LeavesPreparer
<1>2. CASE pc[m] \in PrepLabels
  <2>1. \A n \in Managers : pc'[n] \notin PrepLabels
    BY <1>2 DEF PreparerShape, Preparing, Kept, LeavesPreparer
  <2> QED
    BY <1>1, <1>2, <2>1 DEF PreparerShape
<1>3. CASE pc[m] \notin PrepLabels
  <2>1. Unrooted => /\ journal.ref = "unset"
                    /\ \A n \in Managers : rec[n].ref = "unset" /\ goal[n].ref = "unset"
    BY NoRecordFields DEF Books, JournalShape, PreparerShape
  <2>2. Unrooted => \A n \in Managers : rec'[n].ref = "unset" /\ goal'[n].ref = "unset"
    BY <1>3, <2>1 DEF Kept, LeavesPreparer
  <2>3. Unrooted => workspace' = workspace
    BY <1>3, <2>1 DEF LeavesPreparer
  <2> QED
    BY <1>1, <2>2, <2>3 DEF PreparerShape
<1> QED
  BY <1>2, <1>3

\* A benign step of one call keeps the invariant if it keeps that call's part.
LEMMA BenignStep ==
  ASSUME TypeOK, Shapes, NEW m \in Managers, Benign, Alone(m), LeavesPreparer(m), CallShape(m)'
  PROVE  Shapes'
<1>1. Books' /\ PreparerShape'
  BY BenignBooks, PreparersApart DEF Shapes, Alone, Benign
<1>2. \A n \in Managers \ {m} : CallShape(n)'
  BY BenignSparesCalls DEF Shapes, Alone
<1> QED
  BY <1>1, <1>2 DEF Shapes

\* The quiet steps are benign and leave a preparing call alone.
LEMMA QuietIsBenign ==
  ASSUME TypeOK, Shapes, NEW m \in Managers, Quiet(m)
  PROVE  Benign /\ Alone(m) /\ LeavesPreparer(m)
<1>a. /\ journal \in Record
      /\ \A n \in Managers : rec[n] \in Record /\ goal[n] \in Record
  BY Typed
<1> USE RecordFields, TokenAssumption DEF TypeOK, CallTypeOK
<1>1. CASE EnsurePrepared(m)
  <2>1. Benign /\ Alone(m)
    BY <1>1
       DEF Shapes, Books, PlatformShape, Benign, Alone, Kept, EnsurePrepared, Goto,
           WorkspaceMatches
  <2>2. LeavesPreparer(m)
    BY <1>1, <1>a, NoRecordFields
       DEF LeavesPreparer, PrepLabels, Preparing, Shapes, CallShape, CleanerKnows,
           EnsurePrepared, Goto, WorkspaceMatches
  <2> QED
    BY <2>1, <2>2
<1>2. CASE Destroy(m)
  <2>1. Benign /\ Alone(m)
    BY <1>2
       DEF Shapes, Books, PlatformShape, Benign, Alone, Kept, Destroy, Drop, Forget,
           ForgetCleanup, Goto, OwnsCleanup, Return, Swap
  <2>2. LeavesPreparer(m)
    BY <1>2, <1>a, NoRecordFields, CleaningFields
       DEF LeavesPreparer, PrepLabels, Preparing, Shapes, CallShape, CleanerKnows,
           Destroy, Drop, Forget, ForgetCleanup, Goto, OwnsCleanup, Return, Swap
  <2> QED
    BY <2>1, <2>2
<1>3. CASE Recover(m)
  <2>1. Benign /\ Alone(m)
    BY <1>3
       DEF Shapes, Books, PlatformShape, Benign, Alone, Kept, Recover, Adoptable, Drop,
           Forget, ForgetCleanup, Goto, Swap, WorkspaceMatches
  <2>2. LeavesPreparer(m)
    BY <1>3, <1>a, NoRecordFields, CleaningFields
       DEF LeavesPreparer, PrepLabels, Preparing, Shapes, CallShape, CleanerKnows,
           Recover, Adoptable, Drop, Forget, ForgetCleanup, Goto, Swap,
           WorkspaceMatches
  <2> QED
    BY <2>1, <2>2
<1>4. CASE Crash(m)
  <2>1. Benign /\ Alone(m)
    BY <1>4
       DEF Shapes, Books, PlatformShape, Benign, Alone, Kept, Crash, Drop, Forget,
           ForgetCleanup, Goto, Return
  <2>2. LeavesPreparer(m)
    BY <1>4, <1>a, NoRecordFields
       DEF LeavesPreparer, PrepLabels, Preparing, Shapes, CallShape, CleanerKnows,
           Crash, Drop, Forget, ForgetCleanup, Goto, Return
  <2> QED
    BY <2>1, <2>2
<1>5. CASE CasReload(m)
  <2>1. Benign /\ Alone(m)
    BY <1>5
       DEF Shapes, Books, PlatformShape, Benign, Alone, Kept, CasReload, Goto,
           ReloadResult, SameRecord
  <2>2. LeavesPreparer(m)
    BY <1>5, <1>a, NoRecordFields
       DEF LeavesPreparer, PrepLabels, Preparing, Shapes, CallShape, CandidateFits,
           AfterLabels, CasReload, Goto, ReloadResult, SameRecord
  <2> QED
    BY <2>1, <2>2
<1>6. CASE FailPreparation(m)
  <2>1. Benign /\ Alone(m)
    BY <1>6
       DEF Shapes, Books, PlatformShape, Benign, Alone, Kept, FailPreparation, Drop,
           Goto, Swap
  <2>2. LeavesPreparer(m)
    BY <1>6, <1>a, NoRecordFields, FailedPreparationFields
       DEF LeavesPreparer, PrepLabels, Preparing, Shapes, CallShape, CleanerKnows,
           FailPreparation, Drop, Goto, Swap
  <2> QED
    BY <2>1, <2>2
<1>7. CASE AfterPrepared(m)
  <2>1. Benign /\ Alone(m)
    BY <1>7 DEF Shapes, Books, PlatformShape, Benign, Alone, Kept, AfterPrepared, Drop, Goto
  <2>2. LeavesPreparer(m)
    BY <1>7, <1>a, NoRecordFields
       DEF LeavesPreparer, PrepLabels, Preparing, Shapes, CallShape, CleanerKnows,
           AfterPrepared, Drop, Goto
  <2> QED
    BY <2>1, <2>2
<1>8. CASE AfterFailedPreparation(m)
  <2>1. Benign /\ Alone(m)
    BY <1>8
       DEF Shapes, Books, PlatformShape, Benign, Alone, Kept, AfterFailedPreparation,
           Drop, Goto, Return
  <2>2. LeavesPreparer(m)
    BY <1>8, <1>a, NoRecordFields
       DEF LeavesPreparer, PrepLabels, Preparing, Shapes, CallShape, CleanerKnows,
           AfterFailedPreparation, Drop, Goto, Return
  <2> QED
    BY <2>1, <2>2
<1>9. CASE AfterStarting(m)
  <2>1. Benign /\ Alone(m)
    BY <1>9
       DEF Shapes, Books, PlatformShape, Benign, Alone, Kept, AfterStarting, Drop,
           Goto, Return, Step
  <2>2. LeavesPreparer(m)
    BY <1>9, <1>a, NoRecordFields
       DEF LeavesPreparer, PrepLabels, Preparing, Shapes, CallShape, CleanerKnows,
           AfterStarting, Drop, Goto, Return, Step
  <2> QED
    BY <2>1, <2>2
<1>10. CASE DeliverJIT(m)
  <2>1. Benign /\ Alone(m)
    BY <1>10 DEF Shapes, Books, PlatformShape, Benign, Alone, Kept, DeliverJIT, Goto, Step
  <2>2. LeavesPreparer(m)
    BY <1>10, <1>a, NoRecordFields
       DEF LeavesPreparer, PrepLabels, Preparing, Shapes, CallShape, CleanerKnows,
           DeliverJIT, Goto, Step
  <2> QED
    BY <2>1, <2>2
<1>11. CASE StopOwnStart(m)
  <2>1. Benign /\ Alone(m)
    BY <1>11
       DEF Shapes, Books, PlatformShape, Benign, Alone, Kept, StopOwnStart, Drop, Goto,
           Return, SameStartedRuntime, StopFails, StopLabels, StopSucceeds, Swap
  <2>2. LeavesPreparer(m)
    BY <1>11, <1>a, NoRecordFields, CleaningFields, RolledBackFields
       DEF LeavesPreparer, PrepLabels, Preparing, Shapes, CallShape, CleanerKnows,
           StopOwnStart, Drop, Goto, Return, SameStartedRuntime, StopFails, StopLabels,
           StopSucceeds, Swap
  <2> QED
    BY <2>1, <2>2
<1>12. CASE AfterRollback(m)
  <2>1. Benign /\ Alone(m)
    BY <1>12
       DEF Shapes, Books, PlatformShape, Benign, Alone, Kept, AfterRollback, Drop, Goto
  <2>2. LeavesPreparer(m)
    BY <1>12, <1>a, NoRecordFields
       DEF LeavesPreparer, PrepLabels, Preparing, Shapes, CallShape, CleanerKnows,
           AfterRollback, Drop, Goto
  <2> QED
    BY <2>1, <2>2
<1>13. CASE AfterRunning(m)
  <2>1. Benign /\ Alone(m)
    BY <1>13
       DEF Shapes, Books, PlatformShape, Benign, Alone, Kept, AfterRunning, Drop, Goto,
           Return, Step
  <2>2. LeavesPreparer(m)
    BY <1>13, <1>a, NoRecordFields
       DEF LeavesPreparer, PrepLabels, Preparing, Shapes, CallShape, CleanerKnows,
           AfterRunning, Drop, Goto, Return, Step
  <2> QED
    BY <2>1, <2>2
<1>14. CASE AfterFailClaim(m)
  <2>1. Benign /\ Alone(m)
    BY <1>14
       DEF Shapes, Books, PlatformShape, Benign, Alone, Kept, AfterFailClaim, Drop,
           Forget, Goto, Return, SameStartedRuntime, Step, Swap
  <2>2. LeavesPreparer(m)
    BY <1>14, <1>a, NoRecordFields, CleaningFields
       DEF LeavesPreparer, PrepLabels, Preparing, Shapes, CallShape, CleanerKnows,
           AfterFailClaim, Drop, Forget, Goto, Return, SameStartedRuntime, Step, Swap
  <2> QED
    BY <2>1, <2>2
<1>15. CASE FailCheck(m)
  <2>1. Benign /\ Alone(m)
    BY <1>15 DEF Shapes, Books, PlatformShape, Benign, Alone, Kept, FailCheck, Drop, Goto
  <2>2. LeavesPreparer(m)
    BY <1>15, <1>a, NoRecordFields, FailedStartFields
       DEF LeavesPreparer, PrepLabels, Preparing, Shapes, CallShape, CleanerKnows,
           FailCheck, Drop, Goto
  <2> QED
    BY <2>1, <2>2
<1>16. CASE AfterClaim(m)
  <2>1. Benign /\ Alone(m)
    BY <1>16
       DEF Shapes, Books, PlatformShape, Benign, Alone, Kept, AfterClaim, Drop, Forget,
           Goto, Return, Step
  <2>2. LeavesPreparer(m)
    BY <1>16, <1>a, NoRecordFields
       DEF LeavesPreparer, PrepLabels, Preparing, Shapes, CallShape, CleanerKnows,
           AfterClaim, Drop, Forget, Goto, Return, Step
  <2> QED
    BY <2>1, <2>2
<1>17. CASE DestroyStop(m)
  <2>1. Benign /\ Alone(m)
    BY <1>17
       DEF Shapes, Books, PlatformShape, Benign, Alone, Kept, DestroyStop, Drop, Goto,
           Step, StopFails, StopSucceeds
  <2>2. LeavesPreparer(m)
    BY <1>17, <1>a, NoRecordFields
       DEF LeavesPreparer, PrepLabels, Preparing, Shapes, CallShape, CleanerKnows,
           DestroyStop, Drop, Goto, Step, StopFails, StopSucceeds
  <2> QED
    BY <2>1, <2>2
<1>18. CASE FinalizeCleanup(m)
  <2>1. Benign /\ Alone(m)
    BY <1>18
       DEF Shapes, Books, PlatformShape, Benign, Alone, Kept, FinalizeCleanup, Drop,
           Goto, Swap
  <2>2. LeavesPreparer(m)
    BY <1>18, <1>a, NoRecordFields, ReleasedFields
       DEF LeavesPreparer, PrepLabels, Preparing, Shapes, CallShape, CleanerKnows,
           FinalizeCleanup, Drop, Goto, Swap
  <2> QED
    BY <2>1, <2>2
<1>19. CASE CheckWorkspace(m)
  <2>1. Benign /\ Alone(m)
    BY <1>19
       DEF Shapes, Books, PlatformShape, Benign, Alone, Kept, CheckWorkspace, Drop,
           Goto
  <2>2. LeavesPreparer(m)
    BY <1>19, <1>a, NoRecordFields, ReleasedFields
       DEF LeavesPreparer, PrepLabels, Preparing, Shapes, CallShape, CleanerKnows,
           CheckWorkspace, Drop, Goto
  <2> QED
    BY <2>1, <2>2
<1>20. CASE RemoveRoot(m)
  <2>1. Benign /\ Alone(m)
    BY <1>20 DEF Shapes, Books, PlatformShape, Benign, Alone, Kept, RemoveRoot, Drop, Goto
  <2>2. LeavesPreparer(m)
    BY <1>20, <1>a, NoRecordFields
       DEF LeavesPreparer, PrepLabels, Preparing, Shapes, CallShape, CleanerKnows,
           RemoveRoot, Drop, Goto
  <2> QED
    BY <2>1, <2>2
<1>21. CASE AfterTerminal(m)
  <2>1. Benign /\ Alone(m)
    BY <1>21
       DEF Shapes, Books, PlatformShape, Benign, Alone, Kept, AfterTerminal, Committed,
           Drop, ForgetCleanup, Goto, Return, SameRecord, Step, TerminalCommitted
  <2>2. LeavesPreparer(m)
    BY <1>21, <1>a, NoRecordFields
       DEF LeavesPreparer, PrepLabels, Preparing, Shapes, CallShape, CleanerKnows,
           AfterTerminal, Committed, Drop, ForgetCleanup, Goto, Return, SameRecord,
           Step, TerminalCommitted
  <2> QED
    BY <2>1, <2>2
<1>22. CASE TerminalReload(m)
  <2>1. Benign /\ Alone(m)
    BY <1>22
       DEF Shapes, Books, PlatformShape, Benign, Alone, Kept, TerminalReload,
           Committed, Drop, ForgetCleanup, Goto, OwnsCleanup, Return, SameRecord, Step,
           Swap
  <2>2. LeavesPreparer(m)
    BY <1>22, <1>a, NoRecordFields
       DEF LeavesPreparer, PrepLabels, Preparing, Shapes, CallShape, CleanerKnows,
           TerminalReload, Committed, Drop, ForgetCleanup, Goto, OwnsCleanup, Return,
           SameRecord, Step, Swap
  <2> QED
    BY <2>1, <2>2
<1>23. CASE Quarantine(m)
  <2>1. Benign /\ Alone(m)
    BY <1>23
       DEF Shapes, Books, PlatformShape, Benign, Alone, Kept, Quarantine, Drop, Forget,
           ForgetCleanup, Goto, Return, Swap
  <2>2. LeavesPreparer(m)
    BY <1>23, <1>a, NoRecordFields, CleanupFailedFields
       DEF LeavesPreparer, PrepLabels, Preparing, Shapes, CallShape, CleanerKnows,
           Quarantine, Drop, Forget, ForgetCleanup, Goto, Return, Swap
  <2> QED
    BY <2>1, <2>2
<1>24. CASE AfterQuarantine(m)
  <2>1. Benign /\ Alone(m)
    BY <1>24
       DEF Shapes, Books, PlatformShape, Benign, Alone, Kept, AfterQuarantine, Drop,
           ForgetCleanup, Goto, Return
  <2>2. LeavesPreparer(m)
    BY <1>24, <1>a, NoRecordFields
       DEF LeavesPreparer, PrepLabels, Preparing, Shapes, CallShape, CleanerKnows,
           AfterQuarantine, Drop, ForgetCleanup, Goto, Return
  <2> QED
    BY <2>1, <2>2
<1> QED
  BY <1>1, <1>2, <1>3, <1>4, <1>5, <1>6, <1>7, <1>8, <1>9, <1>10, <1>11, <1>12, <1>13,
     <1>14, <1>15, <1>16, <1>17, <1>18, <1>19, <1>20, <1>21, <1>22, <1>23, <1>24
     DEF Quiet

\* The call that makes a quiet step keeps what it knows true.
LEMMA QuietCalls ==
  ASSUME TypeOK, Shapes, NEW m \in Managers, Quiet(m)
  PROVE  CallShape(m)'
<1>a. /\ journal \in Record
      /\ \A n \in Managers : rec[n] \in Record /\ goal[n] \in Record
  BY Typed
<1> USE RecordFields, TokenAssumption DEF TypeOK, CallTypeOK, Shapes, Books, JournalShape
<1> USE DEF CallShape, Knows, CasLabels, AfterLabels, Retired, Settled, TerminalStates,
            OwnerKnows, Owns, Unlaunched, StopLabels, SameStartedRuntime,
            CleanerKnows, VerdictIsTrue, AtTerminal, CandidateFits
<1>1. CASE EnsurePrepared(m)
  BY <1>1, <1>a, NoRecordFields DEF EnsurePrepared, Goto, WorkspaceMatches
<1>2. CASE Destroy(m)
  BY <1>2, <1>a, NoRecordFields, CleaningFields
     DEF Destroy, Drop, Forget, ForgetCleanup, Goto, OwnsCleanup, Return, Swap
<1>3. CASE Recover(m)
  BY <1>3, <1>a, NoRecordFields, CleaningFields
     DEF Recover, Adoptable, Drop, Forget, ForgetCleanup, Goto, Swap, WorkspaceMatches
<1>4. CASE Crash(m)
  BY <1>4, <1>a, NoRecordFields DEF Crash, Drop, Forget, ForgetCleanup, Goto, Return
<1>5. CASE CasReload(m)
  BY <1>5, <1>a, NoRecordFields DEF CasReload, Goto, ReloadResult, SameRecord
<1>6. CASE FailPreparation(m)
  <2>1. rec[m].rev = journal.rev => rec[m] = journal /\ journal.state = "preparing"
    BY <1>6, <1>a DEF FailPreparation, PreparerShape, PrepLabels
  <2> QED
    BY <1>6, <1>a, <2>1, NoRecordFields, FailedPreparationFields
       DEF FailPreparation, Drop, Goto, Swap
<1>7. CASE AfterPrepared(m)
  BY <1>7, <1>a, NoRecordFields DEF AfterPrepared, Drop, Goto
<1>8. CASE AfterFailedPreparation(m)
  BY <1>8, <1>a, NoRecordFields DEF AfterFailedPreparation, Drop, Goto, Return
<1>9. CASE AfterStarting(m)
  BY <1>9, <1>a, NoRecordFields DEF AfterStarting, Drop, Goto, Return, Step
<1>10. CASE DeliverJIT(m)
  BY <1>10, <1>a, NoRecordFields DEF DeliverJIT, Goto, Step
<1>11. CASE StopOwnStart(m)
  BY <1>11, <1>a, NoRecordFields, CleaningFields, RolledBackFields
     DEF StopOwnStart, Drop, Goto, Return, StopFails, StopSucceeds, Swap
<1>12. CASE AfterRollback(m)
  BY <1>12, <1>a, NoRecordFields DEF AfterRollback, Drop, Goto
<1>13. CASE AfterRunning(m)
  BY <1>13, <1>a, NoRecordFields DEF AfterRunning, Drop, Goto, Return, Step
<1>14. CASE AfterFailClaim(m)
  BY <1>14, <1>a, NoRecordFields, CleaningFields
     DEF AfterFailClaim, Drop, Forget, Goto, Return, Step, Swap
<1>15. CASE FailCheck(m)
  <2>1. rec[m].rev = journal.rev =>
          /\ journal.state = "cleaning" /\ journal.ref = "set" /\ live = {}
          /\ journal.fence = tok[m] /\ tok[m] # NoToken
    BY <1>15, <1>a DEF FailCheck, PlatformShape
  <2> QED
    BY <1>15, <1>a, <2>1, NoRecordFields, FailedStartFields DEF FailCheck, Drop, Goto
<1>16. CASE AfterClaim(m)
  BY <1>16, <1>a, NoRecordFields DEF AfterClaim, Drop, Forget, Goto, Return, Step
<1>17. CASE DestroyStop(m)
  BY <1>17, <1>a, NoRecordFields DEF DestroyStop, Drop, Goto, Step, StopFails, StopSucceeds
<1>18. CASE FinalizeCleanup(m)
  <2>1. rec[m].rev = journal.rev =>
          /\ journal.state = "cleaning" /\ journal.ref = "set" /\ live = {}
          /\ journal.fence = rec[m].fence /\ journal.fence \in stopped
    BY <1>18, <1>a DEF FinalizeCleanup, PlatformShape
  <2> QED
    BY <1>18, <1>a, <2>1, NoRecordFields, ReleasedFields
       DEF FinalizeCleanup, Drop, Goto, Swap
<1>19. CASE CheckWorkspace(m)
  <2>1. rec[m].rev = journal.rev =>
          /\ journal.state = "cleaning" /\ journal.ref = "set"
          /\ live = {} /\ journal.fence = NoToken
    BY <1>19, <1>a DEF CheckWorkspace, PlatformShape
  <2> QED
    BY <1>19, <1>a, <2>1, NoRecordFields, ReleasedFields DEF CheckWorkspace, Drop, Goto
<1>20. CASE RemoveRoot(m)
  BY <1>20, <1>a, NoRecordFields DEF RemoveRoot, Drop, Goto
<1>21. CASE AfterTerminal(m)
  BY <1>21, <1>a, NoRecordFields
     DEF AfterTerminal, Committed, Drop, ForgetCleanup, Goto, Return, SameRecord, Step,
         TerminalCommitted
<1>22. CASE TerminalReload(m)
  BY <1>22, <1>a, NoRecordFields
     DEF TerminalReload, Committed, Drop, ForgetCleanup, Goto, OwnsCleanup, Return,
         SameRecord, Step, Swap
<1>23. CASE Quarantine(m)
  BY <1>23, <1>a, NoRecordFields, CleanupFailedFields
     DEF Quarantine, Drop, Forget, ForgetCleanup, Goto, Return, Swap
<1>24. CASE AfterQuarantine(m)
  BY <1>24, <1>a, NoRecordFields DEF AfterQuarantine, Drop, ForgetCleanup, Goto, Return
<1> QED
  BY <1>1, <1>2, <1>3, <1>4, <1>5, <1>6, <1>7, <1>8, <1>9, <1>10, <1>11, <1>12, <1>13,
     <1>14, <1>15, <1>16, <1>17, <1>18, <1>19, <1>20, <1>21, <1>22, <1>23, <1>24
     DEF Quiet

\* PrepareWorkspace turns the bare root into the identified workspace.
LEMMA PrepareWorkspaceStep ==
  ASSUME TypeOK, Shapes, NEW m \in Managers, PrepareWorkspace(m)
  PROVE  Shapes'
<1>a. /\ journal \in Record
      /\ \A n \in Managers : rec[n] \in Record /\ goal[n] \in Record
  BY Typed
<1> USE RecordFields, TokenAssumption DEF TypeOK, CallTypeOK
<1>1. Benign /\ Alone(m)
  BY
     DEF Shapes, Books, PlatformShape, PreparerShape, PrepLabels, PrepareWorkspace,
         Swap, Step, Goto, Benign, Alone, Kept
<1>2. PreparerShape'
  <2>1. CASE Step(m, "rmprep") /\ UNCHANGED workspace
    <3>1. \A n \in Managers : /\ rec'[n] = rec[n] /\ goal'[n] = goal[n]
                              /\ Preparing(n)' <=> Preparing(n)
                              /\ pc'[n] \in PrepLabels <=> pc[n] \in PrepLabels
      BY <2>1 DEF PrepareWorkspace, Step, Goto, Preparing, PrepLabels
    <3> QED
      BY <1>1, <2>1, <3>1
         DEF PrepareWorkspace, Step, Goto, Shapes, PreparerShape, PrepLabels, Benign
  <2>2. CASE Swap(m, Prepared(rec[m]), "after_prepared")
    <3>1. LeavesPreparer(m)
      BY <2>2 DEF PrepareWorkspace, Swap, Goto, LeavesPreparer, Preparing, PrepLabels
    <3> QED
      BY <1>1, <3>1, PreparersApart DEF Shapes, Alone, Benign
  <2> QED BY <2>1, <2>2 DEF PrepareWorkspace
<1>3. CallShape(m)'
  <2>1. /\ rec[m].state = "preparing"
        /\ rec[m].rev = journal.rev => rec[m] = journal /\ journal.state = "preparing"
    BY
       DEF PrepareWorkspace, Shapes, CallShape, Knows, CasLabels, AfterLabels,
           PreparerShape, PrepLabels
  <2> QED
    BY <1>a, <2>1, PreparedFields
       DEF Shapes, CallShape, AfterLabels, AtTerminal, CandidateFits, CasLabels,
           PrepareWorkspace, CleanerKnows, Step, Swap, Goto, Knows, OwnerKnows, Owns,
           Retired, SameStartedRuntime, Settled, StopLabels, TerminalStates,
           Unlaunched, VerdictIsTrue, Books, JournalShape
<1> QED
  BY <1>1, <1>2, <1>3, BenignBooks, BenignSparesCalls DEF Shapes, Alone

\* MakeExecutionRoot: Mkdir happens where nothing is and nobody else works.
LEMMA MakeExecutionRootStep ==
  ASSUME TypeOK, Shapes, NEW m \in Managers, MakeExecutionRoot(m)
  PROVE  Shapes'
<1>a. /\ journal \in Record
      /\ \A n \in Managers : rec[n] \in Record /\ goal[n] \in Record
  BY Typed
<1> USE RecordFields, TokenAssumption DEF TypeOK, CallTypeOK
<1>1. /\ Alone(m) /\ UNCHANGED <<journal, platform, drawn>>
      /\ journal.ref = "unset" /\ workspace = "absent"
      /\ journal.state \in {"preparing", "cleaning", "cleanup_failed"}
      /\ \A n \in Managers \ {m} : ~Preparing(n)
  BY
     DEF Shapes, PreparerShape, Preparing, PrepLabels, MakeExecutionRoot, Step, Drop,
         Goto, Alone, Kept
<1>2. Books'
  <2>1. \A n \in Managers : tok'[n] \in {tok[n], NoToken}
    BY <1>1 DEF Alone
  <2> QED
    BY <1>1, <2>1
       DEF Shapes, Books, JournalShape, PlatformShape, LiveIsJournaled,
           AtMostOneLaunch, Retired, TokenShape
<1>3. PreparerShape'
  <2>1. CASE Step(m, "prepare") /\ workspace' = "bare"
    <3>1. \A n \in Managers : /\ rec'[n] = rec[n] /\ goal'[n] = goal[n]
                              /\ Preparing(n)' <=> Preparing(n)
                              /\ pc'[n] \in PrepLabels <=> pc[n] \in PrepLabels
      BY <2>1 DEF MakeExecutionRoot, Step, Goto, Preparing, PrepLabels
    <3>2. \A n \in Managers : pc'[n] \in PrepLabels => n = m
      BY <1>1, <3>1 DEF Preparing
    <3> QED
      BY <1>1, <2>1, <3>1, <3>2
         DEF MakeExecutionRoot, Step, Goto, Shapes, PreparerShape, PrepLabels,
             Preparing
  <2>2. CASE Drop(m, "quarantine")
    <3>1. LeavesPreparer(m)
      BY <2>2 DEF MakeExecutionRoot, Drop, Goto, LeavesPreparer, Preparing, PrepLabels
    <3> QED
      BY <1>1, <3>1, PreparersApart DEF Shapes, Alone
  <2> QED BY <2>1, <2>2 DEF MakeExecutionRoot
<1>4. CallShape(m)'
  BY <1>a, <1>1, NoRecordFields
     DEF Shapes, CallShape, AfterLabels, AtTerminal, CandidateFits, CasLabels,
         MakeExecutionRoot, CleanerKnows, Step, Drop, Goto, Knows, OwnerKnows, Owns,
         Retired, SameStartedRuntime, Settled, StopLabels, TerminalStates, Unlaunched,
         VerdictIsTrue, Books, JournalShape
<1>5. ASSUME NEW n \in Managers \ {m} PROVE CallShape(n)'
  <2>1. CallShape(n) /\ Kept(n) /\ ~Preparing(n)
    BY <1>1, <1>5 DEF Shapes, Alone
  <2>2. Knows(n)' /\ OwnerKnows(n)' /\ CleanerKnows(n)'
    BY <1>1, <2>1
       DEF CallShape, Kept, Knows, Retired, OwnerKnows, Owns, Unlaunched,
           SameStartedRuntime, CleanerKnows
  <2>3. VerdictIsTrue(n)' /\ CandidateFits(n)'
    BY <1>1, <2>1 DEF CallShape, Kept, VerdictIsTrue, AtTerminal, CandidateFits, Preparing
  <2> QED BY <2>2, <2>3 DEF CallShape
<1> QED
  BY <1>2, <1>3, <1>4, <1>5 DEF Shapes

\* Create finds no other call past its own Create.
LEMMA CreateStep ==
  ASSUME TypeOK, Shapes, NEW m \in Managers, Create(m)
  PROVE  Shapes'
<1>a. /\ journal \in Record
      /\ \A n \in Managers : rec[n] \in Record /\ goal[n] \in Record
  BY Typed
<1> USE RecordFields, TokenAssumption DEF TypeOK, CallTypeOK
<1>1. Alone(m) /\ UNCHANGED <<workspace, platform, drawn>>
  BY DEF Create, Return, Drop, Goto, Alone, Kept
<1>2. CASE UNCHANGED journal /\ Return(m)
  <2>1. Benign /\ LeavesPreparer(m)
    BY <1>1, <1>2, NoRecordFields
       DEF Shapes, Books, PlatformShape, Benign, LeavesPreparer, PrepLabels, Preparing,
           Create, Return, Drop, Goto
  <2>2. CallShape(m)'
    BY <1>a, <1>2, NoRecordFields
       DEF Shapes, CallShape, AfterLabels, AtTerminal, CandidateFits, CasLabels,
           Create, Return, CleanerKnows, Drop, Goto, Knows, OwnerKnows, Owns, Retired,
           SameStartedRuntime, Settled, StopLabels, TerminalStates, Unlaunched,
           VerdictIsTrue, Books, JournalShape
  <2> QED BY <1>1, <2>1, <2>2, BenignStep
<1>3. CASE /\ journal.state = "none" /\ journal' = Created(m)
           /\ \/ /\ Goto(m, "mkroot") /\ rec' = [rec EXCEPT ![m] = Created(m)]
                 /\ UNCHANGED <<cont, goal, cas, tok, op>>
              \/ Return(m)
  <2>1. /\ journal = NoRecord /\ workspace = "absent"
        /\ live = {} /\ launched = {} /\ revokedEver \subseteq stopped
        /\ \A n \in Managers :
             /\ pc[n] \in {"idle", "create", "runload"} /\ cas[n] = "ok"
             /\ rec[n] = NoRecord /\ goal[n].rev = 0 /\ goal[n].ref = "unset"
    BY <1>3, <1>a, NoRecordFields
       DEF Shapes, Books, JournalShape, PlatformShape, Retired, CallShape, Knows,
           CasLabels, AfterLabels, PreparerShape
  <2>2. Books'
    <3>1. JournalShape'
      BY <1>1, <1>3, <2>1, CreatedFields DEF JournalShape
    <3>2. PlatformShape'
      BY <1>1, <1>3, <2>1, CreatedFields
         DEF Shapes, Books, PlatformShape, LiveIsJournaled, AtMostOneLaunch, Retired
    <3>3. TokenShape'
      <4>1. \A n \in Managers : tok'[n] \in {tok[n], NoToken}
        BY <1>1 DEF Alone
      <4> QED
        BY <1>1, <1>3, <2>1, <4>1, CreatedFields DEF Shapes, Books, TokenShape
    <3> QED BY <3>1, <3>2, <3>3 DEF Books
  <2>3. \A n \in Managers \ {m} :
          /\ pc'[n] = pc[n] /\ cont'[n] = cont[n] /\ rec'[n] = rec[n]
          /\ goal'[n] = goal[n] /\ cas'[n] = cas[n] /\ tok'[n] = tok[n]
    BY <1>1 DEF Alone, Kept
  <2>4. /\ pc'[m] \in {"mkroot", "idle"} /\ cas'[m] = "ok"
        /\ goal'[m].rev = 0 /\ goal'[m].ref = "unset"
        /\ rec'[m] \in {Created(m), NoRecord} /\ (pc'[m] = "mkroot" => rec'[m] = Created(m))
    BY <1>3, <2>1, NoRecordFields DEF Create, Return, Drop, Goto
  <2>5. PreparerShape'
    <3>1. /\ \A n \in Managers : Preparing(n)' <=> n = m /\ pc'[m] = "mkroot"
          /\ \A n \in Managers : pc'[n] \in PrepLabels <=> n = m /\ pc'[m] = "mkroot"
      BY <2>1, <2>3, <2>4 DEF Preparing, PrepLabels
    <3>2. \A n \in Managers : rec'[n].ref = "unset" /\ goal'[n].ref = "unset"
      BY <2>1, <2>3, <2>4, CreatedFields, NoRecordFields
    <3> QED
      BY <1>1, <1>3, <2>1, <2>4, <3>1, <3>2, CreatedFields DEF PreparerShape
  <2>6. ASSUME NEW n \in Managers PROVE CallShape(n)'
    <3>1. /\ pc'[n] \in {"idle", "create", "runload", "mkroot"} /\ cas'[n] = "ok"
          /\ goal'[n].rev = 0
          /\ rec'[n] \in {Created(m), NoRecord}
      BY <2>1, <2>3, <2>4
    <3> QED
      BY <1>3, <3>1, CreatedFields, NoRecordFields
         DEF CallShape, Knows, OwnerKnows, CleanerKnows, VerdictIsTrue, CandidateFits,
             Owns, Unlaunched, AtTerminal, StopLabels, CasLabels, AfterLabels, Settled,
             TerminalStates
  <2> QED BY <2>2, <2>5, <2>6 DEF Shapes
<1> QED BY <1>2, <1>3 DEF Create

\* ClaimStarting draws a token nobody has.
LEMMA ClaimStartingStep ==
  ASSUME TypeOK, Shapes, NEW m \in Managers, ClaimStarting(m)
  PROVE  Shapes'
<1>a. /\ journal \in Record
      /\ \A n \in Managers : rec[n] \in Record /\ goal[n] \in Record
  BY Typed
<1> USE RecordFields, TokenAssumption DEF TypeOK, CallTypeOK
<1>1. CASE Return(m) /\ UNCHANGED drawn
  <2>1. Benign /\ Alone(m) /\ LeavesPreparer(m)
    BY <1>1, NoRecordFields
       DEF ClaimStarting, Return, Drop, Goto, Benign, Alone, Kept, LeavesPreparer,
           Preparing, PrepLabels, Shapes, Books, PlatformShape
  <2>2. CallShape(m)'
    BY <1>a, <1>1, NoRecordFields
       DEF ClaimStarting, Shapes, CallShape, AfterLabels, AtTerminal, CandidateFits,
           CasLabels, Return, CleanerKnows, Drop, Goto, Knows, OwnerKnows, Owns,
           Retired, SameStartedRuntime, Settled, StopLabels, TerminalStates,
           Unlaunched, VerdictIsTrue, Books, JournalShape
  <2> QED BY <2>1, <2>2, BenignStep
<1>2. ASSUME NEW t \in Tokens \ drawn, journal.state = "prepared",
             drawn' = drawn \cup {t}, tok' = [tok EXCEPT ![m] = t],
             goal' = [goal EXCEPT ![m] = Starting(journal, t)],
             Goto(m, "cas"), cont' = [cont EXCEPT ![m] = "after_starting"],
             UNCHANGED <<rec, cas, op>>
      PROVE Shapes'
  <2>1. UNCHANGED <<durable, platform>> /\ \A n \in Managers \ {m} : Kept(n)
    BY <1>2 DEF ClaimStarting, Kept, Goto
  <2>2. /\ pc'[m] = "cas" /\ cont'[m] = "after_starting"
        /\ rec'[m] = rec[m] /\ cas'[m] = cas[m] /\ tok'[m] = t
        /\ goal'[m].state = "starting" /\ goal'[m].rev = journal.rev
        /\ goal'[m].ref = "set" /\ goal'[m].fence = t /\ goal'[m].pid = 0
    BY <1>2, <1>a, StartingFields DEF Goto, Shapes, Books, JournalShape
  <2>3. JournalShape' /\ PlatformShape'
    BY <2>1
       DEF Shapes, Books, JournalShape, PlatformShape, LiveIsJournaled,
           AtMostOneLaunch, Retired
  <2>4. TokenShape'
    BY <1>2, <2>1, <2>2 DEF Shapes, Books, TokenShape, Kept
  <2>5. PreparerShape'
    <3>1. \A n \in Managers : pc[n] \notin PrepLabels /\ pc'[n] \notin PrepLabels
      BY <1>2, <2>1, <2>2 DEF Shapes, PreparerShape, PrepLabels, Kept
    <3>2. \A n \in Managers : Preparing(n)' => Preparing(n)
      BY <2>1, <2>2, <3>1 DEF Preparing, Kept
    <3> QED BY <1>2, <2>1, <3>1, <3>2 DEF Shapes, PreparerShape
  <2>6. CallShape(m)'
    <3>1. t \notin launched /\ t # NoToken /\ Knows(m) /\ pc[m] = "runload"
      BY <1>2 DEF Shapes, Books, TokenShape, CallShape, ClaimStarting
    <3>2. Knows(m)'
      BY <1>2, <2>1, <2>2, <3>1, <1>a DEF Knows, CasLabels, AfterLabels, Retired
    <3>3. OwnerKnows(m)' /\ CleanerKnows(m)' /\ VerdictIsTrue(m)'
      BY <2>1, <2>2, <3>1
         DEF OwnerKnows, Owns, Unlaunched, StopLabels, CleanerKnows, VerdictIsTrue,
             AtTerminal
    <3>4. CandidateFits(m)'
      BY <1>2, <2>1, <2>2 DEF CandidateFits, AfterLabels
    <3> QED BY <3>2, <3>3, <3>4 DEF CallShape
  <2>7. \A n \in Managers \ {m} : CallShape(n)'
    <3>1. ASSUME NEW n \in Managers \ {m} PROVE CallShape(n)'
      BY <2>1, <3>1
         DEF Shapes, Kept, CallShape, Knows, Retired, OwnerKnows, Owns, Unlaunched,
             SameStartedRuntime, CleanerKnows, VerdictIsTrue, AtTerminal, CandidateFits
    <3> QED BY <3>1
  <2> QED BY <2>3, <2>4, <2>5, <2>6, <2>7 DEF Shapes, Books
<1> QED BY <1>1, <1>2 DEF ClaimStarting

\* SupervisorStart launches over an unlaunched fence that only this call holds.
LEMMA SupervisorStartStep ==
  ASSUME TypeOK, Shapes, NEW m \in Managers, SupervisorStart(m)
  PROVE  Shapes'
<1>a. /\ journal \in Record
      /\ \A n \in Managers : rec[n] \in Record /\ goal[n] \in Record
  BY Typed
<1> USE RecordFields, TokenAssumption DEF TypeOK, CallTypeOK
<1> DEFINE t == tok[m]
<1>1. /\ UNCHANGED <<durable, stopped, finalized, revokedEver, drawn, tok>>
      /\ \A n \in Managers \ {m} : Kept(n)
  BY DEF SupervisorStart, Swap, Step, Goto, Kept
<1>2. /\ t # NoToken /\ t \in Tokens /\ t \notin launched
      /\ journal.fence = t /\ journal.ref = "set"
      /\ rec[m].state = "starting" /\ rec[m].fence = t /\ rec[m].ref = "set" /\ cas[m] = "ok"
      /\ launched = {} /\ live = {}
      /\ journal.state \in {"starting", "cleaning", "released", "cleanup_failed"}
  BY <1>a
     DEF SupervisorStart, Shapes, CallShape, OwnerKnows, Owns, Unlaunched, Knows,
         CasLabels, AfterLabels, Books, JournalShape, PlatformShape, TokenShape,
         States, ActiveStates, TerminalStates
<1>3. \/ live' = {} /\ launched' = {}
      \/ /\ t \notin stopped /\ workspace = "own" /\ launched' = {t} /\ live' \subseteq {t}
         /\ journal.state \in {"starting", "cleaning", "cleanup_failed"}
  BY <1>2 DEF SupervisorStart, Shapes, Books, JournalShape
<1>4. Books'
  BY <1>1, <1>2, <1>3
     DEF Shapes, Books, JournalShape, PlatformShape, LiveIsJournaled, AtMostOneLaunch,
         Retired, TokenShape
<1>5. /\ rec'[m] = rec[m] /\ cas'[m] = cas[m] /\ tok'[m] = tok[m]
      /\ \/ /\ pc'[m] \in {"stop_failed", "stop_changed", "stop_fenced"}
            /\ goal'[m] = goal[m] /\ cont'[m] = cont[m]
         \/ /\ pc'[m] = "cas" /\ cont'[m] = "after_running"
            /\ goal'[m] = Running(rec[m]) /\ t \in launched'
  BY DEF SupervisorStart, Swap, Step, Goto
<1>6. PreparerShape'
  <2>1. LeavesPreparer(m)
    BY <1>a, <1>1, <1>5, RunningFields
       DEF SupervisorStart, LeavesPreparer, Preparing, PrepLabels
  <2> QED BY <1>1, <2>1, PreparersApart DEF Shapes
<1>7. CallShape(m)'
  <2>1. Knows(m)'
    BY <1>a, <1>1, <1>2, <1>5, RunningFields
       DEF SupervisorStart, Shapes, CallShape, Knows, CasLabels, AfterLabels, Retired
  <2>2. OwnerKnows(m)' /\ CleanerKnows(m)' /\ VerdictIsTrue(m)'
    BY <1>1, <1>2, <1>5
       DEF OwnerKnows, Owns, Unlaunched, StopLabels, CleanerKnows, VerdictIsTrue,
           AtTerminal
  <2>3. CandidateFits(m)'
    <3>1. rec[m].rev = journal.rev => journal.state = "starting"
      BY <1>2 DEF Shapes, CallShape, Knows
    <3> QED
      BY <1>a, <1>1, <1>2, <1>5, <3>1, RunningFields DEF CandidateFits, AfterLabels
  <2> QED BY <2>1, <2>2, <2>3 DEF CallShape
<1>8. ASSUME NEW n \in Managers \ {m} PROVE CallShape(n)'
  <2>1. CallShape(n) /\ Kept(n) /\ (tok[n] # NoToken => tok[n] # t)
    BY <1>1, <1>2, <1>8 DEF Shapes, Books, TokenShape
  <2>2. Knows(n)' 
    BY <1>1, <2>1 DEF CallShape, Kept, Knows, Retired
  <2>3. OwnerKnows(n)'
    BY <1>1, <1>2, <1>3, <2>1
       DEF CallShape, Kept, OwnerKnows, Owns, Unlaunched, SameStartedRuntime
  <2>4. CleanerKnows(n)'
    BY <1>a, <1>1, <1>2, <1>3, <2>1
       DEF CallShape, Kept, CleanerKnows, Knows, CasLabels, AfterLabels
  <2>5. VerdictIsTrue(n)'
    BY <1>1, <1>2, <1>3, <2>1 DEF CallShape, Kept, VerdictIsTrue, AtTerminal
  <2>6. CandidateFits(n)'
    BY <1>1, <1>2, <1>3, <2>1 DEF CallShape, Kept, CandidateFits
  <2> QED BY <2>2, <2>3, <2>4, <2>5, <2>6 DEF CallShape
<1> QED BY <1>4, <1>6, <1>7, <1>8 DEF Shapes

\* GarbageCollect forgets a fence only after the root is gone for good.
LEMMA GarbageCollectStep ==
  ASSUME TypeOK, Shapes, NEW m \in Managers, GarbageCollect(m)
  PROVE  Shapes'
<1>a. /\ journal \in Record
      /\ \A n \in Managers : rec[n] \in Record /\ goal[n] \in Record
  BY Typed
<1> USE RecordFields, TokenAssumption DEF TypeOK, CallTypeOK
<1>1. /\ UNCHANGED <<durable, live, launched, revokedEver, drawn>>
      /\ Alone(m) /\ LeavesPreparer(m) /\ Retired
      /\ finalized' \subseteq stopped'
  BY NoRecordFields
     DEF GarbageCollect, Return, Drop, Goto, Alone, Kept, LeavesPreparer, Preparing,
         PrepLabels, Shapes, CallShape, Knows, Books, PlatformShape
<1>2. JournalShape' /\ PlatformShape'
  BY <1>1
     DEF Shapes, Books, JournalShape, PlatformShape, LiveIsJournaled, AtMostOneLaunch,
         Retired
<1>3. TokenShape'
  <2>1. \A n \in Managers : tok'[n] \in {tok[n], NoToken}
    BY <1>1 DEF Alone
  <2> QED BY <1>1, <2>1 DEF Shapes, Books, TokenShape
<1>4. PreparerShape'
  BY <1>1, PreparersApart DEF Shapes, Alone
<1>5. CallShape(m)'
    BY <1>a, <1>1, NoRecordFields
       DEF GarbageCollect, Shapes, CallShape, AfterLabels, AtTerminal, CandidateFits,
           CasLabels, Return, CleanerKnows, Drop, Goto, Knows, OwnerKnows, Owns,
           Retired, SameStartedRuntime, Settled, StopLabels, TerminalStates,
           Unlaunched, VerdictIsTrue, Books, JournalShape
<1>6. ASSUME NEW n \in Managers \ {m} PROVE CallShape(n)'
  <2>1. CallShape(n) /\ Kept(n)
    BY <1>1, <1>6 DEF Shapes, Alone
  <2>2. Knows(n)' /\ OwnerKnows(n)' /\ CandidateFits(n)'
    BY <1>1, <2>1
       DEF CallShape, Kept, Knows, Retired, OwnerKnows, Owns, Unlaunched,
           SameStartedRuntime, CandidateFits
  <2>3. VerdictIsTrue(n)'
    BY <1>1, <2>1 DEF CallShape, Kept, VerdictIsTrue, AtTerminal, Retired
  <2>4. CleanerKnows(n)'
    BY <1>1, <2>1 DEF CallShape, Kept, CleanerKnows, Knows, CasLabels, AfterLabels, Retired
  <2> QED BY <2>2, <2>3, <2>4 DEF CallShape
<1> QED BY <1>2, <1>3, <1>4, <1>5, <1>6 DEF Shapes, Books

\* CasAnswer either writes a legal successor or hands the call the current record.
LEMMA CasAnswerStep ==
  ASSUME TypeOK, Shapes, NEW m \in Managers, CasAnswer(m)
  PROVE  Shapes'
<1>a. /\ journal \in Record
      /\ \A n \in Managers : rec[n] \in Record /\ goal[n] \in Record
  BY Typed
<1> USE RecordFields, TokenAssumption DEF TypeOK, CallTypeOK
<1>1. /\ pc[m] = "cas" /\ cont[m] \in AfterLabels
      /\ pc'[m] = cont[m] /\ cont'[m] = cont[m] /\ goal'[m] = goal[m]
      /\ UNCHANGED <<workspace, platform, drawn, tok>> /\ Alone(m) /\ CallShape(m)
  BY DEF CasAnswer, Goto, Alone, Kept, Shapes, CallShape, CandidateFits
<1>2. CASE /\ journal.rev = goal[m].rev /\ journal' = Written(m)
           /\ rec' = [rec EXCEPT ![m] = Written(m)] /\ cas' = [cas EXCEPT ![m] = "ok"]
  <2>1. /\ LegalWrite(m) /\ journal' \in Record /\ SameRecord(journal', goal[m])
        /\ rec'[m] = journal' /\ cas'[m] = "ok"
    BY <1>1, <1>2, WriteIsLegal DEF Shapes
  <2>2. Books' 
    BY <1>1, <2>1, WriteKeepsBooks DEF Shapes
  <2>3. PreparerShape'
    BY <1>1, <2>1, WriteSparesPreparer
       DEF Alone, AfterLabels, PrepLabels, Preparing, SameRecord
  <2>4. \A n \in Managers \ {m} : CallShape(n)'
    BY <1>1, <2>1, WriteSparesCalls DEF Shapes, Alone
  <2>5. CallShape(m)'
    <3>1. Knows(m)'
      BY <1>1, <2>1, <2>2, <1>a
         DEF CallShape, LegalWrite, Knows, Settled, TerminalStates, AfterLabels,
             CasLabels, Books, JournalShape, Retired
    <3>2. OwnerKnows(m)'
      BY <1>1, <2>1
         DEF CallShape, OwnerKnows, Owns, Unlaunched, SameStartedRuntime, AfterLabels,
             StopLabels, LegalWrite, CandidateFits, SameRecord
    <3>3. CleanerKnows(m)'
      BY <1>1, <2>1 DEF CallShape, CleanerKnows, CandidateFits, AfterLabels, SameRecord
    <3>4. VerdictIsTrue(m)'
      <4>1. goal[m].rev < journal'.rev
        BY <1>a, <1>2, <2>1 DEF LegalWrite
      <4> QED
        BY <1>1, <2>1, <4>1
           DEF CallShape, VerdictIsTrue, AtTerminal, AfterLabels, SameRecord
    <3>5. CandidateFits(m)'
      BY <1>1 DEF CandidateFits, AfterLabels
    <3> QED BY <3>1, <3>2, <3>3, <3>4, <3>5 DEF CallShape
  <2> QED BY <2>2, <2>3, <2>4, <2>5 DEF Shapes
<1>3. CASE /\ journal.rev # goal[m].rev /\ rec' = [rec EXCEPT ![m] = journal]
           /\ cas' = [cas EXCEPT ![m] = "reconciliation"] /\ UNCHANGED journal
  <2>1. Benign /\ LeavesPreparer(m)
    BY <1>1, <1>3
       DEF Benign, Shapes, Books, PlatformShape, LeavesPreparer, Preparing, PrepLabels,
           AfterLabels
  <2>2. rec'[m] = journal /\ cas'[m] = "reconciliation"
    BY <1>3
  <2>3. CallShape(m)'
    <3>1. Knows(m)'
      BY <1>1, <1>3, <2>2, <1>a
         DEF CallShape, Knows, Settled, TerminalStates, AfterLabels, CasLabels, Shapes,
             Books, JournalShape, Retired
    <3>2. OwnerKnows(m)'
      BY <1>1, <1>3, <2>2
         DEF CallShape, OwnerKnows, Owns, Unlaunched, SameStartedRuntime, AfterLabels,
             StopLabels
    <3>3. CleanerKnows(m)' /\ VerdictIsTrue(m)' /\ CandidateFits(m)'
      BY <1>1, <1>3, <2>2, <1>a
         DEF CallShape, CleanerKnows, VerdictIsTrue, AtTerminal, CandidateFits,
             AfterLabels
    <3> QED BY <3>1, <3>2, <3>3 DEF CallShape
  <2> QED BY <1>1, <2>1, <2>3, BenignStep
<1> QED BY <1>2, <1>3 DEF CasAnswer

\* CasError may have written: nobody needs to know yet.
LEMMA CasErrorStep ==
  ASSUME TypeOK, Shapes, NEW m \in Managers, CasError(m)
  PROVE  Shapes'
<1>a. /\ journal \in Record
      /\ \A n \in Managers : rec[n] \in Record /\ goal[n] \in Record
  BY Typed
<1> USE RecordFields, TokenAssumption DEF TypeOK, CallTypeOK
<1>1. /\ pc[m] = "cas" /\ pc'[m] = "reload" /\ cont'[m] = cont[m]
      /\ goal'[m] = goal[m] /\ rec'[m] = rec[m] /\ cas'[m] = cas[m]
      /\ UNCHANGED <<workspace, platform, drawn, tok>> /\ Alone(m) /\ CallShape(m)
  BY DEF CasError, Goto, Alone, Kept, Shapes
<1>2. CASE journal.rev = goal[m].rev /\ journal' = Written(m)
  <2>1. LegalWrite(m) /\ journal' \in Record /\ SameRecord(journal', goal[m])
    BY <1>1, <1>2, WriteIsLegal DEF Shapes
  <2>2. Books' 
    BY <1>1, <2>1, WriteKeepsBooks DEF Shapes
  <2>3. PreparerShape'
    BY <1>1, <2>1, WriteSparesPreparer DEF Alone, PrepLabels, Preparing
  <2>4. \A n \in Managers \ {m} : CallShape(n)'
    BY <1>1, <2>1, WriteSparesCalls DEF Shapes, Alone
  <2>5. CallShape(m)'
    <3>0. rec[m].rev < journal'.rev /\ goal[m].rev < journal'.rev
      BY <1>a, <1>1, <2>1 DEF CallShape, Knows, LegalWrite
    <3>1. Knows(m)'
      BY <1>1, <2>1, <3>0, <1>a, WriteKeepsRetired
         DEF CallShape, LegalWrite, Knows, Settled, TerminalStates, CasLabels
    <3>2. OwnerKnows(m)'
      BY <1>1, <2>1 DEF CallShape, OwnerKnows, Owns, Unlaunched, StopLabels, LegalWrite
    <3>3. CleanerKnows(m)' /\ VerdictIsTrue(m)' /\ CandidateFits(m)'
      BY <1>1, <3>0 DEF CallShape, CleanerKnows, VerdictIsTrue, AtTerminal, CandidateFits
    <3> QED BY <3>1, <3>2, <3>3 DEF CallShape
  <2> QED BY <2>2, <2>3, <2>4, <2>5 DEF Shapes
<1>3. CASE UNCHANGED journal
  <2>1. Benign /\ LeavesPreparer(m)
    BY <1>1, <1>3
       DEF Benign, Shapes, Books, PlatformShape, LeavesPreparer, Preparing, PrepLabels
  <2>3. CallShape(m)'
    BY <1>1, <1>3
       DEF CallShape, Knows, Retired, OwnerKnows, Owns, Unlaunched, SameStartedRuntime,
           StopLabels, CleanerKnows, VerdictIsTrue, AtTerminal, CandidateFits,
           CasLabels
  <2> QED BY <1>1, <2>1, <2>3, BenignStep
<1> QED BY <1>2, <1>3 DEF CasError

\* A process that exits and a root that is replaced touch no call.
LEMMA EnvironmentStep ==
  ASSUME TypeOK, Shapes,
         UNCHANGED <<journal, drawn, launched, stopped, finalized, revokedEver, call>>,
         live' \subseteq live,
         workspace' \in {workspace, "foreign"}, workspace' = workspace \/ workspace = "own"
  PROVE  Shapes'
<1>1. Benign /\ \A n \in Managers : Kept(n)
  BY DEF Benign, Kept, Shapes, Books, PlatformShape
<1>2. Books'
  <2>1. JournalShape' /\ PlatformShape'
    BY <1>1
       DEF Shapes, Books, Benign, JournalShape, PlatformShape, LiveIsJournaled,
           AtMostOneLaunch, Retired
  <2>2. TokenShape'
    BY DEF Shapes, Books, TokenShape
  <2> QED
    BY <2>1, <2>2 DEF Books
<1>3. PreparerShape'
  BY DEF Shapes, PreparerShape, Preparing, PrepLabels
<1>4. \A n \in Managers : CallShape(n)'
  BY <1>1, BenignSparesCalls DEF Shapes
<1> QED
  BY <1>2, <1>3, <1>4 DEF Shapes

\* The shapes hold before the execution has a record.
LEMMA ShapesInit == Init => Shapes
<1> SUFFICES ASSUME Init PROVE Shapes
  OBVIOUS
<1>1. Books
  BY NoRecordFields
     DEF Init, Books, JournalShape, PlatformShape, LiveIsJournaled, AtMostOneLaunch,
         TokenShape
<1>2. PreparerShape
  BY NoRecordFields DEF Init, PreparerShape, Preparing, PrepLabels
<1>3. \A m \in Managers : CallShape(m)
  BY NoRecordFields
     DEF Init, CallShape, Knows, OwnerKnows, Owns, Unlaunched, StopLabels,
         CleanerKnows, VerdictIsTrue, AtTerminal, CandidateFits, CasLabels,
         AfterLabels, Settled, TerminalStates
<1> QED
  BY <1>1, <1>2, <1>3 DEF Shapes

(***************************************************************************)
(* The shapes are inductive.                                               *)
(***************************************************************************)
LEMMA ShapesStep == TypeOK /\ Shapes /\ [Next]_vars => Shapes'
<1> SUFFICES ASSUME TypeOK, Shapes, [Next]_vars PROVE Shapes'
  OBVIOUS
<1>1. ASSUME NEW m \in Managers, Quiet(m) PROVE Shapes'
  BY <1>1, QuietIsBenign, QuietCalls, BenignStep
<1>2. ASSUME NEW t \in Tokens, ProcessExit(t) PROVE Shapes'
  <2>1. /\ live' \subseteq live /\ workspace' = workspace
        /\ UNCHANGED <<journal, drawn, launched, stopped, finalized, revokedEver, call>>
    BY <1>2 DEF ProcessExit
  <2> QED
    BY ONLY TypeOK, Shapes, <2>1, EnvironmentStep
<1>3. CASE ReplaceWorkspace
  BY <1>3, EnvironmentStep DEF ReplaceWorkspace
<1>4. CASE UNCHANGED vars
  <2>1. /\ live' \subseteq live /\ workspace' = workspace
        /\ UNCHANGED <<journal, drawn, launched, stopped, finalized, revokedEver, call>>
    BY <1>4 DEF vars
  <2> QED
    BY ONLY TypeOK, Shapes, <2>1, EnvironmentStep
<1> QED
  BY <1>1, <1>2, <1>3, <1>4, CasAnswerStep, CasErrorStep, CreateStep,
     MakeExecutionRootStep, PrepareWorkspaceStep, ClaimStartingStep,
     SupervisorStartStep, GarbageCollectStep
     DEF Next, CallStep, Quiet

---------------------------------------------------------------------------
(* What the runner runtime guarantees *)

\* The invariant holds in every reachable state.
LEMMA ShapesHold == Spec => [](TypeOK /\ Shapes)
  BY TypeCorrect, ShapesInit, ShapesStep, PTL DEF Spec

(***************************************************************************)
(* The journal covers the runner: a live process always has a record that  *)
(* owes its teardown, and Released or Failed is only ever recorded over an *)
(* empty boundary and a removed workspace (EnsureRunning, Destroy).        *)
(***************************************************************************)
THEOREM JournalCovers == Spec => []JournalCoversRunner
<1>1. TypeOK /\ Shapes => JournalCoversRunner
  BY DEF Shapes, Books, JournalShape, PlatformShape, JournalCoversRunner,
         LiveIsJournaled, TerminalIsClean
<1> QED
  BY <1>1, ShapesHold, PTL

(***************************************************************************)
(* The JIT configuration reaches at most one Start, and its root is never  *)
(* offered again (EnsureRunning, Recover).                                 *)
(***************************************************************************)
THEOREM SpentOnce == Spec => []ConfigurationSpentOnce
<1>1. TypeOK /\ Shapes => ConfigurationSpentOnce
  <2> SUFFICES ASSUME TypeOK, Shapes PROVE ConfigurationSpentOnce
    OBVIOUS
  <2>1. journal.state \in {"none", "preparing", "prepared"} => journal.fence = NoToken
    BY NoRecordFields DEF Shapes, Books, JournalShape
  <2> QED
    BY <2>1 DEF Shapes, Books, PlatformShape, ConfigurationSpentOnce,
                CredentialsNeverReoffered
<1> QED
  BY <1>1, ShapesHold, PTL

\* The record is only changed by Create and by a legal compareAndSwap, and
\* neither touches a process or the workspace.
LEMMA JournalMoves ==
  ASSUME TypeOK, Shapes, [Next]_vars
  PROVE  \/ journal' = journal
         \/ /\ journal.state = "none" /\ journal'.state = "preparing"
            /\ journal.ref = "unset" /\ journal'.ref = "unset"
            /\ UNCHANGED <<platform, workspace>>
         \/ \E m \in Managers : LegalWrite(m) /\ UNCHANGED <<platform, workspace>>
<1>1. ASSUME NEW m \in Managers, Create(m), journal' # journal
      PROVE  /\ journal.state = "none" /\ journal'.state = "preparing"
             /\ journal.ref = "unset" /\ journal'.ref = "unset"
             /\ UNCHANGED <<platform, workspace>>
  BY <1>1, CreatedFields, NoRecordFields DEF Create, Shapes, Books, JournalShape
<1>2. ASSUME NEW m \in Managers, CasAnswer(m) \/ CasError(m), journal' # journal
      PROVE  LegalWrite(m) /\ UNCHANGED <<platform, workspace>>
  BY <1>2, WriteIsLegal DEF CasAnswer, CasError, Shapes
<1>3. ASSUME NEW m \in Managers, Quiet(m) PROVE journal' = journal
  BY <1>3, QuietIsBenign DEF Benign
<1>4. ASSUME NEW m \in Managers,
             \/ MakeExecutionRoot(m) \/ PrepareWorkspace(m) \/ ClaimStarting(m)
             \/ SupervisorStart(m) \/ GarbageCollect(m)
      PROVE  journal' = journal
  BY <1>4 DEF MakeExecutionRoot, PrepareWorkspace, ClaimStarting, SupervisorStart,
              GarbageCollect
<1>5. ASSUME NEW t \in Tokens, ProcessExit(t) PROVE journal' = journal
  BY <1>5 DEF ProcessExit
<1>6. ASSUME ReplaceWorkspace \/ UNCHANGED vars PROVE journal' = journal
  BY <1>6 DEF ReplaceWorkspace, vars
<1> QED
  BY <1>1, <1>2, <1>3, <1>4, <1>5, <1>6 DEF Next, CallStep, Quiet

\* Processes appear only in the one Start that finds nothing launched, over an
\* unrevoked fence and the execution's own workspace.
LEMMA ProcessMoves ==
  ASSUME TypeOK, Shapes, [Next]_vars
  PROVE  \/ live' \subseteq live /\ launched' = launched
         \/ /\ journal' = journal /\ launched = {} /\ live = {} /\ workspace = "own"
            /\ journal.state \in {"starting", "cleaning", "cleanup_failed"}
            /\ \E t \in Tokens \ stopped : launched' = {t} /\ live' \subseteq {t}
<1>1. ASSUME NEW m \in Managers, SupervisorStart(m)
      PROVE  \/ live' = live /\ launched' = launched
             \/ /\ journal' = journal /\ launched = {} /\ live = {} /\ workspace = "own"
                /\ journal.state \in {"starting", "cleaning", "cleanup_failed"}
                /\ tok[m] \in Tokens \ stopped
                /\ launched' = {tok[m]} /\ live' \subseteq {tok[m]}
  <2>1. /\ tok[m] # NoToken /\ tok[m] \in Tokens /\ tok[m] \notin launched
        /\ journal.fence = tok[m] /\ launched = {} /\ live = {}
    BY <1>1 DEF SupervisorStart, Shapes, CallShape, OwnerKnows, Owns, Unlaunched,
                Books, PlatformShape, TypeOK, CallTypeOK
  <2>2. workspace = "own" => journal.state \in {"starting", "cleaning", "cleanup_failed"}
    BY <2>1, Typed, RecordFields, NoRecordFields
       DEF Shapes, Books, JournalShape, States, ActiveStates, TerminalStates
  <2> QED
    BY <1>1, <2>1, <2>2 DEF SupervisorStart
<1>2. ASSUME NEW m \in Managers, Quiet(m) PROVE live' \subseteq live /\ launched' = launched
  BY <1>2, QuietIsBenign DEF Benign
<1>3. ASSUME NEW m \in Managers,
             \/ Create(m) \/ CasAnswer(m) \/ CasError(m) \/ MakeExecutionRoot(m)
             \/ PrepareWorkspace(m) \/ ClaimStarting(m) \/ GarbageCollect(m)
      PROVE  live' = live /\ launched' = launched
  BY <1>3 DEF Create, CasAnswer, CasError, MakeExecutionRoot, PrepareWorkspace,
              ClaimStarting, GarbageCollect
<1>4. ASSUME NEW t \in Tokens, ProcessExit(t)
      PROVE  live' \subseteq live /\ launched' = launched
  BY <1>4 DEF ProcessExit
<1>5. ASSUME ReplaceWorkspace \/ UNCHANGED vars
      PROVE  live' = live /\ launched' = launched
  BY <1>5 DEF ReplaceWorkspace, vars
<1> QED
  BY <1>1, <1>2, <1>3, <1>4, <1>5 DEF Next, CallStep, Quiet

\* The identified workspace disappears only under a record that owes or has had
\* its teardown: the preparing call removes a bare root, and the cleaning calls
\* hold a record that was Cleaning.
LEMMA RemovalIsIntended ==
  ASSUME TypeOK, Shapes, [Next]_vars, workspace = "own", workspace' = "absent"
  PROVE  journal.state \in Settled
<1>1. ASSUME NEW m \in Managers, FinalizeCleanup(m) \/ RemoveRoot(m)
      PROVE  journal.state \in Settled
  BY <1>1 DEF FinalizeCleanup, RemoveRoot, Shapes, CallShape, Knows, CleanerKnows,
              CasLabels, AfterLabels, Settled, AtTerminal, VerdictIsTrue
<1>2. ASSUME NEW m \in Managers, FailPreparation(m) PROVE FALSE
  BY <1>2 DEF FailPreparation, Shapes, PreparerShape, PrepLabels
<1>3. ASSUME NEW m \in Managers, MakeExecutionRoot(m) \/ PrepareWorkspace(m) PROVE FALSE
  BY <1>3 DEF MakeExecutionRoot, PrepareWorkspace
<1>4. ASSUME workspace' = workspace PROVE FALSE
  BY <1>4
<1>5. ASSUME NEW m \in Managers,
             \/ Create(m) \/ CasAnswer(m) \/ CasError(m) \/ CasReload(m)
             \/ ClaimStarting(m) \/ SupervisorStart(m) \/ GarbageCollect(m)
             \/ EnsurePrepared(m) \/ Destroy(m) \/ Recover(m) \/ Crash(m)
             \/ AfterPrepared(m) \/ AfterFailedPreparation(m) \/ AfterStarting(m)
             \/ DeliverJIT(m) \/ StopOwnStart(m) \/ AfterRollback(m) \/ AfterRunning(m)
             \/ AfterFailClaim(m) \/ FailCheck(m) \/ AfterClaim(m) \/ DestroyStop(m)
             \/ CheckWorkspace(m) \/ AfterTerminal(m) \/ TerminalReload(m)
             \/ Quarantine(m) \/ AfterQuarantine(m)
      PROVE  FALSE
  BY <1>4, <1>5
     DEF Create, CasAnswer, CasError, CasReload, ClaimStarting, SupervisorStart,
         GarbageCollect, EnsurePrepared, Destroy, Recover, Crash, AfterPrepared,
         AfterFailedPreparation, AfterStarting, DeliverJIT, StopOwnStart, AfterRollback,
         AfterRunning, AfterFailClaim, FailCheck, AfterClaim, DestroyStop,
         CheckWorkspace, AfterTerminal, TerminalReload, Quarantine, AfterQuarantine
<1>6. ASSUME NEW t \in Tokens, ProcessExit(t) PROVE FALSE
  BY <1>4, <1>6 DEF ProcessExit
<1>7. ASSUME ReplaceWorkspace \/ UNCHANGED vars PROVE FALSE
  BY <1>4, <1>7 DEF ReplaceWorkspace, vars
<1> QED
  BY <1>1, <1>2, <1>3, <1>5, <1>6, <1>7 DEF Next, CallStep

(***************************************************************************)
(* Teardown is ordered and final: the Cleaning intent is durable before an *)
(* identified workspace is removed, a stopped token starts nothing even    *)
(* after its fence was garbage collected, and a verdict is not taken back  *)
(* (Destroy, failStartedExecution, Recover, quarantine).                   *)
(***************************************************************************)
THEOREM TeardownFinal == Spec => TeardownIsFinal
<1>1. TypeOK /\ Shapes /\ [Next]_vars =>
        [workspace = "own" /\ workspace' = "absent"
           => journal.state \in {"cleaning"} \cup TerminalStates]_vars
  BY RemovalIsIntended DEF Settled
<1>2. TypeOK /\ Shapes /\ [Next]_vars =>
        [\A t \in revokedEver : t \in live' => t \in live]_vars
  BY ProcessMoves DEF Shapes, Books, PlatformShape, Retired
<1>3. TypeOK /\ Shapes /\ [Next]_vars =>
        [/\ journal.state = "cleanup_failed" => journal' = journal
         /\ journal.state \in {"released", "failed"} =>
               journal' = journal \/ journal'.state = "cleanup_failed"]_vars
  BY JournalMoves DEF LegalWrite, Settled, TerminalStates
<1> QED
  BY <1>1, <1>2, <1>3, ShapesHold, PTL
     DEF Spec, TeardownIsFinal, IntentBeforeRemoval, NoStartAfterStop, VerdictStands

(***************************************************************************)
(* The runner runtime implements RunnerLifecycle: whatever Managers,       *)
(* crashes and ambiguous writes interleave, every step of the record and   *)
(* of the processes is one move of the abstract lifecycle or invisible.    *)
(***************************************************************************)
THEOREM ImplementsLifecycle == Spec => LifecycleSpec
<1>1. Init => Lifecycle!Init
  BY NoRecordFields DEF Init, Lifecycle!Init
<1>2. TypeOK /\ Shapes /\ [Next]_vars => [Lifecycle!Next]_(Lifecycle!vars)
  <2> SUFFICES ASSUME TypeOK, Shapes, [Next]_vars
               PROVE  [Lifecycle!Next]_(Lifecycle!vars)
    OBVIOUS
  <2>a. journal \in Record
    BY Typed
  <2>1. CASE journal' = journal /\ live' \subseteq live /\ launched' = launched
    BY <2>1 DEF Lifecycle!Next, Lifecycle!vars, Lifecycle!Exit
  <2>2. CASE /\ journal' = journal /\ launched = {} /\ live = {}
             /\ journal.state \in {"starting", "cleaning", "cleanup_failed"}
             /\ \E t \in Tokens \ stopped : launched' = {t} /\ live' \subseteq {t}
    BY <2>2 DEF Lifecycle!Next, Lifecycle!Launch
  <2>3. CASE /\ journal.state = "none" /\ journal'.state = "preparing"
             /\ journal.ref = "unset" /\ journal'.ref = "unset"
             /\ UNCHANGED platform
    BY <2>3 DEF Lifecycle!Next, Lifecycle!Move, Lifecycle!Moves
  <2>4. ASSUME NEW m \in Managers, LegalWrite(m), UNCHANGED platform
        PROVE  Lifecycle!Next
    BY <2>4, <2>a, RecordFields
       DEF Lifecycle!Next, Lifecycle!Move, Lifecycle!Moves, Lifecycle!Prepare,
           Lifecycle!FailStarted, LegalWrite, Settled, TerminalStates, ActiveStates,
           States, Shapes, Books, JournalShape, PlatformShape
  <2> QED
    BY <2>1, <2>2, <2>3, <2>4, JournalMoves, ProcessMoves
<1> QED
  BY <1>1, <1>2, ShapesHold, PTL DEF Spec, LifecycleSpec, Lifecycle!Spec

=============================================================================
