------------------------ MODULE RequirementTaskProofs ------------------------
(* Theorems about RequirementTask, for every value of its constants.        *)
EXTENDS RequirementTaskInvariants, FiniteSetTheorems, TLAPS

-----------------------------------------------------------------------------
(* Types                                                                   *)

LEMMA UnleasedType ==
    ASSUME TypeOK, NEW t \in Tasks,
           NEW new \in Nonterminal \union Terminal, Unleased(t, new)
    PROVE  /\ status' \in [Tasks -> Nonterminal \union Terminal \union {"absent"}]
           /\ owner' \in [Tasks -> Workers \union {NULL}]
           /\ lease' \in [Tasks -> 0..LeaseTicks]
    BY TaskConstants DEF TypeOK, Unleased

LEMMA OutcomeUpdate ==
    ASSUME TypeOK, NEW t \in Tasks, NEW n \in Nat, NEW o \in Outcomes
    PROVE  [outcome EXCEPT ![t][n] = o] \in [Tasks -> [CallNumbers -> Outcomes]]
    BY DEF TypeOK

LEMMA RunUpdate ==
    ASSUME TypeOK, NEW w \in Workers, NEW t \in Tasks, NEW n \in 0..MaxCalls,
           NEW pc \in {"claimed", "calling", "answered"},
           NEW verdict \in Verdicts \union {"none"}
    PROVE  [run EXCEPT ![w] = At(pc, t, n, verdict)] \in [Workers -> Runs]
<1>1. At(pc, t, n, verdict) \in Runs
    BY DEF At, Runs
<1>. QED
    BY <1>1 DEF TypeOK

LEMMA RunType ==
    ASSUME TypeOK, NEW w \in Workers, run[w].pc # "idle"
    PROVE  /\ run[w].task \in Tasks
           /\ run[w].call \in 0..MaxCalls
           /\ run[w].verdict \in Verdicts \union {"none"}
           /\ run[w] \in [pc : {"claimed", "calling", "answered"},
                          task : Tasks,
                          call : 0..MaxCalls,
                          verdict : Verdicts \union {"none"}]
    BY DEF TypeOK, Runs, Idle, At

LEMMA ReturnType ==
    ASSUME TypeOK, NEW w \in Workers, Return(w)
    PROVE  run' \in [Workers -> Runs]
    BY DEF TypeOK, Return, Runs

\* The program's variables keep their types.
THEOREM TypeCorrect == Spec => []TypeOK
<1>1. Init => TypeOK
    BY TaskConstants DEF Init, TypeOK, Runs, Outcomes, DraftStates
<1>2. TypeOK /\ [Next]_vars => TypeOK'
    <2> SUFFICES ASSUME TypeOK, [Next]_vars PROVE TypeOK'
        OBVIOUS
    <2>1. ASSUME NEW t \in Tasks, CreateTask(t) PROVE TypeOK'
        BY <2>1 DEF CreateTask, TypeOK, auditVars, draftVars, Nonterminal, EditableDrafts
    <2>2. ASSUME NEW t \in Tasks, CancelTask(t) PROVE TypeOK'
        BY <2>2 DEF CancelTask, TypeOK, auditVars, draftVars, queueVars, Nonterminal, Terminal
    <2>3. ASSUME NEW j \in Jobs, ArchiveJob(j) PROVE TypeOK'
        BY <2>3 DEF ArchiveJob, TypeOK, auditVars, draftVars, queueVars, Nonterminal, Terminal
    <2>4. ASSUME NEW d \in DraftIds, EditDraft(d) PROVE TypeOK'
        BY <2>4 DEF EditDraft, TypeOK, taskVars, auditVars, queueVars
    <2>5. ASSUME NEW d \in DraftIds, AbandonDraft(d) PROVE TypeOK'
        BY <2>5 DEF AbandonDraft, TypeOK, taskVars, auditVars, queueVars, DraftStates
    <2>6. ASSUME NEW d \in DraftIds, ConfirmDraft(d) PROVE TypeOK'
        <3>1. version' \in [Jobs -> DraftIds \union {NULL}]
            BY <2>6 DEF ConfirmDraft, TypeOK
        <3>2. /\ draft' \in [DraftIds -> DraftStates]
              /\ revision' \in [DraftIds -> Nat]
            BY <2>6 DEF ConfirmDraft, TypeOK, DraftStates
        <3>. QED
            BY <2>6, <3>1, <3>2
            DEF ConfirmDraft, TypeOK, taskVars, auditVars, queueVars
    <2>7. ASSUME NEW j \in Jobs, NEW d \in Copies, CopyVersion(j, d) PROVE TypeOK'
        BY <2>7, TaskConstants DEF CopyVersion, TypeOK, taskVars, auditVars, queueVars, DraftStates, DraftIds
    <2>8. ASSUME NEW t \in Tasks, Dispatch(t) \/ IgnoreDelivery(t) \/ PostponeDelivery(t)
                                  \/ ClaimRaises(t)
          PROVE  TypeOK'
        BY <2>8, TaskConstants DEF Dispatch, IgnoreDelivery,
           PostponeDelivery, ClaimRaises, Consume, TypeOK, taskVars,
           auditVars, draftVars
    <2>9. ASSUME NEW t \in Tasks, NEW w \in Workers, ClaimTask(w, t) PROVE TypeOK'
        <3>1. run' \in [Workers -> Runs]
            BY <2>9, RunUpdate, TaskConstants DEF ClaimTask
        <3>2. /\ status' \in [Tasks -> Nonterminal \union Terminal \union {"absent"}]
              /\ owner' \in [Tasks -> Workers \union {NULL}]
              /\ lease' \in [Tasks -> 0..LeaseTicks]
            BY <2>9, TaskConstants DEF ClaimTask, TypeOK, Nonterminal
        <3>3. broker' \subseteq Tasks
            BY <2>9 DEF ClaimTask, Consume, TypeOK
        <3>. QED
            BY <2>9, <3>1, <3>2, <3>3 DEF ClaimTask, TypeOK, auditVars, draftVars
    <2>10. ASSUME NEW w \in Workers, FailWithoutCall(w) \/ PrepareNothing(w)
           PROVE  TypeOK'
        BY <2>10, RunType, UnleasedType, ReturnType DEF FailWithoutCall,
           PrepareNothing, TypeOK, auditVars, queueVars, draftVars, Terminal
    <2>11. ASSUME NEW w \in Workers, PrepareCall(w) PROVE TypeOK'
        <3> DEFINE t == run[w].task
                   n == calls[t] + 1
        <3>1. t \in Tasks /\ n \in 0..MaxCalls
            BY <2>11, RunType, TaskConstants DEF PrepareCall, TypeOK
        <3>3. run' \in [Workers -> Runs]
            BY <2>11, <3>1, RunUpdate DEF PrepareCall
        <3>4. outcome' \in [Tasks -> [CallNumbers -> Outcomes]]
            BY <2>11, <3>1 DEF PrepareCall, TypeOK, Outcomes
        <3>5. calls' \in [Tasks -> Nat]
            BY <2>11, <3>1, TaskConstants DEF PrepareCall, TypeOK
        <3>. QED
            BY <2>11, <3>3, <3>4, <3>5
            DEF PrepareCall, TypeOK, queueVars, draftVars
    <2>12. ASSUME NEW w \in Workers, NEW verdict \in Verdicts, PersistResponse(w, verdict)
           PROVE  TypeOK'
        <3>1. run' \in [Workers -> Runs]
            BY <2>12, RunType, RunUpdate DEF PersistResponse
        <3>2. outcome' \in [Tasks -> [CallNumbers -> Outcomes]]
            BY <2>12, RunType DEF PersistResponse, TypeOK, Outcomes, RequestedOutcome
        <3>. QED
            BY <2>12, <3>1, <3>2
            DEF PersistResponse, TypeOK, taskVars, queueVars, draftVars
    <2>13. ASSUME NEW w \in Workers, PersistLateResponse(w) PROVE TypeOK'
        BY <2>13, RunType, ReturnType DEF PersistLateResponse, TypeOK, queueVars, taskVars,
           draftVars, Outcomes, CallNumbers
    <2>14. ASSUME NEW w \in Workers, HandleFailure(w) PROVE TypeOK'
        BY <2>14, RunType, ReturnType, UnleasedType DEF HandleFailure, TypeOK,
           queueVars, auditVars, draftVars, Nonterminal, Terminal
    <2>15. ASSUME NEW w \in Workers, CompleteTask(w) PROVE TypeOK'
        <3> DEFINE t == run[w].task
        <3>1. t \in Tasks /\ t \in DraftIds
            BY <2>15, RunType DEF CompleteTask, DraftIds
        <3>2. /\ draft' \in [DraftIds -> DraftStates]
              /\ revision' \in [DraftIds -> Nat]
              /\ source' \in [DraftIds -> Tasks \union {NULL}]
            <4>1. CASE WriteDraft(t)
                BY <3>1, <4>1 DEF TypeOK, WriteDraft, DraftStates
            <4>2. CASE UNCHANGED <<draft, revision, source>>
                BY <4>2 DEF TypeOK
            <4>. QED
                BY <2>15, <4>1, <4>2 DEF CompleteTask
        <3>3. /\ status' \in [Tasks -> Nonterminal \union Terminal \union {"absent"}]
              /\ owner' \in [Tasks -> Workers \union {NULL}]
              /\ lease' \in [Tasks -> 0..LeaseTicks]
            <4>1. ASSUME NEW new \in Terminal, Unleased(t, new) PROVE <3>3!:
                BY <3>1, <4>1, UnleasedType
            <4>2. CASE UNCHANGED <<status, owner, lease>>
                BY <4>2 DEF TypeOK
            <4>. QED
                BY <2>15, <4>1, <4>2 DEF CompleteTask, Terminal
        <3>4. run' \in [Workers -> Runs]
            BY <2>15, ReturnType DEF CompleteTask
        <3>. QED
            BY <2>15, <3>2, <3>3, <3>4
            DEF CompleteTask, TypeOK, auditVars, queueVars
    <2>16. ASSUME NEW w \in Workers, Heartbeat(w) PROVE TypeOK'
        BY <2>16, RunType, TaskConstants DEF Heartbeat, TypeOK,
           queueVars, auditVars, draftVars
    <2>17. ASSUME NEW w \in Workers, WorkerDies(w) PROVE TypeOK'
        BY <2>17, RunType, ReturnType DEF WorkerDies, TypeOK,
           taskVars, auditVars, draftVars
    <2>18. ASSUME NEW t \in Tasks, Tick(t) PROVE TypeOK'
        BY <2>18, TaskConstants DEF Tick, TypeOK, auditVars, queueVars, draftVars
    <2>21. ASSUME NEW t \in Tasks, ScheduleDue(t) PROVE TypeOK'
        BY <2>21 DEF ScheduleDue, TypeOK, auditVars, draftVars, Nonterminal
    <2>22. ASSUME NEW t \in Tasks, PurgeInput(t) PROVE TypeOK'
        BY <2>22 DEF PurgeInput, TypeOK, taskVars, queueVars, draftVars
    <2>19. ASSUME NEW t \in Tasks, RecoverExpired(t) PROVE TypeOK'
        <3>1. /\ status' \in [Tasks -> Nonterminal \union Terminal \union {"absent"}]
              /\ owner' \in [Tasks -> Workers \union {NULL}]
              /\ lease' \in [Tasks -> 0..LeaseTicks]
            BY <2>19, UnleasedType DEF RecoverExpired, Nonterminal, Terminal
        <3>2. outcome' \in [Tasks -> [CallNumbers -> Outcomes]]
            <4>1. outcome \in [Tasks -> [CallNumbers -> Outcomes]] /\ calls[t] \in Nat
                BY DEF TypeOK
            <4>. QED
                BY <2>19, <4>1, OutcomeUpdate DEF RecoverExpired, NewestCallUnknown, Outcomes
        <3>3. outbox' \subseteq Tasks
            BY <2>19 DEF RecoverExpired, TypeOK
        <3>. QED
            BY <2>19, <3>1, <3>2, <3>3 DEF RecoverExpired, TypeOK, draftVars
    <2>20. CASE UNCHANGED vars
        BY <2>20 DEF vars, TypeOK, taskVars, auditVars, queueVars, draftVars
    <2>. QED
        BY <2>1, <2>2, <2>3, <2>4, <2>5, <2>6, <2>7, <2>8, <2>9, <2>10, <2>11,
           <2>12, <2>13, <2>14, <2>15, <2>16, <2>17, <2>18, <2>19, <2>20,
           <2>21, <2>22
        DEF Next, MemberStep, DeliveryStep, Deliver, RunStep, SweepStep
<1>. QED
    BY <1>1, <1>2, PTL DEF Spec

-----------------------------------------------------------------------------
(* The task rows                                                           *)

\* A step that ends the lease of t, or gives it a status without one.
LEMMA UnleasedRow ==
    ASSUME TypeOK, RowInv, NEW t \in Tasks,
           NEW new \in Terminal \union {"queued", "retry_scheduled"},
           Unleased(t, new),
           status[t] \in Nonterminal,
           new \notin Terminal => ~archived[JobOf[t]],
           UNCHANGED archived
    PROVE  RowInv'
<1>1. LeaseColumns'
    BY DEF TypeOK, RowInv, LeaseColumns, Unleased, Leased, Terminal
<1>2. OneOpenTask'
    BY DEF TypeOK, RowInv, OneOpenTask, Unleased, Nonterminal, Terminal
<1>3. ArchivedJobIsQuiet'
    BY DEF TypeOK, RowInv, ArchivedJobIsQuiet, Unleased, Terminal
<1>. QED
    BY <1>1, <1>2, <1>3 DEF RowInv

LEMMA SameRow ==
    ASSUME RowInv, UNCHANGED <<status, owner, lease, archived>>
    PROVE  RowInv'
    BY DEF RowInv, LeaseColumns, OneOpenTask, ArchivedJobIsQuiet

\* The run of slot w has finished with its task: a task it held ends without
\* its lease, and one it did not hold stays what it is.
LEMMA LeavesRow ==
    ASSUME TypeOK, RowInv, NEW w \in Workers, run[w].pc # "idle",
           NEW new \in Terminal \union {"retry_scheduled"},
           \/ CancelRequested(w, run[w].task) /\ Unleased(run[w].task, "cancelled")
           \/ HoldsRunningLease(w, run[w].task) /\ Unleased(run[w].task, new)
           \/ UNCHANGED <<status, owner, lease>>,
           UNCHANGED archived
    PROVE  RowInv'
<1> DEFINE t == run[w].task
<1>1. t \in Tasks
    BY RunType
<1>2. CASE CancelRequested(w, t) /\ Unleased(t, "cancelled")
    BY <1>1, <1>2, UnleasedRow DEF CancelRequested, Terminal, Nonterminal
<1>3. CASE HoldsRunningLease(w, t) /\ Unleased(t, new)
    <2>1. ~archived[JobOf[t]]
        BY <1>1, <1>3 DEF RowInv, ArchivedJobIsQuiet, HoldsRunningLease, Terminal
    <2>. QED
        BY <1>1, <1>3, <2>1, UnleasedRow DEF HoldsRunningLease, Nonterminal
<1>4. CASE UNCHANGED <<status, owner, lease>>
    BY <1>4, SameRow
<1>. QED
    BY <1>2, <1>3, <1>4

LEMMA RowInvStep ==
    ASSUME TypeOK, RowInv, [Next]_vars
    PROVE  RowInv'
<1>1. ASSUME NEW t \in Tasks, CreateTask(t) PROVE RowInv'
    <2>1. LeaseColumns'
        BY <1>1 DEF CreateTask, TypeOK, RowInv, LeaseColumns, Leased
    <2>2. OneOpenTask'
        BY <1>1 DEF CreateTask, TypeOK, RowInv, OneOpenTask, OpenTasks
    <2>3. ArchivedJobIsQuiet'
        BY <1>1 DEF CreateTask, TypeOK, RowInv, ArchivedJobIsQuiet
    <2>. QED
        BY <2>1, <2>2, <2>3 DEF RowInv
<1>2. ASSUME NEW t \in Tasks, CancelTask(t) PROVE RowInv'
    <2>1. LeaseColumns'
        BY <1>2 DEF CancelTask, TypeOK, RowInv, LeaseColumns, Leased
    <2>2. OneOpenTask'
        BY <1>2 DEF CancelTask, TypeOK, RowInv, OneOpenTask, Nonterminal
    <2>3. ArchivedJobIsQuiet'
        BY <1>2 DEF CancelTask, TypeOK, RowInv, ArchivedJobIsQuiet, Terminal
    <2>. QED
        BY <2>1, <2>2, <2>3 DEF RowInv
<1>3. ASSUME NEW j \in Jobs, ArchiveJob(j) PROVE RowInv'
    <2>1. LeaseColumns'
        BY <1>3 DEF ArchiveJob, TypeOK, RowInv, LeaseColumns, Leased, OpenTasks, Nonterminal
    <2>2. OneOpenTask'
        BY <1>3 DEF ArchiveJob, TypeOK, RowInv, OneOpenTask, OpenTasks, Nonterminal
    <2>3. ArchivedJobIsQuiet'
        BY <1>3, TaskConstants DEF ArchiveJob, TypeOK, RowInv, ArchivedJobIsQuiet,
           OpenTasks, Nonterminal, Terminal, Leased
    <2>. QED
        BY <2>1, <2>2, <2>3 DEF RowInv
<1>4. ASSUME NEW t \in Tasks, NEW w \in Workers, ClaimTask(w, t) PROVE RowInv'
    <2>1. LeaseColumns'
        BY <1>4, TaskConstants DEF ClaimTask, TypeOK, RowInv, LeaseColumns, Leased
    <2>2. OneOpenTask'
        BY <1>4 DEF ClaimTask, TypeOK, RowInv, OneOpenTask, Nonterminal
    <2>3. ArchivedJobIsQuiet'
        BY <1>4 DEF ClaimTask, TypeOK, RowInv, ArchivedJobIsQuiet, Terminal
    <2>. QED
        BY <2>1, <2>2, <2>3 DEF RowInv
<1>5. ASSUME NEW w \in Workers, FailWithoutCall(w) \/ PrepareNothing(w) PROVE RowInv'
    BY <1>5, LeavesRow DEF FailWithoutCall, PrepareNothing, Terminal
<1>6. ASSUME NEW w \in Workers, HandleFailure(w) PROVE RowInv'
    BY <1>6, LeavesRow DEF HandleFailure, Terminal
<1>7. ASSUME NEW w \in Workers, CompleteTask(w) PROVE RowInv'
    BY <1>7, LeavesRow DEF CompleteTask, Terminal
<1>8. ASSUME NEW w \in Workers, Heartbeat(w) PROVE RowInv'
    <2>1. LeaseColumns'
        BY <1>8, RunType DEF Heartbeat, HoldsActiveLease, TypeOK, RowInv, LeaseColumns
    <2>. QED
        BY <1>8, <2>1 DEF Heartbeat, RowInv, OneOpenTask, ArchivedJobIsQuiet
<1>9. ASSUME NEW t \in Tasks, Tick(t) PROVE RowInv'
    <2>1. LeaseColumns'
        BY <1>9 DEF Tick, TypeOK, RowInv, LeaseColumns
    <2>. QED
        BY <1>9, <2>1 DEF Tick, RowInv, OneOpenTask, ArchivedJobIsQuiet
<1>10. ASSUME NEW t \in Tasks, ScheduleDue(t) PROVE RowInv'
    <2>1. LeaseColumns'
        BY <1>10 DEF ScheduleDue, TypeOK, RowInv, LeaseColumns, Leased
    <2>2. OneOpenTask'
        BY <1>10 DEF ScheduleDue, TypeOK, RowInv, OneOpenTask, Nonterminal
    <2>3. ArchivedJobIsQuiet'
        BY <1>10 DEF ScheduleDue, TypeOK, RowInv, ArchivedJobIsQuiet, Terminal
    <2>. QED
        BY <2>1, <2>2, <2>3 DEF RowInv
<1>11. ASSUME NEW t \in Tasks, RecoverExpired(t) PROVE RowInv'
    <2>1. CASE status[t] = "cancel_requested" /\ Unleased(t, "cancelled")
        BY <1>11, <2>1, UnleasedRow DEF RecoverExpired, Terminal, Nonterminal
    <2>2. CASE status[t] = "running" /\ Unleased(t, "queued")
        <3>1. ~archived[JobOf[t]]
            BY <2>2 DEF RowInv, ArchivedJobIsQuiet, Terminal
        <3>. QED
            BY <1>11, <2>2, <3>1, UnleasedRow DEF RecoverExpired, Nonterminal
    <2>. QED
        BY <1>11, <2>1, <2>2 DEF RecoverExpired
<1>12. CASE UNCHANGED <<status, owner, lease, archived>>
    BY <1>12, SameRow
<1>. QED
    BY <1>1, <1>2, <1>3, <1>4, <1>5, <1>6, <1>7, <1>8, <1>9, <1>10, <1>11, <1>12
    DEF Next, MemberStep, DeliveryStep, Deliver, RunStep, SweepStep, EditDraft,
        AbandonDraft, ConfirmDraft, CopyVersion, Dispatch, IgnoreDelivery,
        PostponeDelivery, ClaimRaises, PrepareCall, PersistResponse,
        PersistLateResponse, WorkerDies, PurgeInput, vars, taskVars

-----------------------------------------------------------------------------
(* Drafts and versions                                                     *)

\* No draft is touched and no task succeeds or begins.
LEMMA SameDrafts ==
    ASSUME TypeOK, DraftInv,
           UNCHANGED <<replaces, replacesRev, draftVars>>,
           \A t \in Tasks :
              \/ status'[t] = status[t]
              \/ /\ status[t] \in Nonterminal
                 /\ status'[t] \in Nonterminal \union Terminal
                 /\ status'[t] # "succeeded"
    PROVE  DraftInv'
<1>1. DraftSources' /\ EditableDraftUnique'
    BY DEF DraftInv, DraftSources, EditableDraftUnique, EditableDrafts, draftVars
<1>2. DraftIffSucceeded'
    BY DEF DraftInv, DraftIffSucceeded, draftVars, Nonterminal
<1>3. ReplacesOwnJob'
    BY DEF DraftInv, ReplacesOwnJob, draftVars, Nonterminal, Terminal
<1>4. ReplacedDraftIntact'
    BY DEF DraftInv, ReplacedDraftIntact, draftVars
<1>. QED
    BY <1>1, <1>2, <1>3, <1>4 DEF DraftInv

\* The same for a step that takes t's lease away.
LEMMA UnleasedDrafts ==
    ASSUME TypeOK, DraftInv, NEW t \in Tasks, status[t] \in Nonterminal,
           NEW new \in Nonterminal \union Terminal, new # "succeeded",
           Unleased(t, new),
           UNCHANGED <<replaces, replacesRev, draftVars>>
    PROVE  DraftInv'
    BY SameDrafts DEF Unleased, TypeOK

\* A member writes a draft that no open task is to replace.
LEMMA MemberDraft ==
    ASSUME TypeOK, DraftInv, NEW d \in DraftIds, DraftMutable(d),
           NEW new \in {"editable", "abandoned", "confirmed"},
           draft' = [draft EXCEPT ![d] = new],
           revision' = [revision EXCEPT ![d] = @ + 1],
           version' \in {version, [version EXCEPT ![JobOf[source[d]]] = d]},
           UNCHANGED <<status, replaces, replacesRev, source>>
    PROVE  DraftInv'
<1>1. draft[d] = "editable" /\ source[d] \in Tasks
    BY DEF DraftMutable, DraftInv, DraftSources
<1>2. DraftSources'
    BY <1>1, TaskConstants DEF DraftInv, DraftSources, TypeOK
<1>3. DraftIffSucceeded'
    BY <1>1 DEF DraftInv, DraftIffSucceeded, TypeOK
<1>4. ReplacesOwnJob'
    BY <1>1 DEF DraftInv, ReplacesOwnJob, TypeOK
<1>5. ASSUME NEW t \in Tasks, status[t] \in Nonterminal, replaces[t] # NULL
      PROVE  replaces[t] # d
    BY <1>5 DEF DraftInv, ReplacesOwnJob, DraftMutable, OpenTasks
<1>6. ReplacedDraftIntact'
    BY <1>5 DEF DraftInv, ReplacedDraftIntact, TypeOK
<1>7. EditableDraftUnique'
    BY <1>1 DEF DraftInv, EditableDraftUnique, EditableDrafts, TypeOK
<1>. QED
    BY <1>2, <1>3, <1>4, <1>6, <1>7 DEF DraftInv

\* A valid answer becomes the draft of its task.
LEMMA TaskDraft ==
    ASSUME TypeOK, RowInv, DraftInv, NEW t \in Tasks,
           status[t] = "running", DraftSlotFree(t), WriteDraft(t),
           Unleased(t, "succeeded"),
           UNCHANGED <<replaces, replacesRev, version>>
    PROVE  DraftInv'
<1>1. /\ draft[t] = "absent"
      /\ replaces[t] # t
      /\ t \in DraftIds
    BY TaskConstants DEF DraftInv, DraftIffSucceeded, ReplacesOwnJob, DraftIds
<1>2. \A d \in DraftIds :
         /\ draft[d] # "absent" => draft'[d] # "absent" /\ source'[d] = source[d]
         /\ d \notin {t, replaces[t]} =>
               draft'[d] = draft[d] /\ revision'[d] = revision[d]
         /\ draft'[d] = "editable" => d # replaces[t]
    BY <1>1 DEF WriteDraft, TypeOK
<1>3. draft'[t] = "editable" /\ source'[t] = t
    BY <1>1 DEF WriteDraft, TypeOK
<1>4. DraftSources'
    <2>1. ASSUME NEW d \in DraftIds, draft'[d] # "absent" PROVE source'[d] \in Tasks
        BY <2>1, <1>3, TaskConstants
        DEF DraftInv, DraftSources, ReplacesOwnJob, WriteDraft, TypeOK, DraftIds
    <2>2. ASSUME NEW s \in Tasks, draft'[s] # "absent" PROVE source'[s] = s
        BY <2>2, <1>3, TaskConstants
        DEF DraftInv, DraftSources, ReplacesOwnJob, WriteDraft, TypeOK, DraftIds
    <2>3. ASSUME NEW j \in Jobs, version'[j] # NULL
          PROVE  draft'[version'[j]] # "absent" /\ JobOf[source'[version'[j]]] = j
        BY <2>3, <1>2 DEF DraftInv, DraftSources, TypeOK
    <2>. QED
        BY <2>1, <2>2, <2>3 DEF DraftSources
<1>5. DraftIffSucceeded'
    <2>1. ASSUME NEW s \in Tasks, s # t
          PROVE  draft'[s] # "absent" <=> status'[s] = "succeeded"
        <3>1. draft'[s] # "absent" <=> draft[s] # "absent"
            BY <2>1, <1>1, TaskConstants
            DEF WriteDraft, DraftIds, DraftInv, ReplacesOwnJob, TypeOK
        <3>. QED
            BY <2>1, <3>1 DEF DraftInv, DraftIffSucceeded, Unleased, TypeOK
    <2>. QED
        BY <2>1, <1>3 DEF DraftIffSucceeded, Unleased, TypeOK
<1>6. ReplacesOwnJob'
    BY <1>2 DEF DraftInv, ReplacesOwnJob, Unleased, TypeOK
<1>7. ReplacedDraftIntact'
    <2>1. ASSUME NEW s \in Tasks, status'[s] \in Nonterminal, replaces[s] # NULL
          PROVE  /\ status[s] \in Nonterminal
                 /\ replaces[s] \in DraftIds \ {t, replaces[t]}
        <3>1. s # t /\ status[s] \in Nonterminal
            BY <2>1 DEF Unleased, TypeOK, Nonterminal
        <3>2. JobOf[s] # JobOf[t]
            BY <3>1 DEF RowInv, OneOpenTask, Nonterminal
        <3>3. replaces[s] # replaces[t]
            BY <2>1, <3>2 DEF DraftInv, ReplacesOwnJob
        <3>4. draft[replaces[s]] = "editable"
            BY <2>1, <3>1 DEF DraftInv, ReplacedDraftIntact
        <3>. QED
            BY <2>1, <3>1, <3>3, <3>4, <1>1 DEF TypeOK
    <2>. QED
        BY <2>1, <1>2 DEF DraftInv, ReplacedDraftIntact
<1>8. EditableDraftUnique'
    <2>1. ASSUME NEW d \in DraftIds, d # t, draft'[d] = "editable"
          PROVE  JobOf[source'[d]] # JobOf[t]
        <3>1. draft[d] = "editable" /\ source'[d] = source[d] /\ d # replaces[t]
            BY <2>1, <1>2 DEF WriteDraft
        <3>2. CASE replaces[t] # NULL
            BY <3>1, <3>2, TaskConstants DEF DraftSlotFree, DraftInv, ReplacesOwnJob,
               EditableDraftUnique, EditableDrafts, TypeOK
        <3>3. CASE replaces[t] = NULL
            BY <3>1, <3>3 DEF DraftSlotFree, EditableDrafts
        <3>. QED
            BY <3>2, <3>3
    <2>2. ASSUME NEW d \in DraftIds, d # t, draft'[d] = "editable"
          PROVE  draft[d] = "editable" /\ source'[d] = source[d]
        BY <2>2, <1>2 DEF WriteDraft
    <2>. QED
        BY <2>1, <2>2, <1>3 DEF DraftInv, EditableDraftUnique, EditableDrafts
<1>. QED
    BY <1>4, <1>5, <1>6, <1>7, <1>8 DEF DraftInv

LEMMA DraftInvStep ==
    ASSUME TypeOK, RowInv, DraftInv, [Next]_vars
    PROVE  DraftInv'
<1>1. ASSUME NEW t \in Tasks, CreateTask(t) PROVE DraftInv'
    <2>1. DraftSources' /\ EditableDraftUnique'
        BY <1>1 DEF CreateTask, DraftInv, DraftSources, EditableDraftUnique,
           EditableDrafts, draftVars
    <2>2. DraftIffSucceeded'
        BY <1>1 DEF CreateTask, DraftInv, DraftIffSucceeded, draftVars, TypeOK
    <2>3. ReplacesOwnJob'
        BY <1>1 DEF CreateTask, DraftInv, ReplacesOwnJob, EditableDrafts,
           draftVars, TypeOK
    <2>4. ReplacedDraftIntact'
        BY <1>1 DEF CreateTask, DraftInv, ReplacedDraftIntact, ReplacesOwnJob,
           EditableDrafts, draftVars, TypeOK
    <2>. QED
        BY <2>1, <2>2, <2>3, <2>4 DEF DraftInv
<1>2. ASSUME NEW t \in Tasks, CancelTask(t) PROVE DraftInv'
    BY <1>2, SameDrafts DEF CancelTask, TypeOK, Nonterminal, Terminal
<1>3. ASSUME NEW j \in Jobs, ArchiveJob(j) PROVE DraftInv'
    BY <1>3, SameDrafts DEF ArchiveJob, TypeOK, OpenTasks, Nonterminal, Terminal
<1>4. ASSUME NEW d \in DraftIds, EditDraft(d) PROVE DraftInv'
    <2>1. draft' = [draft EXCEPT ![d] = "editable"]
        BY <1>4 DEF EditDraft, DraftMutable, TypeOK
    <2>. QED
        BY <1>4, <2>1, MemberDraft DEF EditDraft, taskVars
<1>5. ASSUME NEW d \in DraftIds, AbandonDraft(d) PROVE DraftInv'
    BY <1>5, MemberDraft DEF AbandonDraft, taskVars
<1>6. ASSUME NEW d \in DraftIds, ConfirmDraft(d) PROVE DraftInv'
    BY <1>6, MemberDraft DEF ConfirmDraft, taskVars
<1>7. ASSUME NEW j \in Jobs, NEW d \in Copies, CopyVersion(j, d) PROVE DraftInv'
    <2>1. d \in DraftIds /\ d \notin Tasks
        BY TaskConstants DEF DraftIds
    <2>2. source[version[j]] \in Tasks /\ JobOf[source[version[j]]] = j
        BY <1>7 DEF CopyVersion, DraftInv, DraftSources, TypeOK
    <2>3. DraftSources'
        BY <1>7, <2>1, <2>2 DEF CopyVersion, DraftInv, DraftSources, TypeOK
    <2>4. DraftIffSucceeded'
        BY <1>7, <2>1 DEF CopyVersion, DraftInv, DraftIffSucceeded, TypeOK, taskVars, DraftIds
    <2>5. ReplacesOwnJob'
        BY <1>7 DEF CopyVersion, DraftInv, ReplacesOwnJob, TypeOK, taskVars
    <2>6. ReplacedDraftIntact'
        BY <1>7 DEF CopyVersion, DraftInv, ReplacedDraftIntact, TypeOK, taskVars
    <2>7. EditableDraftUnique'
        BY <1>7, <2>1, <2>2 DEF CopyVersion, DraftInv, EditableDraftUnique,
           EditableDrafts, TypeOK
    <2>. QED
        BY <2>3, <2>4, <2>5, <2>6, <2>7 DEF DraftInv
<1>8. ASSUME NEW t \in Tasks, NEW w \in Workers, ClaimTask(w, t) PROVE DraftInv'
    BY <1>8, SameDrafts DEF ClaimTask, TypeOK, Nonterminal
<1>9. ASSUME NEW w \in Workers,
             FailWithoutCall(w) \/ PrepareNothing(w) \/ HandleFailure(w)
      PROVE  DraftInv'
    <2>1. run[w].task \in Tasks
        BY <1>9, RunType DEF FailWithoutCall, PrepareNothing, HandleFailure
    <2>2. UNCHANGED <<replaces, replacesRev, draftVars>>
        BY <1>9 DEF FailWithoutCall, PrepareNothing, HandleFailure
    <2>3. CASE UNCHANGED status
        BY <2>2, <2>3, SameDrafts
    <2>4. ASSUME NEW new \in {"cancelled", "failed", "retry_scheduled"},
                 status[run[w].task] \in Nonterminal,
                 Unleased(run[w].task, new)
          PROVE  DraftInv'
        BY <2>1, <2>2, <2>4, UnleasedDrafts DEF Nonterminal, Terminal
    <2>. QED
        BY <1>9, <2>3, <2>4 DEF FailWithoutCall, PrepareNothing, HandleFailure,
           CancelRequested, HoldsRunningLease, Nonterminal
<1>10. ASSUME NEW w \in Workers, CompleteTask(w) PROVE DraftInv'
    <2> DEFINE t == run[w].task
    <2>1. t \in Tasks /\ UNCHANGED <<replaces, replacesRev, version>>
        BY <1>10, RunType DEF CompleteTask
    <2>2. CASE CancelRequested(w, t) /\ Unleased(t, "cancelled")
               /\ UNCHANGED <<draft, revision, source>>
        BY <2>1, <2>2, UnleasedDrafts DEF CancelRequested, Nonterminal,
           Terminal, draftVars
    <2>3. CASE HoldsRunningLease(w, t) /\ DraftSlotFree(t) /\ WriteDraft(t)
               /\ Unleased(t, "succeeded")
        BY <2>1, <2>3, TaskDraft DEF HoldsRunningLease
    <2>4. CASE HoldsRunningLease(w, t) /\ Unleased(t, "failed")
               /\ UNCHANGED <<draft, revision, source>>
        BY <2>1, <2>4, UnleasedDrafts DEF HoldsRunningLease, Nonterminal,
           Terminal, draftVars
    <2>5. CASE UNCHANGED <<status, draft, revision, source>>
        BY <2>1, <2>5, SameDrafts DEF draftVars
    <2>. QED
        BY <1>10, <2>2, <2>3, <2>4, <2>5 DEF CompleteTask
<1>11. ASSUME NEW t \in Tasks, ScheduleDue(t) PROVE DraftInv'
    BY <1>11, SameDrafts DEF ScheduleDue, TypeOK, Nonterminal
<1>12. ASSUME NEW t \in Tasks, RecoverExpired(t) PROVE DraftInv'
    BY <1>12, UnleasedDrafts DEF RecoverExpired, Leased, Nonterminal, Terminal
<1>13. CASE UNCHANGED <<status, replaces, replacesRev, draftVars>>
    BY <1>13, SameDrafts
<1>. QED
    BY <1>1, <1>2, <1>3, <1>4, <1>5, <1>6, <1>7, <1>8, <1>9, <1>10, <1>11,
       <1>12, <1>13
    DEF Next, MemberStep, DeliveryStep, Deliver, RunStep, SweepStep, Dispatch,
        IgnoreDelivery, PostponeDelivery, ClaimRaises, PrepareCall,
        PersistResponse, PersistLateResponse, Heartbeat, WorkerDies, Tick,
        PurgeInput, vars, taskVars

-----------------------------------------------------------------------------
(* The requests of a task and their outcomes                               *)

\* What may follow the newest outcome of a request that was sent.
Grows(old, new) ==
    \/ new = old
    \/ old \in {"open", "outcome_unknown"} /\ new \notin {"unsent", "open"}

LEMMA CallNumber ==
    ASSUME TypeOK, CallInv, NEW w \in Workers, run[w].pc \in {"calling", "answered"}
    PROVE  /\ run[w].task \in Tasks
           /\ run[w].call \in CallNumbers
           /\ calls[run[w].task] \in CallNumbers
<1>1. run[w].task \in Tasks
    BY RunType
<1>. QED
    BY <1>1, TaskConstants
    DEF TypeOK, CallInv, RunOnItsCall, RequestsNumbered, CallNumbers

\* A step that sends no request and starts no run.
LEMMA NoNewCall ==
    ASSUME TypeOK, CallInv,
           UNCHANGED calls,
           \A w \in Workers : run'[w] \in {run[w], Idle},
           \A t \in Tasks : owner'[t] \in {owner[t], NULL},
           \A t \in Tasks, n \in CallNumbers : Grows(outcome[t][n], outcome'[t][n]),
           \A t \in Tasks :
              /\ status'[t] = "absent" => status[t] = "absent"
              /\ status'[t] \in {"queued", "retry_scheduled"} /\ calls[t] > 0 =>
                    BetweenCalls(t) \/ outcome'[t][calls[t]] # "open"
              /\ status'[t] = "succeeded" =>
                    \/ status[t] = "succeeded"
                    \/ calls[t] \in CallNumbers /\ outcome[t][calls[t]] = "succeeded",
           InvalidBudget'
    PROVE  CallInv'
<1>1. RequestsNumbered'
    BY DEF CallInv, RequestsNumbered, Grows
<1>2. ASSUME NEW w \in Workers, run'[w].pc # "idle" PROVE run'[w] = run[w]
    BY <1>2 DEF Idle, At
<1>3. ASSUME NEW w \in Workers, NEW t \in Tasks, owner'[t] = w PROVE owner[t] = w
    BY <1>3, TaskConstants
<1>4. RunOnItsCall'
    BY <1>2, <1>3, RunType DEF CallInv, RunOnItsCall
<1>5. AnswersOnRecord'
    <2> SUFFICES ASSUME NEW w \in Workers, run'[w].pc = "answered"
                 PROVE  /\ outcome'[run[w].task][run[w].call] # "open"
                        /\ run[w].verdict = "valid" =>
                              outcome'[run[w].task][run[w].call] = "succeeded"
        BY <1>2 DEF AnswersOnRecord
    <2>1. run[w].pc = "answered"
        BY <1>2
    <2>. QED
        BY <2>1, CallNumber DEF CallInv, AnswersOnRecord, Grows
<1>6. NewestCallSettled'
    <2> SUFFICES ASSUME NEW t \in Tasks, BetweenCalls(t)', calls[t] > 0
                 PROVE  outcome'[t][calls[t]] # "open"
        BY DEF NewestCallSettled
    <2>1. calls[t] \in CallNumbers
        BY DEF TypeOK, CallInv, RequestsNumbered, CallNumbers
    <2>2. BetweenCalls(t) \/ outcome'[t][calls[t]] # "open"
        BY <1>2, <1>3 DEF BetweenCalls
    <2>. QED
        BY <2>1, <2>2 DEF CallInv, NewestCallSettled, Grows
<1>7. EarlierCallsSettled'
    BY DEF CallInv, EarlierCallsSettled, Grows
<1>8. SucceededByNewestCall'
    BY DEF CallInv, SucceededByNewestCall, Grows
<1>. QED
    BY <1>1, <1>4, <1>5, <1>6, <1>7, <1>8 DEF CallInv

\* A step that leaves the requests, their outcomes and the count of invalid
\* documents alone, and lets no task succeed.
LEMMA SameCalls ==
    ASSUME TypeOK, CallInv,
           UNCHANGED <<calls, invalid, outcome>>,
           \A w \in Workers : run'[w] \in {run[w], Idle},
           \A t \in Tasks : owner'[t] \in {owner[t], NULL},
           \A t \in Tasks :
              \/ status'[t] = status[t]
              \/ status[t] = "retry_scheduled" /\ status'[t] = "queued"
              \/ /\ status[t] \in Nonterminal
                 /\ status'[t] \in {"cancel_requested", "cancelled", "failed"}
    PROVE  CallInv'
<1>1. InvalidBudget'
    BY DEF CallInv, InvalidBudget, Nonterminal, Terminal
<1>2. \A t \in Tasks :
         status'[t] \in {"queued", "retry_scheduled"} => BetweenCalls(t)
    BY DEF BetweenCalls
<1>. QED
    BY <1>1, <1>2, NoNewCall DEF Grows, Nonterminal

LEMMA CallInvStep ==
    ASSUME TypeOK, CallInv, [Next]_vars
    PROVE  CallInv'
<1>1. ASSUME NEW t \in Tasks, CreateTask(t) PROVE CallInv'
    <2>1. InvalidBudget'
        BY <1>1 DEF CreateTask, CallInv, InvalidBudget, TypeOK, Terminal
    <2>2. \A s \in Tasks : status'[s] \in {"queued", "retry_scheduled"} =>
             s = t \/ BetweenCalls(s)
        BY <1>1 DEF CreateTask, TypeOK, BetweenCalls
    <2>3. calls[t] = 0
        BY <1>1 DEF CreateTask, CallInv, RequestsNumbered
    <2>4. \A s \in Tasks : /\ status'[s] = "absent" => status[s] = "absent"
                           /\ status'[s] = "succeeded" => status[s] = "succeeded"
        BY <1>1 DEF CreateTask, TypeOK
    <2>5. UNCHANGED <<calls, run, owner, outcome>>
        BY <1>1 DEF CreateTask, auditVars
    <2>. QED
        BY <2>1, <2>2, <2>3, <2>4, <2>5, NoNewCall DEF Grows
<1>2. ASSUME NEW t \in Tasks, CancelTask(t) PROVE CallInv'
    BY <1>2, SameCalls DEF CancelTask, TypeOK, Nonterminal, auditVars
<1>3. ASSUME NEW j \in Jobs, ArchiveJob(j) PROVE CallInv'
    BY <1>3, SameCalls DEF ArchiveJob, TypeOK, OpenTasks, auditVars
<1>4. ASSUME NEW t \in Tasks, NEW w \in Workers, ClaimTask(w, t) PROVE CallInv'
    <2>1. /\ run'[w] = At("claimed", t, 0, "none")
          /\ \A v \in Workers \ {w} : run'[v] = run[v]
          /\ owner'[t] = w
          /\ \A s \in Tasks \ {t} : owner'[s] = owner[s]
          /\ status'[t] = "running"
          /\ \A s \in Tasks \ {t} : status'[s] = status[s]
          /\ UNCHANGED <<calls, invalid, outcome>>
        BY <1>4 DEF ClaimTask, TypeOK, auditVars
    <2>2. InvalidBudget' /\ RequestsNumbered' /\ EarlierCallsSettled'
             /\ SucceededByNewestCall'
        BY <1>4, <2>1 DEF ClaimTask, CallInv, InvalidBudget, RequestsNumbered,
           EarlierCallsSettled, SucceededByNewestCall, Terminal
    <2>3. RunOnItsCall'
        BY <2>1, RunType DEF CallInv, RunOnItsCall, At
    <2>4. AnswersOnRecord'
        BY <2>1 DEF CallInv, AnswersOnRecord, At
    <2>5. NewestCallSettled'
        <3>1. BetweenCalls(t)
            BY <1>4 DEF ClaimTask, BetweenCalls
        <3>2. \A s \in Tasks \ {t} : BetweenCalls(s)' => BetweenCalls(s)
            BY <2>1 DEF BetweenCalls, At
        <3>. QED
            BY <2>1, <3>1, <3>2 DEF CallInv, NewestCallSettled
    <2>. QED
        BY <2>2, <2>3, <2>4, <2>5 DEF CallInv
<1>5. ASSUME NEW w \in Workers, FailWithoutCall(w) \/ PrepareNothing(w) PROVE CallInv'
    <2>1. run[w].task \in Tasks /\ run' = [run EXCEPT ![w] = Idle]
        BY <1>5, RunType DEF FailWithoutCall, PrepareNothing, Return
    <2>2. UNCHANGED <<calls, invalid, outcome>>
        BY <1>5 DEF FailWithoutCall, PrepareNothing, auditVars
    <2>3. CASE UNCHANGED <<status, owner>>
        BY <2>1, <2>2, <2>3, SameCalls DEF TypeOK
    <2>4. ASSUME NEW new \in {"cancelled", "failed"},
                 status[run[w].task] \in Nonterminal,
                 Unleased(run[w].task, new)
          PROVE  CallInv'
        BY <2>1, <2>2, <2>4, SameCalls DEF Unleased, TypeOK
    <2>. QED
        BY <1>5, <2>3, <2>4 DEF FailWithoutCall, PrepareNothing,
           CancelRequested, HoldsRunningLease, Nonterminal
<1>6. ASSUME NEW w \in Workers, PrepareCall(w) PROVE CallInv'
    <2> DEFINE t == run[w].task
               n == calls[t] + 1
    <2>1. /\ t \in Tasks
          /\ n \in CallNumbers
          /\ calls[t] \in Nat
          /\ calls[t] > 0 => calls[t] \in CallNumbers /\ outcome[t][calls[t]] # "open"
          /\ status[t] = "running"
          /\ owner[t] = w
        <3>1. t \in Tasks /\ calls[t] \in Nat /\ n \in CallNumbers
            BY <1>6, RunType DEF PrepareCall, TypeOK, CallNumbers
        <3>2. status[t] = "running" /\ owner[t] = w /\ BetweenCalls(t)
            BY <1>6 DEF PrepareCall, HoldsRunningLease, BetweenCalls
        <3>. QED
            BY <3>1, <3>2, TaskConstants DEF CallInv, NewestCallSettled, CallNumbers
    <2>2. /\ calls'[t] = n
          /\ \A s \in Tasks \ {t} : calls'[s] = calls[s]
          /\ outcome'[t][n] = "open"
          /\ \A s \in Tasks, m \in CallNumbers :
                <<s, m>> # <<t, n>> => outcome'[s][m] = outcome[s][m]
          /\ run'[w] = At("calling", t, n, "none")
          /\ \A v \in Workers \ {w} : run'[v] = run[v]
          /\ UNCHANGED <<status, owner, invalid>>
        BY <1>6, <2>1 DEF PrepareCall, TypeOK
    <2>3. InvalidBudget'
        BY <2>2 DEF CallInv, InvalidBudget
    <2>4. RequestsNumbered'
        BY <2>1, <2>2 DEF CallInv, RequestsNumbered, CallNumbers
    <2>5. RunOnItsCall'
        <3> SUFFICES ASSUME NEW v \in Workers, run'[v].pc \in {"calling", "answered"}
                     PROVE  /\ run'[v].call \in 1..calls'[run'[v].task]
                            /\ owner[run'[v].task] = v =>
                                  run'[v].call = calls'[run'[v].task]
            BY <2>2 DEF RunOnItsCall
        <3>1. CASE v = w
            BY <2>1, <2>2, <3>1 DEF At
        <3>2. CASE v # w
            <4>1. /\ run'[v] = run[v]
                  /\ run[v].task \in Tasks
                  /\ run[v].call \in 1..calls[run[v].task]
                  /\ owner[run[v].task] = v => run[v].call = calls[run[v].task]
                BY <3>2, <2>2, RunType DEF CallInv, RunOnItsCall
            <4>2. CASE run[v].task = t
                BY <2>1, <2>2, <3>2, <4>1, <4>2
            <4>3. CASE run[v].task # t
                BY <2>2, <4>1, <4>3
            <4>. QED
                BY <4>2, <4>3
        <3>. QED
            BY <3>1, <3>2
    <2>6. AnswersOnRecord'
        <3> SUFFICES ASSUME NEW v \in Workers, run'[v].pc = "answered"
                     PROVE  /\ outcome'[run'[v].task][run'[v].call] # "open"
                            /\ run'[v].verdict = "valid" =>
                                  outcome'[run'[v].task][run'[v].call] = "succeeded"
            BY DEF AnswersOnRecord
        <3>1. run'[v] = run[v]
            BY <2>2 DEF At
        <3>2. run[v].task \in Tasks /\ run[v].call \in CallNumbers
            BY <3>1, CallNumber
        <3>3. run[v].call <= calls[run[v].task] /\ calls[run[v].task] \in Nat
            BY <3>1, <3>2 DEF CallInv, RunOnItsCall, TypeOK
        <3>4. <<run[v].task, run[v].call>> # <<t, n>>
            BY <2>1, <3>2, <3>3 DEF CallNumbers
        <3>. QED
            BY <2>2, <3>1, <3>2, <3>4 DEF CallInv, AnswersOnRecord
    <2>7. NewestCallSettled'
        <3> SUFFICES ASSUME NEW s \in Tasks, BetweenCalls(s)', calls'[s] > 0
                     PROVE  outcome'[s][calls'[s]] # "open"
            BY DEF NewestCallSettled
        <3>1. s # t
            BY <2>1, <2>2 DEF BetweenCalls, At
        <3>2. BetweenCalls(s)
            BY <2>2 DEF BetweenCalls, At
        <3>3. calls[s] \in CallNumbers
            BY <2>2, <3>1 DEF TypeOK, CallInv, RequestsNumbered, CallNumbers
        <3>. QED
            BY <2>2, <3>1, <3>2, <3>3 DEF CallInv, NewestCallSettled
    <2>8. EarlierCallsSettled'
        <3> SUFFICES ASSUME NEW s \in Tasks, NEW m \in CallNumbers, m < calls'[s]
                     PROVE  outcome'[s][m] # "open"
            BY DEF EarlierCallsSettled
        <3>1. CASE s # t
            BY <2>2, <3>1 DEF CallInv, EarlierCallsSettled
        <3>2. CASE s = t
            <4>1. m < n /\ outcome'[s][m] = outcome[s][m]
                BY <2>1, <2>2, <3>2
            <4>. QED
                BY <2>1, <3>2, <4>1 DEF CallInv, EarlierCallsSettled, CallNumbers
        <3>. QED
            BY <3>1, <3>2
    <2>9. SucceededByNewestCall'
        BY <2>1, <2>2 DEF CallInv, SucceededByNewestCall
    <2>. QED
        BY <2>3, <2>4, <2>5, <2>6, <2>7, <2>8, <2>9 DEF CallInv
<1>7. ASSUME NEW w \in Workers, NEW verdict \in Verdicts, PersistResponse(w, verdict)
      PROVE  CallInv'
    <2> DEFINE t == run[w].task
               n == run[w].call
               o == RequestedOutcome(verdict)
    <2>1. t \in Tasks /\ n \in CallNumbers /\ calls[t] \in CallNumbers
        BY <1>7, CallNumber DEF PersistResponse
    <2>2. /\ outcome[t][n] = "open"
          /\ outcome'[t][n] = o
          /\ \A s \in Tasks, m \in CallNumbers :
                <<s, m>> # <<t, n>> => outcome'[s][m] = outcome[s][m]
          /\ run'[w] = At("answered", t, n, verdict)
          /\ \A v \in Workers \ {w} : run'[v] = run[v]
          /\ UNCHANGED <<status, owner, calls, invalid>>
        BY <1>7, <2>1 DEF PersistResponse, TypeOK, taskVars
    <2>3. o \notin {"unsent", "open"} /\ (verdict = "valid" => o = "succeeded")
        BY DEF RequestedOutcome
    <2>4. \A s \in Tasks, m \in CallNumbers : Grows(outcome[s][m], outcome'[s][m])
        BY <2>2, <2>3 DEF Grows
    <2>5. InvalidBudget'
        BY <2>2 DEF CallInv, InvalidBudget
    <2>6. RequestsNumbered'
        BY <2>2, <2>4 DEF CallInv, RequestsNumbered, Grows
    <2>7. RunOnItsCall'
        BY <1>7, <2>2, RunType DEF PersistResponse, CallInv, RunOnItsCall, At
    <2>8. AnswersOnRecord'
        <3> SUFFICES ASSUME NEW v \in Workers, run'[v].pc = "answered"
                     PROVE  /\ outcome'[run'[v].task][run'[v].call] # "open"
                            /\ run'[v].verdict = "valid" =>
                                  outcome'[run'[v].task][run'[v].call] = "succeeded"
            BY DEF AnswersOnRecord
        <3>1. CASE v = w
            BY <2>2, <2>3, <3>1 DEF At
        <3>2. CASE v # w
            BY <2>2, <2>4, <3>2, CallNumber DEF CallInv, AnswersOnRecord, Grows
        <3>. QED
            BY <3>1, <3>2
    <2>9. NewestCallSettled'
        <3> SUFFICES ASSUME NEW s \in Tasks, BetweenCalls(s)', calls[s] > 0
                     PROVE  outcome'[s][calls[s]] # "open"
            BY <2>2 DEF NewestCallSettled
        <3>1. BetweenCalls(s)
            BY <2>2 DEF BetweenCalls, At
        <3>2. calls[s] \in CallNumbers
            BY DEF TypeOK, CallInv, RequestsNumbered, CallNumbers
        <3>. QED
            BY <2>4, <3>1, <3>2 DEF CallInv, NewestCallSettled, Grows
    <2>10. EarlierCallsSettled' /\ SucceededByNewestCall'
        BY <2>2, <2>4 DEF CallInv, EarlierCallsSettled, SucceededByNewestCall, Grows
    <2>. QED
        BY <2>5, <2>6, <2>7, <2>8, <2>9, <2>10 DEF CallInv
<1>8. ASSUME NEW w \in Workers, PersistLateResponse(w) PROVE CallInv'
    <2>1. run[w].task \in Tasks /\ run[w].call \in CallNumbers
        BY <1>8, CallNumber DEF PersistLateResponse
    <2>2. \A t \in Tasks, n \in CallNumbers : Grows(outcome[t][n], outcome'[t][n])
        BY <1>8, <2>1 DEF PersistLateResponse, TypeOK, Grows
    <2>3. UNCHANGED <<status, owner, calls, invalid>>
        BY <1>8 DEF PersistLateResponse, taskVars
    <2>4. \A v \in Workers : run'[v] \in {run[v], Idle}
        BY <1>8 DEF PersistLateResponse, Return, TypeOK
    <2>5. InvalidBudget' /\ \A t \in Tasks :
             status[t] \in {"queued", "retry_scheduled"} => BetweenCalls(t)
        BY <2>3 DEF CallInv, InvalidBudget, BetweenCalls
    <2>. QED
        BY <2>2, <2>3, <2>4, <2>5, NoNewCall
<1>9. ASSUME NEW w \in Workers, HandleFailure(w) PROVE CallInv'
    <2> DEFINE t == run[w].task
    <2>1. t \in Tasks /\ calls[t] \in CallNumbers /\ run[w].call \in CallNumbers
        BY <1>9, CallNumber DEF HandleFailure
    <2>2. /\ UNCHANGED <<calls, outcome>>
          /\ \A v \in Workers : run'[v] \in {run[v], Idle}
        BY <1>9 DEF HandleFailure, Return, TypeOK, auditVars
    <2>3. CASE CancelRequested(w, t) /\ Unleased(t, "cancelled") /\ UNCHANGED invalid
        BY <2>1, <2>2, <2>3, SameCalls DEF CancelRequested, Unleased, TypeOK, Nonterminal
    <2>4. CASE UNCHANGED <<status, owner, invalid>>
        BY <2>2, <2>4, SameCalls
    <2>5. ASSUME HoldsRunningLease(w, t),
                 invalid' = IF run[w].verdict = "invalid"
                            THEN [invalid EXCEPT ![t] = @ + 1] ELSE invalid,
                 NEW new \in {"retry_scheduled", "failed"},
                 new = "retry_scheduled" => CanRetry(t, run[w].verdict),
                 Unleased(t, new)
          PROVE  CallInv'
        <3>1. InvalidBudget'
            <4>1. \A s \in Tasks \ {t} : status'[s] = status[s] /\ invalid'[s] = invalid[s]
                BY <2>1, <2>5 DEF Unleased, TypeOK
            <4>2. /\ invalid'[t] <= MaxInvalid
                  /\ new \notin Terminal => invalid'[t] < MaxInvalid
                <5>1. invalid[t] \in Nat /\ invalid[t] < MaxInvalid
                    BY <2>1, <2>5 DEF HoldsRunningLease, TypeOK, CallInv,
                       InvalidBudget, Terminal
                <5>2. invalid'[t] = IF run[w].verdict = "invalid"
                                    THEN invalid[t] + 1 ELSE invalid[t]
                    BY <2>1, <2>5 DEF TypeOK
                <5>. QED
                    BY <5>1, <5>2, <2>5, TaskConstants DEF CanRetry, Terminal
            <4>. QED
                BY <4>1, <4>2, <2>1, <2>5 DEF Unleased, TypeOK, CallInv, InvalidBudget
        <3>2. outcome[t][calls[t]] # "open"
            BY <1>9, <2>5 DEF HandleFailure, HoldsRunningLease, CallInv,
               RunOnItsCall, AnswersOnRecord
        <3>3. \A s \in Tasks : owner'[s] \in {owner[s], NULL}
            BY <2>5 DEF Unleased, TypeOK
        <3>4. \A s \in Tasks \ {t} :
                 status'[s] \in {"queued", "retry_scheduled"} => BetweenCalls(s)
            BY <2>5 DEF Unleased, TypeOK, BetweenCalls
        <3>5. \A s \in Tasks : /\ status'[s] = "absent" => status[s] = "absent"
                               /\ status'[s] = "succeeded" => status[s] = "succeeded"
            BY <2>5 DEF Unleased, TypeOK
        <3>. QED
            BY <2>2, <3>1, <3>2, <3>3, <3>4, <3>5, NoNewCall DEF Grows
    <2>. QED
        BY <1>9, <2>3, <2>4, <2>5 DEF HandleFailure
<1>10. ASSUME NEW w \in Workers, CompleteTask(w) PROVE CallInv'
    <2> DEFINE t == run[w].task
    <2>1. t \in Tasks /\ calls[t] \in CallNumbers
        BY <1>10, CallNumber DEF CompleteTask
    <2>2. /\ UNCHANGED <<calls, invalid, outcome>>
          /\ \A v \in Workers : run'[v] \in {run[v], Idle}
        BY <1>10 DEF CompleteTask, Return, TypeOK, auditVars
    <2>3. CASE CancelRequested(w, t) /\ Unleased(t, "cancelled")
        BY <2>1, <2>2, <2>3, SameCalls DEF CancelRequested, Unleased, TypeOK, Nonterminal
    <2>4. CASE HoldsRunningLease(w, t) /\ Unleased(t, "failed")
        BY <2>1, <2>2, <2>4, SameCalls DEF HoldsRunningLease, Unleased, TypeOK, Nonterminal
    <2>5. CASE HoldsRunningLease(w, t) /\ Unleased(t, "succeeded")
        <3>1. outcome[t][calls[t]] = "succeeded"
            BY <1>10, <2>5 DEF CompleteTask, HoldsRunningLease, CallInv,
               RunOnItsCall, AnswersOnRecord
        <3>2. InvalidBudget'
            BY <2>2, <2>5 DEF Unleased, TypeOK, CallInv, InvalidBudget,
               HoldsRunningLease, Terminal
        <3>3. \A s \in Tasks : owner'[s] \in {owner[s], NULL}
            BY <2>5 DEF Unleased, TypeOK
        <3>4. \A s \in Tasks :
                 /\ status'[s] \in {"queued", "retry_scheduled"} => BetweenCalls(s)
                 /\ status'[s] = "absent" => status[s] = "absent"
                 /\ status'[s] = "succeeded" => s = t \/ status[s] = "succeeded"
            BY <2>5 DEF Unleased, TypeOK, BetweenCalls
        <3>. QED
            BY <2>1, <2>2, <3>1, <3>2, <3>3, <3>4, NoNewCall DEF Grows
    <2>6. CASE UNCHANGED <<status, owner>>
        BY <2>2, <2>6, SameCalls
    <2>. QED
        BY <1>10, <2>3, <2>4, <2>5, <2>6 DEF CompleteTask
<1>11. ASSUME NEW w \in Workers, WorkerDies(w) PROVE CallInv'
    <2>1. \A v \in Workers : run'[v] \in {run[v], Idle}
        BY <1>11 DEF WorkerDies, Return, TypeOK
    <2>. QED
        BY <1>11, <2>1, SameCalls DEF WorkerDies, taskVars, auditVars
<1>12. ASSUME NEW t \in Tasks, ScheduleDue(t) PROVE CallInv'
    BY <1>12, SameCalls DEF ScheduleDue, TypeOK, auditVars
<1>13. ASSUME NEW t \in Tasks, RecoverExpired(t) PROVE CallInv'
    <2>1. UNCHANGED <<calls, invalid, run>>
        BY <1>13 DEF RecoverExpired
    <2>2. CASE Unleased(t, "cancelled") /\ status[t] = "cancel_requested"
               /\ UNCHANGED outcome
        BY <2>1, <2>2, SameCalls DEF Unleased, TypeOK, Nonterminal
    <2>3. ASSUME Unleased(t, "queued"), status[t] = "running",
                 outcome' = IF calls[t] > 0 /\ outcome[t][calls[t]] = "open"
                            THEN [outcome EXCEPT ![t][calls[t]] = "outcome_unknown"]
                            ELSE outcome
          PROVE  CallInv'
        <3>1. InvalidBudget'
            BY <2>1, <2>3 DEF Unleased, TypeOK, CallInv, InvalidBudget, Terminal
        <3>2. \A s \in Tasks, n \in CallNumbers : Grows(outcome[s][n], outcome'[s][n])
            BY <2>3 DEF Grows, TypeOK
        <3>3. calls[t] > 0 => outcome'[t][calls[t]] # "open"
            <4>1. calls[t] > 0 => calls[t] \in CallNumbers
                BY DEF TypeOK, CallInv, RequestsNumbered, CallNumbers
            <4>. QED
                BY <2>3, <4>1 DEF TypeOK
        <3>4. \A s \in Tasks : owner'[s] \in {owner[s], NULL}
            BY <2>3 DEF Unleased, TypeOK
        <3>5. \A s \in Tasks :
                 /\ status'[s] \in {"queued", "retry_scheduled"} => s = t \/ BetweenCalls(s)
                 /\ status'[s] = "absent" => status[s] = "absent"
                 /\ status'[s] = "succeeded" => status[s] = "succeeded"
            BY <2>3 DEF Unleased, TypeOK, BetweenCalls
        <3>. QED
            BY <2>1, <3>1, <3>2, <3>3, <3>4, <3>5, NoNewCall
    <2>. QED
        BY <1>13, <2>2, <2>3 DEF RecoverExpired, NewestCallUnknown
<1>14. CASE UNCHANGED <<status, owner, calls, invalid, outcome, run>>
    BY <1>14, SameCalls
<1>. QED
    BY <1>1, <1>2, <1>3, <1>4, <1>5, <1>6, <1>7, <1>8, <1>9, <1>10, <1>11,
       <1>12, <1>13, <1>14
    DEF Next, MemberStep, DeliveryStep, Deliver, RunStep, SweepStep, Dispatch,
        EditDraft, AbandonDraft, ConfirmDraft, CopyVersion, IgnoreDelivery,
        PostponeDelivery, ClaimRaises, Heartbeat, Tick, PurgeInput, vars,
        taskVars, auditVars

-----------------------------------------------------------------------------
(* The inductive invariant and what follows from it                        *)

\* Every reachable state satisfies the inductive invariant.
THEOREM Inductive == Spec => []IInv
<1>1. Init => RowInv
    BY TaskConstants DEF Init, RowInv, LeaseColumns, OneOpenTask,
       ArchivedJobIsQuiet, Leased, Nonterminal
<1>2. Init => CallInv
    BY TaskConstants DEF Init, CallInv, InvalidBudget, RequestsNumbered,
       RunOnItsCall, AnswersOnRecord, NewestCallSettled, EarlierCallsSettled,
       SucceededByNewestCall, CallNumbers, Idle, At, Terminal
<1>3. Init => DraftInv
    BY DEF Init, DraftInv, DraftSources, DraftIffSucceeded, ReplacesOwnJob,
       ReplacedDraftIntact, EditableDraftUnique, EditableDrafts, DraftIds,
       Nonterminal
<1>4. TypeOK /\ RowInv /\ [Next]_vars => RowInv'
    BY RowInvStep
<1>5. TypeOK /\ CallInv /\ [Next]_vars => CallInv'
    BY CallInvStep
<1>6. TypeOK /\ RowInv /\ DraftInv /\ [Next]_vars => DraftInv'
    BY DraftInvStep
<1>. QED
    BY <1>1, <1>2, <1>3, <1>4, <1>5, <1>6, TypeCorrect, PTL DEF Spec, IInv

\* No mixture of errors, crashes and late answers makes a task send more than
\* MaxCalls requests or settle more than MaxInvalid invalid documents.
THEOREM BudgetKept == Spec => []CallBudget
<1>1. IInv => CallBudget
    BY DEF IInv, CallInv, InvalidBudget, RequestsNumbered, CallBudget
<1>. QED
    BY <1>1, Inductive, PTL

\* No request leaves while an earlier one of its task has no outcome.
THEOREM CallsInTurn == Spec => []EarlierCallsSettled
<1>1. IInv => EarlierCallsSettled
    BY DEF IInv, CallInv
<1>. QED
    BY <1>1, Inductive, PTL

\* Only the answer to its newest request lets a task succeed.
THEOREM NoStaleSuccess == Spec => []SucceededByNewestCall
<1>1. IInv => SucceededByNewestCall
    BY DEF IInv, CallInv
<1>. QED
    BY <1>1, Inductive, PTL

\* Success and the draft come together.
THEOREM DraftsOfSuccess == Spec => []DraftIffSucceeded
<1>1. IInv => DraftIffSucceeded
    BY DEF IInv, DraftInv
<1>. QED
    BY <1>1, Inductive, PTL

\* Whoever writes drafts, a job has at most one to edit.
THEOREM OneDraftPerJob == Spec => []OneEditableDraft
<1>1. ASSUME IInv, NEW j \in Jobs PROVE Cardinality(EditableDrafts(j)) <= 1
    <2>1. CASE EditableDrafts(j) = {}
        BY <2>1, FS_EmptySet
    <2>2. CASE EditableDrafts(j) # {}
        <3>1. PICK d \in EditableDrafts(j) : TRUE
            BY <2>2
        <3>2. EditableDrafts(j) = {d}
            BY <1>1, <3>1 DEF IInv, DraftInv, EditableDraftUnique
        <3>3. Cardinality({d}) = 1
            BY FS_Singleton
        <3>. QED
            BY <3>2, <3>3
    <2>. QED
        BY <2>1, <2>2
<1>2. IInv => OneEditableDraft
    BY <1>1 DEF OneEditableDraft
<1>. QED
    BY <1>2, Inductive, PTL

\* What a task is to replace does not change under it.
THEOREM ReplacementSafe == Spec => []ReplacedDraftIntact
<1>1. IInv => ReplacedDraftIntact
    BY DEF IInv, DraftInv
<1>. QED
    BY <1>1, Inductive, PTL

\* The tasks of an archived job are over, or told to stop.
THEOREM ArchivalWins == Spec => []ArchivedJobIsQuiet
<1>1. IInv => ArchivedJobIsQuiet
    BY DEF IInv, RowInv
<1>. QED
    BY <1>1, Inductive, PTL

-----------------------------------------------------------------------------
(* Slots                                                                   *)

SlotHolders == {t \in Tasks : status[t] \in Leased}

\* Only a claim puts a task under a lease.
LEMMA OnlyClaimsLease ==
    ASSUME TypeOK, [Next]_vars,
           \A w \in Workers, t \in Tasks : ~ClaimTask(w, t)
    PROVE  SlotHolders' \subseteq SlotHolders
<1> SUFFICES ASSUME NEW t \in Tasks, status'[t] \in Leased
             PROVE  status[t] \in Leased
    BY DEF SlotHolders
<1>1. ASSUME NEW s \in Tasks, CreateTask(s) PROVE status[t] \in Leased
    BY <1>1 DEF CreateTask, TypeOK, Leased
<1>2. ASSUME NEW s \in Tasks, CancelTask(s) PROVE status[t] \in Leased
    BY <1>2 DEF CancelTask, TypeOK, Leased
<1>3. ASSUME NEW j \in Jobs, ArchiveJob(j) PROVE status[t] \in Leased
    BY <1>3 DEF ArchiveJob, Leased
<1>4. ASSUME NEW s \in Tasks, ScheduleDue(s) PROVE status[t] \in Leased
    BY <1>4 DEF ScheduleDue, TypeOK, Leased
<1>5. ASSUME NEW s \in Tasks, NEW new \in Terminal \union {"queued", "retry_scheduled"},
             Unleased(s, new)
      PROVE  status[t] \in Leased
    BY <1>5 DEF Unleased, TypeOK, Leased, Terminal
<1>6. ASSUME NEW w \in Workers,
             FailWithoutCall(w) \/ PrepareNothing(w) \/ HandleFailure(w) \/ CompleteTask(w)
      PROVE  status[t] \in Leased
    <2>1. run[w].task \in Tasks
        BY <1>6, RunType DEF FailWithoutCall, PrepareNothing, HandleFailure, CompleteTask
    <2>. QED
        BY <1>5, <1>6, <2>1 DEF FailWithoutCall, PrepareNothing, HandleFailure,
           CompleteTask, Terminal
<1>7. ASSUME NEW s \in Tasks, RecoverExpired(s) PROVE status[t] \in Leased
    BY <1>5, <1>7 DEF RecoverExpired, Terminal
<1>8. CASE UNCHANGED status
    BY <1>8
<1>. QED
    BY <1>1, <1>2, <1>3, <1>4, <1>6, <1>7, <1>8
    DEF Next, MemberStep, DeliveryStep, Deliver, RunStep, SweepStep, Dispatch,
        EditDraft, AbandonDraft, ConfirmDraft, CopyVersion, IgnoreDelivery,
        PostponeDelivery, ClaimRaises, PrepareCall, PersistResponse,
        PersistLateResponse, Heartbeat, WorkerDies, Tick, PurgeInput, vars,
        taskVars

\* A tenant's tasks never hold more than MaxRunning leases.
THEOREM SlotsKept == Spec => []SlotLimit
<1>1. Init => SlotLimit
    <2>1. Init => {t \in Tasks : status[t] \in Leased} = {}
        BY DEF Init, Leased
    <2>. QED
        BY <2>1, FS_EmptySet, TaskConstants DEF SlotLimit
<1>2. TypeOK /\ SlotLimit /\ [Next]_vars => SlotLimit'
    <2> SUFFICES ASSUME TypeOK, SlotLimit, [Next]_vars PROVE SlotLimit'
        OBVIOUS
    <2>1. IsFiniteSet(SlotHolders) /\ Cardinality(SlotHolders) \in Nat
        BY TaskConstants, FS_Subset, FS_CardinalityType DEF SlotHolders
    <2>2. ASSUME NEW w \in Workers, NEW t \in Tasks, ClaimTask(w, t) PROVE SlotLimit'
        <3>1. SlotHolders' = BusySlots(t) \union {t} /\ t \notin BusySlots(t)
            BY <2>2 DEF ClaimTask, SlotHolders, BusySlots, TypeOK, Leased
        <3>2. IsFiniteSet(BusySlots(t)) /\ Cardinality(BusySlots(t)) \in Nat
            BY TaskConstants, FS_Subset, FS_CardinalityType DEF BusySlots
        <3>3. Cardinality(SlotHolders') = Cardinality(BusySlots(t)) + 1
            BY <3>1, <3>2, FS_AddElement
        <3>. QED
            BY <2>2, <3>2, <3>3, TaskConstants DEF ClaimTask, SlotLimit, SlotHolders
    <2>3. CASE \A w \in Workers, t \in Tasks : ~ClaimTask(w, t)
        <3>1. SlotHolders' \subseteq SlotHolders
            BY <2>3, OnlyClaimsLease
        <3>2. /\ Cardinality(SlotHolders') \in Nat
              /\ Cardinality(SlotHolders') <= Cardinality(SlotHolders)
            BY <2>1, <3>1, FS_Subset, FS_CardinalityType
        <3>. QED
            BY <2>1, <3>2, TaskConstants DEF SlotLimit, SlotHolders
    <2>. QED
        BY <2>2, <2>3
<1>. QED
    BY <1>1, <1>2, TypeCorrect, PTL DEF Spec

-----------------------------------------------------------------------------
(* Delivery                                                                *)

\* A queued task is forgotten in a claim that raises and in no other step.
THEOREM TasksForgottenOnlyByRaise == Spec => ForgottenOnlyByRaise
<1>1. ASSUME TypeOK, Next, NEW q \in Tasks, Forgotten(q)'
      PROVE  Forgotten(q) \/ ClaimRaises(q)
    <2> DEFINE Goal == Forgotten(q) \/ ClaimRaises(q)
    <2>1. ASSUME NEW t \in Tasks, CreateTask(t) PROVE Goal
        BY <1>1, <2>1 DEF CreateTask, TypeOK, Forgotten
    <2>2. ASSUME NEW t \in Tasks, CancelTask(t) PROVE Goal
        BY <1>1, <2>2 DEF CancelTask, TypeOK, Forgotten, queueVars
    <2>3. ASSUME NEW j \in Jobs, ArchiveJob(j) PROVE Goal
        BY <1>1, <2>3 DEF ArchiveJob, TypeOK, Forgotten, queueVars
    <2>4. ASSUME NEW t \in Tasks, Dispatch(t) PROVE Goal
        BY <1>1, <2>4 DEF Dispatch, Forgotten, taskVars
    <2>5. ASSUME NEW t \in Tasks, IgnoreDelivery(t) PROVE Goal
        BY <1>1, <2>5 DEF IgnoreDelivery, Forgotten, taskVars
    <2>6. ASSUME NEW t \in Tasks, PostponeDelivery(t) PROVE Goal
        BY <1>1, <2>6 DEF PostponeDelivery, Consume, Forgotten, taskVars
    <2>7. ASSUME NEW w \in Workers, NEW t \in Tasks, ClaimTask(w, t) PROVE Goal
        BY <1>1, <2>7 DEF ClaimTask, Consume, TypeOK, Forgotten
    <2>8. ASSUME UNCHANGED queueVars,
                 NEW t \in Tasks, NEW new \in Terminal \union {"retry_scheduled"},
                 Unleased(t, new)
          PROVE  Goal
        BY <1>1, <2>8 DEF Unleased, TypeOK, Forgotten, queueVars, Terminal
    <2>9. CASE UNCHANGED <<status, queueVars>>
        BY <1>1, <2>9 DEF Forgotten, queueVars
    <2>10. ASSUME NEW w \in Workers,
                  FailWithoutCall(w) \/ PrepareNothing(w) \/ HandleFailure(w)
                  \/ CompleteTask(w)
           PROVE  Goal
        <3>1. run[w].task \in Tasks
            BY <1>1, <2>10, RunType DEF FailWithoutCall, PrepareNothing,
               HandleFailure, CompleteTask
        <3>. QED
            BY <2>8, <2>9, <2>10, <3>1 DEF FailWithoutCall, PrepareNothing,
               HandleFailure, CompleteTask, Terminal
    <2>11. ASSUME NEW w \in Workers, WorkerDies(w) PROVE Goal
        BY <1>1, <2>11 DEF WorkerDies, Forgotten, taskVars
    <2>12. ASSUME NEW t \in Tasks, ScheduleDue(t) PROVE Goal
        BY <1>1, <2>12 DEF ScheduleDue, TypeOK, Forgotten
    <2>13. ASSUME NEW t \in Tasks, RecoverExpired(t) PROVE Goal
        BY <1>1, <2>13 DEF RecoverExpired, Unleased, TypeOK, Forgotten
    <2>14. ASSUME NEW t \in Tasks, ClaimRaises(t) PROVE Goal
        <3>1. CASE t = q
            BY <2>14, <3>1
        <3>2. CASE t # q
            BY <1>1, <2>14, <3>2 DEF ClaimRaises, Forgotten, taskVars
        <3>. QED
            BY <3>1, <3>2
    <2>. QED
        BY <1>1, <2>1, <2>2, <2>3, <2>4, <2>5, <2>6, <2>7, <2>9, <2>10, <2>11,
           <2>12, <2>13, <2>14
        DEF Next, MemberStep, DeliveryStep, Deliver, RunStep, SweepStep,
            EditDraft, AbandonDraft, ConfirmDraft, CopyVersion,
            PrepareCall, PersistResponse, PersistLateResponse, Heartbeat, Tick,
            PurgeInput, taskVars
<1>2. TypeOK /\ [Next]_vars =>
          [\A t \in Tasks : Forgotten(t)' => Forgotten(t) \/ ClaimRaises(t)]_vars
    BY <1>1
<1>. QED
    BY <1>2, TypeCorrect, PTL DEF Spec, ForgottenOnlyByRaise

-----------------------------------------------------------------------------
(* The program never runs into the database's own checks                   *)

Lapsed == [t \in Tasks |-> lease[t] = 0]

LEMMA UnleasedMaps ==
    ASSUME TypeOK, RowInv, NEW t \in Tasks, NEW new, Unleased(t, new),
           <<status[t], new>> \in Lifecycle!LegalChange,
           new \in (Nonterminal \union Terminal) \ Leased,
           status[t] \in Nonterminal,
           status[t] = "running" /\ new = "queued" => lease[t] = 0
    PROVE  Lifecycle!Next
<1>1. Lapsed' = [Lapsed EXCEPT ![t] = TRUE]
    BY DEF Lapsed, Unleased, TypeOK
<1>2. Lifecycle!Update(t, new, NULL, TRUE)
    BY <1>1 DEF Lifecycle!Update, Lifecycle!Nonterminal, Lifecycle!Leased,
       Unleased, Lapsed, Leased, Nonterminal
<1>. QED
    BY <1>2 DEF Lifecycle!Next, Lifecycle!Nonterminal, Lifecycle!Terminal,
       Nonterminal, Terminal

LEMMA RowsMap ==
    ASSUME TypeOK, RowInv, [Next]_vars
    PROVE  Lifecycle!Next \/ UNCHANGED <<status, owner, Lapsed>>
<1> DEFINE Goal == Lifecycle!Next \/ UNCHANGED <<status, owner, Lapsed>>
<1>1. ASSUME NEW t \in Tasks, CreateTask(t) PROVE Goal
    <2>1. \A s \in Tasks : JobOf[s] = JobOf[t] => status[s] \notin Nonterminal
        BY <1>1 DEF CreateTask, OpenTasks
    <2>2. Lifecycle!Insert(t)
        BY <1>1, <2>1 DEF CreateTask, Lifecycle!Insert, Lifecycle!Nonterminal, Nonterminal
    <2>. QED
        BY <2>2 DEF Lifecycle!Next
<1>2. ASSUME NEW t \in Tasks, NEW new \in {"cancelled", "cancel_requested"},
             \/ status[t] \in {"queued", "retry_scheduled"} /\ new = "cancelled"
             \/ status[t] = "running" /\ new = "cancel_requested",
             status' = [status EXCEPT ![t] = new],
             UNCHANGED <<owner, lease>>
      PROVE  Lifecycle!Next
    <2>1. Lapsed' = [Lapsed EXCEPT ![t] = Lapsed[t]] /\ Lapsed[t] \in BOOLEAN
        BY <1>2 DEF Lapsed
    <2>2. owner' = [owner EXCEPT ![t] = owner[t]] /\ owner[t] \in Workers \union {NULL}
        BY <1>2 DEF TypeOK
    <2>3. <<status[t], new>> \in Lifecycle!LegalChange
        BY <1>2 DEF Lifecycle!LegalChange
    <2>4. owner[t] # NULL <=> new \in Leased
        BY <1>2 DEF RowInv, LeaseColumns, Leased
    <2>5. ASSUME NEW lapsed \in BOOLEAN, Lapsed[t] = lapsed
          PROVE  Lifecycle!Next
        <3>1. Lifecycle!Update(t, new, owner[t], lapsed)
            BY <1>2, <2>1, <2>2, <2>3, <2>4, <2>5 DEF Lifecycle!Update,
               Lifecycle!Nonterminal, Lifecycle!Leased, Leased, Lapsed
        <3>2. new \in Lifecycle!Nonterminal \union Lifecycle!Terminal
            BY <1>2 DEF Lifecycle!Nonterminal, Lifecycle!Terminal
        <3>. QED
            BY <2>2, <3>1, <3>2 DEF Lifecycle!Next
    <2>. QED
        BY <2>1, <2>5
<1>3. ASSUME NEW t \in Tasks, CancelTask(t) PROVE Goal
    BY <1>2, <1>3 DEF CancelTask
<1>4. ASSUME NEW j \in Jobs, ArchiveJob(j) PROVE Goal
    <2>1. CASE OpenTasks(j) = {}
        BY <1>4, <2>1 DEF ArchiveJob, TypeOK, Lapsed
    <2>2. CASE OpenTasks(j) # {}
        <3>1. PICK t \in OpenTasks(j) : TRUE
            BY <2>2
        <3>2. OpenTasks(j) = {t} /\ t \in Tasks /\ status[t] \in Nonterminal
            BY <3>1 DEF OpenTasks, RowInv, OneOpenTask
        <3>3. UNCHANGED <<owner, lease>>
            BY <1>4 DEF ArchiveJob
        <3>4. CASE status[t] = "running"
            <4>1. status' = [status EXCEPT ![t] = "cancel_requested"]
                BY <1>4, <3>2, <3>4 DEF ArchiveJob, TypeOK, Leased
            <4>. QED
                BY <1>2, <3>2, <3>3, <3>4, <4>1
        <3>5. CASE status[t] = "cancel_requested"
            <4>1. status' = status
                BY <1>4, <3>2, <3>5 DEF ArchiveJob, TypeOK, Leased
            <4>. QED
                BY <3>3, <4>1 DEF Lapsed
        <3>6. CASE status[t] \in {"queued", "retry_scheduled"}
            <4>1. status' = [status EXCEPT ![t] = "cancelled"]
                BY <1>4, <3>2, <3>6 DEF ArchiveJob, TypeOK, Leased
            <4>. QED
                BY <1>2, <3>2, <3>3, <3>6, <4>1
        <3>. QED
            BY <3>2, <3>4, <3>5, <3>6 DEF Nonterminal
    <2>. QED
        BY <2>1, <2>2
<1>5. ASSUME NEW t \in Tasks, NEW w \in Workers, ClaimTask(w, t) PROVE Goal
    <2>1. Lapsed' = [Lapsed EXCEPT ![t] = FALSE]
        BY <1>5, TaskConstants DEF ClaimTask, Lapsed, TypeOK
    <2>2. Lifecycle!Update(t, "running", w, FALSE)
        BY <1>5, <2>1, TaskConstants DEF ClaimTask, Lapsed, Lifecycle!Update,
           Lifecycle!Nonterminal, Lifecycle!Leased, Lifecycle!LegalChange
    <2>. QED
        BY <2>2 DEF Lifecycle!Next, Lifecycle!Nonterminal
<1>6. ASSUME NEW w \in Workers,
             FailWithoutCall(w) \/ PrepareNothing(w) \/ HandleFailure(w) \/ CompleteTask(w)
      PROVE  Goal
    <2> DEFINE t == run[w].task
    <2>1. t \in Tasks
        BY <1>6, RunType DEF FailWithoutCall, PrepareNothing, HandleFailure, CompleteTask
    <2>2. CASE status[t] = "cancel_requested" /\ Unleased(t, "cancelled")
        BY <2>1, <2>2, UnleasedMaps DEF Lifecycle!LegalChange, Nonterminal,
           Terminal, Leased
    <2>3. ASSUME NEW new \in {"failed", "succeeded", "retry_scheduled"},
                 status[t] = "running", Unleased(t, new)
          PROVE  Goal
        BY <2>1, <2>3, UnleasedMaps DEF Lifecycle!LegalChange, Nonterminal,
           Terminal, Leased
    <2>4. CASE UNCHANGED <<status, owner, lease>>
        BY <2>4 DEF Lapsed
    <2>. QED
        BY <1>6, <2>2, <2>3, <2>4 DEF FailWithoutCall, PrepareNothing,
           HandleFailure, CompleteTask, CancelRequested, HoldsRunningLease
<1>7. ASSUME NEW t \in Tasks, status[t] \in Leased, NEW n \in 0..LeaseTicks,
             lease' = [lease EXCEPT ![t] = n],
             UNCHANGED <<status, owner>>
      PROVE  Goal
    <2>1. Lapsed' = [Lapsed EXCEPT ![t] = (n = 0)] /\ Lapsed[t] \in BOOLEAN
        BY <1>7 DEF Lapsed, TypeOK
    <2>2. CASE (n = 0) = Lapsed[t]
        BY <1>7, <2>1, <2>2 DEF Lapsed
    <2>3. CASE (n = 0) # Lapsed[t]
        <3>1. Lapsed' = [Lapsed EXCEPT ![t] = ~Lapsed[t]]
            BY <2>1, <2>3
        <3>2. Lifecycle!Lease(t)
            BY <1>7, <3>1 DEF Lifecycle!Lease, Lifecycle!Leased, Leased, Lapsed
        <3>. QED
            BY <3>2 DEF Lifecycle!Next
    <2>. QED
        BY <2>2, <2>3
<1>8. ASSUME NEW w \in Workers, Heartbeat(w) PROVE Goal
    <2>1. /\ run[w].task \in Tasks
          /\ status[run[w].task] \in Leased
          /\ lease' = [lease EXCEPT ![run[w].task] = LeaseTicks]
          /\ UNCHANGED <<status, owner>>
        BY <1>8, RunType DEF Heartbeat, HoldsActiveLease
    <2>2. LeaseTicks \in 0..LeaseTicks
        BY TaskConstants
    <2>. QED
        BY <1>7, <2>1, <2>2
<1>9. ASSUME NEW t \in Tasks, Tick(t) PROVE Goal
    <2>1. status[t] \in Leased /\ lease[t] - 1 \in 0..LeaseTicks
        BY <1>9, TaskConstants DEF Tick, RowInv, LeaseColumns, TypeOK
    <2>. QED
        BY <1>7, <1>9, <2>1 DEF Tick
<1>10. ASSUME NEW t \in Tasks, ScheduleDue(t) PROVE Goal
    <2>1. Unleased(t, "queued")
        BY <1>10 DEF ScheduleDue, Unleased, RowInv, LeaseColumns, Leased, TypeOK
    <2>. QED
        BY <1>10, <2>1, UnleasedMaps DEF ScheduleDue, Lifecycle!LegalChange,
           Nonterminal, Terminal, Leased
<1>11. ASSUME NEW t \in Tasks, RecoverExpired(t) PROVE Goal
    BY <1>11, UnleasedMaps DEF RecoverExpired, Lifecycle!LegalChange,
       Nonterminal, Terminal, Leased
<1>12. CASE UNCHANGED <<status, owner, lease>>
    BY <1>12 DEF Lapsed
<1>. QED
    BY <1>1, <1>3, <1>4, <1>5, <1>6, <1>8, <1>9, <1>10, <1>11, <1>12
    DEF Next, MemberStep, DeliveryStep, Deliver, RunStep, SweepStep, Dispatch,
        EditDraft, AbandonDraft, ConfirmDraft, CopyVersion, IgnoreDelivery,
        PostponeDelivery, ClaimRaises, PrepareCall, PersistResponse,
        PersistLateResponse, WorkerDies, PurgeInput, vars, taskVars

\* Every step of the program is, for the database, one its trigger and its
\* unique index let through: the program implements the lifecycle.
THEOREM ImplementsLifecycle == Spec => LifecycleSpec
<1>1. Init => Lifecycle!Init
    BY DEF Init, Lifecycle!Init
<1>2. TypeOK /\ RowInv /\ [Next]_vars => [Lifecycle!Next]_(Lifecycle!vars)
    BY RowsMap DEF Lifecycle!vars, Lapsed
<1>. QED
    BY <1>1, <1>2, Inductive, PTL DEF Spec, IInv, LifecycleSpec, Lifecycle!Spec

-----------------------------------------------------------------------------
(* What a step never does                                                  *)

\* The outcomes of a request are only appended to.
THEOREM OutcomesOnlyGrow == Spec => OutcomesAppendOnly
<1> DEFINE Appends ==
        \A t \in Tasks, n \in CallNumbers :
            outcome[t][n] # outcome'[t][n] =>
                <<outcome[t][n], outcome'[t][n]>> \in OutcomeOrder
<1>1. ASSUME IInv, [Next]_vars PROVE Appends
    <2>1. ASSUME NEW w \in Workers, PrepareCall(w) PROVE Appends
        <3> DEFINE t == run[w].task
                   n == calls[t] + 1
        <3>1. t \in Tasks /\ calls[t] \in Nat /\ n \in CallNumbers
            BY <1>1, <2>1, RunType DEF IInv, PrepareCall, TypeOK, CallNumbers
        <3>2. outcome[t][n] = "unsent"
            BY <1>1, <3>1 DEF IInv, CallInv, RequestsNumbered
        <3>. QED
            BY <1>1, <2>1, <3>1, <3>2 DEF PrepareCall, OutcomeOrder, IInv, TypeOK
    <2>2. ASSUME NEW w \in Workers, NEW verdict \in Verdicts, PersistResponse(w, verdict)
          PROVE  Appends
        BY <1>1, <2>2 DEF PersistResponse, RequestedOutcome, OutcomeOrder, IInv, TypeOK
    <2>3. ASSUME NEW w \in Workers, PersistLateResponse(w) PROVE Appends
        BY <1>1, <2>3 DEF PersistLateResponse, OutcomeOrder, IInv, TypeOK
    <2>4. ASSUME NEW t \in Tasks, RecoverExpired(t) PROVE Appends
        <3>1. CASE UNCHANGED outcome
            BY <3>1
        <3>2. CASE outcome[t][calls[t]] = "open" /\
                   outcome' = [outcome EXCEPT ![t][calls[t]] = "outcome_unknown"]
            BY <1>1, <3>2 DEF OutcomeOrder, IInv, TypeOK
        <3>. QED
            BY <2>4, <3>1, <3>2 DEF RecoverExpired, NewestCallUnknown
    <2>5. CASE UNCHANGED outcome
        BY <2>5
    <2>. QED
        BY <1>1, <2>1, <2>2, <2>3, <2>4, <2>5
        DEF Next, MemberStep, DeliveryStep, Deliver, RunStep, SweepStep,
            CreateTask, CancelTask, ArchiveJob, EditDraft, AbandonDraft,
            ConfirmDraft, CopyVersion, Dispatch, IgnoreDelivery,
            PostponeDelivery, ClaimRaises, ClaimTask, FailWithoutCall,
            PrepareNothing, Heartbeat, HandleFailure, CompleteTask, WorkerDies,
            Tick, ScheduleDue, PurgeInput, vars, auditVars
<1>. QED
    BY <1>1, Inductive, PTL DEF Spec, OutcomesAppendOnly

\* The drafts of an archived job stay as they are, late results included.
THEOREM ArchivalFreezesDrafts == Spec => ArchivedDraftsFrozen
<1> DEFINE Frozen ==
        \A d \in DraftIds : draft[d] # draft'[d] => ~archived[JobOf[source'[d]]]
<1>1. ASSUME IInv, [Next]_vars PROVE Frozen
    <2>1. ASSUME NEW d \in DraftIds, AbandonDraft(d) \/ ConfirmDraft(d) PROVE Frozen
        BY <1>1, <2>1 DEF AbandonDraft, ConfirmDraft, DraftMutable, IInv, TypeOK
    <2>2. ASSUME NEW j \in Jobs, NEW d \in Copies, CopyVersion(j, d) PROVE Frozen
        <3>1. d \in DraftIds /\ version[j] \in DraftIds
            BY <1>1, <2>2 DEF CopyVersion, DraftIds, IInv, TypeOK
        <3>2. JobOf[source[version[j]]] = j
            BY <1>1, <2>2 DEF CopyVersion, IInv, DraftInv, DraftSources
        <3>. QED
            BY <1>1, <2>2, <3>1, <3>2 DEF CopyVersion, IInv, TypeOK
    <2>3. ASSUME NEW w \in Workers, CompleteTask(w) PROVE Frozen
        <3> DEFINE t == run[w].task
        <3>1. t \in Tasks
            BY <1>1, <2>3, RunType DEF CompleteTask, IInv
        <3>2. CASE UNCHANGED draft
            BY <3>2
        <3>3. CASE WriteDraft(t) /\ ~archived[JobOf[t]]
            <4>1. \A d \in DraftIds \ {t} : source'[d] = source[d]
                BY <1>1, <3>3 DEF WriteDraft, IInv, TypeOK
            <4>2. source'[t] = t
                BY <1>1, <3>1, <3>3 DEF WriteDraft, IInv, TypeOK, DraftIds
            <4>3. \A d \in DraftIds \ {t} : draft'[d] # draft[d] => d = replaces[t]
                BY <3>3 DEF WriteDraft
            <4>4. replaces[t] \in DraftIds => JobOf[source[replaces[t]]] = JobOf[t]
                BY <1>1, <3>1, TaskConstants DEF IInv, DraftInv, ReplacesOwnJob, DraftIds
            <4>. QED
                BY <3>3, <4>1, <4>2, <4>3, <4>4
        <3>. QED
            BY <2>3, <3>2, <3>3 DEF CompleteTask
    <2>4. CASE UNCHANGED draft
        BY <2>4
    <2>. QED
        BY <1>1, <2>1, <2>2, <2>3, <2>4
        DEF Next, MemberStep, DeliveryStep, Deliver, RunStep, SweepStep,
            CreateTask, CancelTask, ArchiveJob, EditDraft, Dispatch,
            IgnoreDelivery, PostponeDelivery, ClaimRaises, ClaimTask,
            FailWithoutCall, PrepareNothing, PrepareCall, PersistResponse,
            PersistLateResponse, Heartbeat, HandleFailure, WorkerDies, Tick,
            ScheduleDue, RecoverExpired, PurgeInput, vars, draftVars
<1>. QED
    BY <1>1, Inductive, PTL DEF Spec, ArchivedDraftsFrozen

\* A run whose lease has lapsed neither renews it nor settles its task.
THEOREM LapsedLeaseLost == Spec => LapsedLeaseIsOver
<1> DEFINE Over(t) ==
        status[t] = "running" /\ lease[t] = 0 =>
            \/ lease'[t] = 0 /\ status'[t] \in {"running", "cancel_requested"}
            \/ status'[t] = "queued"
<1>1. ASSUME TypeOK, [Next]_vars, NEW t \in Tasks PROVE Over(t)
    <2> SUFFICES ASSUME status[t] = "running", lease[t] = 0
                 PROVE  \/ lease'[t] = 0 /\ status'[t] \in {"running", "cancel_requested"}
                        \/ status'[t] = "queued"
        OBVIOUS
    <2>1. ASSUME NEW s \in Tasks, CreateTask(s) \/ CancelTask(s) PROVE Over(t)
        BY <1>1, <2>1 DEF CreateTask, CancelTask, TypeOK
    <2>2. ASSUME NEW j \in Jobs, ArchiveJob(j) PROVE Over(t)
        BY <1>1, <2>2 DEF ArchiveJob, Leased
    <2>3. ASSUME NEW s \in Tasks, NEW w \in Workers, ClaimTask(w, s) PROVE Over(t)
        BY <1>1, <2>3 DEF ClaimTask, TypeOK
    <2>4. ASSUME NEW w \in Workers,
                 FailWithoutCall(w) \/ PrepareNothing(w) \/ HandleFailure(w)
                 \/ CompleteTask(w)
          PROVE  Over(t)
        <3>1. CASE UNCHANGED <<status, lease>>
            BY <3>1
        <3>2. ASSUME run[w].task # t, NEW new, Unleased(run[w].task, new)
              PROVE  Over(t)
            BY <1>1, <3>2 DEF Unleased, TypeOK
        <3>. QED
            BY <2>4, <3>1, <3>2 DEF FailWithoutCall, PrepareNothing,
               HandleFailure, CompleteTask, CancelRequested, HoldsRunningLease
    <2>5. ASSUME NEW w \in Workers, Heartbeat(w) PROVE Over(t)
        BY <1>1, <2>5 DEF Heartbeat, HoldsActiveLease, TypeOK
    <2>6. ASSUME NEW s \in Tasks, Tick(s) \/ ScheduleDue(s) PROVE Over(t)
        BY <1>1, <2>6 DEF Tick, ScheduleDue, TypeOK
    <2>7. ASSUME NEW s \in Tasks, RecoverExpired(s) PROVE Over(t)
        BY <1>1, <2>7 DEF RecoverExpired, Unleased, TypeOK
    <2>8. CASE UNCHANGED <<status, lease>>
        BY <2>8
    <2>. QED
        BY <1>1, <2>1, <2>2, <2>3, <2>4, <2>5, <2>6, <2>7, <2>8
        DEF Next, MemberStep, DeliveryStep, Deliver, RunStep, SweepStep,
            EditDraft, AbandonDraft, ConfirmDraft, CopyVersion, Dispatch,
            IgnoreDelivery, PostponeDelivery, ClaimRaises, PrepareCall,
            PersistResponse, PersistLateResponse, WorkerDies, PurgeInput,
            vars, taskVars
<1>2. TypeOK /\ [Next]_vars => \A t \in Tasks : Over(t)
    BY <1>1
<1>. QED
    BY <1>2, TypeCorrect, PTL DEF Spec, LapsedLeaseIsOver

=============================================================================
