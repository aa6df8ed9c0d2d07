--------------------------- MODULE RequirementTask ---------------------------
(***************************************************************************)
(* The job-requirement parsing task of one tenant: a durable row that is   *)
(* created with an outbox event, delivered at least once to Celery,        *)
(* claimed under a lease, answered by a language model, retried, recovered *)
(* after a crash, cancelled by a member or by the archival of its job, and *)
(* finished by writing one editable requirement draft.                     *)
(*                                                                         *)
(* Every action below is one database transaction (or one queue            *)
(* operation): its guard is what the code reads under the row locks it     *)
(* takes, its effect is what the transaction commits.  Between two actions *)
(* of one worker anything may happen, the expiry of its lease included.    *)
(***************************************************************************)
EXTENDS Integers, FiniteSets

CONSTANTS
    Jobs,           \* jobs of the tenant
    Tasks,          \* task rows that may come to exist
    JobOf,          \* the job each task is created for
    Copies,         \* drafts that may be copied from a confirmed version
    Workers,        \* Celery slots; a slot's run is its lease token (a uuid4 in
                    \* the code: no two runs in progress share a token)
    NULL,           \* the SQL NULL
    MaxCalls,       \* durable_task.MAX_EXTERNAL_CALLS
    MaxInvalid,     \* durable_task.MAX_STRUCTURED_INVALID_CALLS
    MaxRunning,     \* job_requirement_worker.MAX_RUNNING_PER_TENANT
    LeaseTicks,     \* length of a lease, in units of time
    MaxRevision,    \* bound of the model: member edits stop at this revision
    ClaimMayRaise   \* TRUE: the claiming transaction itself may raise

ASSUME TaskConstants ==
    /\ IsFiniteSet(Tasks)
    /\ JobOf \in [Tasks -> Jobs]
    /\ Copies \cap Tasks = {}
    /\ NULL \notin Tasks \union Copies \union Workers
    /\ MaxCalls \in Nat \ {0}
    /\ MaxInvalid \in Nat \ {0}
    /\ MaxRunning \in Nat \ {0}
    /\ LeaseTicks \in Nat \ {0}
    /\ MaxRevision \in Nat \ {0}
    /\ ClaimMayRaise \in BOOLEAN

VARIABLES
    \* job_requirement_parsing_tasks
    status,         \* status[t], "absent" before the INSERT
    owner,          \* owner[t]: lease_token
    lease,          \* lease[t]: units of time until lease_expires_at
    calls,          \* calls[t]: external_call_count
    invalid,        \* invalid[t]: structured_invalid_count
    replaces,       \* replaces[t]: replaces_draft_id
    replacesRev,    \* replacesRev[t]: replaces_draft_revision
    \* llm_call_records and llm_call_outcome_events
    outcome,        \* outcome[t][n]: newest outcome of the task's n-th request
    \* job_requirement_input_sources
    purged,         \* purged[t]: the bodies of t's input snapshot were erased
    \* delivery
    outbox,         \* tasks with an undelivered tenant_outbox_events row
    broker,         \* tasks with a message in the Celery queue
    run,            \* run[w]: what the process_task run of slot w is doing
    \* job_requirement_drafts and jobs
    draft,          \* draft[d]: status of draft d
    revision,       \* revision[d]: its optimistic-lock revision
    source,         \* source[d]: task whose input snapshot the draft cites
    version,        \* version[j]: draft confirmed as the current version of j
    archived        \* archived[j]: jobs.status = 'archived'

taskVars == <<status, owner, lease, calls, invalid, replaces, replacesRev>>
auditVars == <<outcome, purged>>
queueVars == <<outbox, broker>>
draftVars == <<draft, revision, source, version>>
vars == <<taskVars, auditVars, queueVars, run, draftVars, archived>>

-----------------------------------------------------------------------------

Nonterminal == {"queued", "running", "retry_scheduled", "cancel_requested"}
Terminal == {"succeeded", "failed", "cancelled"}
\* Slip: the sweep's query forgets the cancelled runs.
LeasedRunningOnly == {"running"}

Leased == {"running", "cancel_requested"}

CallNumbers == 1..MaxCalls
Outcomes == {"unsent", "open", "succeeded", "failed", "outcome_unknown",
             "late_response"}

\* What generate_requirement and the validation of its result may come to: a
\* valid document, one that fails validation, an error the adapter calls
\* retryable, one it does not, or a request whose fate is unknown.
Verdicts == {"valid", "invalid", "transient", "permanent", "unknown"}

\* Slip: an outcome the CHECK constraint of the outcome events does not know.
RequestedOutcomeRaw(verdict) ==
    IF verdict = "valid" THEN "succeeded"
    ELSE IF verdict = "unknown" THEN verdict
    ELSE "failed"

RequestedOutcome(verdict) ==
    IF verdict = "valid" THEN "succeeded"
    ELSE IF verdict = "unknown" THEN "outcome_unknown"
    ELSE "failed"

DraftIds == Tasks \union Copies    \* a task's draft is unique: uq_requirement_drafts_task
DraftStates == {"absent", "editable", "replaced", "confirmed", "abandoned"}

At(pc, t, n, verdict) ==
    [pc |-> pc, task |-> t, call |-> n, verdict |-> verdict]

Idle == At("idle", NULL, 0, "none")
Runs == {Idle} \union [pc : {"claimed", "calling", "answered"},
                       task : Tasks,
                       call : 0..MaxCalls,
                       verdict : Verdicts \union {"none"}]

TypeOK ==
    /\ status \in [Tasks -> Nonterminal \union Terminal \union {"absent"}]
    /\ owner \in [Tasks -> Workers \union {NULL}]
    /\ lease \in [Tasks -> 0..LeaseTicks]
    /\ calls \in [Tasks -> Nat]
    /\ invalid \in [Tasks -> Nat]
    /\ replaces \in [Tasks -> DraftIds \union {NULL}]
    /\ replacesRev \in [Tasks -> Nat]
    /\ outcome \in [Tasks -> [CallNumbers -> Outcomes]]
    /\ purged \in [Tasks -> BOOLEAN]
    /\ outbox \subseteq Tasks
    /\ broker \subseteq Tasks
    /\ run \in [Workers -> Runs]
    /\ draft \in [DraftIds -> DraftStates]
    /\ revision \in [DraftIds -> Nat]
    /\ source \in [DraftIds -> Tasks \union {NULL}]
    /\ version \in [Jobs -> DraftIds \union {NULL}]
    /\ archived \in [Jobs -> BOOLEAN]

Init ==
    /\ status = [t \in Tasks |-> "absent"]
    /\ owner = [t \in Tasks |-> NULL]
    /\ lease = [t \in Tasks |-> 0]
    /\ calls = [t \in Tasks |-> 0]
    /\ invalid = [t \in Tasks |-> 0]
    /\ replaces = [t \in Tasks |-> NULL]
    /\ replacesRev = [t \in Tasks |-> 0]
    /\ outcome = [t \in Tasks |-> [n \in CallNumbers |-> "unsent"]]
    /\ purged = [t \in Tasks |-> FALSE]
    /\ outbox = {}
    /\ broker = {}
    /\ run = [w \in Workers |-> Idle]
    /\ draft = [d \in DraftIds |-> "absent"]
    /\ revision = [d \in DraftIds |-> 0]
    /\ source = [d \in DraftIds |-> NULL]
    /\ version = [j \in Jobs |-> NULL]
    /\ archived = [j \in Jobs |-> FALSE]

-----------------------------------------------------------------------------
(* Reads shared by the transactions                                        *)

\* Slip: only the tasks a worker holds count as open.
OpenTasksLeased(j) == {t \in Tasks : JobOf[t] = j /\ status[t] \in Leased}

OpenTasks(j) == {t \in Tasks : JobOf[t] = j /\ status[t] \in Nonterminal}

EditableDrafts(j) ==
    {d \in DraftIds : draft[d] = "editable" /\ JobOf[source[d]] = j}

\* Slip: a run that is being cancelled gives up its slot at once.
BusySlotsRunning(t) == {s \in Tasks \ {t} : status[s] = "running"}

\* Slots taken by the tenant's other tasks.
BusySlots(t) == {s \in Tasks \ {t} : status[s] \in Leased}

\* Slip: the status and the deadline are checked, the token is not.
HoldsAnyRunningLease(w, t) == status[t] = "running" /\ lease[t] > 0

\* _holds_running_lease and _holds_active_lease for the run of slot w.
HoldsRunningLease(w, t) ==
    /\ status[t] = "running"
    /\ owner[t] = w
    /\ lease[t] > 0

\* Slip: a heartbeat that does not look at the deadline.
HoldsActiveToken(w, t) == status[t] \in Leased /\ owner[t] = w

HoldsActiveLease(w, t) ==
    /\ status[t] \in Leased
    /\ owner[t] = w
    /\ lease[t] > 0

\* A cancelled run is recognised by its token alone, lapsed or not.
CancelRequested(w, t) == status[t] = "cancel_requested" /\ owner[t] = w

\* The run of slot w still works on behalf of the lease on t.
Attended(t) ==
    \E w \in Workers : owner[t] = w /\ run[w].pc # "idle" /\ run[w].task = t

\* Slip: a draft that is to be replaced may still be written.
DraftMutableWhileReplaced(d) == draft[d] = "editable" /\ ~archived[JobOf[source[d]]]

\* Slip: archival does not protect the drafts of the job.
DraftMutableInArchive(d) ==
    /\ draft[d] = "editable"
    /\ \A t \in OpenTasks(JobOf[source[d]]) : replaces[t] # d

\* read_only_reason: the draft may be written by a member.
DraftMutable(d) ==
    /\ draft[d] = "editable"
    /\ ~archived[JobOf[source[d]]]
    /\ \A t \in OpenTasks(JobOf[source[d]]) : replaces[t] # d

-----------------------------------------------------------------------------
(* Writes shared by the transactions                                       *)

\* The row reaches a status that holds no lease.
Unleased(t, new) ==
    /\ status' = [status EXCEPT ![t] = new]
    /\ owner' = [owner EXCEPT ![t] = NULL]
    /\ lease' = [lease EXCEPT ![t] = 0]

\* The process_task run of slot w returns; Celery acknowledges its message.
Return(w) == run' = [run EXCEPT ![w] = Idle]

\* A message may be delivered once more before it is finally removed.
Consume(t) == broker' \in {broker, broker \ {t}}

-----------------------------------------------------------------------------
(* Members                                                                 *)

\* create_parsing_task: the row, its snapshot and its outbox event are one
\* transaction under the locks of the tenant, the job and the current draft.
CreateTask(t) ==
    /\ status[t] = "absent"
    /\ ~archived[JobOf[t]]
    /\ OpenTasks(JobOf[t]) = {}
    /\ status' = [status EXCEPT ![t] = "queued"]
    /\ \/ /\ EditableDrafts(JobOf[t]) = {}
          /\ UNCHANGED <<replaces, replacesRev>>
       \/ \E d \in EditableDrafts(JobOf[t]) :
             /\ replaces' = [replaces EXCEPT ![t] = d]
             /\ replacesRev' = [replacesRev EXCEPT ![t] = revision[d]]
    /\ outbox' = outbox \union {t}
    /\ UNCHANGED <<owner, lease, calls, invalid, auditVars, broker, run,
                   draftVars, archived>>

\* cancel_parsing_task; a second cancellation and one of a finished task
\* change nothing.
CancelTask(t) ==
    /\ \/ /\ status[t] \in {"queued", "retry_scheduled"}
          /\ status' = [status EXCEPT ![t] = "cancelled"]
       \/ /\ status[t] = "running"
          /\ status' = [status EXCEPT ![t] = "cancel_requested"]
    /\ UNCHANGED <<owner, lease, calls, invalid, replaces, replacesRev,
                   auditVars, queueVars, run, draftVars, archived>>

\* archive_job, with the task of the job in the same transaction.
ArchiveJob(j) ==
    /\ ~archived[j]
    /\ archived' = [archived EXCEPT ![j] = TRUE]
    /\ status' = [t \in Tasks |->
                    IF t \notin OpenTasks(j) THEN status[t]
                    ELSE IF status[t] \in Leased THEN "cancel_requested"
                    ELSE "cancelled"]
    /\ UNCHANGED <<owner, lease, calls, invalid, replaces, replacesRev,
                   auditVars, queueVars, run, draftVars>>

\* update_requirement_draft, upgrade_draft_schema and
\* resolve_schema_upgrade_lossy_items: the draft stays editable under a new
\* revision.
EditDraft(d) ==
    /\ DraftMutable(d)
    /\ revision[d] < MaxRevision
    /\ revision' = [revision EXCEPT ![d] = @ + 1]
    /\ UNCHANGED <<taskVars, auditVars, queueVars, run, draft, source,
                   version, archived>>

AbandonDraft(d) ==
    /\ DraftMutable(d)
    /\ draft' = [draft EXCEPT ![d] = "abandoned"]
    /\ revision' = [revision EXCEPT ![d] = @ + 1]
    /\ UNCHANGED <<taskVars, auditVars, queueVars, run, source, version,
                   archived>>

\* confirm_draft: the draft becomes the job's current requirement version.
ConfirmDraft(d) ==
    /\ DraftMutable(d)
    /\ draft' = [draft EXCEPT ![d] = "confirmed"]
    /\ revision' = [revision EXCEPT ![d] = @ + 1]
    /\ version' = [version EXCEPT ![JobOf[source[d]]] = d]
    /\ UNCHANGED <<taskVars, auditVars, queueVars, run, source, archived>>

\* copy_current_version: it looks at the drafts of the job, not at its tasks.
CopyVersion(j, d) ==
    /\ ~archived[j]
    /\ version[j] # NULL
    /\ EditableDrafts(j) = {}
    /\ draft[d] = "absent"
    /\ draft' = [draft EXCEPT ![d] = "editable"]
    /\ revision' = [revision EXCEPT ![d] = 1]
    /\ source' = [source EXCEPT ![d] = source[version[j]]]
    /\ UNCHANGED <<taskVars, auditVars, queueVars, run, version, archived>>

-----------------------------------------------------------------------------
(* Delivery                                                                *)

\* The dispatcher sends a due event and acknowledges it; an event whose
\* acknowledgement is lost is sent again.
Dispatch(t) ==
    /\ t \in outbox
    /\ broker' = broker \union {t}
    /\ outbox' \in {outbox, outbox \ {t}}
    /\ UNCHANGED <<taskVars, auditVars, run, draftVars, archived>>

\* claim_task finds a task that is not queued: the delivery is a duplicate.
IgnoreDelivery(t) ==
    /\ t \in broker
    /\ \E w \in Workers : run[w].pc = "idle"
    /\ status[t] # "queued"
    /\ broker' = broker \ {t}
    /\ UNCHANGED <<taskVars, auditVars, outbox, run, draftVars, archived>>

\* Slip: the delivery is dropped and nothing is left to wake a worker.
DropDelivery(t) ==
    /\ t \in broker
    /\ \E w \in Workers : run[w].pc = "idle"
    /\ status[t] = "queued"
    /\ Cardinality(BusySlots(t)) >= MaxRunning
    /\ Consume(t)
    /\ UNCHANGED <<taskVars, auditVars, outbox, run, draftVars, archived>>

\* claim_task finds the tenant's slots taken: enqueue_delayed_requirement_task
\* leaves a later outbox event, unless one is already waiting.
PostponeDelivery(t) ==
    /\ t \in broker
    /\ \E w \in Workers : run[w].pc = "idle"
    /\ status[t] = "queued"
    /\ Cardinality(BusySlots(t)) >= MaxRunning
    /\ outbox' = outbox \union {t}
    /\ Consume(t)
    /\ UNCHANGED <<taskVars, auditVars, run, draftVars, archived>>

\* claim_task takes the task under a new lease.
ClaimTask(w, t) ==
    /\ t \in broker
    /\ run[w].pc = "idle"
    /\ status[t] = "queued"
    /\ Cardinality(BusySlots(t)) < MaxRunning
    /\ status' = [status EXCEPT ![t] = "running"]
    /\ owner' = [owner EXCEPT ![t] = w]
    /\ lease' = [lease EXCEPT ![t] = LeaseTicks]
    /\ run' = [run EXCEPT ![w] = At("claimed", t, 0, "none")]
    /\ Consume(t)
    /\ UNCHANGED <<calls, invalid, replaces, replacesRev, auditVars, outbox,
                   draftVars, archived>>

\* The claiming transaction raises (connection lost, deadlock victim): it is
\* rolled back and the exception ends the run.  Celery acknowledges a late-ack
\* message whose task raised, and only returns it when the worker is lost.
ClaimRaises(t) ==
    /\ ClaimMayRaise
    /\ t \in broker
    /\ broker' = broker \ {t}
    /\ UNCHANGED <<taskVars, auditVars, outbox, run, draftVars, archived>>

-----------------------------------------------------------------------------
(* One run of process_task                                                 *)

\* fail_without_call: no API key, or no usable key ring, in the deployment.
FailWithoutCall(w) ==
    LET t == run[w].task IN
    /\ run[w].pc = "claimed"
    /\ \/ CancelRequested(w, t) /\ Unleased(t, "cancelled")
       \/ HoldsRunningLease(w, t) /\ Unleased(t, "failed")
       \/ /\ ~CancelRequested(w, t) /\ ~HoldsRunningLease(w, t)
          /\ UNCHANGED <<status, owner, lease>>
    /\ Return(w)
    /\ UNCHANGED <<calls, invalid, replaces, replacesRev, auditVars,
                   queueVars, draftVars, archived>>

\* prepare_call without a request: the lease is gone, or the task fails because
\* its assets do not match the deployment, its call budget is spent, or its
\* input bodies were purged.
PrepareNothing(w) ==
    LET t == run[w].task IN
    /\ run[w].pc = "claimed"
    /\ \/ HoldsRunningLease(w, t) /\ Unleased(t, "failed")
       \/ ~HoldsRunningLease(w, t) /\ UNCHANGED <<status, owner, lease>>
    /\ Return(w)
    /\ UNCHANGED <<calls, invalid, replaces, replacesRev, auditVars,
                   queueVars, draftVars, archived>>

\* prepare_call commits the call record before the request is sent.
PrepareCall(w) ==
    LET t == run[w].task
        n == calls[t] + 1 IN
    /\ run[w].pc = "claimed"
    /\ HoldsRunningLease(w, t)
    /\ n <= MaxCalls
    /\ ~purged[t]
    /\ calls' = [calls EXCEPT ![t] = n]
    /\ outcome' = [outcome EXCEPT ![t][n] = "open"]
    /\ run' = [run EXCEPT ![w] = At("calling", t, n, "none")]
    /\ UNCHANGED <<status, owner, lease, invalid, replaces, replacesRev,
                   purged, queueVars, draftVars, archived>>

\* heartbeat_loop renews the lease while the request is out.
Heartbeat(w) ==
    LET t == run[w].task IN
    /\ run[w].pc = "calling"
    /\ HoldsActiveLease(w, t)
    /\ lease' = [lease EXCEPT ![t] = LeaseTicks]
    /\ UNCHANGED <<status, owner, calls, invalid, replaces, replacesRev,
                   auditVars, queueVars, run, draftVars, archived>>

\* persist_call_response records the first outcome of the call ...
PersistResponse(w, verdict) ==
    LET t == run[w].task
        n == run[w].call IN
    /\ run[w].pc = "calling"
    /\ outcome[t][n] = "open"
    /\ outcome' = [outcome EXCEPT ![t][n] = RequestedOutcome(verdict)]
    /\ run' = [run EXCEPT ![w] = At("answered", t, n, verdict)]
    /\ UNCHANGED <<taskVars, purged, queueVars, draftVars, archived>>

\* ... or finds that the recovery has already called it unknown: the response
\* is late, it is kept for the audit, and the run ends.
PersistLateResponse(w) ==
    LET t == run[w].task
        n == run[w].call IN
    /\ run[w].pc = "calling"
    /\ outcome[t][n] = "outcome_unknown"
    /\ outcome' = [outcome EXCEPT ![t][n] = "late_response"]
    /\ Return(w)
    /\ UNCHANGED <<taskVars, purged, queueVars, draftVars, archived>>

\* Slip: the limit of invalid documents is off by one.
CanRetryOnceMore(t, verdict) ==
    /\ verdict # "permanent"
    /\ calls[t] < MaxCalls
    /\ verdict = "invalid" => invalid[t] < MaxInvalid

\* The retry rule of handle_failure.
CanRetry(t, verdict) ==
    /\ verdict # "permanent"
    /\ calls[t] < MaxCalls
    /\ verdict = "invalid" => invalid[t] + 1 < MaxInvalid

\* handle_failure
HandleFailure(w) ==
    LET t == run[w].task
        verdict == run[w].verdict IN
    /\ run[w].pc = "answered"
    /\ verdict # "valid"
    /\ \/ /\ CancelRequested(w, t)
          /\ Unleased(t, "cancelled")
          /\ UNCHANGED invalid
       \/ /\ HoldsRunningLease(w, t)
          /\ invalid' = IF verdict = "invalid"
                        THEN [invalid EXCEPT ![t] = @ + 1] ELSE invalid
          /\ Unleased(t, IF CanRetry(t, verdict) THEN "retry_scheduled"
                         ELSE "failed")
       \/ /\ ~CancelRequested(w, t) /\ ~HoldsRunningLease(w, t)
          /\ UNCHANGED <<status, owner, lease, invalid>>
    /\ Return(w)
    /\ UNCHANGED <<calls, replaces, replacesRev, auditVars, queueVars,
                   draftVars, archived>>

\* Slip: a task that replaces nothing never finds a draft in its way.
DraftSlotUnchecked(t) ==
    replaces[t] # NULL =>
        /\ draft[replaces[t]] = "editable"
        /\ revision[replaces[t]] = replacesRev[t]

\* The draft complete_task may write: in place of the draft the task was
\* created to replace, if that is still what it was, or as the only one.
DraftSlotFree(t) ==
    IF replaces[t] # NULL
    THEN /\ draft[replaces[t]] = "editable"
         /\ revision[replaces[t]] = replacesRev[t]
    ELSE EditableDrafts(JobOf[t]) = {}

\* Slip: the draft is an UPDATE of the one it replaces, and nothing otherwise.
WriteDraftInPlace(t) ==
    /\ revision' = [d \in DraftIds |->
                    IF d = replaces[t] THEN revision[d] + 1 ELSE revision[d]]
    /\ UNCHANGED <<draft, source>>

WriteDraft(t) ==
    /\ draft' = [d \in DraftIds |->
                    IF d = t THEN "editable"
                    ELSE IF d = replaces[t] THEN "replaced" ELSE draft[d]]
    /\ revision' = [d \in DraftIds |->
                    IF d = t THEN 1
                    ELSE IF d = replaces[t] THEN revision[d] + 1
                    ELSE revision[d]]
    /\ source' = [source EXCEPT ![t] = t]

\* complete_task; the failing branch also stands for a document the editor
\* schema refuses.
CompleteTask(w) ==
    LET t == run[w].task IN
    /\ run[w].pc = "answered"
    /\ run[w].verdict = "valid"
    /\ \/ /\ CancelRequested(w, t)
          /\ Unleased(t, "cancelled")
          /\ UNCHANGED <<draft, revision, source>>
       \/ /\ HoldsRunningLease(w, t)
          /\ ~archived[JobOf[t]]
          /\ DraftSlotFree(t)
          /\ WriteDraft(t)
          /\ Unleased(t, "succeeded")
       \/ /\ HoldsRunningLease(w, t)
          /\ Unleased(t, "failed")
          /\ UNCHANGED <<draft, revision, source>>
       \/ /\ ~CancelRequested(w, t) /\ ~HoldsRunningLease(w, t)
          /\ UNCHANGED <<status, owner, lease, draft, revision, source>>
    /\ Return(w)
    /\ UNCHANGED <<calls, invalid, replaces, replacesRev, auditVars,
                   queueVars, version, archived>>

\* The worker process is lost, and Celery returns its message
\* (reject_on_worker_lost); or a later transaction raises, and the message is
\* gone.  Nothing uncommitted survives.
WorkerDies(w) ==
    /\ run[w].pc # "idle"
    /\ broker' \in {broker, broker \union {run[w].task}}
    /\ Return(w)
    /\ UNCHANGED <<taskVars, auditVars, outbox, draftVars, archived>>

-----------------------------------------------------------------------------
(* Time and the periodic sweeps                                            *)

\* One unit of a lease goes by.
Tick(t) ==
    /\ lease[t] > 0
    /\ lease' = [lease EXCEPT ![t] = @ - 1]
    /\ UNCHANGED <<status, owner, calls, invalid, replaces, replacesRev,
                   auditVars, queueVars, run, draftVars, archived>>

\* Slip: the sweep changes the row and leaves no outbox event.
ScheduleDueSilently(t) ==
    /\ status[t] = "retry_scheduled"
    /\ status' = [status EXCEPT ![t] = "queued"]
    /\ UNCHANGED <<owner, lease, calls, invalid, replaces, replacesRev,
                   auditVars, queueVars, run, draftVars, archived>>

\* schedule_due_requirement_tasks, once next_attempt_at has passed.
ScheduleDue(t) ==
    /\ status[t] = "retry_scheduled"
    /\ status' = [status EXCEPT ![t] = "queued"]
    /\ outbox' = outbox \union {t}
    /\ UNCHANGED <<owner, lease, calls, invalid, replaces, replacesRev,
                   auditVars, broker, run, draftVars, archived>>

\* Slip: the recovery leaves the request as it is.
NewestCallLeft(t) == outcome' = outcome

\* Slip: the recovery does not ask whether the request was answered.
NewestCallOverwritten(t) ==
    outcome' = IF calls[t] > 0
               THEN [outcome EXCEPT ![t][calls[t]] = "outcome_unknown"]
               ELSE outcome

\* The newest request of a lapsed run, if it has no outcome, gets one.
NewestCallUnknown(t) ==
    outcome' = IF calls[t] > 0 /\ outcome[t][calls[t]] = "open"
               THEN [outcome EXCEPT ![t][calls[t]] = "outcome_unknown"]
               ELSE outcome

\* recover_expired_requirement_tasks: a cancelled run is finished, any other
\* is queued again after its newest call, if unanswered, is called unknown.
RecoverExpired(t) ==
    /\ status[t] \in Leased
    /\ lease[t] = 0
    /\ \/ /\ status[t] = "cancel_requested"
          /\ Unleased(t, "cancelled")
          /\ UNCHANGED <<outcome, outbox>>
       \/ /\ status[t] = "running"
          /\ Unleased(t, "queued")
          /\ NewestCallUnknown(t)
          /\ outbox' = outbox \union {t}
    /\ UNCHANGED <<calls, invalid, replaces, replacesRev, purged, broker, run,
                   draftVars, archived>>

\* Tasks whose input snapshot a confirmed requirement version cites.
Cited == {source[d] : d \in {e \in DraftIds : draft[e] = "confirmed"}}

\* cleanup_expired_requirement_input_bodies, for a snapshot of 90 days that no
\* version cites.
PurgeInput(t) ==
    /\ status[t] # "absent"
    /\ ~purged[t]
    /\ t \notin Cited
    /\ purged' = [purged EXCEPT ![t] = TRUE]
    /\ UNCHANGED <<taskVars, outcome, queueVars, run, draftVars, archived>>

-----------------------------------------------------------------------------

MemberStep ==
    \/ \E t \in Tasks : CreateTask(t) \/ CancelTask(t)
    \/ \E j \in Jobs : ArchiveJob(j)
    \/ \E d \in DraftIds : EditDraft(d) \/ AbandonDraft(d) \/ ConfirmDraft(d)
    \/ \E j \in Jobs, d \in Copies : CopyVersion(j, d)

Deliver(t) ==
    \/ IgnoreDelivery(t)
    \/ PostponeDelivery(t)
    \/ \E w \in Workers : ClaimTask(w, t)

DeliveryStep == \E t \in Tasks : Dispatch(t) \/ Deliver(t) \/ ClaimRaises(t)

RunStep(w) ==
    \/ FailWithoutCall(w)
    \/ PrepareNothing(w)
    \/ PrepareCall(w)
    \/ \E verdict \in Verdicts : PersistResponse(w, verdict)
    \/ PersistLateResponse(w)
    \/ HandleFailure(w)
    \/ CompleteTask(w)

SweepStep ==
    \E t \in Tasks :
        Tick(t) \/ ScheduleDue(t) \/ RecoverExpired(t) \/ PurgeInput(t)

Next ==
    \/ MemberStep
    \/ DeliveryStep
    \/ \E w \in Workers : RunStep(w) \/ Heartbeat(w) \/ WorkerDies(w)
    \/ SweepStep

Spec == Init /\ [][Next]_vars

-----------------------------------------------------------------------------
(* Fairness.  The dispatcher, the Celery workers and the two beat sweeps    *)
(* run forever; a request ends with an answer or a timeout; the lease of a  *)
(* run that is gone runs out.                                               *)

Fairness ==
    /\ \A t \in Tasks :
          /\ WF_vars(Dispatch(t))
          /\ WF_vars(Deliver(t))
          /\ WF_vars(ScheduleDue(t))
          /\ WF_vars(RecoverExpired(t))
          /\ WF_vars(~Attended(t) /\ Tick(t))
    /\ \A w \in Workers : WF_vars(RunStep(w))

\* A worker process dies, or falls so far behind that its lease lapses.
Fault ==
    \/ \E w \in Workers : WorkerDies(w)
    \/ \E t \in Tasks : lease[t] = 1 /\ Attended(t) /\ Tick(t)

FairSpec == Spec /\ Fairness

-----------------------------------------------------------------------------
(* Safety                                                                  *)

\* Whatever mixture of errors, crashes and late answers a task meets, it sends
\* at most MaxCalls requests and settles at most MaxInvalid invalid documents
\* (prepare_call, handle_failure).
CallBudget == \A t \in Tasks : calls[t] <= MaxCalls /\ invalid[t] <= MaxInvalid

\* A tenant never has more than MaxRunning tasks under a lease, although
\* deliveries are repeated and reordered and a cancelled run keeps its slot
\* until it stops (claim_task).
SlotLimit == Cardinality({t \in Tasks : status[t] \in Leased}) <= MaxRunning

\* A request is sent only when the outcome of every earlier request of the
\* task is on record, the unknown ones included (prepare_call against
\* recover_expired_requirement_tasks).
EarlierCallsSettled ==
    \A t \in Tasks, n \in CallNumbers : n < calls[t] => outcome[t][n] # "open"

\* A task succeeds by the answer to its newest request, and only by an answer
\* that was on record as a success: never by one that came late, nor by one
\* another run has superseded (complete_task).
SucceededByNewestCall ==
    \A t \in Tasks :
        status[t] = "succeeded" =>
            calls[t] \in CallNumbers /\ outcome[t][calls[t]] = "succeeded"

\* A task has written its draft exactly if it succeeded: no other end of a
\* task leaves one behind, and no success is without one.
DraftIffSucceeded ==
    \A t \in Tasks : draft[t] # "absent" <=> status[t] = "succeeded"

\* A job never has two drafts to edit, whoever writes them: the worker, or a
\* member who copies the current version while a task is open.
OneEditableDraft == \A j \in Jobs : Cardinality(EditableDrafts(j)) <= 1

\* The draft an open task is to replace is, until the task ends, just what it
\* was when the task was created: no edit, confirmation or abandonment of it
\* can be lost (read_only_reason against complete_task).
ReplacedDraftIntact ==
    \A t \in Tasks :
        status[t] \in Nonterminal /\ replaces[t] # NULL =>
            /\ draft[replaces[t]] = "editable"
            /\ revision[replaces[t]] = replacesRev[t]

\* A queued task of which no event and no message is left: nothing looks at it
\* again.
Forgotten(t) == status[t] = "queued" /\ t \notin outbox \union broker

\* Archival has priority: the task of an archived job is over or on its way
\* to be cancelled, wherever the archival found it.
ArchivedJobIsQuiet ==
    \A t \in Tasks :
        archived[JobOf[t]] =>
            status[t] \in Terminal \union {"absent", "cancel_requested"}

\* The input of a confirmed requirement version is kept with the job.
CitedInputKept == \A t \in Cited : ~purged[t]

\* A request of a task that is over, and whose run is gone, has an outcome.
EveryCallAccounted ==
    \A t \in Tasks :
        /\ status[t] \in Terminal
        /\ \A w \in Workers : run[w].task # t
        => \A n \in CallNumbers : outcome[t][n] # "open"

-----------------------------------------------------------------------------
(* What a step may never do                                                *)

OutcomeOrder ==
    {"unsent"} \X {"open"}
    \union {"open"} \X {"succeeded", "failed", "outcome_unknown"}
    \union {"outcome_unknown"} \X {"late_response"}

\* The record of a request only grows: an outcome is never rewritten, and a
\* late response follows an unknown outcome (persist_call_response against
\* recover_expired_requirement_tasks).
OutcomesAppendOnly ==
    [][\A t \in Tasks, n \in CallNumbers :
          outcome[t][n] # outcome'[t][n] =>
              <<outcome[t][n], outcome'[t][n]>> \in OutcomeOrder]_vars

\* No draft of an archived job is created or replaced, late results included.
ArchivedDraftsFrozen ==
    [][\A d \in DraftIds :
          draft[d] # draft'[d] => ~archived[JobOf[source'[d]]]]_vars

\* There is one way to forget a task, a claim that raises (process_task): not a
\* postponed delivery, a message that comes twice, a retry, the recovery of a
\* lost worker, nor any order of these.
ForgottenOnlyByRaise ==
    [][\A t \in Tasks : Forgotten(t)' => Forgotten(t) \/ ClaimRaises(t)]_vars

\* A lease that has lapsed is over for its holder: it is not renewed, and the
\* task leaves "running" by recovery or by a request to cancel it.
LapsedLeaseIsOver ==
    [][\A t \in Tasks :
          status[t] = "running" /\ lease[t] = 0 =>
              \/ lease'[t] = 0 /\ status'[t] \in {"running", "cancel_requested"}
              \/ status'[t] = "queued"]_vars

\* The row as the database sees it.
Lifecycle == INSTANCE RequirementTaskLifecycle
    WITH Holders <- Workers, NoHolder <- NULL,
         holder <- owner, expired <- [t \in Tasks |-> lease[t] = 0]

\* No step of the program is one the transition trigger or the unique index
\* on open tasks would abort.
LifecycleSpec == Lifecycle!Spec

-----------------------------------------------------------------------------
(* Progress                                                                *)

\* If faults stop, every task that was created comes to an end, whatever
\* happened to it before.
EveryTaskSettles ==
    <>[][~Fault]_vars =>
        \A t \in Tasks : status[t] \in Nonterminal ~> status[t] \in Terminal

\* A requested cancellation takes effect even if workers keep failing.
CancellationCompletes ==
    \A t \in Tasks : status[t] = "cancel_requested" ~> status[t] = "cancelled"

=============================================================================
