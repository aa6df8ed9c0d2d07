-------------------------- MODULE LlmConfiguration --------------------------
(***************************************************************************)
(* The platform's language-model configuration.  A change is an attempt:   *)
(* its candidate is probed with one call for each declared type of call,   *)
(* in the background, and becomes the current version when every probe has *)
(* succeeded and the version it was meant to replace is still current.     *)
(*                                                                         *)
(* An attempt is worked on by runs of a Celery task, one at a time by the  *)
(* lease; a run that loses its lease does not know, and goes on.  Messages *)
(* come from an outbox and may come twice.                                 *)
(***************************************************************************)
EXTENDS ModelProvider, FiniteSets

CONSTANTS
    Attempts,       \* configuration attempts
    Workers,        \* workers that run process_attempt
    NULL,
    MaxCalls,       \* MAX_EXTERNAL_CALLS
    MaxInvalid,     \* MAX_STRUCTURED_INVALID_CALLS
    MaxFaults       \* bound of the model: runs that die or lose their lease

ASSUME ConfigurationConstants ==
    /\ IsFiniteSet(Attempts)
    /\ NULL \notin Workers
    /\ MaxCalls \in Nat \ {0}
    /\ MaxInvalid \in Nat \ {0}
    /\ MaxFaults \in Nat

\* DECLARED_CALL_TYPES, in the order of their probes.
CallTypes == <<"job_requirement_parsing", "search_interpretation">>

Active == {"queued", "running", "retry_scheduled", "cancel_requested"}
Terminal == {"succeeded", "failed", "conflicted", "cancelled"}

VARIABLES
    attempt,        \* llm_configuration_attempts
    calls,          \* calls[a]: the call records of a and their outcomes
    versions,       \* attempts that made the versions after the bootstrap one
    current,        \* llm_configuration_current, 0: the bootstrap version
    mail,           \* attempts with an event in the outbox or a message in the queue
    run,            \* run[w]: what the worker w is doing
    faults          \* faults so far

configVars == <<attempt, calls, versions, current, mail, run, faults>>

\* An attempt that is "asked" for has been found expecting the current version,
\* by a request that has not inserted it yet.
NoAttempt == [status |-> "none", expected |-> 0, token |-> NULL,
              lapsed |-> FALSE, invalid |-> 0, probed |-> 0]

AttemptRows ==
    [status : Active \union Terminal \union {"none", "asked"},
     expected : Nat,
     token : Workers \union {NULL},
     lapsed : BOOLEAN,          \* lease_expires_at is past
     invalid : Nat,             \* structured_invalid_count
     probed : 0..Len(CallTypes)]    \* probe_progress: types that succeeded

Idle == [step |-> "idle", attempt |-> NULL, probed |-> 0, call |-> 0, error |-> NULL]

Runs == [step : {"idle", "probing", "calling", "answered", "refused", "conflicting"},
         attempt : Attempts \union {NULL},
         probed : 0..Len(CallTypes),    \* succeeded_call_types of the claim
         call : Nat,                    \* request number of its latest call
         error : {NULL, "final", "retryable", "invalid"}]

ConfigTypeOK ==
    /\ attempt \in [Attempts -> AttemptRows]
    /\ calls \in [Attempts -> Seq([type : 1..Len(CallTypes), events : OutcomeEvents])]
    /\ versions \in Seq(Attempts)
    /\ current \in 0..Len(versions)
    /\ mail \subseteq Attempts
    /\ run \in [Workers -> Runs]
    /\ faults \in 0..MaxFaults

ConfigInit ==
    /\ attempt = [a \in Attempts |-> NoAttempt]
    /\ calls = [a \in Attempts |-> <<>>]
    /\ versions = <<>>
    /\ current = 0
    /\ mail = {}
    /\ run = [w \in Workers |-> Idle]
    /\ faults = 0

-----------------------------------------------------------------------------

SetStatus(a, status) == attempt' = [attempt EXCEPT ![a].status = status]

\* Nothing but the status of an attempt that is over is looked at any more: the
\* model keeps nothing else, and what it expected.
Ended(status, expected) ==
    [status |-> status, expected |-> expected, token |-> NULL,
     lapsed |-> FALSE, invalid |-> 0, probed |-> 0]

End(a, status) ==
    /\ attempt' = [attempt EXCEPT ![a] = Ended(status, @.expected)]
    /\ calls' = [calls EXCEPT ![a] = <<>>]

EndRun(w) == run' = [run EXCEPT ![w] = Idle]

Goto(w, step) == run' = [run EXCEPT ![w].step = step]

\* _holds_running_lease: the deadline of the lease is not looked at.
Holds(w) ==
    /\ attempt[run[w].attempt].status = "running"
    /\ attempt[run[w].attempt].token = w

-----------------------------------------------------------------------------
(* Administrators                                                          *)

\* create_attempt reads the pointer and finds what it expects.
AskAttempt(a) ==
    /\ attempt[a].status = "none"
    /\ attempt' = [attempt EXCEPT ![a].status = "asked", ![a].expected = current]
    /\ UNCHANGED <<calls, versions, current, mail, run, faults>>

\* It inserts the attempt, unless there is an active one
\* (uq_llm_configuration_attempts_one_nonterminal).
CreateAttempt(a) ==
    /\ attempt[a].status = "asked"
    /\ IF \A b \in Attempts : attempt[b].status \notin Active
       THEN SetStatus(a, "queued") /\ mail' = mail \union {a}
       ELSE SetStatus(a, "none") /\ UNCHANGED mail
    /\ UNCHANGED <<calls, versions, current, run, faults>>

\* cancel_attempt: a running one is only asked to stop.
CancelAttempt(a) ==
    /\ \/ attempt[a].status \in {"queued", "retry_scheduled"} /\ End(a, "cancelled")
       \/ /\ attempt[a].status = "running"
          /\ SetStatus(a, "cancel_requested")
          /\ UNCHANGED calls
    /\ UNCHANGED <<versions, current, mail, run, faults>>

-----------------------------------------------------------------------------
(* Delivery                                                                *)

\* claim_attempt: a message for an attempt that is not queued is dropped.  The
\* same event may be sent again when its acknowledgement fails or comes late.
ClaimAttempt(w, a) ==
    /\ run[w].step = "idle"
    /\ a \in mail
    /\ mail' \in {mail, mail \ {a}}
    /\ IF attempt[a].status = "queued"
       THEN /\ attempt' = [attempt EXCEPT ![a].status = "running",
                                          ![a].token = w,
                                          ![a].lapsed = FALSE]
            /\ run' = [run EXCEPT ![w] = [Idle EXCEPT !.step = "probing",
                                                      !.attempt = a,
                                                      !.probed = attempt[a].probed]]
       ELSE UNCHANGED <<attempt, run>>
    /\ UNCHANGED <<calls, versions, current, faults>>

\* claim_attempt fails, and its message is acknowledged all the same: the
\* database is gone, or the snapshot of the candidate, taken in under another
\* release, is incompatible.  The row is then written as failed at once, and
\* validate_llm_configuration_attempt_transition refuses failed after queued.
ClaimRolledBack(a) ==
    /\ a \in mail
    /\ attempt[a].status = "queued"
    /\ mail' = mail \ {a}
    /\ UNCHANGED <<attempt, calls, versions, current, run, faults>>

-----------------------------------------------------------------------------
(* Probes                                                                  *)

\* fail_without_call: no key is configured, or the assets of the candidate no
\* longer validate when a call is prepared.
FailWithoutCall(w) ==
    LET a == run[w].attempt IN
    /\ run[w].step = "probing"
    /\ run[w].probed < Len(CallTypes)
    /\ IF Holds(w) THEN End(a, "failed") ELSE UNCHANGED <<attempt, calls>>
    /\ EndRun(w)
    /\ UNCHANGED <<versions, current, mail, faults>>

\* prepare_call, for the first type of call that has not succeeded.
PrepareCall(w) ==
    LET a == run[w].attempt IN
    /\ run[w].step = "probing"
    /\ run[w].probed < Len(CallTypes)
    /\ \/ /\ ~Holds(w)
          /\ EndRun(w)
          /\ UNCHANGED <<attempt, calls>>
       \/ /\ Holds(w)
          /\ Len(calls[a]) >= MaxCalls
          /\ End(a, "failed")
          /\ EndRun(w)
       \/ /\ Holds(w)
          /\ Len(calls[a]) < MaxCalls
          /\ calls' = [calls EXCEPT ![a] =
                          Append(@, [type |-> run[w].probed + 1, events |-> <<>>])]
          /\ run' = [run EXCEPT ![w].step = "calling",
                                  ![w].call = Len(calls[a]) + 1]
          /\ UNCHANGED attempt
    /\ UNCHANGED <<versions, current, mail, faults>>

Over(w) == attempt[run[w].attempt].status \in Terminal

Outcome(w) == calls[run[w].attempt][run[w].call].events

Persist(w, outcome) ==
    calls' = [calls EXCEPT ![run[w].attempt][run[w].call].events =
                 Persisted(@, outcome)]

\* Once its response has been persisted a run goes on, unless the sweep has
\* called the outcome unknown before: then the response is late.
GoOnUnlessLate(w, step, error) ==
    IF IsLate(Persisted(Outcome(w), "succeeded"))
    THEN EndRun(w)
    ELSE run' = [run EXCEPT ![w].step = step, ![w].error = error]

ErrorKind(category) ==
    IF category = "invalid_structured_output" THEN "invalid"
    ELSE IF Retryable(category) THEN "retryable" ELSE "final"

\* The attempt was ended while its run was calling: the response is persisted,
\* and nothing else is written.
AnswerTooLate(w) ==
    /\ run[w].step = "calling"
    /\ Over(w)
    /\ EndRun(w)
    /\ UNCHANGED <<attempt, calls, versions, current, mail, faults>>

\* adapter.probe, the validation of its document and persist_call_response.
Answer(w) ==
    /\ run[w].step = "calling"
    /\ ~Over(w)
    /\ \E reply \in Replies, valid \in BOOLEAN :
          \/ /\ reply \in UncaughtFailures
             /\ EndRun(w)
             /\ UNCHANGED calls
          \/ /\ reply \notin UncaughtFailures \union Readable
             /\ Persist(w, ErrorOutcome(Category(reply)))
             /\ GoOnUnlessLate(w, "refused", ErrorKind(Category(reply)))
          \/ /\ reply \in Readable
             /\ IF valid
                THEN /\ Persist(w, "succeeded")
                     /\ GoOnUnlessLate(w, "answered", NULL)
                ELSE /\ Persist(w, "failed")
                     /\ GoOnUnlessLate(w, "refused", "invalid")
    /\ UNCHANGED <<attempt, versions, current, mail, faults>>

\* Slip: the success is recorded whoever holds the lease.
RecordAnySuccess(w) ==
    LET a == run[w].attempt IN
    /\ run[w].step = "answered"
    /\ attempt[a].status = "running"
    /\ attempt' = [attempt EXCEPT ![a].probed = @ + 1]
    /\ run' = [run EXCEPT ![w].step = "probing", ![w].probed = @ + 1]
    /\ UNCHANGED <<calls, versions, current, mail, faults>>

\* record_type_success.  A request to cancel is carried out by whoever finds it.
RecordTypeSuccess(w) ==
    LET a == run[w].attempt IN
    /\ run[w].step = "answered"
    /\ \/ /\ attempt[a].status = "cancel_requested"
          /\ End(a, "cancelled")
          /\ EndRun(w)
       \/ /\ attempt[a].status # "cancel_requested"
          /\ ~Holds(w)
          /\ EndRun(w)
          /\ UNCHANGED <<attempt, calls>>
       \/ /\ Holds(w)
          /\ attempt' = [attempt EXCEPT ![a].probed = run[w].probed + 1]
          /\ run' = [run EXCEPT ![w].step = "probing", ![w].probed = @ + 1]
          /\ UNCHANGED calls
    /\ UNCHANGED <<versions, current, mail, faults>>

MayRetry(a, error) ==
    /\ error # "final"
    /\ Len(calls[a]) < MaxCalls
    /\ error = "invalid" => attempt[a].invalid + 1 < MaxInvalid

\* The transaction of handle_probe_error that settles the attempt.
HandleProbeError(w) ==
    LET a == run[w].attempt
        error == run[w].error
    IN
    /\ run[w].step = "refused"
    /\ \/ /\ attempt[a].status = "cancel_requested"
          /\ End(a, "cancelled")
       \/ /\ attempt[a].status # "cancel_requested"
          /\ ~Holds(w)
          /\ UNCHANGED <<attempt, calls>>
       \/ /\ Holds(w)
          /\ MayRetry(a, error)
          /\ attempt' = [attempt EXCEPT
                ![a].status = "retry_scheduled",
                ![a].invalid = IF error = "invalid" THEN @ + 1 ELSE @,
                ![a].token = NULL,
                ![a].lapsed = FALSE]
          /\ UNCHANGED calls
       \/ /\ Holds(w)
          /\ ~MayRetry(a, error)
          /\ End(a, "failed")
    /\ EndRun(w)
    /\ UNCHANGED <<versions, current, mail, faults>>

-----------------------------------------------------------------------------
(* Activation                                                              *)

\* Slip: the current version is replaced, whatever it is.
ActivateAnyway(w) ==
    LET a == run[w].attempt IN
    /\ run[w].step = "probing"
    /\ run[w].probed = Len(CallTypes)
    /\ Holds(w)
    /\ versions' = Append(versions, a)
    /\ current' = Len(versions) + 1
    /\ End(a, "succeeded")
    /\ EndRun(w)
    /\ UNCHANGED <<mail, faults>>

\* enable_probed_configuration; activate_llm_configuration_version compares the
\* current version with the expected one, and sets it.  A run that has lost its
\* lease ends, and so does one whose assets no longer validate: that is an
\* exception that no one catches.
EnableProbedConfiguration(w) ==
    LET a == run[w].attempt IN
    /\ run[w].step = "probing"
    /\ run[w].probed = Len(CallTypes)
    /\ \/ /\ attempt[a].status = "cancel_requested"
          /\ End(a, "cancelled")
          /\ EndRun(w)
          /\ UNCHANGED <<versions, current>>
       \/ /\ attempt[a].status # "cancel_requested"
          /\ EndRun(w)
          /\ UNCHANGED <<attempt, calls, versions, current>>
       \/ /\ Holds(w)
          /\ current = attempt[a].expected
          /\ versions' = Append(versions, a)
          /\ current' = Len(versions) + 1
          /\ End(a, "succeeded")
          /\ EndRun(w)
       \/ /\ Holds(w)
          /\ current # attempt[a].expected
          /\ Goto(w, "conflicting")
          /\ UNCHANGED <<attempt, calls, versions, current>>
    /\ UNCHANGED <<mail, faults>>

\* mark_conflicted, in a transaction of its own.
MarkConflicted(w) ==
    /\ run[w].step = "conflicting"
    /\ IF Holds(w) THEN End(run[w].attempt, "conflicted") ELSE UNCHANGED <<attempt, calls>>
    /\ EndRun(w)
    /\ UNCHANGED <<versions, current, mail, faults>>

-----------------------------------------------------------------------------
(* Leases, faults and sweeps                                               *)

\* The attempt is queued again (_clear_lease).
Requeue(a) ==
    attempt' = [attempt EXCEPT ![a].status = "queued", ![a].token = NULL,
                               ![a].lapsed = FALSE]

HeldByRun(a) == \E w \in Workers : run[w].attempt = a /\ attempt[a].token = w

\* heartbeat_loop extends a lease that has run out as well, as long as the
\* sweep has not been there.
Heartbeat(w) ==
    /\ run[w].step # "idle"
    /\ Holds(w)
    /\ attempt[run[w].attempt].lapsed
    /\ attempt' = [attempt EXCEPT ![run[w].attempt].lapsed = FALSE]
    /\ UNCHANGED <<calls, versions, current, mail, run, faults>>

\* The lease runs out: its run is gone, or is asked to stop and therefore no
\* longer extends it.
Lapse(a) ==
    /\ attempt[a].token # NULL
    /\ ~attempt[a].lapsed
    /\ ~HeldByRun(a) \/ attempt[a].status = "cancel_requested"
    /\ attempt' = [attempt EXCEPT ![a].lapsed = TRUE]
    /\ UNCHANGED <<calls, versions, current, mail, run, faults>>

\* The run is too slow to extend its lease.
Stall(a) ==
    /\ faults < MaxFaults
    /\ faults' = faults + 1
    /\ HeldByRun(a)
    /\ ~attempt[a].lapsed
    /\ attempt' = [attempt EXCEPT ![a].lapsed = TRUE]
    /\ UNCHANGED <<calls, versions, current, mail, run>>

\* The worker dies, and its message comes again.
Die(w) ==
    /\ faults < MaxFaults
    /\ faults' = faults + 1
    /\ run[w].step # "idle"
    /\ mail' = mail \union {run[w].attempt}
    /\ EndRun(w)
    /\ UNCHANGED <<attempt, calls, versions, current>>

\* An exception that the run does not catch: the database is gone.  The message
\* is acknowledged all the same.
Raise(w) ==
    /\ faults < MaxFaults
    /\ faults' = faults + 1
    /\ run[w].step # "idle"
    /\ EndRun(w)
    /\ UNCHANGED <<attempt, calls, versions, current, mail>>

\* schedule_due_attempts.
ScheduleDue(a) ==
    /\ attempt[a].status = "retry_scheduled"
    /\ SetStatus(a, "queued")
    /\ mail' = mail \union {a}
    /\ UNCHANGED <<calls, versions, current, run, faults>>

LatestCall(a) == calls[a][Len(calls[a])]

\* _record_missing_outcome_unknown asks for at most one outcome of the latest
\* call, and raises when it has two: the whole sweep is rolled back.
SweepFails(a) ==
    /\ attempt[a].status = "running"
    /\ attempt[a].lapsed
    /\ Len(calls[a]) > 0
    /\ IsLate(LatestCall(a).events)

\* Slip: an attempt that is recovered has no event written for it.
RecoverSilently(a) ==
    /\ attempt[a].lapsed
    /\ \/ attempt[a].status = "cancel_requested" /\ End(a, "cancelled")
       \/ attempt[a].status = "running" /\ ~SweepFails(a) /\ Requeue(a) /\ UNCHANGED calls
    /\ UNCHANGED <<versions, current, mail, run, faults>>

\* recover_expired_attempt_leases.
RecoverExpiredLease(a) ==
    /\ attempt[a].lapsed
    /\ \/ /\ attempt[a].status = "cancel_requested"
          /\ End(a, "cancelled")
          /\ UNCHANGED mail
       \/ /\ attempt[a].status = "running"
          /\ ~SweepFails(a)
          /\ calls' = IF Len(calls[a]) > 0 /\ LatestCall(a).events = <<>>
                      THEN [calls EXCEPT ![a][Len(calls[a])].events = <<"outcome_unknown">>]
                      ELSE calls
          /\ Requeue(a)
          /\ mail' = mail \union {a}
    /\ UNCHANGED <<versions, current, run, faults>>

-----------------------------------------------------------------------------

RunStep(w) ==
    \/ PrepareCall(w)
    \/ Answer(w)
    \/ AnswerTooLate(w)
    \/ RecordTypeSuccess(w)
    \/ HandleProbeError(w)
    \/ EnableProbedConfiguration(w)
    \/ MarkConflicted(w)

AttemptStep(a) ==
    \/ AskAttempt(a)
    \/ CreateAttempt(a)
    \/ CancelAttempt(a)
    \/ ClaimRolledBack(a)
    \/ Lapse(a)
    \/ Stall(a)
    \/ ScheduleDue(a)
    \/ RecoverExpiredLease(a)

ConfigNext ==
    \/ \E a \in Attempts : AttemptStep(a)
    \/ \E w \in Workers :
          \/ \E a \in Attempts : ClaimAttempt(w, a)
          \/ RunStep(w)
          \/ FailWithoutCall(w)
          \/ Heartbeat(w)
          \/ Die(w)
          \/ Raise(w)

ConfigSpec == ConfigInit /\ [][ConfigNext]_configVars

\* Runs that are neither killed nor raise go on, and so does the dispatcher; a
\* broker delivers; Celery beat starts both sweeps for ever; time passes.
ConfigFairSpec ==
    /\ ConfigSpec
    /\ \A w \in Workers : WF_configVars(RunStep(w))
    /\ \A a \in Attempts :
          /\ WF_configVars(\E w \in Workers : ClaimAttempt(w, a) /\ a \notin mail')
          /\ WF_configVars(Lapse(a))
          /\ WF_configVars(ScheduleDue(a))
          /\ WF_configVars(RecoverExpiredLease(a))

-----------------------------------------------------------------------------
(* Invariants                                                              *)

\* An attempt that is over is nobody's.
EndedFree == \A a \in Attempts : attempt[a].status \in Terminal => attempt[a].token = NULL

\* Each type of call that an attempt has counted has a call that was answered
\* in time.
Answered(history, type) ==
    \E i \in DOMAIN history : history[i] = [type |-> type, events |-> <<"succeeded">>]

ProbesAnswered ==
    \A a \in Attempts : attempt[a].status \notin Terminal =>
        \A type \in 1..attempt[a].probed : Answered(calls[a], type)

\* The call a run waits for has no outcome, or that of the sweep; the one it has
\* an answer to has succeeded.
Expected(step) ==
    IF step = "answered" THEN {<<"succeeded">>} ELSE {<<>>, <<"outcome_unknown">>}

\* A run that still holds its attempt knows what the attempt has counted, and
\* each run has a call of the type it is probing.
RunInOrder(w) ==
    LET a == run[w].attempt
        step == run[w].step
    IN
    step # "idle" =>
        /\ a \in Attempts
        /\ Holds(w) => run[w].probed = attempt[a].probed
        /\ step \in {"calling", "answered"} =>
              /\ run[w].probed < Len(CallTypes)
              /\ ~Over(w) =>
                    /\ run[w].call \in DOMAIN calls[a]
                    /\ calls[a][run[w].call].type = run[w].probed + 1
                    /\ Outcome(w) \in Expected(step)

\* No two runs wait for the same call.
CallsApart ==
    \A w, v \in Workers :
        /\ w # v
        /\ run[w].step = "calling"
        /\ run[v].step = "calling"
        /\ run[w].attempt = run[v].attempt
        /\ ~Over(w)
        => run[w].call # run[v].call

-----------------------------------------------------------------------------
(* Properties                                                              *)

\* A version is only made current when each type of call has a call of its own
\* attempt that was answered in time, although runs overlap, die and come again
\* (process_attempt, record_type_success, enable_probed_configuration).
EnabledAfterProbes ==
    [][\A a \in Attempts : versions' = Append(versions, a) =>
          \A type \in DOMAIN CallTypes : \E i \in DOMAIN calls[a] :
             calls[a][i] = [type |-> type, events |-> <<"succeeded">>]]_configVars

\* No change is lost: a version replaces the one its author has seen, and each
\* attempt makes one at most (create_attempt,
\* activate_llm_configuration_version).
NoLostUpdate ==
    /\ current = Len(versions)
    /\ \A n \in DOMAIN versions :
          /\ attempt[versions[n]].expected = n - 1
          /\ attempt[versions[n]].status = "succeeded"

\* The inductive invariant.
ConfigInv ==
    /\ ConfigTypeOK
    /\ EndedFree
    /\ ProbesAnswered
    /\ \A w \in Workers : RunInOrder(w)
    /\ CallsApart
    /\ NoLostUpdate

\* An attempt that waits for a worker, and nothing will bring one.  No sweep
\* looks at queued attempts, and it keeps every other change out.
Forgotten(a) == attempt[a].status = "queued" /\ a \notin mail

\* An attempt is forgotten by a claim that is rolled back and by nothing else: a
\* message that is dropped, redelivered or comes twice, a retry and a recovered
\* lease leave each queued attempt with an event or a message (claim_attempt,
\* schedule_due_attempts, recover_expired_attempt_leases).
ForgottenOnlyByClaim ==
    [][\A a \in Attempts :
          Forgotten(a)' => Forgotten(a) \/ ClaimRolledBack(a)]_configVars

\* An attempt ends, and lets the next one begin, unless it is forgotten or the
\* sweep that should recover it fails (process_attempt, schedule_due_attempts,
\* recover_expired_attempt_leases).
AttemptEnds ==
    \A a \in Attempts :
        attempt[a].status \in Active ~>
            attempt[a].status \in Terminal \/ Forgotten(a) \/ SweepFails(a)

\* An attempt whose lease has run out is recovered: "Recover expired platform
\* attempt leases without creating new attempts".
LapsedAttemptRecovers ==
    \A a \in Attempts :
        attempt[a].lapsed ~> ~attempt[a].lapsed
=============================================================================
