------------------------------ MODULE SearchRun ------------------------------
(***************************************************************************)
(* The natural-language search runs of one tenant.  A run is carried out   *)
(* inside the request that creates it, as a chain of short transactions    *)
(* with two external calls between them: the utterance is interpreted by a *)
(* language model, one search of the plan is reserved, the search base is  *)
(* asked, its persons become local talents, and the run is finished and    *)
(* paid for.  No worker looks after the run: what a request leaves undone  *)
(* stays undone.                                                           *)
(*                                                                         *)
(* The searches of the plan are a periodic metric of the usage ledger; the *)
(* reservation of run r is reservation r (its key is search-run:{run_id}). *)
(***************************************************************************)
EXTENDS UsageLedger, ModelProvider

CONSTANTS
    CreationLimit,  \* search_run_creation_limit_per_hour
    Hour,           \* the window of that limit
    Crashes         \* TRUE: a request may die between any two transactions

ASSUME SearchConstants ==
    /\ ~Concurrent
    /\ CreationLimit \in Nat \ {0}
    /\ Hour \in Nat \ {0}
    /\ Crashes \in BOOLEAN

Runs == Reservations    \* runs, one for each idempotency key

VARIABLES
    run,            \* natural_language_search_runs: run[r] is the row of r
    call,           \* call[r]: outcome events of the interpretation call
    request         \* request[r]: what the request that creates r is doing

searchVars == <<run, call, request>>

\* The families of failure_reason: interpretation_* and search_base_* are one
\* reason each.
FailureReasons == {"interpretation_failed", "search_base_failed",
                   "quota_exceeded"}

NoRun == [status |-> "none", reason |-> NULL, created |-> NULL]

RunRows ==
    {NoRun} \union
    [status : {"in_progress", "succeeded", "failed"},
     reason : FailureReasons \union {NULL},
     created : Nat]

\* The steps of run_search, named for what comes next.  Before its run is
\* created a request is "admitted"; "answered" and "raised" are its ends.
Steps == {"admitted", "prepare", "interpret", "store", "reserve", "search",
          "release", "fail", "sync", "finalize", "confirm"}

Doing(step, reason) == [step |-> step, reason |-> reason]

Requests == [step : Steps \union {"none", "answered", "raised"},
             reason : FailureReasons \union {NULL}]

SearchTypeOK ==
    /\ run \in [Runs -> RunRows]
    /\ call \in [Runs -> OutcomeEvents \union {NULL}]    \* NULL: no record yet
    /\ request \in [Runs -> Requests]

SearchInit ==
    /\ LedgerInit
    /\ run = [r \in Runs |-> NoRun]
    /\ call = [r \in Runs |-> NULL]
    /\ request = [r \in Runs |-> Doing("none", NULL)]

-----------------------------------------------------------------------------

InProgress == {r \in Runs : run[r].status = "in_progress"}

CreatedWithinTheHour ==
    {r \in Runs : run[r].created # NULL /\ run[r].created >= now - Hour}

Goto(r, step) == request' = [request EXCEPT ![r].step = step]

FailWith(r, step, reason) == request' = [request EXCEPT ![r] = Doing(step, reason)]

\* An exception that run_search does not catch: the request ends, and the row
\* of the run is left as it is.
Raise(r) == request' = [request EXCEPT ![r] = Doing("raised", NULL)]

-----------------------------------------------------------------------------
(* Creation                                                                *)

\* run_search finds no run of this key, and _enforce_rate_limits refuses
\* nothing.  (The key of a known run answers with the run as it is.)
Admit(r) ==
    /\ request[r].step = "none"
    /\ Cardinality(CreatedWithinTheHour) < CreationLimit
    /\ InProgress = {}
    /\ Goto(r, "admitted")
    /\ UNCHANGED <<allVars, run, call>>

\* Slip: no partial unique index on the runs in progress.
CreateRunUnchecked(r) ==
    /\ request[r].step = "admitted"
    /\ run' = [run EXCEPT ![r] = [status |-> "in_progress", reason |-> NULL,
                                  created |-> now]]
    /\ Goto(r, "prepare")
    /\ UNCHANGED <<allVars, call>>

\* _create_run: what was admitted may meet a run created since, and then
\* uq_search_runs_tenant_nonterminal raises.
CreateRun(r) ==
    /\ request[r].step = "admitted"
    /\ IF InProgress = {}
       THEN /\ run' = [run EXCEPT ![r] = [status |-> "in_progress",
                                          reason |-> NULL,
                                          created |-> now]]
            /\ Goto(r, "prepare")
       ELSE Raise(r) /\ UNCHANGED run
    /\ UNCHANGED <<allVars, call>>

-----------------------------------------------------------------------------
(* Interpretation                                                          *)

\* _prepare_call commits the record before the request is sent.
PrepareCall(r) ==
    /\ request[r].step = "prepare"
    /\ call' = [call EXCEPT ![r] = <<>>]
    /\ Goto(r, "interpret")
    /\ UNCHANGED <<allVars, run>>

Persist(r, outcome) == call' = [call EXCEPT ![r] = Persisted(@, outcome)]

\* A retry that is to be scheduled for the metadata asks for the parsing task
\* of the call, and a search has none: nothing is persisted.
Persistable(metadata) == metadata # "retry_scheduled"

\* The model has answered, or not: the response is persisted, and the document
\* is validated.
Interpret(r) ==
    /\ request[r].step = "interpret"
    /\ \E reply \in Replies, valid \in BOOLEAN :
       \E metadata \in InitialMetadata(reply) :
          \/ /\ reply \in UncaughtFailures \/ ~Persistable(metadata)
             /\ Raise(r)
             /\ UNCHANGED call
          \/ /\ reply \notin UncaughtFailures \union Readable
             /\ Persistable(metadata)
             /\ Persist(r, ErrorOutcome(Category(reply)))
             /\ FailWith(r, "fail", "interpretation_failed")
          \/ /\ reply \in Readable
             /\ Persistable(metadata)
             /\ Persist(r, "succeeded")
             /\ IF valid THEN Goto(r, "store")
                ELSE FailWith(r, "fail", "interpretation_failed")
    /\ UNCHANGED <<allVars, run>>

\* _store_interpretation, a transaction of its own.
StoreInterpretation(r) ==
    /\ request[r].step = "store"
    /\ Goto(r, "reserve")
    /\ UNCHANGED <<allVars, run, call>>

-----------------------------------------------------------------------------
(* The search itself                                                       *)

\* _reserve: the quota's error is caught, that of a lapsed subscription is not.
ReserveSearch(r) ==
    /\ request[r].step = "reserve"
    /\ \/ Reserve(r) /\ Goto(r, "search")
       \/ /\ \E i \in CurrentRows : now <= subs[i].end /\ Remaining(i) < 1
          /\ FailWith(r, "fail", "quota_exceeded")
          /\ UNCHANGED allVars
       \/ /\ \A i \in CurrentRows : now > subs[i].end
          /\ Raise(r)
          /\ UNCHANGED allVars
    /\ UNCHANGED <<run, call>>

\* search_talent, with its retries.
SearchTalent(r) ==
    /\ request[r].step = "search"
    /\ \/ Goto(r, "sync")
       \/ FailWith(r, "release", "search_base_failed")
       \/ Raise(r)      \* an exception of the HTTP library that is not caught
    /\ UNCHANGED <<allVars, run, call>>

\* Slip: the search that failed keeps its reservation.
ReleaseNothing(r) ==
    /\ request[r].step = "release"
    /\ Goto(r, "fail")
    /\ UNCHANGED <<allVars, run, call>>

\* _release_reservation; the sweep may have been there before.
ReleaseSearch(r) ==
    /\ request[r].step = "release"
    /\ \/ Release(r) /\ Goto(r, "fail")
       \/ /\ CurrentRows # {}
          /\ Has(r, "release")
          /\ Goto(r, "fail")
          /\ UNCHANGED allVars
       \/ /\ CurrentRows = {}
          /\ Raise(r)
          /\ UNCHANGED allVars
    /\ UNCHANGED <<run, call>>

\* _mark_failed.
MarkFailed(r) ==
    /\ request[r].step = "fail"
    /\ run' = [run EXCEPT ![r].status = "failed",
                          ![r].reason = request[r].reason]
    /\ request' = [request EXCEPT ![r] = Doing("answered", NULL)]
    /\ UNCHANGED <<allVars, call>>

\* _sync_local_talents, one transaction for each hit: TalentIdentity.
SyncTalents(r) ==
    /\ request[r].step = "sync"
    /\ Goto(r, "finalize") \/ Raise(r)
    /\ UNCHANGED <<allVars, run, call>>

\* The first transaction of _finalize_success: the hits and the run.  It fails
\* when a talent it cites was merged away meanwhile.
Finalize(r) ==
    /\ request[r].step = "finalize"
    /\ \/ /\ run' = [run EXCEPT ![r].status = "succeeded"]
          /\ Goto(r, "confirm")
       \/ Raise(r) /\ UNCHANGED run
    /\ UNCHANGED <<allVars, call>>

\* Slip: whatever becomes of the confirmation, the run is the answer.
ConfirmIfPossible(r) ==
    /\ request[r].step = "confirm"
    /\ Confirm(r) \/ UNCHANGED allVars
    /\ Goto(r, "answered")
    /\ UNCHANGED <<run, call>>

\* The second transaction of _finalize_success.
ConfirmSearch(r) ==
    /\ request[r].step = "confirm"
    /\ \/ Confirm(r) /\ Goto(r, "answered")
       \/ /\ CurrentRows = {} \/ Has(r, "release")
          /\ Raise(r)
          /\ UNCHANGED allVars
    /\ UNCHANGED <<run, call>>

\* The process dies, or the transaction at hand fails.
Die(r) ==
    /\ Crashes
    /\ request[r].step \in Steps
    /\ Raise(r)
    /\ UNCHANGED <<allVars, run, call>>

-----------------------------------------------------------------------------

Proceed(r) ==
    \/ CreateRun(r)
    \/ PrepareCall(r)
    \/ Interpret(r)
    \/ StoreInterpretation(r)
    \/ ReserveSearch(r)
    \/ SearchTalent(r)
    \/ ReleaseSearch(r)
    \/ MarkFailed(r)
    \/ SyncTalents(r)
    \/ Finalize(r)
    \/ ConfirmSearch(r)

RequestStep(r) == Admit(r) \/ Proceed(r) \/ Die(r)

\* What goes on around the requests: orders and their reviews, the clock, and
\* the sweeps of subscriptions and reservations.
Around ==
    \/ SubscriptionNext /\ UNCHANGED ledgerVars
    \/ FindExpired
    \/ ReleaseExpired
    \/ AbandonSweep

SearchNext ==
    \/ \E r \in Runs : RequestStep(r)
    \/ Around /\ UNCHANGED searchVars

searchAllVars == <<allVars, searchVars>>

SearchSpec == SearchInit /\ [][SearchNext]_searchAllVars

\* A request that is not killed goes on, and Celery beat starts both sweeps for
\* ever.
SearchFairSpec ==
    /\ SearchSpec
    /\ \A r \in Runs : WF_searchAllVars(Proceed(r) /\ UNCHANGED sweep)
    /\ WF_searchAllVars(ExpireDueSubscriptions /\ UNCHANGED <<ledgerVars, searchVars>>)
    /\ WF_searchAllVars(FindExpired /\ UNCHANGED searchVars)
    /\ SF_searchAllVars(ReleaseExpired /\ UNCHANGED searchVars)

-----------------------------------------------------------------------------
(* Invariants                                                              *)

\* A request that has not come past its call has reserved nothing.
BeforeReservation == {"none", "admitted", "prepare", "interpret", "store", "reserve"}

\* Each step finds the run, the call and the reservation as the steps before it
\* have left them.
StepInOrder(r) ==
    LET step == request[r].step IN
    /\ step \in {"none", "admitted"} => run[r] = NoRun
    /\ step \in Steps \ {"admitted", "confirm"} => run[r].status = "in_progress"
    /\ step = "confirm" => run[r].status = "succeeded"
    /\ step = "interpret" => call[r] = <<>>
    /\ step = "answered" => run[r].status \in {"succeeded", "failed"}
    /\ step \in BeforeReservation => ~Has(r, "reserve")
    /\ step \in {"search", "release", "sync", "finalize", "confirm"} => Has(r, "reserve")
    /\ step \in Steps \union {"none"} => ~Has(r, "confirm")
    /\ step = "fail" /\ Has(r, "reserve") => Has(r, "release")
    /\ run[r].status = "none" => ~Has(r, "reserve")

StepsInOrder == \A r \in Runs : StepInOrder(r)

\* At most one search of the tenant is in progress
\* (uq_search_runs_tenant_nonterminal), whatever _enforce_rate_limits has read.
OneSearchAtATime == Cardinality(InProgress) <= 1

-----------------------------------------------------------------------------
(* Properties                                                              *)

\* Only a search that has kept its results is paid for (run_search,
\* _finalize_success), and one that has failed has given its unit back before
\* it says so: nothing is left for the sweep.
ChargedOnlyForResults ==
    \A r \in Runs :
        /\ Has(r, "confirm") => run[r].status = "succeeded"
        /\ run[r].status = "failed" /\ Has(r, "reserve") => Has(r, "release")

\* A search whose results were shown to the request that asked for them is paid
\* for: its use is confirmed, not merely reserved (_finalize_success).
AnsweredRunsArePaid ==
    \A r \in Runs :
        request[r].step = "answered" /\ run[r].status = "succeeded" =>
            Has(r, "confirm")

\* The inductive invariant of the runs.
SearchInv ==
    /\ SearchTypeOK
    /\ StepsInOrder
    /\ OneSearchAtATime
    /\ ChargedOnlyForResults
    /\ AnsweredRunsArePaid

\* A search that was begun ends, one way or the other ("failures enter a
\* recoverable terminal state": run_search, _mark_failed).
RunsSettle ==
    \A r \in Runs : run[r].status = "in_progress" ~> run[r].status # "in_progress"
=============================================================================
