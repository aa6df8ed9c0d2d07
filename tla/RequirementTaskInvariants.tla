---------------------- MODULE RequirementTaskInvariants ----------------------
(* The strengthenings that make the invariants of RequirementTask           *)
(* inductive.  TLC checks their conjunction on an instance,                 *)
(* RequirementTaskProofs proves them for every instance.                    *)
EXTENDS RequirementTask

-----------------------------------------------------------------------------
(* The task rows                                                           *)

LeaseColumns ==
    \A t \in Tasks :
        /\ owner[t] # NULL <=> status[t] \in Leased
        /\ status[t] \notin Leased => lease[t] = 0

OneOpenTask ==
    \A s, t \in Tasks :
        /\ JobOf[s] = JobOf[t]
        /\ status[s] \in Nonterminal
        /\ status[t] \in Nonterminal
        => s = t

RowInv == LeaseColumns /\ OneOpenTask /\ ArchivedJobIsQuiet

-----------------------------------------------------------------------------
(* The requests of a task and their outcomes                               *)

\* A task that may still be retried has an invalid document to spare.
InvalidBudget ==
    \A t \in Tasks :
        /\ invalid[t] <= MaxInvalid
        /\ status[t] \notin Terminal => invalid[t] < MaxInvalid

\* Requests are numbered in order, and none precedes the row.
RequestsNumbered ==
    \A t \in Tasks :
        /\ calls[t] <= MaxCalls
        /\ status[t] = "absent" => calls[t] = 0
        /\ \A n \in CallNumbers : n > calls[t] => outcome[t][n] = "unsent"

\* A run waits for a request of its task: the newest one, if the run still
\* has the lease.
RunOnItsCall ==
    \A w \in Workers :
        run[w].pc \in {"calling", "answered"} =>
            /\ run[w].call \in 1..calls[run[w].task]
            /\ owner[run[w].task] = w => run[w].call = calls[run[w].task]

\* What a run was answered is on record.
AnswersOnRecord ==
    \A w \in Workers :
        run[w].pc = "answered" =>
            /\ outcome[run[w].task][run[w].call] # "open"
            /\ run[w].verdict = "valid" =>
                  outcome[run[w].task][run[w].call] = "succeeded"

\* t waits for a worker, or its worker has not sent a request yet.
BetweenCalls(t) ==
    \/ status[t] \in {"queued", "retry_scheduled"}
    \/ \E w \in Workers :
          owner[t] = w /\ run[w].pc = "claimed" /\ run[w].task = t

NewestCallSettled ==
    \A t \in Tasks :
        BetweenCalls(t) /\ calls[t] > 0 => outcome[t][calls[t]] # "open"

CallInv ==
    /\ InvalidBudget
    /\ RequestsNumbered
    /\ RunOnItsCall
    /\ AnswersOnRecord
    /\ NewestCallSettled
    /\ EarlierCallsSettled
    /\ SucceededByNewestCall

-----------------------------------------------------------------------------
(* Drafts and versions                                                     *)

\* Every draft cites the input of a task, a task's own draft that task's, and
\* the current version of a job one of the job's tasks.
DraftSources ==
    /\ \A d \in DraftIds : draft[d] # "absent" => source[d] \in Tasks
    /\ \A t \in Tasks : draft[t] # "absent" => source[t] = t
    /\ \A j \in Jobs :
          version[j] # NULL =>
              draft[version[j]] # "absent" /\ JobOf[source[version[j]]] = j

\* A task replaces a draft of its own job.
ReplacesOwnJob ==
    \A t \in Tasks :
        /\ status[t] = "absent" => replaces[t] = NULL
        /\ replaces[t] # NULL =>
              draft[replaces[t]] # "absent" /\ JobOf[source[replaces[t]]] = JobOf[t]

EditableDraftUnique ==
    \A j \in Jobs : \A d, e \in EditableDrafts(j) : d = e

DraftInv ==
    /\ DraftSources
    /\ DraftIffSucceeded
    /\ ReplacesOwnJob
    /\ ReplacedDraftIntact
    /\ EditableDraftUnique

-----------------------------------------------------------------------------

IInv == TypeOK /\ RowInv /\ CallInv /\ DraftInv
=============================================================================
