--------------------------- MODULE SearchRunProofs ---------------------------
(***************************************************************************)
(* Proofs about SearchRun, for any number of runs, any plans and limits,   *)
(* with requests that may die between any two transactions: only searches  *)
(* with results are charged, and those that were answered are.  The ledger *)
(* keeps its own invariant, because a request only calls its operations.   *)
(***************************************************************************)
EXTENDS SearchRun, BillingProofs

\* The state the steps of a request start from.
LEMMA SearchTypes ==
    ASSUME LedgerInv, SearchInv, NEW r \in Runs
    PROVE  /\ run \in [Runs -> RunRows] /\ run[r] \in RunRows
           /\ call \in [Runs -> OutcomeEvents \union {NULL}]
           /\ request \in [Runs -> Requests] /\ request[r] \in Requests
           /\ now \in Nat
BY DEF LedgerInv, SubscriptionInv, SubscriptionTypeOK, SearchInv, SearchTypeOK

LEMMA SearchInitInv ==
    ASSUME SubscriptionConstants, LedgerConstants, SearchConstants, SearchInit
    PROVE  LedgerInv /\ SearchInv
<1>1. LedgerInv
  BY LedgerInitInv DEF SearchInit
<1>2. SearchTypeOK
  BY DEF SearchInit, SearchTypeOK, RunRows, NoRun, Requests, Doing, Steps
<1>3. \A r \in Runs, e \in EntryTypes : ~Has(r, e)
  BY DEF SearchInit, LedgerInit, Has, Runs
<1>4. \A r \in Runs : ~Has(r, "reserve") /\ ~Has(r, "confirm")
  BY <1>3 DEF EntryTypes
<1>5. \A r \in Runs : run[r] = NoRun /\ request[r].step = "none"
  BY DEF SearchInit, Doing
<1>6. StepsInOrder /\ ChargedOnlyForResults /\ AnsweredRunsArePaid
  BY <1>4, <1>5 DEF StepsInOrder, StepInOrder, ChargedOnlyForResults, AnsweredRunsArePaid,
                    NoRun, Steps
<1>7. OneSearchAtATime
  <2>1. InProgress = {}
    BY <1>5 DEF InProgress, NoRun
  <2> QED
    BY <2>1, FS_EmptySet DEF OneSearchAtATime
<1> QED
  BY <1>1, <1>2, <1>6, <1>7 DEF SearchInv

\* No run begins to be in progress.
LEMMA FewerInProgress ==
    ASSUME LedgerConstants, OneSearchAtATime, InProgress' \subseteq InProgress
    PROVE  OneSearchAtATime'
<1>1. IsFiniteSet(InProgress)
  BY FS_Subset DEF InProgress, Runs, LedgerConstants
<1>2. /\ IsFiniteSet(InProgress')
      /\ Cardinality(InProgress') <= Cardinality(InProgress)
  BY <1>1, FS_Subset
<1>3. Cardinality(InProgress) \in Nat /\ Cardinality(InProgress') \in Nat
  BY <1>1, <1>2, FS_CardinalityType
<1> QED
  BY <1>2, <1>3 DEF OneSearchAtATime

\* What goes on around the requests reserves and confirms nothing, and takes no
\* release back.
LEMMA AroundInv ==
    ASSUME SubscriptionConstants, LedgerConstants, SearchConstants,
           LedgerInv, SearchInv, Around, UNCHANGED searchVars
    PROVE  LedgerInv' /\ SearchInv'
<1>1. LedgerInv'
  BY LedgerNextInv DEF Around, LedgerNext
<1>2. \A r \in Runs : /\ Has(r, "reserve")' = Has(r, "reserve")
                      /\ Has(r, "confirm")' = Has(r, "confirm")
                      /\ Has(r, "release") => Has(r, "release")'
  <2>1. CASE entry' = entry
    BY <2>1 DEF Has
  <2>2. CASE ReleaseExpired
    <3>1. entry \in [Reservations -> [EntryTypes -> Nat \union {NULL}]]
      BY DEF LedgerInv, LedgerTypeOK
    <3>2. \A r \in Reservations :
             entry'[r] = IF r \in sweep /\ ~Has(r, "release")
                         THEN [entry[r] EXCEPT !["release"] = now] ELSE entry[r]
      BY <2>2 DEF ReleaseExpired
    <3>3. \A r \in Reservations :
             /\ entry'[r]["reserve"] = entry[r]["reserve"]
             /\ entry'[r]["confirm"] = entry[r]["confirm"]
             /\ Has(r, "release") => entry'[r]["release"] = entry[r]["release"]
      BY <3>1, <3>2 DEF EntryTypes
    <3> QED
      BY <3>3 DEF Has, Runs
  <2> QED
    BY <2>1, <2>2 DEF Around, FindExpired, AbandonSweep, ledgerVars
<1>3. SearchTypeOK' /\ InProgress' = InProgress
  BY DEF SearchInv, SearchTypeOK, searchVars, InProgress
<1>4. OneSearchAtATime'
  BY <1>3, FewerInProgress DEF SearchInv
<1>5. StepsInOrder'
  BY <1>2, <1>3 DEF SearchInv, StepsInOrder, StepInOrder, searchVars, BeforeReservation, Steps
<1>6. ChargedOnlyForResults' /\ AnsweredRunsArePaid'
  BY <1>2 DEF SearchInv, ChargedOnlyForResults, AnsweredRunsArePaid, searchVars
<1> QED
  BY <1>1, <1>3, <1>4, <1>5, <1>6 DEF SearchInv

-----------------------------------------------------------------------------
(* The steps of a request                                                  *)

\* A step of one request leaves the other runs as they are.
LEMMA OneRunSteps ==
    ASSUME SubscriptionConstants, LedgerConstants, SearchConstants,
           LedgerInv, SearchInv, NEW r \in Runs, LedgerInv',
           NEW row \in RunRows, run' = [run EXCEPT ![r] = row],
           NEW c \in OutcomeEvents \union {NULL}, call' = [call EXCEPT ![r] = c],
           NEW todo \in Requests, request' = [request EXCEPT ![r] = todo],
           \A p \in Runs \ {r}, e \in EntryTypes : Has(p, e)' = Has(p, e),
           OneSearchAtATime', StepInOrder(r)',
           Has(r, "confirm")' => row.status = "succeeded",
           row.status = "failed" /\ Has(r, "reserve")' => Has(r, "release")',
           todo.step = "answered" /\ row.status = "succeeded" => Has(r, "confirm")'
    PROVE  LedgerInv' /\ SearchInv'
<1>1. /\ run \in [Runs -> RunRows]
      /\ call \in [Runs -> OutcomeEvents \union {NULL}]
      /\ request \in [Runs -> Requests]
  BY SearchTypes
<1>2. /\ run'[r] = row /\ call'[r] = c /\ request'[r] = todo
      /\ \A p \in Runs \ {r} :
            run'[p] = run[p] /\ call'[p] = call[p] /\ request'[p] = request[p]
  BY <1>1
<1>3. SearchTypeOK'
  BY <1>1 DEF SearchTypeOK
<1>4. \A p \in Runs \ {r} : /\ Has(p, "reserve")' = Has(p, "reserve")
                            /\ Has(p, "confirm")' = Has(p, "confirm")
                            /\ Has(p, "release")' = Has(p, "release")
  BY DEF EntryTypes
<1>5. StepsInOrder'
  <2>1. \A p \in Runs \ {r} : StepInOrder(p)'
    BY <1>2, <1>4 DEF SearchInv, StepsInOrder, StepInOrder
  <2> QED
    BY <2>1 DEF StepsInOrder
<1>6. ChargedOnlyForResults'
  BY <1>2, <1>4 DEF SearchInv, ChargedOnlyForResults
<1>7. AnsweredRunsArePaid'
  BY <1>2, <1>4 DEF SearchInv, AnsweredRunsArePaid
<1> QED
  BY <1>3, <1>5, <1>6, <1>7 DEF SearchInv

\* StepInOrder of a request that goes to a step, with call events c, while its
\* run and the ledger stay as they are.
Fits(r, step, c) ==
    /\ step \in {"none", "admitted"} => run[r] = NoRun
    /\ step \in Steps \ {"admitted", "confirm"} => run[r].status = "in_progress"
    /\ step = "confirm" => run[r].status = "succeeded"
    /\ step = "interpret" => c = <<>>
    /\ step \in BeforeReservation => ~Has(r, "reserve")
    /\ step \in {"search", "release", "sync", "finalize", "confirm"} => Has(r, "reserve")
    /\ step \in Steps \union {"none"} => ~Has(r, "confirm")
    /\ step = "fail" /\ Has(r, "reserve") => Has(r, "release")

\* A step that changes neither the run nor the ledger, and answers nothing.
LEMMA MoveOn ==
    ASSUME SubscriptionConstants, LedgerConstants, SearchConstants,
           LedgerInv, SearchInv, NEW r \in Runs,
           UNCHANGED <<allVars, run>>,
           NEW c \in OutcomeEvents \union {NULL}, call' = [call EXCEPT ![r] = c],
           NEW todo \in Requests, request' = [request EXCEPT ![r] = todo],
           todo.step # "answered", Fits(r, todo.step, c)
    PROVE  LedgerInv' /\ SearchInv'
<1>1. LedgerInv'
  BY LedgerNextInv
<1>2. run[r] \in RunRows /\ run' = [run EXCEPT ![r] = run[r]]
  BY SearchTypes
<1>3. \A p \in Runs, e \in EntryTypes : Has(p, e)' = Has(p, e)
  BY DEF Has, allVars, ledgerVars
<1>4. OneSearchAtATime'
  BY FewerInProgress DEF SearchInv, InProgress
<1>5. /\ Has(r, "confirm")' => run[r].status = "succeeded"
      /\ run[r].status = "failed" /\ Has(r, "reserve")' => Has(r, "release")'
  BY <1>3 DEF SearchInv, ChargedOnlyForResults, EntryTypes
<1>6. StepInOrder(r)'
  <2>1. /\ request'[r] = todo /\ call'[r] = c /\ run'[r] = run[r]
        /\ Has(r, "reserve")' = Has(r, "reserve")
        /\ Has(r, "confirm")' = Has(r, "confirm")
        /\ Has(r, "release")' = Has(r, "release")
    BY <1>3, SearchTypes DEF EntryTypes
  <2>2. run[r].status = "none" => ~Has(r, "reserve")
    BY DEF SearchInv, StepsInOrder, StepInOrder
  <2> QED
    BY <2>1, <2>2 DEF StepInOrder, Fits
<1> QED
  BY <1>1, <1>2, <1>3, <1>4, <1>5, <1>6, OneRunSteps

\* The two ways on.
LEMMA GotoInv ==
    ASSUME SubscriptionConstants, LedgerConstants, SearchConstants,
           LedgerInv, SearchInv, NEW r \in Runs,
           UNCHANGED <<allVars, run>>,
           NEW c \in OutcomeEvents \union {NULL}, call' = [call EXCEPT ![r] = c],
           NEW step \in Steps, Goto(r, step), Fits(r, step, c)
    PROVE  LedgerInv' /\ SearchInv'
<1> DEFINE todo == [request[r] EXCEPT !.step = step]
<1>1. request[r] \in Requests
  BY SearchTypes
<1>2. todo \in Requests /\ todo.step = step
  BY <1>1 DEF Requests
<1>3. request' = [request EXCEPT ![r] = todo]
  BY DEF Goto
<1>4. step # "answered"
  BY DEF Steps
<1> HIDE DEF todo
<1> QED
  BY <1>2, <1>3, <1>4, MoveOn

LEMMA FailWithInv ==
    ASSUME SubscriptionConstants, LedgerConstants, SearchConstants,
           LedgerInv, SearchInv, NEW r \in Runs,
           UNCHANGED <<allVars, run>>,
           NEW c \in OutcomeEvents \union {NULL}, call' = [call EXCEPT ![r] = c],
           NEW step \in Steps \union {"raised"}, NEW reason \in FailureReasons \union {NULL},
           FailWith(r, step, reason), Fits(r, step, c)
    PROVE  LedgerInv' /\ SearchInv'
<1>1. Doing(step, reason) \in Requests /\ Doing(step, reason).step = step
  BY DEF Requests, Doing
<1>2. step # "answered"
  BY DEF Steps
<1> QED
  BY <1>1, <1>2, MoveOn DEF FailWith

\* A request that raises leaves everything as it is.
LEMMA RaiseInv ==
    ASSUME SubscriptionConstants, LedgerConstants, SearchConstants,
           LedgerInv, SearchInv, NEW r \in Runs,
           UNCHANGED <<allVars, run, call>>, Raise(r)
    PROVE  LedgerInv' /\ SearchInv'
<1>1. call[r] \in OutcomeEvents \union {NULL} /\ call' = [call EXCEPT ![r] = call[r]]
  BY SearchTypes
<1>2. Fits(r, "raised", call[r])
  BY DEF Fits, Steps, BeforeReservation
<1>3. FailWith(r, "raised", NULL)
  BY DEF Raise, FailWith
<1> QED
  BY <1>1, <1>2, <1>3, FailWithInv

\* The steps that only look around, call somebody else or note that it failed.
LEMMA QuietInv ==
    ASSUME SubscriptionConstants, LedgerConstants, SearchConstants,
           LedgerInv, SearchInv, NEW r \in Runs,
           \/ Admit(r) \/ StoreInterpretation(r) \/ SearchTalent(r)
           \/ SyncTalents(r) \/ Die(r)
    PROVE  LedgerInv' /\ SearchInv'
<1>1. call[r] \in OutcomeEvents \union {NULL} /\ call = [call EXCEPT ![r] = call[r]]
  BY SearchTypes
<1>2. StepInOrder(r)
  BY DEF SearchInv, StepsInOrder
<1>3. UNCHANGED <<allVars, run, call>>
  BY DEF Admit, StoreInterpretation, SearchTalent, SyncTalents, Die
<1>4. CASE Raise(r)
  BY <1>3, <1>4, RaiseInv
<1>5. CASE Admit(r)
  <2>1. Goto(r, "admitted") /\ Fits(r, "admitted", call[r])
    BY <1>2, <1>5 DEF Admit, StepInOrder, Fits, Steps, BeforeReservation
  <2> QED
    BY <1>1, <1>3, <2>1, GotoInv DEF Steps
<1>6. CASE StoreInterpretation(r)
  <2>1. Goto(r, "reserve") /\ Fits(r, "reserve", call[r])
    BY <1>2, <1>6 DEF StoreInterpretation, StepInOrder, Fits, Steps, BeforeReservation
  <2> QED
    BY <1>1, <1>3, <2>1, GotoInv DEF Steps
<1>7. CASE SearchTalent(r) /\ Goto(r, "sync")
  <2>1. Fits(r, "sync", call[r])
    BY <1>2, <1>7 DEF SearchTalent, StepInOrder, Fits, Steps, BeforeReservation
  <2> QED
    BY <1>1, <1>3, <1>7, <2>1, GotoInv DEF Steps
<1>8. CASE SearchTalent(r) /\ FailWith(r, "release", "search_base_failed")
  <2>1. Fits(r, "release", call[r])
    BY <1>2, <1>8 DEF SearchTalent, StepInOrder, Fits, Steps, BeforeReservation
  <2> QED
    BY <1>1, <1>3, <1>8, <2>1, FailWithInv DEF Steps, FailureReasons
<1>9. CASE SyncTalents(r) /\ Goto(r, "finalize")
  <2>1. Fits(r, "finalize", call[r])
    BY <1>2, <1>9 DEF SyncTalents, StepInOrder, Fits, Steps, BeforeReservation
  <2> QED
    BY <1>1, <1>3, <1>9, <2>1, GotoInv DEF Steps
<1> QED
  BY <1>4, <1>5, <1>6, <1>7, <1>8, <1>9 DEF SearchTalent, SyncTalents, Die

-----------------------------------------------------------------------------
(* The interpretation                                                      *)

LEMMA PrepareInv ==
    ASSUME SubscriptionConstants, LedgerConstants, SearchConstants,
           LedgerInv, SearchInv, NEW r \in Runs, PrepareCall(r)
    PROVE  LedgerInv' /\ SearchInv'
<1>1. StepInOrder(r)
  BY DEF SearchInv, StepsInOrder
<1>2. /\ request[r].step = "prepare"
      /\ call' = [call EXCEPT ![r] = <<>>] /\ Goto(r, "interpret")
      /\ UNCHANGED <<allVars, run>>
  BY DEF PrepareCall
<1>3. <<>> \in OutcomeEvents
  BY DEF OutcomeEvents
<1>4. Fits(r, "interpret", <<>>)
  BY <1>1, <1>2 DEF StepInOrder, Fits, Steps, BeforeReservation
<1> QED
  BY <1>2, <1>3, <1>4, GotoInv DEF Steps

\* The first outcome of a call is the one that is recorded.
LEMMA FirstOutcome ==
    ASSUME NEW outcome \in {"succeeded", "failed", "outcome_unknown"}
    PROVE  Persisted(<<>>, outcome) \in OutcomeEvents
BY DEF Persisted, OutcomeEvents, CallOutcomes

LEMMA InterpretInv ==
    ASSUME SubscriptionConstants, LedgerConstants, SearchConstants,
           LedgerInv, SearchInv, NEW r \in Runs, Interpret(r)
    PROVE  LedgerInv' /\ SearchInv'
<1>1. StepInOrder(r) /\ call \in [Runs -> OutcomeEvents \union {NULL}]
  BY SearchTypes DEF SearchInv, StepsInOrder
<1>2. request[r].step = "interpret" /\ UNCHANGED <<allVars, run>>
  BY DEF Interpret
<1>3. call[r] = <<>>
  BY <1>1, <1>2 DEF StepInOrder
<1>4. PICK outcome \in {"succeeded", "failed", "outcome_unknown"} :
        \/ Raise(r) /\ UNCHANGED call
        \/ /\ Persist(r, outcome)
           /\ Goto(r, "store") \/ FailWith(r, "fail", "interpretation_failed")
  <2>1. \A category : ErrorOutcome(category) \in {"succeeded", "failed", "outcome_unknown"}
    BY DEF ErrorOutcome
  <2> QED
    BY <2>1 DEF Interpret
<1>5. CASE Raise(r) /\ UNCHANGED call
  BY <1>2, <1>5, RaiseInv
<1>6. CASE Persist(r, outcome)
  <2> DEFINE c == Persisted(<<>>, outcome)
  <2>1. c \in OutcomeEvents \union {NULL}
    BY FirstOutcome
  <2>2. call' = [call EXCEPT ![r] = c]
    BY <1>1, <1>3, <1>6 DEF Persist
  <2>3. Fits(r, "store", c) /\ Fits(r, "fail", c)
    BY <1>1, <1>2 DEF StepInOrder, Fits, Steps, BeforeReservation
  <2> HIDE DEF c
  <2> QED
    BY <1>2, <1>4, <1>5, <2>1, <2>2, <2>3, GotoInv, FailWithInv DEF Steps, FailureReasons
<1> QED
  BY <1>4, <1>5, <1>6

-----------------------------------------------------------------------------
(* The steps that change the ledger                                        *)

\* An entry of the run's own reservation, and the step after it.
LEMMA EntryInv ==
    ASSUME SubscriptionConstants, LedgerConstants, SearchConstants,
           LedgerInv, SearchInv, NEW r \in Runs, LedgerInv',
           NEW e \in {"reserve", "confirm", "release"}, AddEntry(r, e),
           NEW step \in Steps \union {"answered"}, Goto(r, step),
           UNCHANGED <<run, call>>,
           \/ request[r].step = "reserve" /\ e = "reserve" /\ step = "search"
           \/ request[r].step = "release" /\ e = "release" /\ step = "fail"
           \/ request[r].step = "confirm" /\ e = "confirm" /\ step = "answered"
    PROVE  LedgerInv' /\ SearchInv'
<1> DEFINE todo == [request[r] EXCEPT !.step = step]
<1>1. /\ run[r] \in RunRows /\ run' = [run EXCEPT ![r] = run[r]]
      /\ call[r] \in OutcomeEvents \union {NULL} /\ call' = [call EXCEPT ![r] = call[r]]
      /\ request \in [Runs -> Requests] /\ request[r] \in Requests
  BY SearchTypes
<1>2. todo \in Requests /\ todo.step = step
  BY <1>1 DEF Requests
<1>3. request' = [request EXCEPT ![r] = todo]
  BY DEF Goto
<1> HIDE DEF todo
<1>4. request'[r].step = step
  BY <1>1, <1>2, <1>3
<1>5. \A p \in Reservations, f \in EntryTypes :
        Has(p, f)' <=> Has(p, f) \/ (p = r /\ f = e)
  <2>1. LedgerTypeOK /\ now \in Nat /\ NULL \notin Nat /\ e \in EntryTypes /\ r \in Reservations
    BY SearchTypes DEF LedgerInv, LedgerConstants, EntryTypes, Runs
  <2> QED
    BY <2>1, OneEntry
<1>6. \A p \in Runs \ {r}, f \in EntryTypes : Has(p, f)' = Has(p, f)
  BY <1>5 DEF Runs, Has
<1>7. /\ Has(r, "reserve")' <=> Has(r, "reserve") \/ e = "reserve"
      /\ Has(r, "confirm")' <=> Has(r, "confirm") \/ e = "confirm"
      /\ Has(r, "release")' <=> Has(r, "release") \/ e = "release"
  BY <1>5 DEF EntryTypes, Runs
<1>8. OneSearchAtATime'
  BY FewerInProgress DEF SearchInv, InProgress
<1>9. StepInOrder(r)
  BY DEF SearchInv, StepsInOrder
<1>10. StepInOrder(r)'
  BY <1>4, <1>7, <1>9 DEF StepInOrder, Steps, BeforeReservation
<1>11. /\ Has(r, "confirm")' => run[r].status = "succeeded"
       /\ run[r].status = "failed" /\ Has(r, "reserve")' => Has(r, "release")'
       /\ todo.step = "answered" /\ run[r].status = "succeeded" => Has(r, "confirm")'
  BY <1>2, <1>7, <1>9 DEF StepInOrder, Steps, BeforeReservation
<1> QED
  BY <1>1, <1>2, <1>3, <1>6, <1>8, <1>10, <1>11, OneRunSteps

LEMMA LedgerStep ==
    ASSUME SubscriptionConstants, LedgerConstants, LedgerInv, NEW r \in Runs,
           Reserve(r) \/ Confirm(r) \/ Release(r)
    PROVE  LedgerInv'
BY LedgerNextInv DEF LedgerNext, Runs

LEMMA ReserveSearchInv ==
    ASSUME SubscriptionConstants, LedgerConstants, SearchConstants,
           LedgerInv, SearchInv, NEW r \in Runs, ReserveSearch(r)
    PROVE  LedgerInv' /\ SearchInv'
<1>1. request[r].step = "reserve" /\ UNCHANGED <<run, call>>
  BY DEF ReserveSearch
<1>2. call[r] \in OutcomeEvents \union {NULL} /\ call' = [call EXCEPT ![r] = call[r]]
  BY <1>1, SearchTypes
<1>3. CASE Reserve(r) /\ Goto(r, "search")
  <2>1. LedgerInv' /\ AddEntry(r, "reserve")
    BY <1>3, LedgerStep DEF Reserve
  <2> QED
    BY <1>1, <1>3, <2>1, EntryInv DEF Steps
<1>4. CASE FailWith(r, "fail", "quota_exceeded") /\ UNCHANGED allVars
  <2>1. Fits(r, "fail", call[r])
    BY <1>1 DEF SearchInv, StepsInOrder, StepInOrder, Fits, Steps, BeforeReservation
  <2> QED
    BY <1>1, <1>2, <1>4, <2>1, FailWithInv DEF Steps, FailureReasons
<1>5. CASE Raise(r) /\ UNCHANGED allVars
  BY <1>1, <1>5, RaiseInv
<1> QED
  BY <1>3, <1>4, <1>5 DEF ReserveSearch

LEMMA ReleaseSearchInv ==
    ASSUME SubscriptionConstants, LedgerConstants, SearchConstants,
           LedgerInv, SearchInv, NEW r \in Runs, ReleaseSearch(r)
    PROVE  LedgerInv' /\ SearchInv'
<1>1. request[r].step = "release" /\ UNCHANGED <<run, call>>
  BY DEF ReleaseSearch
<1>2. call[r] \in OutcomeEvents \union {NULL} /\ call' = [call EXCEPT ![r] = call[r]]
  BY <1>1, SearchTypes
<1>3. CASE Release(r) /\ Goto(r, "fail")
  <2>1. LedgerInv' /\ AddEntry(r, "release")
    BY <1>3, LedgerStep DEF Release, Settle
  <2> QED
    BY <1>1, <1>3, <2>1, EntryInv DEF Steps
<1>4. CASE Has(r, "release") /\ Goto(r, "fail") /\ UNCHANGED allVars
  <2>1. Fits(r, "fail", call[r])
    BY <1>1, <1>4 DEF SearchInv, StepsInOrder, StepInOrder, Fits, Steps, BeforeReservation
  <2> QED
    BY <1>1, <1>2, <1>4, <2>1, GotoInv DEF Steps
<1>5. CASE Raise(r) /\ UNCHANGED allVars
  BY <1>1, <1>5, RaiseInv
<1> QED
  BY <1>3, <1>4, <1>5 DEF ReleaseSearch

LEMMA ConfirmSearchInv ==
    ASSUME SubscriptionConstants, LedgerConstants, SearchConstants,
           LedgerInv, SearchInv, NEW r \in Runs, ConfirmSearch(r)
    PROVE  LedgerInv' /\ SearchInv'
<1>1. request[r].step = "confirm" /\ UNCHANGED <<run, call>>
  BY DEF ConfirmSearch
<1>2. CASE Confirm(r) /\ Goto(r, "answered")
  <2>1. LedgerInv' /\ AddEntry(r, "confirm")
    BY <1>2, LedgerStep DEF Confirm, Settle
  <2> QED
    BY <1>1, <1>2, <2>1, EntryInv
<1>3. CASE Raise(r) /\ UNCHANGED allVars
  BY <1>1, <1>3, RaiseInv
<1> QED
  BY <1>2, <1>3 DEF ConfirmSearch

-----------------------------------------------------------------------------
(* The steps that change the run                                           *)

\* A new row of the run, while the ledger stays as it is.
LEMMA RunInv ==
    ASSUME SubscriptionConstants, LedgerConstants, SearchConstants,
           LedgerInv, SearchInv, NEW r \in Runs,
           UNCHANGED <<allVars, call>>,
           NEW row \in RunRows, run' = [run EXCEPT ![r] = row],
           NEW todo \in Requests, request' = [request EXCEPT ![r] = todo],
           \/ /\ request[r].step = "admitted" /\ InProgress = {}
              /\ row.status = "in_progress" /\ todo.step = "prepare"
           \/ /\ request[r].step = "fail"
              /\ row.status = "failed" /\ todo.step = "answered"
           \/ /\ request[r].step = "finalize"
              /\ row.status = "succeeded" /\ todo.step = "confirm"
    PROVE  LedgerInv' /\ SearchInv'
<1>1. LedgerInv'
  BY LedgerNextInv
<1>2. /\ run \in [Runs -> RunRows]
      /\ request \in [Runs -> Requests]
      /\ call[r] \in OutcomeEvents \union {NULL} /\ call' = [call EXCEPT ![r] = call[r]]
  BY SearchTypes
<1>3. /\ run'[r] = row /\ request'[r] = todo
      /\ \A p \in Runs \ {r} : run'[p] = run[p]
  BY <1>2
<1>4. \A p \in Runs, e \in EntryTypes : Has(p, e)' = Has(p, e)
  BY DEF Has, allVars, ledgerVars
<1>5. /\ Has(r, "reserve")' = Has(r, "reserve")
      /\ Has(r, "confirm")' = Has(r, "confirm")
      /\ Has(r, "release")' = Has(r, "release")
  BY <1>4 DEF EntryTypes
<1>6. OneSearchAtATime'
  <2>1. CASE InProgress = {}
    <3>1. InProgress' \subseteq {r}
      BY <1>3, <2>1 DEF InProgress
    <3>2. IsFiniteSet({r}) /\ Cardinality({r}) = 1
      BY FS_Singleton
    <3>3. IsFiniteSet(InProgress') /\ Cardinality(InProgress') <= 1
      BY <3>1, <3>2, FS_Subset
    <3> QED
      BY <3>3 DEF OneSearchAtATime
  <2>2. CASE row.status # "in_progress"
    <3>1. InProgress' \subseteq InProgress
      BY <1>3, <2>2 DEF InProgress
    <3> QED
      BY <3>1, FewerInProgress DEF SearchInv
  <2> QED
    BY <2>1, <2>2
<1>7. StepInOrder(r)
  BY DEF SearchInv, StepsInOrder
<1>8. StepInOrder(r)'
  BY <1>3, <1>5, <1>7 DEF StepInOrder, Steps, BeforeReservation
<1>9. /\ Has(r, "confirm")' => row.status = "succeeded"
      /\ row.status = "failed" /\ Has(r, "reserve")' => Has(r, "release")'
      /\ todo.step = "answered" /\ row.status = "succeeded" => Has(r, "confirm")'
  BY <1>5, <1>7 DEF StepInOrder, Steps, BeforeReservation
<1> QED
  BY <1>1, <1>2, <1>4, <1>6, <1>8, <1>9, OneRunSteps

LEMMA CreateRunInv ==
    ASSUME SubscriptionConstants, LedgerConstants, SearchConstants,
           LedgerInv, SearchInv, NEW r \in Runs, CreateRun(r)
    PROVE  LedgerInv' /\ SearchInv'
<1>1. request[r].step = "admitted" /\ UNCHANGED <<allVars, call>>
  BY DEF CreateRun
<1>2. CASE InProgress # {}
  BY <1>1, <1>2, RaiseInv DEF CreateRun
<1>3. CASE InProgress = {}
  <2> DEFINE row == [status |-> "in_progress", reason |-> NULL, created |-> now]
             todo == [request[r] EXCEPT !.step = "prepare"]
  <2>1. run' = [run EXCEPT ![r] = row] /\ request' = [request EXCEPT ![r] = todo]
    BY <1>3 DEF CreateRun, Goto
  <2>2. row \in RunRows /\ row.status = "in_progress"
    BY SearchTypes DEF RunRows
  <2>3. todo \in Requests /\ todo.step = "prepare"
    BY SearchTypes DEF Requests, Steps
  <2> HIDE DEF row, todo
  <2> QED
    BY <1>1, <1>3, <2>1, <2>2, <2>3, RunInv
<1> QED
  BY <1>2, <1>3

LEMMA MarkFailedInv ==
    ASSUME SubscriptionConstants, LedgerConstants, SearchConstants,
           LedgerInv, SearchInv, NEW r \in Runs, MarkFailed(r)
    PROVE  LedgerInv' /\ SearchInv'
<1> DEFINE row == [run[r] EXCEPT !.status = "failed", !.reason = request[r].reason]
           todo == Doing("answered", NULL)
<1>1. /\ request[r].step = "fail"
      /\ run' = [run EXCEPT ![r] = row] /\ request' = [request EXCEPT ![r] = todo]
      /\ UNCHANGED <<allVars, call>>
  BY DEF MarkFailed
<1>2. run[r].status = "in_progress"
  BY <1>1 DEF SearchInv, StepsInOrder, StepInOrder, Steps
<1>3. row \in RunRows /\ row.status = "failed"
  <2>1. run[r] \in [status : {"in_progress", "succeeded", "failed"},
                    reason : FailureReasons \union {NULL}, created : Nat]
    BY <1>2, SearchTypes DEF RunRows, NoRun
  <2>2. request[r].reason \in FailureReasons \union {NULL}
    BY SearchTypes DEF Requests
  <2> QED
    BY <2>1, <2>2 DEF RunRows
<1>4. todo \in Requests /\ todo.step = "answered"
  BY DEF Requests, Doing
<1> HIDE DEF row, todo
<1> QED
  BY <1>1, <1>3, <1>4, RunInv

LEMMA FinalizeInv ==
    ASSUME SubscriptionConstants, LedgerConstants, SearchConstants,
           LedgerInv, SearchInv, NEW r \in Runs, Finalize(r)
    PROVE  LedgerInv' /\ SearchInv'
<1>1. request[r].step = "finalize" /\ UNCHANGED <<allVars, call>>
  BY DEF Finalize
<1>2. CASE Raise(r) /\ UNCHANGED run
  BY <1>1, <1>2, RaiseInv
<1>3. CASE run' = [run EXCEPT ![r].status = "succeeded"] /\ Goto(r, "confirm")
  <2> DEFINE row == [run[r] EXCEPT !.status = "succeeded"]
             todo == [request[r] EXCEPT !.step = "confirm"]
  <2>1. run' = [run EXCEPT ![r] = row] /\ request' = [request EXCEPT ![r] = todo]
    BY <1>3 DEF Goto
  <2>2. run[r].status = "in_progress"
    BY <1>1 DEF SearchInv, StepsInOrder, StepInOrder, Steps
  <2>3. row \in RunRows /\ row.status = "succeeded"
    <3>1. run[r] \in [status : {"in_progress", "succeeded", "failed"},
                      reason : FailureReasons \union {NULL}, created : Nat]
      BY <2>2, SearchTypes DEF RunRows, NoRun
    <3> QED
      BY <3>1 DEF RunRows
  <2>4. todo \in Requests /\ todo.step = "confirm"
    BY SearchTypes DEF Requests, Steps
  <2> HIDE DEF row, todo
  <2> QED
    BY <1>1, <2>1, <2>3, <2>4, RunInv
<1> QED
  BY <1>2, <1>3 DEF Finalize

-----------------------------------------------------------------------------
(* The theorems                                                            *)

LEMMA SearchStepInv ==
    ASSUME SubscriptionConstants, LedgerConstants, SearchConstants,
           LedgerInv, SearchInv, [SearchNext]_searchAllVars
    PROVE  LedgerInv' /\ SearchInv'
<1>1. CASE UNCHANGED searchAllVars
  <2>1. LedgerInv'
    BY <1>1, LedgerNextInv DEF searchAllVars
  <2>2. SearchInv'
    BY <1>1 DEF searchAllVars, searchVars, allVars, ledgerVars, SearchInv, SearchTypeOK,
                StepsInOrder, StepInOrder, OneSearchAtATime, InProgress,
                ChargedOnlyForResults, AnsweredRunsArePaid, Has
  <2> QED
    BY <2>1, <2>2
<1>2. ASSUME NEW r \in Runs, RequestStep(r)
      PROVE  LedgerInv' /\ SearchInv'
  BY <1>2, QuietInv, CreateRunInv, PrepareInv, InterpretInv, ReserveSearchInv,
     ReleaseSearchInv, MarkFailedInv, FinalizeInv, ConfirmSearchInv
     DEF RequestStep, Proceed
<1>3. CASE Around /\ UNCHANGED searchVars
  BY <1>3, AroundInv
<1> QED
  BY <1>1, <1>2, <1>3 DEF SearchNext

\* Requests, reviews and sweeps keep the invariants of the ledger and the runs.
THEOREM SearchesSound == SearchSpec => [](LedgerInv /\ SearchInv)
<1>1. SearchInit => LedgerInv /\ SearchInv
  BY SearchInitInv, SubscriptionConstants, LedgerConstants, SearchConstants
<1>2. LedgerInv /\ SearchInv /\ [SearchNext]_searchAllVars => LedgerInv' /\ SearchInv'
  BY SearchStepInv, SubscriptionConstants, LedgerConstants, SearchConstants
<1> QED
  BY <1>1, <1>2, PTL DEF SearchSpec

\* A search without results is never charged, wherever its request may die.
THEOREM ResultsAreCharged == SearchSpec => []ChargedOnlyForResults
<1>1. SearchInv => ChargedOnlyForResults
  BY DEF SearchInv
<1> QED
  BY <1>1, SearchesSound, PTL

\* A search whose results were shown is paid for.
THEOREM AnswersArePaid == SearchSpec => []AnsweredRunsArePaid
<1>1. SearchInv => AnsweredRunsArePaid
  BY DEF SearchInv
<1> QED
  BY <1>1, SearchesSound, PTL

\* The searches use the ledger as it is meant to be used: a request only calls
\* its operations, with its own key, so what LedgerSpec promises holds of the
\* searches too, and through it SubscriptionSpec (search_run_service writes no
\* ledger entry itself).
THEOREM SearchesUseTheLedger == SearchSpec => LedgerSpec
<1>1. SearchInit => LedgerInit
  BY DEF SearchInit
<1>2. [SearchNext]_searchAllVars => [LedgerNext]_allVars
  <2> SUFFICES ASSUME [SearchNext]_searchAllVars
               PROVE  [LedgerNext]_allVars
    OBVIOUS
  <2>1. ASSUME NEW r \in Runs, RequestStep(r)
        PROVE  [LedgerNext]_allVars
    <3>1. \/ UNCHANGED allVars
          \/ Reserve(r) \/ Release(r) \/ Confirm(r)
      BY <2>1 DEF RequestStep, Proceed, Admit, CreateRun, PrepareCall, Interpret,
                  StoreInterpretation, ReserveSearch, SearchTalent, ReleaseSearch,
                  MarkFailed, SyncTalents, Finalize, ConfirmSearch, Die
    <3> QED
      BY <3>1 DEF LedgerNext, Runs
  <2>2. CASE Around
    BY <2>2 DEF Around, LedgerNext
  <2>3. CASE UNCHANGED searchAllVars
    BY <2>3 DEF searchAllVars
  <2> QED
    BY <2>1, <2>2, <2>3 DEF SearchNext
<1> QED
  BY <1>1, <1>2, PTL DEF SearchSpec, LedgerSpec

\* The searches of a month stay within the plan, however many requests reserve
\* at once and wherever they die, unless an entry is older than the period it is
\* booked on, or a search was confirmed after its reservation expired.
THEOREM SearchesWithinQuota ==
    SearchSpec => [](ConfirmedInTime /\ EntriesInPeriod => NoOverspend)
BY SearchesUseTheLedger, OverspentOnlyEarly, PTL
======================================================================
