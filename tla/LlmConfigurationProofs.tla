----------------------- MODULE LlmConfigurationProofs -----------------------
(***************************************************************************)
(* Proofs about LlmConfiguration, for any number of attempts, workers,     *)
(* calls and faults: no version replaces one its author has not seen, none *)
(* is enabled before each type of call was probed, and a queued attempt is *)
(* forgotten by a claim that is rolled back and by nothing else.           *)
(***************************************************************************)
EXTENDS LlmConfiguration, SequenceTheorems, TLAPS

CallRecords == [type : 1..Len(CallTypes), events : OutcomeEvents]

LEMMA TwoCallTypes == Len(CallTypes) = 2 /\ DOMAIN CallTypes = 1..2
BY DEF CallTypes

\* The state the steps start from.
LEMMA ConfigTypes ==
    ASSUME ConfigInv
    PROVE  /\ attempt \in [Attempts -> AttemptRows]
           /\ calls \in [Attempts -> Seq(CallRecords)]
           /\ versions \in Seq(Attempts)
           /\ run \in [Workers -> Runs]
           /\ \A a \in Attempts : attempt[a] \in AttemptRows
           /\ \A a \in Attempts : calls[a] \in Seq(CallRecords)
           /\ \A w \in Workers : run[w] \in Runs
BY DEF ConfigInv, ConfigTypeOK, CallRecords

LEMMA ConfigInitInv ==
    ASSUME ConfigurationConstants, ConfigInit
    PROVE  ConfigInv
<1>1. \A a \in Attempts : attempt[a] = NoAttempt /\ calls[a] = <<>>
  BY DEF ConfigInit
<1>2. NoAttempt \in AttemptRows /\ <<>> \in Seq(CallRecords)
  BY TwoCallTypes DEF NoAttempt, AttemptRows
<1>3. Idle \in Runs
  BY TwoCallTypes DEF Idle, Runs
<1>4. ConfigTypeOK
  BY <1>2, <1>3, EmptySeq DEF ConfigInit, ConfigTypeOK, CallRecords,
     ConfigurationConstants
<1>5. EndedFree /\ ProbesAnswered
  BY <1>1 DEF EndedFree, ProbesAnswered, NoAttempt
<1>6. \A w \in Workers : run[w].step = "idle"
  BY DEF ConfigInit, Idle
<1>7. (\A w \in Workers : RunInOrder(w)) /\ CallsApart
  BY <1>6 DEF RunInOrder, CallsApart
<1>8. NoLostUpdate
  BY DEF ConfigInit, NoLostUpdate
<1> QED
  BY <1>4, <1>5, <1>7, <1>8 DEF ConfigInv

-----------------------------------------------------------------------------
(* Outcomes                                                                *)

LEMMA PersistedOutcomes ==
    ASSUME NEW events \in OutcomeEvents,
           NEW outcome \in {"succeeded", "failed", "outcome_unknown"}
    PROVE  /\ Persisted(events, outcome) \in OutcomeEvents
           /\ events = <<"succeeded">> => Persisted(events, outcome) = events
           /\ events \in {<<>>, <<"outcome_unknown">>} =>
                 \/ IsLate(Persisted(events, outcome))
                 \/ Persisted(events, outcome) = <<outcome>>
<1>1. <<"outcome_unknown", "late_response">> = Append(<<"outcome_unknown">>, "late_response")
      /\ Len(<<"outcome_unknown", "late_response">>) = 2
  OBVIOUS
<1>2. CASE events = <<>>
  BY <1>2 DEF Persisted, OutcomeEvents, CallOutcomes
<1>3. CASE events = <<"outcome_unknown">>
  BY <1>1, <1>3 DEF Persisted, OutcomeEvents, IsLate
<1>4. CASE events # <<>> /\ events # <<"outcome_unknown">>
  BY <1>4 DEF Persisted
<1> QED
  BY <1>2, <1>3, <1>4

\* Recording an outcome leaves the other calls as they are.
LEMMA OutcomeRecorded ==
    ASSUME NEW history \in Seq(CallRecords), NEW n \in DOMAIN history,
           NEW events \in OutcomeEvents
    PROVE  LET recorded == [history EXCEPT ![n].events = events] IN
           /\ recorded \in Seq(CallRecords) /\ DOMAIN recorded = DOMAIN history
           /\ \A i \in DOMAIN history : i # n => recorded[i] = history[i]
           /\ recorded[n].type = history[n].type
           /\ recorded[n].events = events
<1> DEFINE recorded == [history EXCEPT ![n].events = events]
           record == [history[n] EXCEPT !.events = events]
           length == Len(history)
<1>1. length \in Nat /\ DOMAIN history = 1..length /\ history[n] \in CallRecords
      /\ history \in [1..length -> CallRecords]
  OBVIOUS
<1>2. record \in CallRecords /\ record.type = history[n].type /\ record.events = events
  BY <1>1 DEF CallRecords
<1>3. recorded = [history EXCEPT ![n] = record]
  OBVIOUS
<1> HIDE DEF record
<1>4. recorded[n] = record /\ DOMAIN recorded = DOMAIN history
      /\ \A i \in DOMAIN history : i # n => recorded[i] = history[i]
  BY <1>3
<1>5. recorded \in [1..length -> CallRecords]
  BY <1>1, <1>2, <1>3
<1>6. recorded \in Seq(CallRecords)
  BY <1>1, <1>5, SeqDef
<1> HIDE DEF recorded
<1>7. /\ recorded \in Seq(CallRecords) /\ DOMAIN recorded = DOMAIN history
      /\ \A i \in DOMAIN history : i # n => recorded[i] = history[i]
      /\ recorded[n].type = history[n].type /\ recorded[n].events = events
  BY <1>2, <1>4, <1>6
<1> USE DEF recorded
<1> QED
  BY <1>7

LEMMA ErrorOutcomes ==
    ASSUME NEW category
    PROVE  ErrorOutcome(category) \in {"failed", "outcome_unknown"}
BY DEF ErrorOutcome

-----------------------------------------------------------------------------
(* One attempt and one run                                                 *)

\* A call that other runs than w count on, or wait for, is as they left it.
Kept(w, a, history) ==
    \A n \in DOMAIN calls[a] :
        /\ n \in DOMAIN history
        /\ history[n].type = calls[a][n].type
        /\ calls[a][n].events = <<"succeeded">> => history[n].events = <<"succeeded">>
        /\ calls[a][n].events \in {<<>>, <<"outcome_unknown">>} =>
              \/ history[n].events \in {<<>>, <<"outcome_unknown">>}
              \/ /\ w \in Workers
                 /\ run[w].step = "calling"
                 /\ run[w].attempt = a
                 /\ run[w].call = n

\* What a step changes: one attempt with its calls, and one run at most.
Changes(a, row, history, w) ==
    /\ attempt' = [attempt EXCEPT ![a] = row]
    /\ calls' = [calls EXCEPT ![a] = history]
    /\ run' \in [Workers -> Runs]
    /\ \A v \in Workers : v # w => run'[v] = run[v]

\* The attempt goes on as its other runs expect, or is over.
GoesOn(a, row, history, w) ==
    /\ attempt[a].status \notin Terminal
    /\ row.status \in Terminal => row.token = NULL
    /\ row.status \notin Terminal =>
          /\ Kept(w, a, history)
          /\ \A type \in 1..row.probed : Answered(history, type)
    /\ \A v \in Workers : v # w /\ row.status = "running" /\ row.token = v =>
          /\ attempt[a].status = "running"
          /\ attempt[a].token = v
          /\ row.probed = attempt[a].probed

LEMMA OtherRun ==
    ASSUME ConfigInv, NEW a \in Attempts, NEW row \in AttemptRows,
           NEW history \in Seq(CallRecords), NEW w,
           Changes(a, row, history, w), GoesOn(a, row, history, w),
           NEW v \in Workers, v # w
    PROVE  RunInOrder(v)'
<1> DEFINE b == run[v].attempt
<1> SUFFICES ASSUME run[v].step # "idle"
             PROVE  RunInOrder(v)'
  BY DEF Changes, RunInOrder
<1>1. run'[v] = run[v] /\ RunInOrder(v) /\ b \in Attempts
  BY DEF Changes, ConfigInv, RunInOrder
<1>2. attempt \in [Attempts -> AttemptRows] /\ calls \in [Attempts -> Seq(CallRecords)]
  BY ConfigTypes
<1>3. CASE b # a
  <2>1. attempt'[b] = attempt[b] /\ calls'[b] = calls[b]
    BY <1>1, <1>2, <1>3 DEF Changes
  <2> QED
    BY <1>1, <2>1 DEF RunInOrder, Holds, Over, Outcome
<1>4. CASE b = a
  <2>1. attempt'[b] = row /\ calls'[b] = history
    BY <1>2, <1>4 DEF Changes
  <2>2. Holds(v)' => run'[v].probed = attempt'[b].probed
    BY <1>1, <1>4, <2>1 DEF RunInOrder, Holds, GoesOn
  <2>3. ASSUME run[v].step \in {"calling", "answered"}, ~Over(v)'
        PROVE  /\ run[v].call \in DOMAIN history
               /\ history[run[v].call].type = run[v].probed + 1
               /\ history[run[v].call].events \in Expected(run[v].step)
    <3>1. row.status \notin Terminal /\ Kept(w, a, history)
      BY <1>1, <1>4, <2>1, <2>3 DEF Over, GoesOn
    <3>2. ~Over(v)
      BY <1>4 DEF Over, GoesOn
    <3>3. /\ run[v].call \in DOMAIN calls[a]
          /\ calls[a][run[v].call].type = run[v].probed + 1
          /\ calls[a][run[v].call].events \in Expected(run[v].step)
      BY <1>1, <1>4, <2>3, <3>2 DEF RunInOrder, Outcome
    <3>4. ~(/\ run[v].step = "calling"
            /\ w \in Workers
            /\ run[w].step = "calling"
            /\ run[w].attempt = a
            /\ run[w].call = run[v].call)
      BY <1>4, <3>2 DEF ConfigInv, CallsApart
    <3>5. CASE run[v].step = "answered"
      BY <3>1, <3>3, <3>5 DEF Kept, Expected
    <3>6. CASE run[v].step = "calling"
      <4>1. calls[a][run[v].call].events \in {<<>>, <<"outcome_unknown">>}
        BY <3>3, <3>6 DEF Expected
      <4>2. history[run[v].call].events \in {<<>>, <<"outcome_unknown">>}
        BY <3>1, <3>3, <3>4, <3>6, <4>1 DEF Kept
      <4> QED
        BY <3>1, <3>3, <3>6, <4>2 DEF Kept, Expected
    <3> QED
      BY <2>3, <3>5, <3>6
  <2>4. run[v].step \in {"calling", "answered"} => run[v].probed < Len(CallTypes)
    BY <1>1 DEF RunInOrder
  <2> QED
    BY <1>1, <1>4, <2>1, <2>2, <2>3, <2>4 DEF RunInOrder, Outcome, Over
<1> QED
  BY <1>3, <1>4

\* ... and so is the invariant, if the run that makes the step is in order.
LEMMA ChangesInv ==
    ASSUME ConfigInv, NEW a \in Attempts, NEW row \in AttemptRows,
           NEW history \in Seq(CallRecords), NEW w,
           Changes(a, row, history, w), GoesOn(a, row, history, w),
           versions' \in Seq(Attempts), current' \in 0..Len(versions'),
           mail' \in SUBSET Attempts, faults' \in 0..MaxFaults,
           NoLostUpdate',
           w \in Workers => RunInOrder(w)',
           w \in Workers /\ run'[w].step = "calling" =>
              \/ run[w].step = "calling" /\ run'[w] = run[w]
              \/ run'[w].attempt = a /\ run'[w].call \notin DOMAIN calls[a]
    PROVE  ConfigInv'
<1>1. attempt \in [Attempts -> AttemptRows] /\ calls \in [Attempts -> Seq(CallRecords)]
  BY ConfigTypes
<1>2. /\ attempt'[a] = row /\ calls'[a] = history
      /\ \A b \in Attempts : b # a => attempt'[b] = attempt[b] /\ calls'[b] = calls[b]
  BY <1>1 DEF Changes
<1>3. ConfigTypeOK'
  BY <1>1 DEF Changes, ConfigTypeOK, CallRecords
<1>4. EndedFree' /\ ProbesAnswered'
  BY <1>2 DEF ConfigInv, EndedFree, ProbesAnswered, GoesOn
<1>5. \A v \in Workers : RunInOrder(v)'
  BY OtherRun
<1>6. ASSUME NEW u \in Workers, NEW v \in Workers, u # v,
             run'[u].step = "calling", run'[v].step = "calling",
             run'[u].attempt = run'[v].attempt, ~Over(u)'
      PROVE  run'[u].call # run'[v].call
  <2>1. ASSUME NEW x \in Workers, NEW y \in Workers, x # y,
               run'[x].step = "calling", run'[y].step = "calling",
               run'[x].attempt = run'[y].attempt, ~Over(x)', y # w
        PROVE  run'[x].call # run'[y].call
    <3>1. run'[y] = run[y] /\ run[y].attempt \in Attempts
      BY <2>1 DEF Changes, ConfigInv, RunInOrder
    <3>2. ~Over(y)
      BY <1>2, <2>1, <3>1 DEF Over, GoesOn
    <3>3. CASE run'[x] = run[x]
      BY <2>1, <3>1, <3>2, <3>3 DEF ConfigInv, CallsApart, Over
    <3>4. CASE x = w /\ run'[w].attempt = a /\ run'[w].call \notin DOMAIN calls[a]
      <4>1. run[y].call \in DOMAIN calls[a]
        BY <2>1, <3>1, <3>2, <3>4 DEF ConfigInv, RunInOrder
      <4> QED
        BY <3>1, <3>4, <4>1
    <3> QED
      BY <2>1, <3>3, <3>4 DEF Changes
  <2>2. ~Over(v)'
    BY <1>6 DEF Over
  <2> QED
    BY <1>6, <2>1, <2>2
<1>7. CallsApart'
  BY <1>6 DEF CallsApart
<1> QED
  BY <1>3, <1>4, <1>5, <1>7 DEF ConfigInv

\* The versions rest on attempts that are over.
LEMMA VersionsKept ==
    ASSUME ConfigInv, NEW a \in Attempts, NEW row \in AttemptRows,
           attempt' = [attempt EXCEPT ![a] = row], attempt[a].status \notin Terminal,
           UNCHANGED <<versions, current>>
    PROVE  /\ NoLostUpdate'
           /\ versions' \in Seq(Attempts) /\ current' \in 0..Len(versions')
<1>1. /\ attempt \in [Attempts -> AttemptRows]
      /\ versions \in Seq(Attempts) /\ current \in 0..Len(versions)
  BY ConfigTypes DEF ConfigInv, ConfigTypeOK
<1>2. \A n \in DOMAIN versions :
        versions[n] \in Attempts /\ attempt[versions[n]].status = "succeeded"
  BY <1>1 DEF ConfigInv, NoLostUpdate
<1>3. \A n \in DOMAIN versions : attempt'[versions[n]] = attempt[versions[n]]
  BY <1>1, <1>2 DEF Terminal
<1> QED
  BY <1>1, <1>3 DEF ConfigInv, NoLostUpdate

LEMMA QuietChangesInv ==
    ASSUME ConfigInv, NEW a \in Attempts, NEW row \in AttemptRows,
           NEW history \in Seq(CallRecords), NEW w,
           Changes(a, row, history, w), GoesOn(a, row, history, w),
           UNCHANGED <<versions, current>>,
           mail' \in SUBSET Attempts, faults' \in 0..MaxFaults,
           w \in Workers => RunInOrder(w)',
           w \in Workers /\ run'[w].step = "calling" =>
              \/ run[w].step = "calling" /\ run'[w] = run[w]
              \/ run'[w].attempt = a /\ run'[w].call \notin DOMAIN calls[a]
    PROVE  ConfigInv'
<1>1. attempt' = [attempt EXCEPT ![a] = row] /\ attempt[a].status \notin Terminal
  BY DEF Changes, GoesOn
<1>2. /\ NoLostUpdate'
      /\ versions' \in Seq(Attempts) /\ current' \in 0..Len(versions')
  BY <1>1, VersionsKept
<1> QED
  BY <1>2, ChangesInv

\* Steps of a run that leave the attempts and their calls alone.
LEMMA RunOnlyInv ==
    ASSUME ConfigInv, NEW w \in Workers, run' \in [Workers -> Runs],
           \A v \in Workers : v # w => run'[v] = run[v],
           run'[w].step \notin {"calling", "answered"},
           \/ run'[w].step = "idle"
           \/ /\ run[w].step # "idle"
              /\ run'[w].attempt = run[w].attempt
              /\ run'[w].probed = run[w].probed,
           UNCHANGED <<attempt, calls, versions, current>>,
           mail' \in SUBSET Attempts, faults' \in 0..MaxFaults
    PROVE  ConfigInv'
<1>1. ConfigTypeOK'
  BY DEF ConfigInv, ConfigTypeOK
<1>2. EndedFree' /\ ProbesAnswered' /\ NoLostUpdate'
  BY DEF ConfigInv, EndedFree, ProbesAnswered, NoLostUpdate
<1>3. \A v \in Workers : RunInOrder(v)'
  BY DEF ConfigInv, RunInOrder, Holds, Over, Outcome
<1>4. CallsApart'
  BY DEF ConfigInv, CallsApart, Over
<1> QED
  BY <1>1, <1>2, <1>3, <1>4 DEF ConfigInv

LEMMA EndRunInv ==
    ASSUME ConfigInv, NEW w \in Workers, EndRun(w),
           UNCHANGED <<attempt, calls, versions, current>>,
           mail' \in SUBSET Attempts, faults' \in 0..MaxFaults
    PROVE  ConfigInv'
<1>1. Idle \in Runs
  BY TwoCallTypes DEF Idle, Runs
<1> QED
  BY <1>1, RunOnlyInv, ConfigTypes DEF EndRun, Idle

\* The attempt ends, by a request or a sweep or by a run that ends with it.
LEMMA EndInv ==
    ASSUME ConfigurationConstants, ConfigInv, NEW a \in Attempts,
           NEW status \in Terminal,
           End(a, status), attempt[a].status \notin Terminal,
           UNCHANGED run \/ \E w \in Workers : EndRun(w),
           UNCHANGED <<versions, current, mail, faults>>
    PROVE  ConfigInv'
<1> DEFINE row == Ended(status, attempt[a].expected)
<1>1. row \in AttemptRows /\ row.status = status /\ row.token = NULL
  <2>1. attempt[a].expected \in Nat
    BY ConfigTypes DEF AttemptRows
  <2> QED
    BY <2>1, TwoCallTypes DEF Ended, AttemptRows
<1>2. <<>> \in Seq(CallRecords)
  OBVIOUS
<1>3. \A w : GoesOn(a, row, <<>>, w)
  BY <1>1 DEF GoesOn, Terminal
<1>4. mail' \in SUBSET Attempts /\ faults' \in 0..MaxFaults
  BY DEF ConfigInv, ConfigTypeOK
<1>5. CASE UNCHANGED run
  <2>1. Changes(a, row, <<>>, NULL)
    BY <1>5, ConfigTypes DEF Changes, End
  <2> HIDE DEF row
  <2> QED
    BY <1>1, <1>2, <1>3, <1>4, <2>1, QuietChangesInv DEF ConfigurationConstants
<1>6. ASSUME NEW w \in Workers, EndRun(w)
      PROVE  ConfigInv'
  <2>1. Idle \in Runs
    BY TwoCallTypes DEF Idle, Runs
  <2>2. Changes(a, row, <<>>, w)
    BY <1>6, <2>1, ConfigTypes DEF Changes, End, EndRun
  <2>3. run'[w].step = "idle"
    BY <1>6, ConfigTypes DEF EndRun, Idle
  <2> HIDE DEF row
  <2> QED
    BY <1>1, <1>2, <1>3, <1>4, <2>2, <2>3, QuietChangesInv DEF RunInOrder
<1> QED
  BY <1>5, <1>6

-----------------------------------------------------------------------------
(* Administrators, leases and the sweep for retries                        *)

\* Steps that leave the calls of an attempt and its runs alone.
LEMMA RowInv ==
    ASSUME ConfigurationConstants, ConfigInv, NEW a \in Attempts,
           NEW row \in AttemptRows, attempt' = [attempt EXCEPT ![a] = row],
           attempt[a].status \notin Terminal, row.status \notin Terminal,
           row.probed = attempt[a].probed,
           row.status = "running" =>
              attempt[a].status = "running" /\ row.token = attempt[a].token,
           UNCHANGED <<calls, run, versions, current>>,
           mail' \in SUBSET Attempts, faults' \in 0..MaxFaults
    PROVE  ConfigInv'
<1>1. calls \in [Attempts -> Seq(CallRecords)] /\ calls[a] \in Seq(CallRecords)
      /\ run \in [Workers -> Runs]
  BY ConfigTypes
<1>2. Changes(a, row, calls[a], NULL)
  BY <1>1 DEF Changes
<1>3. Kept(NULL, a, calls[a])
  BY DEF Kept
<1>4. \A type \in 1..row.probed : Answered(calls[a], type)
  BY DEF ConfigInv, ProbesAnswered
<1>5. GoesOn(a, row, calls[a], NULL)
  BY <1>3, <1>4 DEF GoesOn
<1> QED
  BY <1>1, <1>2, <1>5, QuietChangesInv DEF ConfigurationConstants

LEMMA RowSteps ==
    ASSUME ConfigurationConstants, ConfigInv, NEW a \in Attempts,
           \/ AskAttempt(a) \/ CreateAttempt(a) \/ Lapse(a) \/ Stall(a) \/ ScheduleDue(a)
           \/ CancelAttempt(a)
           \/ \E w \in Workers : Heartbeat(w) /\ run[w].attempt = a
    PROVE  ConfigInv'
<1>1. /\ attempt \in [Attempts -> AttemptRows] /\ attempt[a] \in AttemptRows
      /\ current \in Nat /\ mail \in SUBSET Attempts /\ faults \in 0..MaxFaults
      /\ MaxFaults \in Nat
  BY ConfigTypes DEF ConfigInv, ConfigTypeOK, ConfigurationConstants
<1>2. ASSUME NEW status \in Active \union {"none"}, attempt[a].status \notin Terminal,
             SetStatus(a, status), status = "running" => attempt[a].status = "running",
             UNCHANGED <<calls, run, versions, current, faults>>, mail' \in SUBSET Attempts
      PROVE  ConfigInv'
  <2> DEFINE row == [attempt[a] EXCEPT !.status = status]
  <2>1. row \in AttemptRows /\ row.status = status /\ row.probed = attempt[a].probed
        /\ row.token = attempt[a].token
    BY <1>1, <1>2 DEF AttemptRows
  <2>2. attempt' = [attempt EXCEPT ![a] = row]
    BY <1>2 DEF SetStatus
  <2>3. row.status \notin Terminal
    BY <1>2, <2>1 DEF Active, Terminal
  <2> HIDE DEF row
  <2> QED
    BY <1>1, <1>2, <2>1, <2>2, <2>3, RowInv
<1>3. ASSUME NEW lapsed \in BOOLEAN, attempt[a].status \notin Terminal,
             attempt' = [attempt EXCEPT ![a].lapsed = lapsed],
             UNCHANGED <<calls, run, versions, current, mail>>, faults' \in 0..MaxFaults
      PROVE  ConfigInv'
  <2> DEFINE row == [attempt[a] EXCEPT !.lapsed = lapsed]
  <2>1. row \in AttemptRows /\ row.status = attempt[a].status
        /\ row.probed = attempt[a].probed /\ row.token = attempt[a].token
    BY <1>1, <1>3 DEF AttemptRows
  <2>2. attempt' = [attempt EXCEPT ![a] = row]
    BY <1>3
  <2> HIDE DEF row
  <2> QED
    BY <1>1, <1>3, <2>1, <2>2, RowInv
<1>4. attempt[a].token # NULL => attempt[a].status \notin Terminal
  BY DEF ConfigInv, EndedFree
<1>5. CASE AskAttempt(a)
  <2> DEFINE row == [attempt[a] EXCEPT !.status = "asked", !.expected = current]
  <2>1. row \in AttemptRows /\ row.status = "asked" /\ row.probed = attempt[a].probed
    BY <1>1 DEF AttemptRows
  <2>2. attempt' = [attempt EXCEPT ![a] = row] /\ attempt[a].status \notin Terminal
        /\ UNCHANGED <<calls, run, versions, current, mail, faults>>
    BY <1>5 DEF AskAttempt, Terminal
  <2> HIDE DEF row
  <2> QED
    BY <1>1, <2>1, <2>2, RowInv DEF Terminal
<1>6. CASE CreateAttempt(a)
  BY <1>1, <1>2, <1>6 DEF CreateAttempt, Active, Terminal
<1>7. CASE Lapse(a)
  BY <1>1, <1>3, <1>4, <1>7 DEF Lapse
<1>8. CASE Stall(a)
  <2>1. attempt[a].token # NULL
    BY <1>8 DEF Stall, HeldByRun, ConfigurationConstants
  <2>2. faults' \in 0..MaxFaults
    BY <1>1, <1>8 DEF Stall
  <2> QED
    BY <1>3, <1>4, <1>8, <2>1, <2>2 DEF Stall
<1>9. CASE ScheduleDue(a)
  BY <1>1, <1>2, <1>9 DEF ScheduleDue, Active, Terminal
<1>10. CASE CancelAttempt(a)
  <2>1. CASE attempt[a].status \in {"queued", "retry_scheduled"} /\ End(a, "cancelled")
    BY <1>10, <2>1, EndInv DEF CancelAttempt, Terminal
  <2>2. CASE attempt[a].status = "running" /\ SetStatus(a, "cancel_requested")
             /\ UNCHANGED calls
    BY <1>1, <1>2, <1>10, <2>2 DEF CancelAttempt, Active, Terminal
  <2> QED
    BY <1>10, <2>1, <2>2 DEF CancelAttempt
<1>11. CASE \E w \in Workers : Heartbeat(w) /\ run[w].attempt = a
  BY <1>1, <1>3, <1>11 DEF Heartbeat, Holds, Terminal
<1> QED
  BY <1>5, <1>6, <1>7, <1>8, <1>9, <1>10, <1>11

\* The sweep of leases: an attempt that is queued again keeps what it has
\* counted, and a call without an outcome gets one.
LEMMA RecoverInv ==
    ASSUME ConfigurationConstants, ConfigInv, NEW a \in Attempts, RecoverExpiredLease(a)
    PROVE  ConfigInv'
<1>1. /\ attempt \in [Attempts -> AttemptRows] /\ attempt[a] \in AttemptRows
      /\ calls \in [Attempts -> Seq(CallRecords)] /\ calls[a] \in Seq(CallRecords)
      /\ run \in [Workers -> Runs]
      /\ mail \in SUBSET Attempts /\ faults \in 0..MaxFaults
  BY ConfigTypes DEF ConfigInv, ConfigTypeOK
<1>2. CASE attempt[a].status = "cancel_requested" /\ End(a, "cancelled") /\ UNCHANGED mail
  BY <1>2, EndInv DEF RecoverExpiredLease, Terminal
<1>3. CASE attempt[a].status = "running"
  <2> DEFINE row == [attempt[a] EXCEPT !.status = "queued", !.token = NULL, !.lapsed = FALSE]
             n == Len(calls[a])
             swept == [calls[a] EXCEPT ![n].events = <<"outcome_unknown">>]
             history == IF n > 0 /\ LatestCall(a).events = <<>> THEN swept ELSE calls[a]
  <2>1. row \in AttemptRows /\ row.status = "queued" /\ row.probed = attempt[a].probed
    BY <1>1 DEF AttemptRows, Active
  <2>2. attempt' = [attempt EXCEPT ![a] = row]
        /\ UNCHANGED <<versions, current, run, faults>> /\ mail' \in SUBSET Attempts
    BY <1>1, <1>3 DEF RecoverExpiredLease, Requeue
  <2>3. calls' = [calls EXCEPT ![a] = history]
    BY <1>1, <1>3 DEF RecoverExpiredLease, LatestCall
  <2>4. ASSUME n > 0, calls[a][n].events = <<>>
        PROVE  /\ swept \in Seq(CallRecords) /\ DOMAIN swept = DOMAIN calls[a]
               /\ \A i \in DOMAIN calls[a] : i # n => swept[i] = calls[a][i]
               /\ swept[n].type = calls[a][n].type
               /\ swept[n].events = <<"outcome_unknown">>
    <3>1. n \in DOMAIN calls[a] /\ <<"outcome_unknown">> \in OutcomeEvents
      BY <1>1, <2>4 DEF OutcomeEvents, CallOutcomes
    <3> QED
      BY <1>1, <3>1, OutcomeRecorded
  <2>5. history \in Seq(CallRecords)
    BY <1>1, <2>4 DEF LatestCall
  <2>6. Kept(NULL, a, history)
    BY <2>4 DEF Kept, LatestCall
  <2>7. ASSUME NEW type \in 1..row.probed
        PROVE  Answered(history, type)
    <3>1. PICK i \in DOMAIN calls[a] :
             calls[a][i] = [type |-> type, events |-> <<"succeeded">>]
      BY <1>3, <2>1, <2>7 DEF ConfigInv, ProbesAnswered, Answered, Terminal
    <3>2. calls[a][i].events # <<>>
      BY <3>1
    <3> QED
      BY <2>4, <3>1, <3>2 DEF Answered, LatestCall
  <2> HIDE DEF row, history
  <2>8. Changes(a, row, history, NULL)
    BY <1>1, <2>2, <2>3 DEF Changes
  <2>9. GoesOn(a, row, history, NULL)
    BY <1>3, <2>1, <2>6, <2>7 DEF GoesOn, Terminal
  <2> QED
    BY <1>1, <2>1, <2>2, <2>5, <2>8, <2>9, QuietChangesInv DEF ConfigurationConstants
<1> QED
  BY <1>2, <1>3 DEF RecoverExpiredLease

-----------------------------------------------------------------------------
(* Runs                                                                    *)

\* What a run that is not idle knows.
LEMMA RunFacts ==
    ASSUME ConfigInv, NEW w \in Workers, run[w].step # "idle"
    PROVE  /\ RunInOrder(w) /\ run[w] \in Runs
           /\ run[w].attempt \in Attempts
           /\ attempt[run[w].attempt] \in AttemptRows
           /\ calls[run[w].attempt] \in Seq(CallRecords)
           /\ Holds(w) => attempt[run[w].attempt].status \notin Terminal
           /\ mail \in SUBSET Attempts /\ faults \in 0..MaxFaults
BY ConfigTypes DEF ConfigInv, ConfigTypeOK, RunInOrder, Holds, Terminal

LEMMA ClaimInv ==
    ASSUME ConfigurationConstants, ConfigInv, NEW w \in Workers, NEW a \in Attempts,
           ClaimAttempt(w, a)
    PROVE  ConfigInv'
<1>1. /\ attempt \in [Attempts -> AttemptRows] /\ attempt[a] \in AttemptRows
      /\ calls \in [Attempts -> Seq(CallRecords)] /\ calls[a] \in Seq(CallRecords)
      /\ run \in [Workers -> Runs]
      /\ mail' \in SUBSET Attempts /\ faults' \in 0..MaxFaults
  BY ConfigTypes DEF ConfigInv, ConfigTypeOK, ClaimAttempt
<1>2. CASE attempt[a].status # "queued"
  <2>1. UNCHANGED <<attempt, calls, versions, current, run>>
    BY <1>2 DEF ClaimAttempt
  <2>2. run'[w].step = "idle" /\ run' \in [Workers -> Runs]
    BY <1>1, <2>1 DEF ClaimAttempt
  <2> QED
    BY <1>1, <2>1, <2>2, RunOnlyInv
<1>3. CASE attempt[a].status = "queued"
  <2> DEFINE row == [attempt[a] EXCEPT !.status = "running", !.token = w, !.lapsed = FALSE]
             r == [Idle EXCEPT !.step = "probing", !.attempt = a, !.probed = attempt[a].probed]
  <2>1. row \in AttemptRows /\ row.status = "running" /\ row.token = w
        /\ row.probed = attempt[a].probed
    BY <1>1 DEF AttemptRows, Active
  <2>2. r \in Runs /\ r.step = "probing" /\ r.attempt = a /\ r.probed = attempt[a].probed
    BY <1>1 DEF Idle, Runs, AttemptRows
  <2>3. attempt' = [attempt EXCEPT ![a] = row] /\ run' = [run EXCEPT ![w] = r]
        /\ UNCHANGED <<calls, versions, current>>
    BY <1>3 DEF ClaimAttempt
  <2> HIDE DEF row, r
  <2>4. Changes(a, row, calls[a], w)
    BY <1>1, <2>2, <2>3 DEF Changes
  <2>5. Kept(w, a, calls[a]) /\ (\A type \in 1..row.probed : Answered(calls[a], type))
    BY <1>3, <2>1 DEF Kept, ConfigInv, ProbesAnswered, Terminal
  <2>6. GoesOn(a, row, calls[a], w)
    BY <1>3, <2>1, <2>5 DEF GoesOn, Terminal
  <2>7. run'[w] = r /\ attempt'[a] = row
    BY <1>1, <2>3
  <2>8. RunInOrder(w)'
    BY <2>1, <2>2, <2>7 DEF RunInOrder
  <2> QED
    BY <1>1, <2>1, <2>2, <2>3, <2>4, <2>6, <2>7, <2>8, QuietChangesInv
<1> QED
  BY <1>2, <1>3

\* A call is recorded before it is sent.
LEMMA PrepareInv ==
    ASSUME ConfigurationConstants, ConfigInv, NEW w \in Workers, PrepareCall(w)
    PROVE  ConfigInv'
<1> DEFINE a == run[w].attempt
<1>1. /\ RunInOrder(w) /\ run[w] \in Runs /\ a \in Attempts
      /\ attempt[a] \in AttemptRows /\ calls[a] \in Seq(CallRecords)
      /\ mail' \in SUBSET Attempts /\ faults' \in 0..MaxFaults
      /\ attempt \in [Attempts -> AttemptRows]
      /\ calls \in [Attempts -> Seq(CallRecords)] /\ run \in [Workers -> Runs]
      /\ run[w].probed < Len(CallTypes) /\ run[w].probed \in Nat
      /\ UNCHANGED <<versions, current, mail, faults>>
  BY RunFacts, ConfigTypes, TwoCallTypes DEF PrepareCall, Runs
<1>2. Holds(w) => attempt[a].status \notin Terminal
  BY RunFacts DEF PrepareCall
<1>3. CASE EndRun(w) /\ UNCHANGED <<attempt, calls>>
  BY <1>1, <1>3, EndRunInv
<1>4. CASE Holds(w) /\ End(a, "failed") /\ EndRun(w)
  BY <1>1, <1>2, <1>4, EndInv DEF Terminal
<1>5. CASE /\ Holds(w)
           /\ calls' = [calls EXCEPT ![a] =
                          Append(@, [type |-> run[w].probed + 1, events |-> <<>>])]
           /\ run' = [run EXCEPT ![w].step = "calling", ![w].call = Len(calls[a]) + 1]
           /\ UNCHANGED attempt
  <2> DEFINE new == [type |-> run[w].probed + 1, events |-> <<>>]
             history == Append(calls[a], new)
             n == Len(calls[a]) + 1
             r == [run[w] EXCEPT !.step = "calling", !.call = n]
  <2>1. new \in CallRecords /\ n \in Nat
    BY <1>1, TwoCallTypes DEF CallRecords, OutcomeEvents
  <2>2. history \in Seq(CallRecords) /\ DOMAIN history = DOMAIN calls[a] \union {n}
        /\ history[n] = new /\ n \notin DOMAIN calls[a]
        /\ \A i \in DOMAIN calls[a] : history[i] = calls[a][i]
    BY <1>1, <2>1
  <2>3. r \in Runs /\ r.step = "calling" /\ r.call = n /\ r.attempt = a
        /\ r.probed = run[w].probed
    BY <1>1, <2>1 DEF Runs
  <2>4. run' = [run EXCEPT ![w] = r] /\ calls' = [calls EXCEPT ![a] = history]
    BY <1>5
  <2>5. new.type = run[w].probed + 1 /\ new.events = <<>>
    OBVIOUS
  <2> HIDE DEF new, history, n, r
  <2>6. run'[w] = r /\ calls'[a] = history
    BY <1>1, <2>4
  <2>7. Changes(a, attempt[a], history, w)
    <3>1. attempt' = [attempt EXCEPT ![a] = attempt[a]]
      BY <1>1, <1>5
    <3>2. run' \in [Workers -> Runs] /\ \A v \in Workers : v # w => run'[v] = run[v]
      BY <1>1, <2>3, <2>4
    <3> QED
      BY <2>4, <3>1, <3>2 DEF Changes
  <2>8. Kept(w, a, history)
    BY <2>2 DEF Kept
  <2>9. ASSUME NEW type \in 1..attempt[a].probed
        PROVE  Answered(history, type)
    <3>1. PICK i \in DOMAIN calls[a] :
             calls[a][i] = [type |-> type, events |-> <<"succeeded">>]
      BY <1>1, <1>2, <1>5 DEF ConfigInv, ProbesAnswered, Answered
    <3> QED
      BY <2>2, <3>1 DEF Answered
  <2>10. attempt[a].status \notin Terminal /\ attempt[a].token = w
    BY <1>2, <1>5 DEF Holds
  <2>11. GoesOn(a, attempt[a], history, w)
    BY <2>8, <2>9, <2>10 DEF GoesOn
  <2>12. RunInOrder(w)'
    <3>1. run[w].probed = attempt[a].probed
      BY <1>1, <1>5 DEF RunInOrder, PrepareCall
    <3>2. /\ run'[w].step = "calling" /\ run'[w].attempt = a /\ run'[w].call = n
          /\ run'[w].probed = run[w].probed /\ attempt'[a] = attempt[a]
      BY <1>5, <2>3, <2>6
    <3>3. /\ n \in DOMAIN calls'[a] /\ calls'[a][n].type = run[w].probed + 1
          /\ calls'[a][n].events \in Expected("calling")
      BY <2>2, <2>5, <2>6 DEF Expected
    <3> QED
      BY <1>1, <3>1, <3>2, <3>3 DEF RunInOrder, Outcome
  <2> QED
    BY <1>1, <2>2, <2>3, <2>6, <2>7, <2>11, <2>12, QuietChangesInv
<1> QED
  BY <1>3, <1>4, <1>5 DEF PrepareCall

\* An answer is persisted, and its run goes on with what it has understood.
LEMMA PersistInv ==
    ASSUME ConfigurationConstants, ConfigInv, NEW w \in Workers,
           run[w].step = "calling", ~Over(w),
           NEW outcome \in {"succeeded", "failed", "outcome_unknown"},
           NEW step \in {"answered", "refused"},
           NEW error \in {NULL, "final", "retryable", "invalid"},
           step = "answered" => outcome = "succeeded",
           Persist(w, outcome), GoOnUnlessLate(w, step, error),
           UNCHANGED <<attempt, versions, current, mail, faults>>
    PROVE  ConfigInv'
<1> DEFINE a == run[w].attempt
           n == run[w].call
           events == Persisted(Outcome(w), outcome)
           history == [calls[a] EXCEPT ![n].events = events]
<1>1. /\ RunInOrder(w) /\ run[w] \in Runs /\ a \in Attempts
      /\ attempt[a] \in AttemptRows /\ calls[a] \in Seq(CallRecords)
      /\ mail' \in SUBSET Attempts /\ faults' \in 0..MaxFaults
      /\ attempt \in [Attempts -> AttemptRows]
      /\ calls \in [Attempts -> Seq(CallRecords)] /\ run \in [Workers -> Runs]
  BY RunFacts, ConfigTypes
<1>2. /\ run[w].probed < Len(CallTypes)
      /\ n \in DOMAIN calls[a] /\ calls[a][n].type = run[w].probed + 1
      /\ Outcome(w) = calls[a][n].events
      /\ Outcome(w) \in {<<>>, <<"outcome_unknown">>}
  BY <1>1 DEF RunInOrder, Expected, Outcome
<1>3. Outcome(w) \in OutcomeEvents /\ Outcome(w) # <<"succeeded">>
  <2>1. <<>> # <<"succeeded">> /\ <<"outcome_unknown">> # <<"succeeded">>
    OBVIOUS
  <2>2. <<>> \in OutcomeEvents /\ <<"outcome_unknown">> \in OutcomeEvents
    BY DEF OutcomeEvents, CallOutcomes
  <2> QED
    BY <1>2, <2>1, <2>2
<1>4. events \in OutcomeEvents /\ (IsLate(events) \/ events = <<outcome>>)
  BY <1>2, <1>3, PersistedOutcomes
<1>5. IsLate(Persisted(Outcome(w), "succeeded")) <=> IsLate(events)
  BY <1>2 DEF Persisted, IsLate
<1>6. calls' = [calls EXCEPT ![a] = history]
  BY DEF Persist, Outcome
<1> HIDE DEF events
<1>7. /\ history \in Seq(CallRecords) /\ DOMAIN history = DOMAIN calls[a]
      /\ \A i \in DOMAIN calls[a] : i # n => history[i] = calls[a][i]
      /\ history[n].type = calls[a][n].type /\ history[n].events = events
  BY <1>1, <1>2, <1>4, OutcomeRecorded
<1> HIDE DEF history
<1>8. /\ run' \in [Workers -> Runs] /\ \A v \in Workers : v # w => run'[v] = run[v]
      /\ \/ run'[w].step = "idle"
         \/ /\ events = <<outcome>> /\ run'[w].step = step /\ run'[w].attempt = a
            /\ run'[w].call = n /\ run'[w].probed = run[w].probed
  <2>1. CASE IsLate(events)
    <3>1. Idle \in Runs /\ Idle.step = "idle"
      BY TwoCallTypes DEF Idle, Runs
    <3> QED
      BY <1>1, <1>5, <2>1, <3>1 DEF GoOnUnlessLate, EndRun
  <2>2. CASE ~IsLate(events)
    <3> DEFINE r == [run[w] EXCEPT !.step = step, !.error = error]
    <3>1. r \in Runs /\ r.step = step /\ r.attempt = a /\ r.call = n
          /\ r.probed = run[w].probed
      BY <1>1 DEF Runs
    <3>2. run' = [run EXCEPT ![w] = r]
      BY <1>5, <2>2 DEF GoOnUnlessLate
    <3> HIDE DEF r
    <3> QED
      BY <1>1, <1>4, <2>2, <3>1, <3>2
  <2> QED
    BY <2>1, <2>2
<1>9. attempt' = [attempt EXCEPT ![a] = attempt[a]]
  BY <1>1
<1>10. Changes(a, attempt[a], history, w)
  BY <1>6, <1>8, <1>9 DEF Changes
<1>11. Kept(w, a, history)
  BY <1>2, <1>3, <1>7 DEF Kept
<1>12. ASSUME NEW type \in 1..attempt[a].probed
       PROVE  Answered(history, type)
  <2>1. PICK i \in DOMAIN calls[a] :
           calls[a][i] = [type |-> type, events |-> <<"succeeded">>]
    BY <1>1 DEF ConfigInv, ProbesAnswered, Answered, Over
  <2>2. calls[a][i].events = <<"succeeded">>
    BY <2>1
  <2>3. i # n
    BY <1>2, <1>3, <2>2
  <2> QED
    BY <1>7, <2>1, <2>3 DEF Answered
<1>13. GoesOn(a, attempt[a], history, w)
  BY <1>1, <1>11, <1>12 DEF GoesOn, Over
<1>14. RunInOrder(w)'
  <2>1. CASE run'[w].step = "idle"
    BY <2>1 DEF RunInOrder
  <2>2. CASE /\ events = <<outcome>> /\ run'[w].step = step /\ run'[w].attempt = a
             /\ run'[w].call = n /\ run'[w].probed = run[w].probed
    <3>1. calls'[a] = history
      BY <1>1, <1>6
    <3>2. Holds(w)' => run'[w].probed = attempt'[a].probed
      BY <1>1, <2>2 DEF RunInOrder, Holds
    <3>3. step = "answered" => history[n].events \in Expected(step)
      BY <1>7, <2>2 DEF Expected
    <3>4. step \in {"calling", "answered"} => step = "answered"
      OBVIOUS
    <3> QED
      BY <1>1, <1>2, <1>7, <2>2, <3>1, <3>2, <3>3, <3>4 DEF RunInOrder, Outcome
  <2> QED
    BY <1>8, <2>1, <2>2
<1>15. run'[w].step # "calling"
  BY <1>8
<1> QED
  BY <1>1, <1>7, <1>10, <1>13, <1>14, <1>15, QuietChangesInv

LEMMA AnswerInv ==
    ASSUME ConfigurationConstants, ConfigInv, NEW w \in Workers,
           Answer(w) \/ AnswerTooLate(w)
    PROVE  ConfigInv'
<1>1. mail' \in SUBSET Attempts /\ faults' \in 0..MaxFaults
  BY DEF ConfigInv, ConfigTypeOK, Answer, AnswerTooLate
<1>2. CASE AnswerTooLate(w)
  BY <1>1, <1>2, EndRunInv DEF AnswerTooLate
<1>3. CASE Answer(w)
  <2>1. PICK reply \in Replies, valid \in BOOLEAN :
          \/ /\ reply \in UncaughtFailures
             /\ EndRun(w)
             /\ UNCHANGED calls
          \/ /\ reply \notin UncaughtFailures \union Readable
             /\ Persist(w, ErrorOutcome(Category(reply)))
             /\ GoOnUnlessLate(w, "refused", ErrorKind(Category(reply)))
          \/ /\ reply \in Readable
             /\ IF valid
                THEN /\ Persist(w, "succeeded")
                     /\ GoOnUnlessLate(w, "answered", NULL)
                ELSE /\ Persist(w, "failed")
                     /\ GoOnUnlessLate(w, "refused", "invalid")
    BY <1>3 DEF Answer
  <2>2. /\ run[w].step = "calling" /\ ~Over(w)
        /\ UNCHANGED <<attempt, versions, current, mail, faults>>
    BY <1>3 DEF Answer
  <2>3. CASE EndRun(w) /\ UNCHANGED calls
    BY <1>1, <2>2, <2>3, EndRunInv
  <2>4. CASE /\ Persist(w, ErrorOutcome(Category(reply)))
             /\ GoOnUnlessLate(w, "refused", ErrorKind(Category(reply)))
    <3>1. ErrorKind(Category(reply)) \in {NULL, "final", "retryable", "invalid"}
      BY DEF ErrorKind
    <3>2. ErrorOutcome(Category(reply)) \in {"succeeded", "failed", "outcome_unknown"}
      BY ErrorOutcomes
    <3> QED
      BY <2>2, <2>4, <3>1, <3>2, PersistInv
  <2>5. CASE Persist(w, "succeeded") /\ GoOnUnlessLate(w, "answered", NULL)
    BY <2>2, <2>5, PersistInv
  <2>6. CASE Persist(w, "failed") /\ GoOnUnlessLate(w, "refused", "invalid")
    BY <2>2, <2>6, PersistInv
  <2> QED
    BY <2>1, <2>3, <2>4, <2>5, <2>6
<1> QED
  BY <1>2, <1>3

\* A success is counted by the run that holds the attempt.
LEMMA RecordInv ==
    ASSUME ConfigurationConstants, ConfigInv, NEW w \in Workers, RecordTypeSuccess(w)
    PROVE  ConfigInv'
<1> DEFINE a == run[w].attempt
<1>1. /\ RunInOrder(w) /\ run[w] \in Runs /\ a \in Attempts
      /\ attempt[a] \in AttemptRows /\ calls[a] \in Seq(CallRecords)
      /\ mail' \in SUBSET Attempts /\ faults' \in 0..MaxFaults
      /\ attempt \in [Attempts -> AttemptRows]
      /\ calls \in [Attempts -> Seq(CallRecords)] /\ run \in [Workers -> Runs]
      /\ run[w].step = "answered"
      /\ UNCHANGED <<versions, current, mail, faults>>
  BY RunFacts, ConfigTypes DEF RecordTypeSuccess
<1>2. CASE attempt[a].status = "cancel_requested" /\ End(a, "cancelled") /\ EndRun(w)
  BY <1>1, <1>2, EndInv DEF Terminal
<1>3. CASE EndRun(w) /\ UNCHANGED <<attempt, calls>>
  BY <1>1, <1>3, EndRunInv
<1>4. CASE /\ Holds(w)
           /\ attempt' = [attempt EXCEPT ![a].probed = run[w].probed + 1]
           /\ run' = [run EXCEPT ![w].step = "probing", ![w].probed = @ + 1]
           /\ UNCHANGED calls
  <2> DEFINE n == run[w].probed + 1
             row == [attempt[a] EXCEPT !.probed = n]
             r == [run[w] EXCEPT !.step = "probing", !.probed = n]
  <2>1. /\ attempt[a].status = "running" /\ attempt[a].token = w /\ ~Over(w)
        /\ run[w].probed = attempt[a].probed /\ run[w].probed < Len(CallTypes)
        /\ run[w].call \in DOMAIN calls[a] /\ calls[a][run[w].call].type = n
        /\ calls[a][run[w].call].events = <<"succeeded">>
    BY <1>1, <1>4 DEF Holds, Over, Terminal, RunInOrder, Expected, Outcome
  <2>2. n \in 0..Len(CallTypes) /\ run[w].probed \in Nat
    BY <1>1, <2>1, TwoCallTypes DEF Runs
  <2>3. /\ row \in AttemptRows /\ row.status = "running" /\ row.token = w
        /\ row.probed = n
    BY <1>1, <2>1, <2>2 DEF AttemptRows
  <2>4. r \in Runs /\ r.step = "probing" /\ r.attempt = a /\ r.probed = n
    BY <1>1, <2>2 DEF Runs
  <2>5. attempt' = [attempt EXCEPT ![a] = row] /\ run' = [run EXCEPT ![w] = r]
        /\ calls' = [calls EXCEPT ![a] = calls[a]]
    BY <1>1, <1>4
  <2>6. ASSUME NEW type \in 1..n
        PROVE  Answered(calls[a], type)
    <3>1. CASE type = n
      <4>1. calls[a][run[w].call] \in CallRecords
        BY <1>1, <2>1
      <4>2. calls[a][run[w].call] = [type |-> n, events |-> <<"succeeded">>]
        BY <2>1, <4>1 DEF CallRecords
      <4> QED
        BY <2>1, <3>1, <4>2 DEF Answered
    <3>2. CASE type # n
      <4>1. type \in 1..attempt[a].probed
        BY <2>1, <2>2, <3>2
      <4> QED
        BY <1>1, <2>1, <4>1 DEF ConfigInv, ProbesAnswered, Terminal
    <3> QED
      BY <3>1, <3>2
  <2> HIDE DEF row, r
  <2>7. run'[w] = r /\ attempt'[a] = row /\ run' \in [Workers -> Runs]
        /\ \A v \in Workers : v # w => run'[v] = run[v]
    BY <1>1, <2>4, <2>5
  <2>8. Changes(a, row, calls[a], w)
    BY <2>5, <2>7 DEF Changes
  <2>9. GoesOn(a, row, calls[a], w)
    <3>1. Kept(w, a, calls[a])
      BY DEF Kept
    <3> QED
      BY <2>1, <2>3, <2>6, <3>1 DEF GoesOn, Terminal
  <2>10. RunInOrder(w)'
    BY <1>1, <2>3, <2>4, <2>7 DEF RunInOrder
  <2> HIDE DEF a
  <2> QED
    BY <1>1, <2>3, <2>4, <2>7, <2>8, <2>9, <2>10, QuietChangesInv
<1> QED
  BY <1>2, <1>3, <1>4 DEF RecordTypeSuccess

\* A refusal settles the attempt, or schedules its next run.
LEMMA HandleErrorInv ==
    ASSUME ConfigurationConstants, ConfigInv, NEW w \in Workers, HandleProbeError(w)
    PROVE  ConfigInv'
<1> DEFINE a == run[w].attempt
           error == run[w].error
<1>1. /\ run[w] \in Runs /\ a \in Attempts
      /\ attempt[a] \in AttemptRows /\ calls[a] \in Seq(CallRecords)
      /\ mail' \in SUBSET Attempts /\ faults' \in 0..MaxFaults
      /\ attempt \in [Attempts -> AttemptRows]
      /\ calls \in [Attempts -> Seq(CallRecords)] /\ run \in [Workers -> Runs]
      /\ EndRun(w)
      /\ UNCHANGED <<versions, current, mail, faults>>
  BY RunFacts, ConfigTypes DEF HandleProbeError
<1>2. CASE attempt[a].status = "cancel_requested" /\ End(a, "cancelled")
  BY <1>1, <1>2, EndInv DEF Terminal
<1>3. CASE UNCHANGED <<attempt, calls>>
  BY <1>1, <1>3, EndRunInv
<1>4. CASE Holds(w) /\ End(a, "failed")
  BY <1>1, <1>4, EndInv DEF Holds, Terminal
<1>5. CASE /\ Holds(w)
           /\ attempt' = [attempt EXCEPT
                 ![a].status = "retry_scheduled",
                 ![a].invalid = IF error = "invalid" THEN @ + 1 ELSE @,
                 ![a].token = NULL,
                 ![a].lapsed = FALSE]
           /\ UNCHANGED calls
  <2> DEFINE count == attempt[a].invalid
             invalid == IF error = "invalid" THEN count + 1 ELSE count
             row == [attempt[a] EXCEPT !.status = "retry_scheduled",
                                       !.invalid = invalid,
                                       !.token = NULL,
                                       !.lapsed = FALSE]
  <2>1. /\ row \in AttemptRows /\ row.status = "retry_scheduled"
        /\ row.probed = attempt[a].probed
    <3>1. invalid \in Nat
      BY <1>1 DEF AttemptRows
    <3> HIDE DEF invalid
    <3> QED
      BY <1>1, <3>1 DEF AttemptRows, Active
  <2>2. attempt' = [attempt EXCEPT ![a] = row] /\ calls' = [calls EXCEPT ![a] = calls[a]]
    BY <1>1, <1>5
  <2> HIDE DEF row
  <2>3. Idle \in Runs /\ Idle.step = "idle"
    BY TwoCallTypes DEF Idle, Runs
  <2>4. run'[w].step = "idle" /\ run' \in [Workers -> Runs]
        /\ \A v \in Workers : v # w => run'[v] = run[v]
    BY <1>1, <2>3 DEF EndRun
  <2>5. Changes(a, row, calls[a], w)
    BY <2>2, <2>4 DEF Changes
  <2>6. Kept(w, a, calls[a]) /\ (\A type \in 1..row.probed : Answered(calls[a], type))
    BY <1>1, <1>5, <2>1 DEF Kept, ConfigInv, ProbesAnswered, Holds, Terminal
  <2>7. GoesOn(a, row, calls[a], w)
    BY <1>5, <2>1, <2>6 DEF GoesOn, Holds, Terminal
  <2>8. RunInOrder(w)'
    BY <2>4 DEF RunInOrder
  <2> HIDE DEF a
  <2> QED
    BY <1>1, <2>1, <2>4, <2>5, <2>7, <2>8, QuietChangesInv
<1> QED
  BY <1>2, <1>3, <1>4, <1>5 DEF HandleProbeError

-----------------------------------------------------------------------------
(* Activation                                                              *)

\* An attempt becomes the version after the one it expected.
LEMMA ActivateInv ==
    ASSUME ConfigurationConstants, ConfigInv, NEW w \in Workers,
           run[w].step # "idle", Holds(w),
           current = attempt[run[w].attempt].expected,
           versions' = Append(versions, run[w].attempt),
           current' = Len(versions) + 1,
           End(run[w].attempt, "succeeded"), EndRun(w), UNCHANGED <<mail, faults>>
    PROVE  ConfigInv'
<1> DEFINE a == run[w].attempt
           row == Ended("succeeded", attempt[a].expected)
<1>1. /\ a \in Attempts /\ attempt[a] \in AttemptRows
      /\ mail' \in SUBSET Attempts /\ faults' \in 0..MaxFaults
      /\ attempt \in [Attempts -> AttemptRows]
      /\ calls \in [Attempts -> Seq(CallRecords)] /\ run \in [Workers -> Runs]
      /\ versions \in Seq(Attempts) /\ current = Len(versions)
  BY RunFacts, ConfigTypes DEF ConfigInv, NoLostUpdate
<1>2. /\ row \in AttemptRows /\ row.status = "succeeded" /\ row.token = NULL
      /\ row.expected = attempt[a].expected
  BY <1>1, TwoCallTypes DEF Ended, AttemptRows, Terminal
<1>3. attempt' = [attempt EXCEPT ![a] = row] /\ calls' = [calls EXCEPT ![a] = <<>>]
  BY <1>1 DEF End
<1> HIDE DEF row
<1>4. Idle \in Runs /\ Idle.step = "idle"
  BY TwoCallTypes DEF Idle, Runs
<1>5. run'[w].step = "idle" /\ run' \in [Workers -> Runs]
      /\ \A v \in Workers : v # w => run'[v] = run[v]
  BY <1>1, <1>4 DEF EndRun
<1>6. Changes(a, row, <<>>, w)
  BY <1>3, <1>5 DEF Changes
<1>7. GoesOn(a, row, <<>>, w) /\ <<>> \in Seq(CallRecords)
  BY <1>2 DEF GoesOn, Holds, Terminal
<1>8. /\ versions' \in Seq(Attempts) /\ Len(versions') = Len(versions) + 1
      /\ current' = Len(versions')
      /\ DOMAIN versions' = 1..(Len(versions) + 1)
      /\ versions'[Len(versions) + 1] = a
      /\ \A n \in DOMAIN versions : versions'[n] = versions[n]
  BY <1>1
<1>9. current' \in 0..Len(versions')
  BY <1>1, <1>8
<1>10. NoLostUpdate'
  <2>1. attempt'[a] = row
    BY <1>1, <1>3
  <2>2. ASSUME NEW n \in DOMAIN versions'
        PROVE  /\ attempt'[versions'[n]].expected = n - 1
               /\ attempt'[versions'[n]].status = "succeeded"
    <3>1. CASE n = Len(versions) + 1
      BY <1>1, <1>2, <1>8, <2>1, <3>1
    <3>2. CASE n \in DOMAIN versions
      <4>1. /\ versions[n] \in Attempts /\ attempt[versions[n]].expected = n - 1
            /\ attempt[versions[n]].status = "succeeded"
        BY <1>1, <3>2 DEF ConfigInv, NoLostUpdate
      <4>2. versions[n] # a
        BY <4>1 DEF Holds
      <4>3. attempt'[versions[n]] = attempt[versions[n]]
        BY <1>1, <1>3, <4>1, <4>2
      <4> QED
        BY <1>8, <3>2, <4>1, <4>3
    <3> QED
      BY <1>1, <1>8, <3>1, <3>2
  <2> QED
    BY <1>8, <2>2 DEF NoLostUpdate
<1>11. RunInOrder(w)'
  BY <1>5 DEF RunInOrder
<1> HIDE DEF a
<1> QED
  BY <1>1, <1>2, <1>5, <1>6, <1>7, <1>8, <1>9, <1>10, <1>11, ChangesInv

LEMMA EnableInv ==
    ASSUME ConfigurationConstants, ConfigInv, NEW w \in Workers,
           EnableProbedConfiguration(w) \/ MarkConflicted(w)
    PROVE  ConfigInv'
<1> DEFINE a == run[w].attempt
<1>1. /\ run[w] \in Runs /\ a \in Attempts
      /\ run[w].step # "idle" /\ run \in [Workers -> Runs]
      /\ mail' \in SUBSET Attempts /\ faults' \in 0..MaxFaults
      /\ UNCHANGED <<mail, faults>>
  BY RunFacts, ConfigTypes DEF EnableProbedConfiguration, MarkConflicted
<1>2. Holds(w) => attempt[a].status \notin Terminal
  BY DEF Holds, Terminal
<1>3. CASE EndRun(w) /\ UNCHANGED <<attempt, calls, versions, current>>
  BY <1>1, <1>3, EndRunInv
<1>4. ASSUME NEW status \in Terminal, attempt[a].status \notin Terminal,
             End(a, status), EndRun(w), UNCHANGED <<versions, current>>
      PROVE  ConfigInv'
  BY <1>1, <1>4, EndInv
<1>5. CASE MarkConflicted(w)
  BY <1>2, <1>3, <1>4, <1>5 DEF MarkConflicted, Terminal
<1>6. CASE EnableProbedConfiguration(w)
  <2>1. CASE attempt[a].status = "cancel_requested" /\ End(a, "cancelled") /\ EndRun(w)
             /\ UNCHANGED <<versions, current>>
    BY <1>4, <2>1 DEF Terminal
  <2>2. CASE /\ Holds(w)
             /\ current = attempt[a].expected
             /\ versions' = Append(versions, a)
             /\ current' = Len(versions) + 1
             /\ End(a, "succeeded")
             /\ EndRun(w)
    BY <1>1, <2>2, ActivateInv
  <2>3. CASE Goto(w, "conflicting") /\ UNCHANGED <<attempt, calls, versions, current>>
    <3> DEFINE r == [run[w] EXCEPT !.step = "conflicting"]
    <3>1. r \in Runs /\ r.step = "conflicting" /\ r.attempt = a
          /\ r.probed = run[w].probed
      BY <1>1 DEF Runs
    <3>2. run' = [run EXCEPT ![w] = r]
      BY <2>3 DEF Goto
    <3> HIDE DEF r
    <3>3. run'[w] = r /\ run' \in [Workers -> Runs]
          /\ \A v \in Workers : v # w => run'[v] = run[v]
      BY <1>1, <3>1, <3>2
    <3> QED
      BY <1>1, <2>3, <3>1, <3>3, RunOnlyInv
  <2> QED
    BY <1>3, <1>6, <2>1, <2>2, <2>3 DEF EnableProbedConfiguration
<1> QED
  BY <1>5, <1>6

LEMMA LostRunInv ==
    ASSUME ConfigurationConstants, ConfigInv, NEW w \in Workers,
           FailWithoutCall(w) \/ Die(w) \/ Raise(w)
    PROVE  ConfigInv'
<1>1. /\ run[w].attempt \in Attempts /\ EndRun(w) /\ UNCHANGED <<versions, current>>
      /\ mail' \in SUBSET Attempts
  BY RunFacts DEF FailWithoutCall, Die, Raise
<1>2. faults' \in 0..MaxFaults
  BY DEF FailWithoutCall, Die, Raise, ConfigInv, ConfigTypeOK, ConfigurationConstants
<1>3. CASE UNCHANGED <<attempt, calls>>
  BY <1>1, <1>2, <1>3, EndRunInv
<1>4. CASE Holds(w) /\ End(run[w].attempt, "failed") /\ UNCHANGED <<mail, faults>>
  BY <1>1, <1>4, EndInv DEF Holds, Terminal
<1> QED
  BY <1>3, <1>4 DEF FailWithoutCall, Die, Raise

-----------------------------------------------------------------------------
(* Theorems                                                                *)

\* A message that is lost: nothing of the invariant is about messages.
LEMMA RolledBackInv ==
    ASSUME ConfigInv, NEW a \in Attempts, ClaimRolledBack(a)
    PROVE  ConfigInv'
BY DEF ClaimRolledBack, ConfigInv, ConfigTypeOK, EndedFree, ProbesAnswered,
   RunInOrder, Holds, Over, Outcome, CallsApart, NoLostUpdate

LEMMA ConfigStepInv ==
    ASSUME ConfigurationConstants, ConfigInv, [ConfigNext]_configVars
    PROVE  ConfigInv'
<1>1. ASSUME NEW a \in Attempts, AttemptStep(a)
      PROVE  ConfigInv'
  BY <1>1, RowSteps, RecoverInv, RolledBackInv DEF AttemptStep
<1>2. ASSUME NEW w \in Workers, NEW a \in Attempts, ClaimAttempt(w, a)
      PROVE  ConfigInv'
  BY <1>2, ClaimInv
<1>3. ASSUME NEW w \in Workers, RunStep(w)
      PROVE  ConfigInv'
  BY <1>3, PrepareInv, AnswerInv, RecordInv, HandleErrorInv, EnableInv DEF RunStep
<1>4. ASSUME NEW w \in Workers, Heartbeat(w)
      PROVE  ConfigInv'
  <2>1. run[w].attempt \in Attempts
    BY <1>4, RunFacts DEF Heartbeat
  <2> QED
    BY <1>4, <2>1, RowSteps
<1>5. CASE UNCHANGED configVars
  BY <1>5 DEF configVars, ConfigInv, ConfigTypeOK, EndedFree, ProbesAnswered,
     RunInOrder, Holds, Over, Outcome, CallsApart, NoLostUpdate
<1> QED
  BY <1>1, <1>2, <1>3, <1>4, <1>5, LostRunInv DEF ConfigNext

\* The inductive invariant of the configuration attempts: types, what a run
\* knows of its attempt, and what the versions rest on.
THEOREM ConfigSound == ConfigSpec => []ConfigInv
<1>1. ConfigurationConstants
  BY ConfigurationConstants
<1>2. ConfigInit => ConfigInv
  BY <1>1, ConfigInitInv
<1>3. ConfigInv /\ [ConfigNext]_configVars => ConfigInv'
  BY <1>1, ConfigStepInv
<1> QED
  BY <1>2, <1>3, PTL DEF ConfigSpec

\* A version replaces the one its author has seen, and each attempt makes one
\* at most (create_attempt, activate_llm_configuration_version).
THEOREM VersionsNotLost == ConfigSpec => []NoLostUpdate
<1>1. ConfigInv => NoLostUpdate
  BY DEF ConfigInv
<1> QED
  BY <1>1, ConfigSound, PTL

\* A version is only made current when each type of call has been answered in
\* time by a call of its own attempt (process_attempt, record_type_success,
\* enable_probed_configuration).
THEOREM ProbedBeforeEnabled == ConfigSpec => EnabledAfterProbes
<1> DEFINE probed == \A a \in Attempts : versions' = Append(versions, a) =>
                        \A type \in DOMAIN CallTypes : Answered(calls[a], type)
<1>1. ConfigInv /\ [ConfigNext]_configVars => probed
  <2> SUFFICES ASSUME ConfigInv, [ConfigNext]_configVars, NEW a \in Attempts,
                      versions' = Append(versions, a)
               PROVE  \A type \in DOMAIN CallTypes : Answered(calls[a], type)
    OBVIOUS
  <2>1. versions \in Seq(Attempts)
    BY ConfigTypes
  <2>2. versions' # versions
    BY <2>1
  <2>3. PICK w \in Workers : EnableProbedConfiguration(w)
    BY <2>2 DEF ConfigNext, configVars, AttemptStep, RunStep, AskAttempt, CreateAttempt,
       CancelAttempt, ClaimRolledBack, Lapse, Stall, ScheduleDue, RecoverExpiredLease,
       ClaimAttempt,
       PrepareCall, Answer, AnswerTooLate, RecordTypeSuccess, HandleProbeError,
       MarkConflicted, FailWithoutCall, Heartbeat, Die, Raise
  <2>4. /\ Holds(w) /\ versions' = Append(versions, run[w].attempt)
        /\ run[w].step = "probing" /\ run[w].probed = Len(CallTypes)
    BY <2>2, <2>3 DEF EnableProbedConfiguration
  <2>5. RunInOrder(w) /\ run[w].attempt \in Attempts
    BY <2>4, RunFacts
  <2>6. run[w].attempt = a
    <3>1. /\ Append(versions, a)[Len(versions) + 1] = a
          /\ Append(versions, run[w].attempt)[Len(versions) + 1] = run[w].attempt
      BY <2>1, <2>5
    <3> QED
      BY <2>4, <3>1
  <2>7. attempt[a].probed = Len(CallTypes) /\ attempt[a].status \notin Terminal
    BY <2>4, <2>5, <2>6 DEF RunInOrder, Holds, Terminal
  <2> QED
    BY <2>7, TwoCallTypes DEF ConfigInv, ProbesAnswered
<1> QED
  BY <1>1, ConfigSound, PTL DEF ConfigSpec, EnabledAfterProbes, Answered

\* A step that queues no attempt without a message, and takes no message.
WithMail ==
    /\ mail \subseteq mail'
    /\ \A a \in Attempts : attempt'[a].status = "queued" =>
          attempt[a].status = "queued" \/ a \in mail'

LEMMA RowWithMail ==
    ASSUME ConfigInv, NEW a, NEW row, attempt' = [attempt EXCEPT ![a] = row],
           mail \subseteq mail', row.status = "queued" => a \in mail'
    PROVE  WithMail
BY ConfigTypes DEF WithMail

LEMMA AdministratorsWithMail ==
    ASSUME ConfigInv, NEW a \in Attempts, AttemptStep(a)
    PROVE  WithMail \/ ClaimRolledBack(a)
<1>1. attempt[a] \in AttemptRows
  BY ConfigTypes
<1>2. ASSUME NEW status, End(a, status), status # "queued", mail \subseteq mail'
      PROVE  WithMail
  <2> DEFINE row == Ended(status, attempt[a].expected)
  <2>1. row.status = status /\ attempt' = [attempt EXCEPT ![a] = row]
    BY <1>2 DEF Ended, End
  <2> HIDE DEF row
  <2> QED
    BY <1>2, <2>1, RowWithMail
<1>3. ASSUME NEW status, SetStatus(a, status), mail \subseteq mail',
             status = "queued" => a \in mail'
      PROVE  WithMail
  <2> DEFINE row == [attempt[a] EXCEPT !.status = status]
  <2>1. row.status = status /\ attempt' = [attempt EXCEPT ![a] = row]
    BY <1>1, <1>3 DEF SetStatus, AttemptRows
  <2> HIDE DEF row
  <2> QED
    BY <1>3, <2>1, RowWithMail
<1>4. ASSUME attempt' = [attempt EXCEPT ![a].lapsed = TRUE], UNCHANGED mail
      PROVE  WithMail
  <2>1. attempt \in [Attempts -> AttemptRows]
    BY ConfigTypes
  <2> QED
    BY <1>4, <2>1 DEF WithMail, AttemptRows
<1>5. CASE AskAttempt(a)
  <2> DEFINE row == [attempt[a] EXCEPT !.status = "asked", !.expected = current]
  <2>1. row.status = "asked"
    BY <1>1 DEF AttemptRows
  <2>2. attempt' = [attempt EXCEPT ![a] = row] /\ mail' = mail
    BY <1>5 DEF AskAttempt
  <2> HIDE DEF row
  <2> QED
    BY <2>1, <2>2, RowWithMail
<1>6. CASE CreateAttempt(a)
  BY <1>3, <1>6 DEF CreateAttempt
<1>7. CASE CancelAttempt(a)
  BY <1>2, <1>3, <1>7 DEF CancelAttempt
<1>8. CASE Lapse(a) \/ Stall(a)
  BY <1>4, <1>8 DEF Lapse, Stall
<1>9. CASE ScheduleDue(a)
  BY <1>3, <1>9 DEF ScheduleDue
<1>10. CASE RecoverExpiredLease(a)
  <2>1. CASE End(a, "cancelled") /\ UNCHANGED mail
    BY <1>2, <2>1
  <2>2. CASE Requeue(a) /\ mail' = mail \union {a}
    <3> DEFINE row == [attempt[a] EXCEPT !.status = "queued", !.token = NULL,
                                         !.lapsed = FALSE]
    <3>1. attempt' = [attempt EXCEPT ![a] = row]
      BY <2>2 DEF Requeue
    <3> HIDE DEF row
    <3> QED
      BY <2>2, <3>1, RowWithMail
  <2> QED
    BY <1>10, <2>1, <2>2 DEF RecoverExpiredLease
<1> QED
  BY <1>5, <1>6, <1>7, <1>8, <1>9, <1>10 DEF AttemptStep

LEMMA RunsWithMail ==
    ASSUME ConfigInv, NEW w \in Workers,
           RunStep(w) \/ FailWithoutCall(w) \/ Heartbeat(w) \/ Die(w) \/ Raise(w)
    PROVE  WithMail
<1> DEFINE a == run[w].attempt
<1>1. a \in Attempts /\ attempt[a] \in AttemptRows
  BY RunFacts DEF RunStep, FailWithoutCall, PrepareCall, Answer, AnswerTooLate,
     RecordTypeSuccess, HandleProbeError, EnableProbedConfiguration, MarkConflicted,
     Heartbeat, Die, Raise
<1>2. mail \subseteq mail'
  BY DEF RunStep, FailWithoutCall, PrepareCall, Answer, AnswerTooLate,
     RecordTypeSuccess, HandleProbeError, EnableProbedConfiguration, MarkConflicted,
     Heartbeat, Die, Raise
<1>3. ASSUME NEW status \in Terminal, End(a, status)
      PROVE  WithMail
  <2> DEFINE row == Ended(status, attempt[a].expected)
  <2>1. row.status # "queued" /\ attempt' = [attempt EXCEPT ![a] = row]
    BY <1>3 DEF Ended, End, Terminal
  <2> HIDE DEF row, a
  <2> QED
    BY <1>2, <2>1, RowWithMail
<1>4. CASE UNCHANGED attempt
  BY <1>2, <1>4 DEF WithMail
<1>5. CASE RecordTypeSuccess(w)
  <2>1. CASE Holds(w) /\ attempt' = [attempt EXCEPT ![a].probed = run[w].probed + 1]
    <3> DEFINE row == [attempt[a] EXCEPT !.probed = run[w].probed + 1]
    <3>1. row.status = "running"
      BY <1>1, <2>1 DEF AttemptRows, Holds
    <3>2. attempt' = [attempt EXCEPT ![a] = row]
      BY <2>1
    <3> HIDE DEF row, a
    <3> QED
      BY <1>2, <3>1, <3>2, RowWithMail
  <2> QED
    BY <1>3, <1>4, <1>5, <2>1 DEF RecordTypeSuccess, Terminal
<1>6. CASE HandleProbeError(w)
  <2> DEFINE count == attempt[a].invalid
             invalid == IF run[w].error = "invalid" THEN count + 1 ELSE count
             row == [attempt[a] EXCEPT !.status = "retry_scheduled",
                                       !.invalid = invalid,
                                       !.token = NULL,
                                       !.lapsed = FALSE]
  <2>1. CASE attempt' = [attempt EXCEPT ![a] = row]
    <3>1. row.status = "retry_scheduled"
      BY <1>1 DEF AttemptRows
    <3> HIDE DEF row, a
    <3> QED
      BY <1>2, <2>1, <3>1, RowWithMail
  <2> QED
    BY <1>3, <1>4, <1>6, <2>1 DEF HandleProbeError, Terminal
<1>7. CASE Heartbeat(w)
  <2>1. attempt \in [Attempts -> AttemptRows]
    BY ConfigTypes
  <2> QED
    BY <1>2, <1>7, <2>1 DEF Heartbeat, WithMail, AttemptRows
<1>8. CASE FailWithoutCall(w) \/ PrepareCall(w)
  BY <1>3, <1>4, <1>8 DEF FailWithoutCall, PrepareCall, Terminal
<1>9. CASE EnableProbedConfiguration(w) \/ MarkConflicted(w)
  BY <1>3, <1>4, <1>9 DEF EnableProbedConfiguration, MarkConflicted, Terminal
<1>10. CASE Answer(w) \/ AnswerTooLate(w) \/ Die(w) \/ Raise(w)
  BY <1>4, <1>10 DEF Answer, AnswerTooLate, Die, Raise
<1> QED
  BY <1>5, <1>6, <1>7, <1>8, <1>9, <1>10 DEF RunStep

\* Whoever takes a message claims the attempt, or does not find it queued.
LEMMA ClaimForgetsNothing ==
    ASSUME ConfigInv, NEW w \in Workers, NEW b \in Attempts, ClaimAttempt(w, b),
           NEW a \in Attempts, Forgotten(a)'
    PROVE  Forgotten(a)
<1>1. attempt \in [Attempts -> AttemptRows]
  BY ConfigTypes
<1>2. CASE attempt[b].status = "queued"
  <2>1. attempt'[b].status = "running" /\ \A c \in Attempts : c # b => attempt'[c] = attempt[c]
    BY <1>1, <1>2 DEF ClaimAttempt, AttemptRows
  <2> QED
    BY <2>1 DEF ClaimAttempt, Forgotten
<1>3. CASE attempt[b].status # "queued"
  BY <1>3 DEF ClaimAttempt, Forgotten
<1> QED
  BY <1>2, <1>3

\* A queued attempt is forgotten by a claim that is rolled back, and by no other
\* step of requests, runs, sweeps and faults (claim_attempt,
\* schedule_due_attempts, recover_expired_attempt_leases).
THEOREM AttemptsForgottenOnlyByClaim == ConfigSpec => ForgottenOnlyByClaim
<1>1. ConfigInv /\ [ConfigNext]_configVars =>
         \A a \in Attempts : Forgotten(a)' => Forgotten(a) \/ ClaimRolledBack(a)
  <2> SUFFICES ASSUME ConfigInv, [ConfigNext]_configVars, NEW a \in Attempts, Forgotten(a)'
               PROVE  Forgotten(a) \/ ClaimRolledBack(a)
    OBVIOUS
  <2>1. WithMail => Forgotten(a)
    BY DEF WithMail, Forgotten
  <2>2. CASE UNCHANGED configVars
    BY <2>2 DEF configVars, Forgotten
  <2>3. ASSUME NEW b \in Attempts, AttemptStep(b)
        PROVE  Forgotten(a) \/ ClaimRolledBack(a)
    <3>1. b # a /\ ClaimRolledBack(b) => Forgotten(a)
      BY DEF ClaimRolledBack, Forgotten
    <3> QED
      BY <2>1, <2>3, <3>1, AdministratorsWithMail
  <2>4. ASSUME NEW w \in Workers, NEW b \in Attempts, ClaimAttempt(w, b)
        PROVE  Forgotten(a)
    BY <2>4, ClaimForgetsNothing
  <2> QED
    BY <2>1, <2>2, <2>3, <2>4, RunsWithMail DEF ConfigNext
<1> QED
  BY <1>1, ConfigSound, PTL DEF ConfigSpec, ForgottenOnlyByClaim
=============================================================================
