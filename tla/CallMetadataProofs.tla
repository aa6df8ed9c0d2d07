------------------------- MODULE CallMetadataProofs -------------------------
(***************************************************************************)
(* Proofs about CallMetadata, for any numbers of calls, workers and        *)
(* faults: a call that waits for its metadata is never forgotten, and it   *)
(* is given up after its deadline only.  What is inductive about the first *)
(* is that its newest outbox event is pursued: the events before it may    *)
(* have been delivered and be done with.  About the second it is that a    *)
(* call no message of which was handled twice has been asked for once for  *)
(* each of its events, so that the event that is one too many follows one  *)
(* that was due at the deadline.                                           *)
(***************************************************************************)
EXTENDS CallMetadata, SequenceTheorems, TLAPS

\* The state of each variable, by the names the lemmas use.
LEMMA MetadataTypes ==
    ASSUME MetadataInv
    PROVE  /\ latest \in [Calls -> MetadataEvents]
           /\ outbox \in [Calls -> Seq(OutboxRows)]
           /\ batch \subseteq ClaimedEvents
           /\ queue \in [Calls -> Nat]
           /\ run \in [Workers -> Runs]
           /\ \A c \in Calls : /\ Len(outbox[c]) \in Nat
                               /\ DOMAIN outbox[c] = 1..Len(outbox[c])
                               /\ \A n \in DOMAIN outbox[c] : outbox[c][n] \in OutboxRows
<1>1. outbox \in [Calls -> Seq(OutboxRows)]
  BY DEF MetadataInv, MetadataTypeOK
<1>2. \A c \in Calls : /\ Len(outbox[c]) \in Nat
                       /\ DOMAIN outbox[c] = 1..Len(outbox[c])
                      /\ \A n \in DOMAIN outbox[c] : outbox[c][n] \in OutboxRows
  <2> TAKE c \in Calls
  <2>1. outbox[c] \in Seq(OutboxRows)
    BY <1>1
  <2> QED
    BY <2>1, ElementOfSeq
<1> QED
  BY <1>1, <1>2 DEF MetadataInv, MetadataTypeOK

LEMMA MetadataInitInv ==
    ASSUME MetadataConstants, MetadataInit
    PROVE  MetadataInv
<1>1. MetadataTypeOK
  BY DEF MetadataInit, MetadataTypeOK, MetadataEvents, Statuses, ClaimedEvents,
         NoRun, Runs, MetadataConstants
<1>2. RunsBusy /\ BatchKnown /\ NewestPursued
  BY DEF MetadataInit, RunsBusy, BatchKnown, NewestPursued, Pending
<1> QED
  BY <1>1, <1>2 DEF MetadataInv

LEMMA IsSequence ==
    ASSUME NEW S, NEW n \in Nat, NEW s \in [1..n -> S]
    PROVE  s \in Seq(S) /\ Len(s) = n
<1>1. s \in Seq(S)
  BY SeqDef, Zenon
<1>2. DOMAIN s = 1..n
  OBVIOUS
<1> QED
  BY <1>1, <1>2, LenProperties

\* A row that is replaced leaves the others, and their number, as they are.
LEMMA MarkedRow ==
    ASSUME outbox \in [Calls -> Seq(OutboxRows)], NEW c \in Calls,
           NEW n \in DOMAIN outbox[c], NEW row \in OutboxRows,
           outbox' = [outbox EXCEPT ![c][n] = row]
    PROVE  /\ outbox' \in [Calls -> Seq(OutboxRows)]
           /\ \A d \in Calls :
                 /\ Len(outbox'[d]) = Len(outbox[d])
                 /\ DOMAIN outbox'[d] = DOMAIN outbox[d]
                 /\ \A m \in DOMAIN outbox[d] :
                       outbox'[d][m] = IF d = c /\ m = n THEN row ELSE outbox[d][m]
<1>1. outbox[c] \in Seq(OutboxRows)
  OBVIOUS
<1> DEFINE new == [outbox[c] EXCEPT ![n] = row]
<1>2. /\ new \in Seq(OutboxRows)
      /\ Len(new) = Len(outbox[c])
      /\ DOMAIN new = DOMAIN outbox[c]
      /\ \A m \in DOMAIN outbox[c] : new[m] = IF m = n THEN row ELSE outbox[c][m]
  BY <1>1
<1>3. outbox' = [outbox EXCEPT ![c] = new]
  OBVIOUS
<1> HIDE DEF new
<1> QED
  BY <1>2, <1>3

-----------------------------------------------------------------------------
(* Events of a call                                                        *)

\* The newest event of a call that waits is a new row of the outbox: nobody has
\* claimed it.
LEMMA ScheduleInv ==
    ASSUME MetadataConstants, MetadataInv, NEW c \in Calls, NEW late \in BOOLEAN,
           ScheduleRetry(c, late), UNCHANGED <<batch, queue>>,
           NEW w, run' = run \/ (w \in Workers /\ run[w].call = c
                                 /\ run' = [run EXCEPT ![w].appended = TRUE])
    PROVE  /\ latest' \in [Calls -> MetadataEvents]
           /\ outbox' \in [Calls -> Seq(OutboxRows)]
           /\ BatchKnown' /\ NewestPursued'
<1>1. /\ latest \in [Calls -> MetadataEvents]
      /\ outbox \in [Calls -> Seq(OutboxRows)]
      /\ batch \subseteq ClaimedEvents
      /\ run \in [Workers -> Runs]
      /\ \A d \in Calls : /\ Len(outbox[d]) \in Nat
                          /\ DOMAIN outbox[d] = 1..Len(outbox[d])
  BY MetadataTypes
<1>2. NewRow(late) \in OutboxRows /\ ~NewRow(late).delivered
  BY DEF NewRow, OutboxRows
<1>3. latest' \in [Calls -> MetadataEvents]
  BY <1>1 DEF ScheduleRetry, AppendEvent, MetadataEvents, Statuses
<1> DEFINE new == Append(outbox[c], NewRow(late))
<1>4. /\ new \in Seq(OutboxRows)
      /\ Len(new) = Len(outbox[c]) + 1
      /\ DOMAIN new = 1..(Len(outbox[c]) + 1)
      /\ new[Len(new)] = NewRow(late)
  BY <1>1, <1>2
<1>5. /\ outbox' = [outbox EXCEPT ![c] = new]
      /\ latest' = [latest EXCEPT ![c] = [number |-> latest[c].number + 1,
                                          status |-> "retry_scheduled"]]
      /\ UNCHANGED <<batch, queue>>
  BY DEF ScheduleRetry, AppendEvent
<1> HIDE DEF new
<1>6. outbox' \in [Calls -> Seq(OutboxRows)]
  BY <1>1, <1>4, <1>5
<1>7. \A d \in Calls \ {c} : outbox'[d] = outbox[d] /\ latest'[d] = latest[d]
  BY <1>1, <1>5
<1>8. outbox'[c] = new
  BY <1>1, <1>5
<1>9. \A e \in batch : e.call \in Calls /\ e.n \in 1..Len(outbox[e.call])
  BY <1>1 DEF MetadataInv, BatchKnown, ClaimedEvents
<1>10. BatchKnown'
  <2> SUFFICES ASSUME NEW e \in batch
               PROVE  e.n \in DOMAIN outbox'[e.call]
    BY <1>5 DEF BatchKnown
  <2>1. CASE e.call = c
    BY <1>1, <1>4, <1>8, <1>9, <2>1
  <2>2. CASE e.call # c
    BY <1>1, <1>7, <1>9, <2>2
  <2> QED
    BY <2>1, <2>2
<1>11. NewestPursued'
  <2> SUFFICES ASSUME NEW d \in Calls, Pending(d)'
               PROVE  LET n == Len(outbox'[d]) IN
                      /\ n > 0
                      /\ \/ /\ ~outbox'[d][n].delivered
                            /\ \A e \in batch' : e.call = d /\ e.n = n => ~e.sent
                         \/ queue'[d] > 0
                         \/ \E v \in Workers : run'[v].call = d /\ ~run'[v].appended
    BY DEF NewestPursued
  <2>1. CASE d = c
    BY <1>1, <1>2, <1>4, <1>5, <1>8, <1>9, <2>1
  <2>2. CASE d # c
    <3>1. Pending(d) /\ outbox'[d] = outbox[d]
      BY <1>7, <2>2 DEF Pending
    <3>2. \A v \in Workers : run[v].call = d =>
             run'[v].call = run[v].call /\ run'[v].appended = run[v].appended
      BY <1>1, <2>2 DEF Runs
    <3> QED
      BY <1>5, <3>1, <3>2 DEF MetadataInv, NewestPursued
  <2> QED
    BY <2>1, <2>2
<1> QED
  BY <1>3, <1>6, <1>10, <1>11

\* Any other event settles the call.
LEMMA SettleInv ==
    ASSUME MetadataConstants, MetadataInv, NEW c \in Calls,
           NEW status \in Statuses \ {"retry_scheduled"},
           AppendEvent(c, status), UNCHANGED <<outbox, batch, queue>>,
           NEW w, run' = run \/ (w \in Workers /\ run[w].call = c
                                 /\ run' = [run EXCEPT ![w].appended = TRUE])
    PROVE  /\ latest' \in [Calls -> MetadataEvents]
           /\ outbox' \in [Calls -> Seq(OutboxRows)]
           /\ BatchKnown' /\ NewestPursued'
<1>1. /\ latest \in [Calls -> MetadataEvents]
      /\ outbox \in [Calls -> Seq(OutboxRows)]
      /\ run \in [Workers -> Runs]
  BY MetadataTypes
<1>2. latest' \in [Calls -> MetadataEvents]
  BY <1>1 DEF AppendEvent, MetadataEvents
<1>3. BatchKnown'
  BY DEF MetadataInv, BatchKnown
<1>4. ~Pending(c)' /\ \A d \in Calls \ {c} : Pending(d)' => Pending(d)
  BY <1>1 DEF AppendEvent, Pending
<1>5. \A d \in Calls \ {c}, v \in Workers : run[v].call = d =>
         run'[v].call = run[v].call /\ run'[v].appended = run[v].appended
  BY <1>1 DEF Runs
<1>6. NewestPursued'
  BY <1>4, <1>5 DEF MetadataInv, NewestPursued
<1> QED
  BY <1>1, <1>2, <1>3, <1>6

LEMMA AppendInitialInv ==
    ASSUME MetadataConstants, MetadataInv, NEW c \in Calls, AppendInitial(c)
    PROVE  MetadataInv'
<1>1. UNCHANGED <<scope, batch, queue, run, overdue, repeated, faults>>
  BY DEF AppendInitial
<1>2. PICK reply \in Replies \ UncaughtFailures : \E s \in InitialMetadata(reply) :
        \/ ScheduleRetry(c, FALSE)
        \/ s # "retry_scheduled" /\ AppendEvent(c, s) /\ UNCHANGED outbox
  BY DEF AppendInitial
<1>3. PICK status \in InitialMetadata(reply) :
        \/ ScheduleRetry(c, FALSE)
        \/ status # "retry_scheduled" /\ AppendEvent(c, status) /\ UNCHANGED outbox
  BY <1>2
<1>4. InitialMetadata(reply) \subseteq {"available", "retry_scheduled", "unavailable"}
  BY DEF InitialMetadata
<1>5. /\ latest' \in [Calls -> MetadataEvents]
      /\ outbox' \in [Calls -> Seq(OutboxRows)]
      /\ BatchKnown' /\ NewestPursued'
  <2>1. CASE ScheduleRetry(c, FALSE)
    BY <1>1, <2>1, ScheduleInv
  <2>2. CASE status # "retry_scheduled" /\ AppendEvent(c, status) /\ UNCHANGED outbox
    <3>1. status \in Statuses \ {"retry_scheduled"}
      BY <1>4, <2>2 DEF Statuses
    <3> QED
      BY <1>1, <2>2, <3>1, SettleInv
  <2> QED
    BY <1>3, <2>1, <2>2
<1> QED
  BY <1>1, <1>5 DEF MetadataInv, MetadataTypeOK, RunsBusy

\* A run that finds its call waiting appends the next event; another one leaves
\* a call that is settled.
LEMMA AppendNextInv ==
    ASSUME MetadataConstants, MetadataInv, NEW w \in Workers, AppendNext(w)
    PROVE  MetadataInv'
<1> DEFINE c == run[w].call
<1>1. /\ run[w] # NoRun
      /\ run' = [run EXCEPT ![w].appended = TRUE]
      /\ UNCHANGED <<scope, batch, queue, overdue, repeated, faults>>
  BY DEF AppendNext
<1>2. /\ run \in [Workers -> Runs]
      /\ outbox \in [Calls -> Seq(OutboxRows)]
      /\ latest \in [Calls -> MetadataEvents]
  BY MetadataTypes
<1>3. run' \in [Workers -> Runs]
  BY <1>1, <1>2 DEF Runs
<1>4. \A v \in Workers : /\ run'[v].call = run[v].call
                         /\ v # w => run'[v].appended = run[v].appended
  BY <1>1, <1>2 DEF Runs
<1> RunsBusy'
  BY <1>1, <1>2, <1>4 DEF MetadataInv, RunsBusy, NoRun
<1>5. CASE ~Pending(c)
  <2>1. UNCHANGED <<latest, outbox>>
    BY <1>5 DEF AppendNext
  <2>2. BatchKnown'
    BY <1>1, <2>1 DEF MetadataInv, BatchKnown
  <2>3. NewestPursued'
    BY <1>1, <1>4, <1>5, <2>1 DEF MetadataInv, NewestPursued, Pending
  <2> QED
    BY <1>1, <1>2, <1>3, <2>1, <2>2, <2>3 DEF MetadataInv, MetadataTypeOK
<1>6. CASE Pending(c) /\ c \in Calls
  <2>1. NextEvent(c, run[w].number)
    BY <1>6 DEF AppendNext
  <2>2. \/ \E status \in Statuses \ {"retry_scheduled"} :
              AppendEvent(c, status) /\ UNCHANGED outbox
        \/ \E late \in BOOLEAN : ScheduleRetry(c, late)
    <3>1. AtDeadline(run[w].number) \in BOOLEAN
      BY DEF AtDeadline
    <3>2. {"not_configured", "deadline_exceeded", "available"} \subseteq
            Statuses \ {"retry_scheduled"}
      BY DEF Statuses
    <3> QED
      BY <2>1, <3>1, <3>2 DEF NextEvent
  <2>3. /\ latest' \in [Calls -> MetadataEvents]
        /\ outbox' \in [Calls -> Seq(OutboxRows)]
        /\ BatchKnown' /\ NewestPursued'
    <3> HIDE DEF c
    <3>1. run[w].call = c
      BY DEF c
    <3> QED
      BY <1>1, <1>6, <2>2, <3>1, ScheduleInv, SettleInv
  <2> QED
    BY <1>1, <1>3, <2>3 DEF MetadataInv, MetadataTypeOK
<1> QED
  BY <1>1, <1>5, <1>6 DEF MetadataInv, RunsBusy

-----------------------------------------------------------------------------
(* The dispatcher                                                          *)

\* What is claimed has not been sent.
LEMMA ClaimBatchInv ==
    ASSUME MetadataConstants, MetadataInv, ClaimBatch
    PROVE  MetadataInv'
<1>1. /\ batch' = UNION {{[call |-> c, n |-> n, sent |-> FALSE] :
                     n \in {m \in DOMAIN outbox[c] : Claimable(c, m)}} : c \in Calls}
      /\ outbox' = [c \in Calls |-> [n \in DOMAIN outbox[c] |->
                     [outbox[c][n] EXCEPT !.claimed = @ \/ Claimable(c, n)]]]
      /\ UNCHANGED <<scope, latest, queue, run, overdue, repeated, faults>>
  BY DEF ClaimBatch
<1>2. /\ outbox \in [Calls -> Seq(OutboxRows)]
      /\ \A c \in Calls : /\ Len(outbox[c]) \in Nat
                          /\ DOMAIN outbox[c] = 1..Len(outbox[c])
                          /\ \A m \in DOMAIN outbox[c] : outbox[c][m] \in OutboxRows
  BY MetadataTypes
<1>3. \A c \in Calls : \A n \in DOMAIN outbox[c] :
        /\ [outbox[c][n] EXCEPT !.claimed = @ \/ Claimable(c, n)] \in OutboxRows
        /\ [outbox[c][n] EXCEPT !.claimed = @ \/ Claimable(c, n)].delivered = outbox[c][n].delivered
  <2> TAKE c \in Calls
  <2> TAKE n \in DOMAIN outbox[c]
  <2>1. outbox[c][n] \in OutboxRows
    BY <1>2
  <2>2. outbox[c][n].claimed \in BOOLEAN /\ Claimable(c, n) \in BOOLEAN
    BY <2>1 DEF OutboxRows, Claimable
  <2> QED
    BY <2>1, <2>2 DEF OutboxRows
<1>4. \A c \in Calls :
        /\ outbox'[c] \in Seq(OutboxRows)
        /\ Len(outbox'[c]) = Len(outbox[c])
        /\ DOMAIN outbox'[c] = DOMAIN outbox[c]
        /\ \A n \in DOMAIN outbox[c] : outbox'[c][n].delivered = outbox[c][n].delivered
  <2> TAKE c \in Calls
  <2> DEFINE row(n) == [outbox[c][n] EXCEPT !.claimed = @ \/ Claimable(c, n)]
  <2>1. outbox'[c] = [n \in 1..Len(outbox[c]) |-> row(n)]
    BY <1>1, <1>2
  <2>2. \A n \in 1..Len(outbox[c]) : /\ row(n) \in OutboxRows
                                     /\ row(n).delivered = outbox[c][n].delivered
    BY <1>2, <1>3
  <2> HIDE DEF row
  <2>3. outbox'[c] \in [1..Len(outbox[c]) -> OutboxRows]
    BY <2>1, <2>2
  <2>4. outbox'[c] \in Seq(OutboxRows) /\ Len(outbox'[c]) = Len(outbox[c])
    BY <1>2, <2>3, IsSequence
  <2> QED
    BY <1>2, <2>1, <2>2, <2>4
<1>5. outbox' \in [Calls -> Seq(OutboxRows)]
  BY <1>1, <1>4
<1>6. \A e \in batch' : /\ e \in ClaimedEvents
                        /\ ~e.sent
                        /\ e.n \in DOMAIN outbox[e.call]
  <2> TAKE e \in batch'
  <2>1. PICK c \in Calls : \E n \in DOMAIN outbox[c] :
          e = [call |-> c, n |-> n, sent |-> FALSE]
    BY <1>1
  <2> QED
    BY <1>2, <2>1 DEF ClaimedEvents
<1>7. batch' \subseteq ClaimedEvents /\ BatchKnown'
  BY <1>4, <1>6 DEF BatchKnown, ClaimedEvents
<1>8. NewestPursued'
  BY <1>1, <1>2, <1>4, <1>6 DEF MetadataInv, NewestPursued, Pending
<1> QED
  BY <1>1, <1>5, <1>7, <1>8 DEF MetadataInv, MetadataTypeOK, RunsBusy

\* Its message is in the broker.
LEMMA SendInv ==
    ASSUME MetadataConstants, MetadataInv, NEW e \in batch, Send(e)
    PROVE  MetadataInv'
<1> DEFINE sent == [e EXCEPT !.sent = TRUE]
<1>1. /\ batch' = (batch \ {e}) \union {sent}
      /\ queue' = [queue EXCEPT ![e.call] = @ + 1]
      /\ UNCHANGED <<scope, latest, outbox, run, overdue, repeated, faults>>
  BY DEF Send
<1>2. /\ batch \subseteq ClaimedEvents
      /\ queue \in [Calls -> Nat]
  BY MetadataTypes
<1>3. /\ sent \in ClaimedEvents
      /\ sent.call = e.call
      /\ sent.n = e.n
      /\ e.call \in Calls
  BY <1>2 DEF ClaimedEvents
<1> HIDE DEF sent
<1>4. batch' \subseteq ClaimedEvents /\ queue' \in [Calls -> Nat]
  BY <1>1, <1>2, <1>3
<1>5. BatchKnown'
  BY <1>1, <1>3 DEF MetadataInv, BatchKnown
<1>6. \A c \in Calls : queue'[c] = IF c = e.call THEN queue[c] + 1 ELSE queue[c]
  BY <1>1, <1>2
<1>7. NewestPursued'
  BY <1>1, <1>2, <1>3, <1>6 DEF MetadataInv, NewestPursued, Pending
<1> QED
  BY <1>1, <1>4, <1>5, <1>7 DEF MetadataInv, MetadataTypeOK, RunsBusy

\* An event that was not sent is as it was.
LEMMA ReleaseInv ==
    ASSUME MetadataConstants, MetadataInv, NEW e \in batch, Release(e)
    PROVE  MetadataInv'
<1>1. /\ batch' = batch \ {e}
      /\ outbox' = [outbox EXCEPT ![e.call][e.n].claimed = FALSE]
      /\ faults' = faults + 1
      /\ UNCHANGED <<scope, latest, queue, run, overdue, repeated>>
  BY DEF Release, Fault
<1>2. /\ batch \subseteq ClaimedEvents
      /\ outbox \in [Calls -> Seq(OutboxRows)]
      /\ \A c \in Calls : /\ Len(outbox[c]) \in Nat
                          /\ DOMAIN outbox[c] = 1..Len(outbox[c])
                          /\ \A m \in DOMAIN outbox[c] : outbox[c][m] \in OutboxRows
  BY MetadataTypes
<1>3. e.call \in Calls /\ e.n \in DOMAIN outbox[e.call]
  BY <1>2 DEF ClaimedEvents, MetadataInv, BatchKnown
<1> DEFINE row == [outbox[e.call][e.n] EXCEPT !.claimed = FALSE]
<1>4. row \in OutboxRows /\ row.delivered = outbox[e.call][e.n].delivered
  <2>1. outbox[e.call][e.n] \in OutboxRows
    BY <1>2, <1>3
  <2> QED
    BY <2>1 DEF OutboxRows
<1>5. outbox' = [outbox EXCEPT ![e.call][e.n] = row]
  BY <1>1
<1> HIDE DEF row
<1>6. /\ outbox' \in [Calls -> Seq(OutboxRows)]
      /\ \A d \in Calls :
            /\ Len(outbox'[d]) = Len(outbox[d])
            /\ DOMAIN outbox'[d] = DOMAIN outbox[d]
            /\ \A m \in DOMAIN outbox[d] : outbox'[d][m].delivered = outbox[d][m].delivered
  BY <1>2, <1>3, <1>4, <1>5, MarkedRow
<1>7. batch' \subseteq ClaimedEvents /\ BatchKnown'
  BY <1>1, <1>2, <1>6 DEF MetadataInv, BatchKnown, ClaimedEvents
<1>8. NewestPursued'
  BY <1>1, <1>2, <1>6 DEF MetadataInv, NewestPursued, Pending
<1>9. faults' \in Nat
  BY <1>1 DEF MetadataInv, MetadataTypeOK, RunsBusy
<1> QED
  BY <1>1, <1>6, <1>7, <1>8, <1>9 DEF MetadataInv, MetadataTypeOK, RunsBusy

\* An event that was sent is delivered, and its message is pursued.
LEMMA AcknowledgeInv ==
    ASSUME MetadataConstants, MetadataInv, NEW e \in batch, Acknowledge(e)
    PROVE  MetadataInv'
<1>1. /\ e.sent
      /\ batch' = batch \ {e}
      /\ outbox' = [outbox EXCEPT ![e.call][e.n].delivered = TRUE]
      /\ UNCHANGED <<scope, latest, queue, run, overdue, repeated, faults>>
  BY DEF Acknowledge
<1>2. /\ batch \subseteq ClaimedEvents
      /\ outbox \in [Calls -> Seq(OutboxRows)]
      /\ \A c \in Calls : /\ Len(outbox[c]) \in Nat
                          /\ DOMAIN outbox[c] = 1..Len(outbox[c])
                          /\ \A m \in DOMAIN outbox[c] : outbox[c][m] \in OutboxRows
  BY MetadataTypes
<1>3. e.call \in Calls /\ e.n \in DOMAIN outbox[e.call]
  BY <1>2 DEF ClaimedEvents, MetadataInv, BatchKnown
<1> DEFINE row == [outbox[e.call][e.n] EXCEPT !.delivered = TRUE]
<1>4. row \in OutboxRows
  <2>1. outbox[e.call][e.n] \in OutboxRows
    BY <1>2, <1>3
  <2> QED
    BY <2>1 DEF OutboxRows
<1>5. outbox' = [outbox EXCEPT ![e.call][e.n] = row]
  BY <1>1
<1> HIDE DEF row
<1>6. /\ outbox' \in [Calls -> Seq(OutboxRows)]
      /\ \A d \in Calls :
            /\ Len(outbox'[d]) = Len(outbox[d])
            /\ DOMAIN outbox'[d] = DOMAIN outbox[d]
            /\ \A m \in DOMAIN outbox[d] :
                  outbox'[d][m] = IF d = e.call /\ m = e.n THEN row ELSE outbox[d][m]
  BY <1>2, <1>3, <1>4, <1>5, MarkedRow
<1>7. batch' \subseteq ClaimedEvents /\ BatchKnown'
  BY <1>1, <1>2, <1>6 DEF MetadataInv, BatchKnown, ClaimedEvents
<1>8. NewestPursued'
  BY <1>1, <1>2, <1>6 DEF MetadataInv, NewestPursued, Pending
<1> QED
  BY <1>1, <1>6, <1>7, <1>8 DEF MetadataInv, MetadataTypeOK, RunsBusy

\* A dispatcher that dies leaves its events to the next one.
LEMMA DispatcherDiesInv ==
    ASSUME MetadataConstants, MetadataInv, DispatcherDies
    PROVE  MetadataInv'
<1>1. /\ batch' = {}
      /\ faults' = faults + 1
      /\ repeated' = repeated \union {e.call : e \in {f \in batch : f.sent}}
      /\ UNCHANGED <<scope, latest, outbox, queue, run, overdue>>
  BY DEF DispatcherDies, Fault
<1>2. repeated' \subseteq Calls /\ faults' \in Nat
  BY <1>1 DEF MetadataInv, MetadataTypeOK, ClaimedEvents
<1>3. BatchKnown' /\ NewestPursued'
  BY <1>1 DEF MetadataInv, BatchKnown, NewestPursued, Pending
<1> QED
  BY <1>1, <1>2, <1>3 DEF MetadataInv, MetadataTypeOK, RunsBusy

LEMMA ClaimLapsesInv ==
    ASSUME MetadataConstants, MetadataInv, NEW c \in Calls, NEW n \in DOMAIN outbox[c],
           ClaimLapses(c, n)
    PROVE  MetadataInv'
<1>1. /\ outbox' = [outbox EXCEPT ![c][n].claimed = FALSE]
      /\ UNCHANGED <<scope, latest, batch, queue, run, overdue, repeated, faults>>
  BY DEF ClaimLapses
<1>2. /\ batch \subseteq ClaimedEvents
      /\ outbox \in [Calls -> Seq(OutboxRows)]
      /\ \A d \in Calls : /\ Len(outbox[d]) \in Nat
                          /\ DOMAIN outbox[d] = 1..Len(outbox[d])
                          /\ \A m \in DOMAIN outbox[d] : outbox[d][m] \in OutboxRows
  BY MetadataTypes
<1> DEFINE row == [outbox[c][n] EXCEPT !.claimed = FALSE]
<1>3. row \in OutboxRows /\ row.delivered = outbox[c][n].delivered
  BY <1>2 DEF OutboxRows
<1>4. outbox' = [outbox EXCEPT ![c][n] = row]
  BY <1>1
<1> HIDE DEF row
<1>5. /\ outbox' \in [Calls -> Seq(OutboxRows)]
      /\ \A d \in Calls :
            /\ Len(outbox'[d]) = Len(outbox[d])
            /\ DOMAIN outbox'[d] = DOMAIN outbox[d]
            /\ \A m \in DOMAIN outbox[d] : outbox'[d][m].delivered = outbox[d][m].delivered
  BY <1>2, <1>3, <1>4, MarkedRow
<1>6. BatchKnown'
  BY <1>1, <1>2, <1>5 DEF MetadataInv, BatchKnown, ClaimedEvents
<1>7. NewestPursued'
  BY <1>1, <1>2, <1>5 DEF MetadataInv, NewestPursued, Pending
<1> QED
  BY <1>1, <1>5, <1>6, <1>7 DEF MetadataInv, MetadataTypeOK, RunsBusy

-----------------------------------------------------------------------------
(* Workers                                                                 *)

\* A message that is received is in the hands of a worker.
LEMMA ReceiveInv ==
    ASSUME MetadataConstants, MetadataInv, NEW w \in Workers, NEW c \in Calls,
           Receive(w, c)
    PROVE  MetadataInv'
<1> DEFINE new == IF Pending(c)
                  THEN [call |-> c, number |-> latest[c].number, appended |-> FALSE]
                  ELSE NoRun
<1>1. /\ run[w] = NoRun
      /\ queue[c] > 0
      /\ queue' = [queue EXCEPT ![c] = @ - 1]
      /\ run' = [run EXCEPT ![w] = new]
      /\ UNCHANGED <<scope, latest, outbox, batch, overdue, repeated, faults>>
  BY DEF Receive
<1>2. /\ latest \in [Calls -> MetadataEvents]
      /\ queue \in [Calls -> Nat]
      /\ run \in [Workers -> Runs]
  BY MetadataTypes
<1>3. new \in Runs
  BY <1>2 DEF Runs, NoRun, MetadataEvents
<1>4. /\ Pending(c) => new.call = c /\ ~new.appended
      /\ new # NoRun => new.call = c
  OBVIOUS
<1> HIDE DEF new
<1>5. queue' \in [Calls -> Nat] /\ run' \in [Workers -> Runs]
  BY <1>1, <1>2, <1>3
<1>6. \A v \in Workers : run'[v] = IF v = w THEN new ELSE run[v]
  BY <1>1, <1>2
<1>7. \A d \in Calls : queue'[d] = IF d = c THEN queue[d] - 1 ELSE queue[d]
  BY <1>1, <1>2
<1>8. run[w].call \notin Calls
  BY <1>1 DEF NoRun, MetadataConstants
<1>9. BatchKnown' /\ RunsBusy'
  <2>1. RunsBusy'
    BY <1>4, <1>6 DEF MetadataInv, RunsBusy
  <2> QED
    BY <1>1, <2>1 DEF MetadataInv, BatchKnown
<1>10. NewestPursued'
  BY <1>1, <1>4, <1>6, <1>7, <1>8 DEF MetadataInv, NewestPursued, Pending
<1> QED
  BY <1>1, <1>5, <1>9, <1>10 DEF MetadataInv, MetadataTypeOK

\* A run that has appended its event is not what pursues a call.
LEMMA CompleteInv ==
    ASSUME MetadataConstants, MetadataInv, NEW w \in Workers, Complete(w)
    PROVE  MetadataInv'
<1>1. /\ run[w].appended
      /\ run' = [run EXCEPT ![w] = NoRun]
      /\ UNCHANGED <<scope, latest, outbox, batch, queue, overdue, repeated, faults>>
  BY DEF Complete
<1>2. run \in [Workers -> Runs] /\ NoRun \in Runs
  BY MetadataTypes DEF Runs, NoRun
<1>3. run' \in [Workers -> Runs] /\ \A v \in Workers : v # w => run'[v] = run[v]
  BY <1>1, <1>2
<1>4. RunsBusy' /\ BatchKnown' /\ NewestPursued'
  BY <1>1, <1>2, <1>3 DEF MetadataInv, RunsBusy, BatchKnown, NewestPursued, Pending
<1> QED
  BY <1>1, <1>3, <1>4 DEF MetadataInv, MetadataTypeOK

\* The message of a worker that is lost goes back to the broker.
LEMMA WorkerLostInv ==
    ASSUME MetadataConstants, MetadataInv, NEW w \in Workers, WorkerLost(w)
    PROVE  MetadataInv'
<1> DEFINE c == run[w].call
<1>1. /\ run[w] # NoRun
      /\ run' = [run EXCEPT ![w] = NoRun]
      /\ queue' = [queue EXCEPT ![c] = @ + 1]
      /\ repeated' = IF run[w].appended THEN repeated \union {c} ELSE repeated
      /\ faults' = faults + 1
      /\ UNCHANGED <<scope, latest, outbox, batch, overdue>>
  BY DEF WorkerLost, Fault
<1>2. /\ run \in [Workers -> Runs] /\ NoRun \in Runs
      /\ queue \in [Calls -> Nat]
      /\ c \in Calls
  BY <1>1, MetadataTypes DEF Runs, NoRun, MetadataInv, RunsBusy
<1>3. run' \in [Workers -> Runs] /\ \A v \in Workers : v # w => run'[v] = run[v]
  BY <1>1, <1>2
<1>4. /\ queue' \in [Calls -> Nat]
      /\ \A d \in Calls : queue'[d] = IF d = c THEN queue[d] + 1 ELSE queue[d]
  BY <1>1, <1>2
<1>5. faults' \in Nat
  BY <1>1 DEF MetadataInv, MetadataTypeOK
<1>6. RunsBusy' /\ BatchKnown' /\ NewestPursued'
  BY <1>1, <1>2, <1>3, <1>4 DEF MetadataInv, RunsBusy, BatchKnown, NewestPursued, Pending
<1>7. repeated' \subseteq Calls
  BY <1>1, <1>2 DEF MetadataInv, MetadataTypeOK, RunsBusy, Runs
<1> QED
  BY <1>1, <1>3, <1>4, <1>5, <1>6, <1>7 DEF MetadataInv, MetadataTypeOK

-----------------------------------------------------------------------------
(* Giving up                                                               *)

\* A step that neither sends an event of a call, nor moves its message or its
\* run, leaves it asked for once.
LEMMA AskedOnceKept ==
    ASSUME MetadataInv, NEW c \in Calls, Pending(c), AskedOnce(c),
           latest'[c] = latest[c], Len(outbox'[c]) = Len(outbox[c]),
           \A n \in DOMAIN outbox[c] : EventSent(c, n)' <=> EventSent(c, n),
           queue'[c] = queue[c],
           \A w \in Workers :
              /\ Working(w, c)' <=> Working(w, c)
              /\ Working(w, c) => run'[w].number = run[w].number
    PROVE  AskedOnce(c)'
<1>1. Len(outbox[c]) \in DOMAIN outbox[c] /\ DOMAIN outbox[c] = 1..Len(outbox[c])
      /\ Len(outbox[c]) \in Nat
  BY MetadataTypes DEF MetadataInv, NewestPursued
<1> QED
  BY <1>1 DEF AskedOnce, Idle

\* A step that takes only what is due, and adds no event.
LEMMA LateEventsKept ==
    ASSUME RetriesInv, repeated \subseteq repeated',
           \A c \in Calls :
              /\ overdue[c] => overdue'[c]
              /\ DOMAIN outbox'[c] = DOMAIN outbox[c]
              /\ \A n \in DOMAIN outbox[c] :
                    /\ outbox'[c][n].late = outbox[c][n].late
                    /\ EventTaken(c, n)' =>
                          EventTaken(c, n) \/ (outbox[c][n].late => overdue[c])
    PROVE  LateEvents'
BY DEF RetriesInv, LateEvents

\* Before anything is asked nothing is to be retried.
LEMMA RetriesInit ==
    ASSUME MetadataConstants, MetadataInit
    PROVE  RetriesInv /\ GivenUpAfterDeadline
<1>1. NothingBefore /\ BatchOnce
  BY DEF MetadataInit, NothingBefore, BatchOnce, NoRun, MetadataConstants
<1>2. LateEvents
  BY DEF MetadataInit, LateEvents
<1>3. GivenUpAfterDeadline /\ \A c \in Calls : ~Pending(c)
  BY DEF MetadataInit, GivenUpAfterDeadline, Pending
<1> QED
  BY <1>1, <1>2, <1>3 DEF RetriesInv

\* A step of the dispatcher that sends nothing, or of time.
LEMMA RetriesKept ==
    ASSUME MetadataInv, RetriesInv, GivenUpAfterDeadline,
           UNCHANGED <<latest, queue>>, repeated \subseteq repeated',
           outbox' \in [Calls -> Seq(OutboxRows)],
           \A c \in Calls :
              /\ overdue[c] => overdue'[c]
              /\ Len(outbox'[c]) = Len(outbox[c])
              /\ \A n \in DOMAIN outbox[c] :
                    /\ outbox'[c][n].late = outbox[c][n].late
                    /\ EventTaken(c, n)' =>
                          EventTaken(c, n) \/ (outbox[c][n].late => overdue[c])
                    /\ c \notin repeated' => (EventSent(c, n)' <=> EventSent(c, n)),
           \A w \in Workers, c \in Calls :
              /\ run'[w].call = c => run[w].call = c
              /\ Working(w, c)' <=> Working(w, c)
              /\ Working(w, c) => run'[w].number = run[w].number,
           BatchOnce'
    PROVE  RetriesInv' /\ GivenUpAfterDeadline'
<1>1. \A c \in Calls : /\ DOMAIN outbox[c] = 1..Len(outbox[c])
                       /\ DOMAIN outbox'[c] = 1..Len(outbox'[c])
                       /\ outbox[c] = <<>> => outbox'[c] = <<>>
  <2> TAKE c \in Calls
  <2>1. outbox[c] \in Seq(OutboxRows) /\ outbox'[c] \in Seq(OutboxRows)
    BY MetadataTypes
  <2> QED
    BY <2>1, LenProperties, EmptySeq
<1>2. NothingBefore'
  BY <1>1 DEF RetriesInv, NothingBefore
<1>3. LateEvents'
  BY <1>1, LateEventsKept
<1>4. GivenUpAfterDeadline'
  BY DEF GivenUpAfterDeadline
<1>5. ASSUME NEW c \in Calls, Pending(c)', c \notin repeated'
      PROVE  AskedOnce(c)'
  <2>1. Pending(c) /\ AskedOnce(c)
    BY <1>5 DEF Pending, RetriesInv
  <2> QED
    BY <1>5, <2>1, AskedOnceKept
<1> QED
  BY <1>2, <1>3, <1>4, <1>5 DEF RetriesInv

\* The deadline passes.
LEMMA DeadlineRetries ==
    ASSUME MetadataInv, RetriesInv, GivenUpAfterDeadline, NEW c \in Calls, Deadline(c)
    PROVE  RetriesInv' /\ GivenUpAfterDeadline'
<1>1. /\ UNCHANGED <<latest, outbox, batch, queue, run, repeated>>
      /\ overdue' = [overdue EXCEPT ![c] = TRUE]
      /\ overdue \in [Calls -> BOOLEAN]
  BY DEF Deadline, MetadataInv, MetadataTypeOK
<1>2. \A d \in Calls : overdue[d] => overdue'[d]
  BY <1>1
<1>3. BatchOnce'
  BY <1>1 DEF RetriesInv, BatchOnce
<1> QED
  BY <1>1, <1>2, <1>3, RetriesKept, MetadataTypes DEF EventTaken, EventSent, Working

\* What is claimed is due, and was in nobody's hands.
LEMMA ClaimRetries ==
    ASSUME MetadataInv, RetriesInv, GivenUpAfterDeadline, MetadataInv', ClaimBatch
    PROVE  RetriesInv' /\ GivenUpAfterDeadline'
<1>1. /\ batch' = UNION {{[call |-> c, n |-> n, sent |-> FALSE] :
                     n \in {m \in DOMAIN outbox[c] : Claimable(c, m)}} : c \in Calls}
      /\ outbox' = [c \in Calls |-> [n \in DOMAIN outbox[c] |->
                     [outbox[c][n] EXCEPT !.claimed = @ \/ Claimable(c, n)]]]
      /\ UNCHANGED <<latest, queue, run, overdue, repeated>>
  BY DEF ClaimBatch
<1>2. /\ batch = {} /\ UNCHANGED overdue
      /\ \A c \in Calls : \A n \in DOMAIN outbox[c] : outbox[c][n] \in OutboxRows
  BY MetadataTypes DEF ClaimBatch
<1>3. \A c \in Calls :
         /\ DOMAIN outbox'[c] = DOMAIN outbox[c]
         /\ \A n \in DOMAIN outbox[c] :
               /\ outbox'[c][n].late = outbox[c][n].late
               /\ outbox'[c][n].delivered = outbox[c][n].delivered
  BY <1>1, <1>2 DEF OutboxRows
<1>4. \A c \in Calls : Len(outbox'[c]) = Len(outbox[c])
  <2> TAKE c \in Calls
  <2>1. outbox[c] \in Seq(OutboxRows) /\ outbox'[c] \in Seq(OutboxRows)
    BY MetadataTypes DEF MetadataInv, MetadataTypeOK
  <2> QED
    BY <1>3, <2>1, LenProperties
<1>5. \A e \in batch' : /\ e.call \in Calls /\ e.n \in DOMAIN outbox[e.call]
                        /\ Claimable(e.call, e.n)
                        /\ e = [call |-> e.call, n |-> e.n, sent |-> FALSE]
  BY <1>1
<1>6. BatchOnce'
  <2>1. \A e \in batch' : ~outbox'[e.call][e.n].delivered
    BY <1>3, <1>5 DEF Claimable
  <2>2. \A e, f \in batch' : e.call = f.call /\ e.n = f.n => e = f
    BY <1>5
  <2> QED
    BY <2>1, <2>2 DEF BatchOnce
<1>7. \A c \in Calls : \A n \in DOMAIN outbox[c] :
         /\ EventSent(c, n)' <=> EventSent(c, n)
         /\ EventTaken(c, n)' => EventTaken(c, n) \/ (outbox[c][n].late => overdue[c])
  <2> TAKE c \in Calls
  <2> TAKE n \in DOMAIN outbox[c]
  <2>1. [call |-> c, n |-> n, sent |-> TRUE] \notin batch'
    BY <1>5
  <2>2. EventSent(c, n)' <=> EventSent(c, n)
    BY <1>2, <1>3, <2>1 DEF EventSent
  <2>3. EventTaken(c, n)' => EventTaken(c, n) \/ (outbox[c][n].late => overdue[c])
    BY <1>3, <1>5 DEF EventTaken, Claimable
  <2> QED
    BY <2>2, <2>3
<1>8. outbox' \in [Calls -> Seq(OutboxRows)]
  BY DEF MetadataInv, MetadataTypeOK
<1> QED
  BY <1>1, <1>3, <1>4, <1>6, <1>7, <1>8, RetriesKept DEF Working

\* What is sent is the newest event of a call that waits.
LEMMA SendRetries ==
    ASSUME MetadataInv, RetriesInv, GivenUpAfterDeadline, NEW e \in batch, Send(e)
    PROVE  RetriesInv' /\ GivenUpAfterDeadline'
<1> DEFINE sent == [e EXCEPT !.sent = TRUE]
           c == e.call
<1>1. /\ batch' = (batch \ {e}) \union {sent} /\ ~e.sent
      /\ queue' = [queue EXCEPT ![e.call] = @ + 1]
      /\ UNCHANGED <<latest, outbox, run, overdue, repeated>>
  BY DEF Send
<1>2. /\ e \in ClaimedEvents /\ e.call \in Calls /\ e.n \in DOMAIN outbox[e.call]
      /\ sent.call = e.call /\ sent.n = e.n /\ sent.sent
      /\ sent = [call |-> e.call, n |-> e.n, sent |-> TRUE]
      /\ queue \in [Calls -> Nat] /\ batch \subseteq ClaimedEvents
  <2>1. /\ e \in ClaimedEvents /\ e.n \in DOMAIN outbox[e.call]
        /\ queue \in [Calls -> Nat] /\ batch \subseteq ClaimedEvents
    BY MetadataTypes DEF MetadataInv, BatchKnown
  <2>2. e.call \in Calls /\ sent.call = e.call /\ sent.n = e.n /\ sent.sent = TRUE
    BY <2>1 DEF ClaimedEvents
  <2>3. sent \in ClaimedEvents
    BY <2>1 DEF ClaimedEvents
  <2> HIDE DEF sent
  <2>4. sent = [call |-> sent.call, n |-> sent.n, sent |-> sent.sent]
    BY <2>3 DEF ClaimedEvents
  <2> QED
    BY <2>1, <2>2, <2>4
<1> HIDE DEF sent
<1>3. /\ ~EventSent(c, e.n) /\ EventSent(c, e.n)'
      /\ \A d \in Calls : \A n \in DOMAIN outbox[d] :
            d # c \/ n # e.n => (EventSent(d, n)' <=> EventSent(d, n))
  <2>1. ~EventSent(c, e.n)
    BY <1>1, <1>2 DEF EventSent, RetriesInv, BatchOnce
  <2>2. EventSent(c, e.n)'
    BY <1>1, <1>2 DEF EventSent
  <2>3. ASSUME NEW d \in Calls, NEW n \in DOMAIN outbox[d], d # c \/ n # e.n
        PROVE  EventSent(d, n)' <=> EventSent(d, n)
    <3> DEFINE f == [call |-> d, n |-> n, sent |-> TRUE]
    <3>1. f.call = d /\ f.n = n
      OBVIOUS
    <3> HIDE DEF f
    <3>2. f # e /\ f # sent
      BY <1>2, <2>3, <3>1
    <3>3. f \in batch' <=> f \in batch
      BY <1>1, <3>2
    <3> QED
      BY <1>1, <3>3 DEF EventSent, f
  <2> QED
    BY <2>1, <2>2, <2>3
<1>4. \A d \in Calls : \A n \in DOMAIN outbox[d] : EventTaken(d, n)' => EventTaken(d, n)
  <2> TAKE d \in Calls
  <2> TAKE n \in DOMAIN outbox[d]
  <2> SUFFICES ASSUME NEW f \in batch', f.call = d, f.n = n, ~outbox[d][n].delivered
               PROVE  \E g \in batch : g.call = d /\ g.n = n
    BY <1>1 DEF EventTaken
  <2>1. f = sent \/ f \in batch
    BY <1>1
  <2> QED
    BY <1>2, <2>1
<1>5. BatchOnce'
  <2>1. \A f \in batch' : \E g \in batch :
           /\ f.call = g.call /\ f.n = g.n
           /\ f = IF g = e THEN sent ELSE g
    BY <1>1, <1>2
  <2> SUFFICES ASSUME NEW f \in batch'
               PROVE  /\ ~outbox[f.call][f.n].delivered
                      /\ \A g \in batch' : f.call = g.call /\ f.n = g.n => f = g
    BY <1>1 DEF BatchOnce
  <2> QED
    BY <2>1 DEF RetriesInv, BatchOnce
<1>6. NothingBefore'
  <2>1. outbox[c] # <<>>
    BY <1>2, MetadataTypes, EmptySeq
  <2> QED
    BY <1>1, <1>2, <2>1 DEF RetriesInv, NothingBefore
<1>7. LateEvents' /\ GivenUpAfterDeadline'
  BY <1>1, <1>4 DEF RetriesInv, LateEvents, GivenUpAfterDeadline
<1>8. ASSUME NEW d \in Calls, Pending(d)', d \notin repeated'
      PROVE  AskedOnce(d)'
  <2>1. Pending(d) /\ AskedOnce(d)
    BY <1>1, <1>8 DEF Pending, RetriesInv
  <2>2. CASE d # c
    <3>1. queue'[d] = queue[d]
      BY <1>1, <1>2, <2>2
    <3> QED
      BY <1>1, <1>3, <2>1, <2>2, <3>1, AskedOnceKept DEF Working
  <2>3. CASE d = c
    <3>1. Len(outbox[c]) \in Nat /\ e.n \in 1..Len(outbox[c])
          /\ DOMAIN outbox[c] = 1..Len(outbox[c])
      BY <1>2, MetadataTypes
    <3>2. e.n = Len(outbox[c]) /\ Idle(c)
      BY <1>3, <2>1, <2>3, <3>1 DEF AskedOnce
    <3>3. queue'[c] = 1
      BY <1>1, <1>2, <3>2 DEF Idle
    <3>4. \A n \in 1..(Len(outbox[c]) - 1) : EventSent(c, n)'
      BY <1>2, <1>3, <2>1, <2>3, <3>1, <3>2 DEF AskedOnce
    <3> QED
      BY <1>1, <1>3, <2>1, <2>3, <3>2, <3>3, <3>4 DEF AskedOnce, Idle, Working
  <2> QED
    BY <2>2, <2>3
<1> QED
  BY <1>5, <1>6, <1>7, <1>8 DEF RetriesInv

\* An event leaves the dispatcher's hands: released when it was not sent,
\* delivered when it was.
LEMMA SettledRetries ==
    ASSUME MetadataInv, RetriesInv, GivenUpAfterDeadline, NEW e \in batch,
           Release(e) \/ Acknowledge(e)
    PROVE  RetriesInv' /\ GivenUpAfterDeadline'
<1> DEFINE row == IF e.sent THEN [outbox[e.call][e.n] EXCEPT !.delivered = TRUE]
                            ELSE [outbox[e.call][e.n] EXCEPT !.claimed = FALSE]
<1>1. /\ batch' = batch \ {e}
      /\ outbox' = [outbox EXCEPT ![e.call][e.n] = row]
      /\ UNCHANGED <<latest, queue, run, overdue, repeated>>
  BY DEF Release, Acknowledge
<1>2. /\ e \in ClaimedEvents /\ e.call \in Calls /\ e.n \in DOMAIN outbox[e.call]
      /\ outbox \in [Calls -> Seq(OutboxRows)] /\ batch \subseteq ClaimedEvents
      /\ outbox[e.call][e.n] \in OutboxRows
  BY MetadataTypes DEF MetadataInv, BatchKnown, ClaimedEvents
<1>3. /\ row \in OutboxRows /\ row.late = outbox[e.call][e.n].late
      /\ row.delivered <=> (e.sent \/ outbox[e.call][e.n].delivered)
  BY <1>2 DEF OutboxRows
<1> HIDE DEF row
<1>4. /\ outbox' \in [Calls -> Seq(OutboxRows)]
      /\ \A d \in Calls :
            /\ Len(outbox'[d]) = Len(outbox[d])
            /\ DOMAIN outbox'[d] = DOMAIN outbox[d]
            /\ \A m \in DOMAIN outbox[d] :
                  outbox'[d][m] = IF d = e.call /\ m = e.n THEN row ELSE outbox[d][m]
  BY <1>1, <1>2, <1>3, MarkedRow
<1>5. ~outbox[e.call][e.n].delivered
      /\ \A f \in batch : f.call = e.call /\ f.n = e.n => f = e
  BY DEF RetriesInv, BatchOnce
<1>6. \A f \in batch' : outbox'[f.call][f.n] = outbox[f.call][f.n]
  BY <1>1, <1>2, <1>4, <1>5 DEF MetadataInv, BatchKnown, ClaimedEvents
<1>7. BatchOnce'
  BY <1>1, <1>6 DEF RetriesInv, BatchOnce
<1>8. ASSUME NEW d \in Calls, NEW n \in DOMAIN outbox[d]
      PROVE  /\ outbox'[d][n].late = outbox[d][n].late
             /\ EventTaken(d, n)' => EventTaken(d, n)
             /\ EventSent(d, n)' <=> EventSent(d, n)
  <2> DEFINE f == [call |-> d, n |-> n, sent |-> TRUE]
  <2>1. f.call = d /\ f.n = n /\ f.sent
    OBVIOUS
  <2>2. e = [call |-> e.call, n |-> e.n, sent |-> e.sent] /\ e.sent \in BOOLEAN
    BY <1>2 DEF ClaimedEvents
  <2>3. outbox'[d][n].late = outbox[d][n].late
    BY <1>3, <1>4, <1>8
  <2>4. EventTaken(d, n)' => EventTaken(d, n)
    BY <1>1, <1>3, <1>4, <1>8 DEF EventTaken
  <2>5. CASE d = e.call /\ n = e.n
    <3>1. f = e <=> e.sent
      BY <2>1, <2>2, <2>5
    <3> HIDE DEF f
    <3>2. f \in batch <=> e.sent
      BY <1>5, <2>1, <2>5, <3>1
    <3>3. f \notin batch'
      BY <1>1, <3>1, <3>2
    <3>4. outbox'[d][n].delivered <=> e.sent
      BY <1>3, <1>4, <1>5, <1>8, <2>5
    <3>5. EventSent(d, n)' <=> EventSent(d, n)
      BY <1>5, <2>5, <3>2, <3>3, <3>4 DEF EventSent, f
    <3> QED
      BY <2>3, <2>4, <3>5
  <2>6. CASE ~(d = e.call /\ n = e.n)
    <3>1. f # e
      BY <2>1, <2>6
    <3> HIDE DEF f
    <3>2. f \in batch' <=> f \in batch
      BY <1>1, <3>1
    <3>3. outbox'[d][n] = outbox[d][n]
      BY <1>4, <1>8, <2>6
    <3>4. EventSent(d, n)' <=> EventSent(d, n)
      BY <3>2, <3>3 DEF EventSent, f
    <3> QED
      BY <2>3, <2>4, <3>4
  <2> QED
    BY <2>5, <2>6
<1> QED
  BY <1>1, <1>4, <1>7, <1>8, RetriesKept DEF Working

\* A dispatcher that dies leaves its events as they are; the calls of those it
\* had sent are repeated ones.
LEMMA DispatcherDiesRetries ==
    ASSUME MetadataInv, RetriesInv, GivenUpAfterDeadline, DispatcherDies
    PROVE  RetriesInv' /\ GivenUpAfterDeadline'
<1>1. /\ batch' = {}
      /\ repeated' = repeated \union {e.call : e \in {f \in batch : f.sent}}
      /\ UNCHANGED <<latest, outbox, queue, run, overdue>>
  BY DEF DispatcherDies
<1>2. BatchOnce'
  BY <1>1 DEF BatchOnce
<1>3. ASSUME NEW c \in Calls, NEW n \in DOMAIN outbox[c]
      PROVE  /\ EventTaken(c, n)' => EventTaken(c, n)
             /\ c \notin repeated' => (EventSent(c, n)' <=> EventSent(c, n))
  <2> DEFINE f == [call |-> c, n |-> n, sent |-> TRUE]
  <2>1. f \in batch => c \in repeated'
    <3>1. f.call = c /\ f.sent
      OBVIOUS
    <3> HIDE DEF f
    <3> QED
      BY <1>1, <3>1
  <2>2. f \notin batch'
    BY <1>1
  <2> QED
    BY <1>1, <2>1, <2>2 DEF EventTaken, EventSent
<1> QED
  BY <1>1, <1>2, <1>3, MetadataTypes, RetriesKept DEF Working

\* A claim that lapses leaves what was sent, and what is in the dispatcher's
\* hands.
LEMMA ClaimLapsesRetries ==
    ASSUME MetadataInv, RetriesInv, GivenUpAfterDeadline,
           NEW c \in Calls, NEW n \in DOMAIN outbox[c], ClaimLapses(c, n)
    PROVE  RetriesInv' /\ GivenUpAfterDeadline'
<1> DEFINE row == [outbox[c][n] EXCEPT !.claimed = FALSE]
<1>1. /\ outbox' = [outbox EXCEPT ![c][n] = row]
      /\ UNCHANGED <<latest, batch, queue, run, overdue, repeated>>
  BY DEF ClaimLapses
<1>2. outbox[c][n] \in OutboxRows /\ outbox \in [Calls -> Seq(OutboxRows)]
  BY MetadataTypes
<1>3. /\ row \in OutboxRows /\ row.late = outbox[c][n].late
      /\ row.delivered = outbox[c][n].delivered
  BY <1>2 DEF OutboxRows
<1> HIDE DEF row
<1>4. /\ outbox' \in [Calls -> Seq(OutboxRows)]
      /\ \A d \in Calls :
            /\ Len(outbox'[d]) = Len(outbox[d])
            /\ \A m \in DOMAIN outbox[d] :
                  /\ outbox'[d][m].late = outbox[d][m].late
                  /\ outbox'[d][m].delivered = outbox[d][m].delivered
  BY <1>1, <1>2, <1>3, MarkedRow
<1>5. BatchOnce'
  BY <1>1, <1>4, MetadataTypes DEF RetriesInv, BatchOnce, MetadataInv, BatchKnown,
     ClaimedEvents
<1>6. \A d \in Calls : \A m \in DOMAIN outbox[d] :
         /\ EventTaken(d, m)' => EventTaken(d, m)
         /\ EventSent(d, m)' <=> EventSent(d, m)
  BY <1>1, <1>4 DEF EventTaken, EventSent
<1> QED
  BY <1>1, <1>4, <1>5, <1>6, RetriesKept DEF Working

\* A run that ends has appended its event.
LEMMA CompleteRetries ==
    ASSUME MetadataConstants, MetadataInv, RetriesInv, GivenUpAfterDeadline,
           NEW w \in Workers, Complete(w)
    PROVE  RetriesInv' /\ GivenUpAfterDeadline'
<1>1. /\ run[w].appended
      /\ run' = [run EXCEPT ![w] = NoRun]
      /\ UNCHANGED <<latest, outbox, batch, queue, overdue, repeated>>
      /\ run \in [Workers -> Runs]
  BY MetadataTypes DEF Complete
<1>2. \A v \in Workers, c \in Calls :
         /\ run'[v].call = c => run[v].call = c
         /\ Working(v, c)' <=> Working(v, c)
         /\ Working(v, c) => run'[v].number = run[v].number
  BY <1>1 DEF Working, NoRun, MetadataConstants
<1>3. BatchOnce'
  BY <1>1 DEF RetriesInv, BatchOnce
<1>4. \A c \in Calls : \A n \in DOMAIN outbox[c] :
         /\ EventTaken(c, n)' => EventTaken(c, n)
         /\ EventSent(c, n)' <=> EventSent(c, n)
  BY <1>1 DEF EventTaken, EventSent
<1> QED
  BY <1>1, <1>2, <1>3, <1>4, MetadataTypes, RetriesKept

\* Where the message of a call is matters for this call only.
LEMMA MessageMoves ==
    ASSUME MetadataInv, RetriesInv, GivenUpAfterDeadline, NEW c \in Calls,
           UNCHANGED <<latest, outbox, batch, overdue>>, repeated \subseteq repeated',
           latest[c].number # 0,
           \A d \in Calls \ {c} :
              /\ queue'[d] = queue[d]
              /\ \A w \in Workers :
                    /\ run'[w].call = d => run[w].call = d
                    /\ Working(w, d)' <=> Working(w, d)
                    /\ Working(w, d) => run'[w].number = run[w].number,
           Pending(c) /\ c \notin repeated' => AskedOnce(c)'
    PROVE  RetriesInv' /\ GivenUpAfterDeadline'
<1>1. NothingBefore' /\ BatchOnce'
  BY DEF RetriesInv, NothingBefore, BatchOnce
<1>2. LateEvents' /\ GivenUpAfterDeadline'
  BY DEF RetriesInv, LateEvents, GivenUpAfterDeadline, EventTaken
<1>3. ASSUME NEW d \in Calls, Pending(d)', d \notin repeated'
      PROVE  AskedOnce(d)'
  <2>1. Pending(d) /\ AskedOnce(d)
    BY <1>3 DEF Pending, RetriesInv
  <2>2. CASE d = c
    BY <1>3, <2>1, <2>2
  <2>3. CASE d # c
    BY <2>1, <2>3, AskedOnceKept DEF EventSent
  <2> QED
    BY <2>2, <2>3
<1> QED
  BY <1>1, <1>2, <1>3 DEF RetriesInv

\* The message of a call that waits is in one run, or there was none to receive.
LEMMA ReceiveRetries ==
    ASSUME MetadataConstants, MetadataInv, RetriesInv, GivenUpAfterDeadline,
           NEW w \in Workers, NEW c \in Calls, Receive(w, c)
    PROVE  RetriesInv' /\ GivenUpAfterDeadline'
<1> DEFINE new == IF Pending(c)
                  THEN [call |-> c, number |-> latest[c].number, appended |-> FALSE]
                  ELSE NoRun
<1>1. /\ run[w] = NoRun /\ queue[c] > 0
      /\ queue' = [queue EXCEPT ![c] = @ - 1]
      /\ run' = [run EXCEPT ![w] = new]
      /\ UNCHANGED <<latest, outbox, batch, overdue, repeated>>
  BY DEF Receive
<1>2. run \in [Workers -> Runs] /\ queue \in [Calls -> Nat]
  BY MetadataTypes
<1>3. /\ NULL \notin Calls /\ run[w].call = NULL
      /\ ~Pending(c) => new.call = NULL
      /\ Pending(c) => new.call = c /\ new.number = latest[c].number /\ ~new.appended
  BY <1>1 DEF NoRun, MetadataConstants
<1> HIDE DEF new
<1>4. /\ \A d \in Calls : queue'[d] = IF d = c THEN queue[d] - 1 ELSE queue[d]
      /\ \A v \in Workers : run'[v] = IF v = w THEN new ELSE run[v]
  BY <1>1, <1>2
<1>5. latest[c].number # 0
  BY <1>1 DEF RetriesInv, NothingBefore
<1>6. ASSUME Pending(c), c \notin repeated'
      PROVE  AskedOnce(c)'
  <2>1. AskedOnce(c)
    BY <1>1, <1>6 DEF RetriesInv
  <2>2. /\ EventSent(c, Len(outbox[c])) /\ queue[c] = 1
        /\ \A v \in Workers : ~Working(v, c)
    BY <1>1, <2>1 DEF AskedOnce, Idle
  <2>3. queue'[c] = 0
    BY <1>4, <2>2
  <2>4. /\ Working(w, c)' /\ run'[w].number = latest[c].number
        /\ \A v \in Workers : Working(v, c)' => v = w
    BY <1>3, <1>4, <1>6, <2>2 DEF Working
  <2>5. \A n : EventSent(c, n)' <=> EventSent(c, n)
    BY <1>1 DEF EventSent
  <2> QED
    BY <1>1, <2>1, <2>2, <2>3, <2>4, <2>5 DEF AskedOnce
<1>7. \A d \in Calls \ {c} :
         /\ queue'[d] = queue[d]
         /\ \A v \in Workers :
               /\ run'[v].call = d => run[v].call = d
               /\ Working(v, d)' <=> Working(v, d)
               /\ Working(v, d) => run'[v].number = run[v].number
  BY <1>3, <1>4 DEF Working
<1> QED
  BY <1>1, <1>5, <1>6, <1>7, MessageMoves

\* The message of a run that had not appended anything is back; if it had, it
\* will be handled once more.
LEMMA WorkerLostRetries ==
    ASSUME MetadataConstants, MetadataInv, RetriesInv, GivenUpAfterDeadline,
           NEW w \in Workers, WorkerLost(w), NEW c \in Calls, run[w].call = c
    PROVE  RetriesInv' /\ GivenUpAfterDeadline'
<1>1. /\ run[w] # NoRun
      /\ run' = [run EXCEPT ![w] = NoRun]
      /\ queue' = [queue EXCEPT ![c] = @ + 1]
      /\ repeated' = IF run[w].appended THEN repeated \union {c} ELSE repeated
      /\ UNCHANGED <<latest, outbox, batch, overdue>>
  BY DEF WorkerLost
<1>2. run \in [Workers -> Runs] /\ queue \in [Calls -> Nat]
  BY MetadataTypes
<1>3. NoRun.call \notin Calls
  BY DEF NoRun, MetadataConstants
<1>4. /\ \A d \in Calls : queue'[d] = IF d = c THEN queue[d] + 1 ELSE queue[d]
      /\ \A v \in Workers : run'[v] = IF v = w THEN NoRun ELSE run[v]
  BY <1>1, <1>2
<1>5. latest[c].number # 0
  BY DEF RetriesInv, NothingBefore
<1>6. ASSUME Pending(c), c \notin repeated'
      PROVE  AskedOnce(c)'
  <2>1. AskedOnce(c) /\ ~run[w].appended
    BY <1>1, <1>2, <1>6 DEF RetriesInv
  <2>2. /\ EventSent(c, Len(outbox[c])) /\ queue[c] = 0
        /\ \A v \in Workers : Working(v, c) => v = w
    BY <2>1 DEF AskedOnce, Idle, Working
  <2>3. queue'[c] = 1
    BY <1>2, <1>4, <2>2
  <2>4. \A v \in Workers : ~Working(v, c)'
    BY <1>3, <1>4, <2>2 DEF Working
  <2>5. \A n : EventSent(c, n)' <=> EventSent(c, n)
    BY <1>1 DEF EventSent
  <2> QED
    BY <1>1, <2>1, <2>2, <2>3, <2>4, <2>5 DEF AskedOnce
<1>7. \A d \in Calls \ {c} :
         /\ queue'[d] = queue[d]
         /\ \A v \in Workers :
               /\ run'[v].call = d => run[v].call = d
               /\ Working(v, d)' <=> Working(v, d)
               /\ Working(v, d) => run'[v].number = run[v].number
  BY <1>3, <1>4 DEF Working
<1>8. repeated \subseteq repeated'
  BY <1>1
<1> QED
  BY <1>1, <1>5, <1>6, <1>7, <1>8, MessageMoves

\* A call whose events have all been sent and handled gets its next one.
LEMMA ScheduleRetries ==
    ASSUME MetadataInv, RetriesInv, GivenUpAfterDeadline,
           NEW c \in Calls, NEW late \in BOOLEAN, ScheduleRetry(c, late),
           UNCHANGED <<batch, queue, overdue, repeated>>,
           \A w \in Workers, d \in Calls :
              /\ run'[w].call = d => run[w].call = d
              /\ d # c => (Working(w, d)' <=> Working(w, d))
              /\ Working(w, d)' => run'[w].number = run[w].number,
           c \notin repeated =>
              /\ latest[c].number = Len(outbox[c])
              /\ \A n \in DOMAIN outbox[c] : EventSent(c, n)
              /\ Idle(c)'
              /\ Len(outbox[c]) > RetryDelays => late
    PROVE  RetriesInv' /\ GivenUpAfterDeadline'
<1>1. /\ latest \in [Calls -> MetadataEvents]
      /\ outbox \in [Calls -> Seq(OutboxRows)]
      /\ batch \subseteq ClaimedEvents
      /\ \A d \in Calls : /\ Len(outbox[d]) \in Nat
                          /\ DOMAIN outbox[d] = 1..Len(outbox[d])
      /\ \A e \in batch : e.call \in Calls /\ e.n \in DOMAIN outbox[e.call]
  BY MetadataTypes DEF MetadataInv, BatchKnown, ClaimedEvents
<1> PICK N \in Nat : N = Len(outbox[c])
  BY <1>1
<1>2. /\ NewRow(late) \in OutboxRows
      /\ ~NewRow(late).delivered /\ NewRow(late).late = late
  BY DEF NewRow, OutboxRows
<1>3. /\ \A d \in Calls \ {c} : latest'[d] = latest[d] /\ outbox'[d] = outbox[d]
      /\ latest'[c].number = latest[c].number + 1
      /\ latest'[c].status = "retry_scheduled"
      /\ outbox'[c] = Append(outbox[c], NewRow(late))
  BY <1>1 DEF ScheduleRetry, AppendEvent
<1>4. /\ Len(outbox'[c]) = N + 1
      /\ DOMAIN outbox'[c] = 1..(N + 1)
      /\ \A n \in DOMAIN outbox[c] : outbox'[c][n] = outbox[c][n]
      /\ outbox'[c][N + 1] = NewRow(late)
  <2>1. outbox[c] \in Seq(OutboxRows)
    BY <1>1
  <2> QED
    BY <1>2, <1>3, <2>1, AppendProperties
<1>5. N + 1 \notin DOMAIN outbox[c] /\ DOMAIN outbox[c] = 1..N
  BY <1>1
<1>6. \A n \in DOMAIN outbox'[c] : n \in DOMAIN outbox[c] \/ n = N + 1
  BY <1>4, <1>5
<1>7. \A e \in batch : outbox'[e.call][e.n] = outbox[e.call][e.n]
  BY <1>1, <1>3, <1>4
<1>8. BatchOnce'
  BY <1>7 DEF RetriesInv, BatchOnce
<1>9. NothingBefore'
  <2>1. latest[c].number \in Nat
    BY <1>1 DEF MetadataEvents
  <2> QED
    BY <1>3, <2>1 DEF RetriesInv, NothingBefore
<1>10. GivenUpAfterDeadline'
  BY <1>3 DEF GivenUpAfterDeadline
<1>11. /\ ~EventTaken(c, N + 1)' /\ ~EventSent(c, N + 1)'
       /\ \A n \in DOMAIN outbox[c] : /\ EventTaken(c, n)' <=> EventTaken(c, n)
                                      /\ EventSent(c, n)' <=> EventSent(c, n)
  <2>1. \A e \in batch : ~(e.call = c /\ e.n = N + 1)
    BY <1>1, <1>5
  <2>2. [call |-> c, n |-> N + 1, sent |-> TRUE] \notin batch
    BY <2>1
  <2> QED
    BY <1>2, <1>4, <2>1, <2>2 DEF EventTaken, EventSent
<1>12. LateEvents'
  <2> SUFFICES ASSUME NEW d \in Calls, NEW n \in DOMAIN outbox'[d]
               PROVE  /\ outbox'[d][n].late /\ EventTaken(d, n)' => overdue[d]
                      /\ d \notin repeated /\ n > RetryDelays + 1 => outbox'[d][n].late
    BY DEF LateEvents
  <2>1. CASE d # c
    BY <1>3, <2>1 DEF RetriesInv, LateEvents, EventTaken
  <2>2. CASE d = c /\ n \in DOMAIN outbox[c]
    BY <1>4, <1>11, <2>2 DEF RetriesInv, LateEvents
  <2>3. CASE d = c /\ n = N + 1
    BY <1>2, <1>4, <1>5, <1>11, <2>3 DEF RetryDelays
  <2> QED
    BY <1>6, <2>1, <2>2, <2>3
<1>13. ASSUME NEW d \in Calls, Pending(d)', d \notin repeated'
       PROVE  AskedOnce(d)'
  <2>1. CASE d = c
    <3>1. /\ latest'[c].number = Len(outbox'[c])
          /\ \A n \in 1..(Len(outbox'[c]) - 1) : EventSent(c, n)'
          /\ \A n : n = Len(outbox'[c]) => ~EventSent(c, n)'
          /\ Idle(c)'
      BY <1>3, <1>4, <1>5, <1>11, <1>13, <2>1
    <3> QED
      BY <2>1, <3>1 DEF AskedOnce
  <2>2. CASE d # c
    <3>1. Pending(d) /\ AskedOnce(d) /\ latest'[d] = latest[d] /\ outbox'[d] = outbox[d]
      BY <1>3, <1>13, <2>2 DEF Pending, RetriesInv
    <3> QED
      BY <2>2, <3>1, AskedOnceKept DEF EventSent
  <2> QED
    BY <2>1, <2>2
<1> QED
  BY <1>8, <1>9, <1>10, <1>12, <1>13 DEF RetriesInv

\* ... or is settled, and not given up before the deadline.
LEMMA SettleRetries ==
    ASSUME MetadataInv, RetriesInv, GivenUpAfterDeadline,
           NEW c \in Calls, NEW status \in Statuses \ {"retry_scheduled"},
           AppendEvent(c, status), UNCHANGED <<outbox, batch, queue, overdue, repeated>>,
           \A w \in Workers, d \in Calls :
              /\ run'[w].call = d => run[w].call = d
              /\ d # c => (Working(w, d)' <=> Working(w, d))
              /\ Working(w, d)' => run'[w].number = run[w].number,
           status = "deadline_exceeded" /\ c \notin repeated => overdue[c]
    PROVE  RetriesInv' /\ GivenUpAfterDeadline'
<1>1. latest \in [Calls -> MetadataEvents]
  BY MetadataTypes
<1>2. /\ \A d \in Calls \ {c} : latest'[d] = latest[d]
      /\ latest'[c].number = latest[c].number + 1 /\ latest'[c].status = status
      /\ latest[c].number \in Nat
  BY <1>1 DEF AppendEvent, MetadataEvents
<1>3. NothingBefore' /\ BatchOnce'
  BY <1>2 DEF RetriesInv, NothingBefore, BatchOnce
<1>4. LateEvents' /\ GivenUpAfterDeadline'
  BY <1>2 DEF RetriesInv, LateEvents, GivenUpAfterDeadline, EventTaken
<1>5. ASSUME NEW d \in Calls, Pending(d)', d \notin repeated'
      PROVE  AskedOnce(d)'
  <2>1. d # c /\ Pending(d) /\ AskedOnce(d) /\ latest'[d] = latest[d]
    BY <1>2, <1>5 DEF Pending, RetriesInv
  <2> QED
    BY <2>1, AskedOnceKept DEF EventSent
<1> QED
  BY <1>3, <1>4, <1>5 DEF RetriesInv

\* The first event of a call: nothing has been asked before.
LEMMA AppendInitialRetries ==
    ASSUME MetadataInv, RetriesInv, GivenUpAfterDeadline,
           NEW c \in Calls, AppendInitial(c)
    PROVE  RetriesInv' /\ GivenUpAfterDeadline'
<1>1. /\ UNCHANGED <<batch, queue, run, overdue, repeated>>
      /\ latest[c].number = 0
  BY DEF AppendInitial
<1>2. PICK reply \in Replies \ UncaughtFailures : \E s \in InitialMetadata(reply) :
        \/ ScheduleRetry(c, FALSE)
        \/ s # "retry_scheduled" /\ AppendEvent(c, s) /\ UNCHANGED outbox
  BY DEF AppendInitial
<1>3. PICK status \in InitialMetadata(reply) :
        \/ ScheduleRetry(c, FALSE)
        \/ status # "retry_scheduled" /\ AppendEvent(c, status) /\ UNCHANGED outbox
  BY <1>2
<1>4. InitialMetadata(reply) \subseteq {"available", "retry_scheduled", "unavailable"}
  BY DEF InitialMetadata
<1>5. outbox[c] = <<>> /\ queue[c] = 0 /\ \A w \in Workers : run[w].call # c
  BY <1>1 DEF RetriesInv, NothingBefore
<1>6. Len(outbox[c]) = 0 /\ \A n \in DOMAIN outbox[c] : FALSE
  BY <1>5
<1>7. Idle(c)'
  BY <1>1, <1>5 DEF Idle, Working
<1>8. CASE ScheduleRetry(c, FALSE)
  <2>1. ~(Len(outbox[c]) > RetryDelays)
    BY <1>6 DEF RetryDelays
  <2>2. \A w \in Workers, d \in Calls :
           /\ run'[w].call = d => run[w].call = d
           /\ Working(w, d)' <=> Working(w, d)
           /\ run'[w].number = run[w].number
    BY <1>1 DEF Working
  <2> QED
    BY <1>1, <1>6, <1>7, <1>8, <2>1, <2>2, ScheduleRetries
<1>9. CASE status # "retry_scheduled" /\ AppendEvent(c, status) /\ UNCHANGED outbox
  <2>1. status \in Statuses \ {"retry_scheduled"} /\ status # "deadline_exceeded"
    BY <1>4, <1>9 DEF Statuses
  <2> QED
    BY <1>1, <1>9, <2>1, SettleRetries DEF Working
<1> QED
  BY <1>3, <1>8, <1>9

\* The next one, which a run appends for the newest event: that one has been
\* sent, and if it is one of those after the last delay it was due.
LEMMA AppendNextRetries ==
    ASSUME MetadataConstants, MetadataInv, RetriesInv, GivenUpAfterDeadline,
           NEW w \in Workers, AppendNext(w), NEW c \in Calls, run[w].call = c
    PROVE  RetriesInv' /\ GivenUpAfterDeadline'
<1>1. /\ ~run[w].appended
      /\ run' = [run EXCEPT ![w].appended = TRUE]
      /\ UNCHANGED <<batch, queue, overdue, repeated>>
      /\ IF Pending(c) THEN NextEvent(c, run[w].number) ELSE UNCHANGED <<latest, outbox>>
  BY DEF AppendNext
<1>2. run \in [Workers -> Runs] /\ latest \in [Calls -> MetadataEvents]
  BY MetadataTypes
<1>3. /\ \A v \in Workers :
            /\ run'[v].call = run[v].call
            /\ run'[v].number = run[v].number
            /\ v # w => run'[v] = run[v]
      /\ run'[w].appended
  BY <1>1, <1>2 DEF Runs
<1>4. \A v \in Workers, d \in Calls :
         /\ run'[v].call = d => run[v].call = d
         /\ d # c => (Working(v, d)' <=> Working(v, d))
         /\ run'[v].number = run[v].number
  BY <1>3 DEF Working
<1>5. CASE ~Pending(c)
  <2>1. UNCHANGED <<latest, outbox, batch, overdue, repeated>>
    BY <1>1, <1>5
  <2>2. latest[c].number # 0
    BY DEF RetriesInv, NothingBefore
  <2>3. UNCHANGED queue
    BY <1>1
  <2> QED
    BY <1>4, <1>5, <2>1, <2>2, <2>3, MessageMoves
<1>6. CASE Pending(c)
  <2> DEFINE number == run[w].number
  <2>1. NextEvent(c, number)
    BY <1>1, <1>6
  <2>2. Len(outbox[c]) \in Nat /\ Len(outbox[c]) > 0
        /\ DOMAIN outbox[c] = 1..Len(outbox[c])
    BY <1>6, MetadataTypes DEF MetadataInv, NewestPursued
  <2>3. ASSUME c \notin repeated
        PROVE  /\ latest[c].number = Len(outbox[c])
               /\ \A n \in DOMAIN outbox[c] : EventSent(c, n)
               /\ Idle(c)'
               /\ number = Len(outbox[c])
               /\ Len(outbox[c]) > RetryDelays + 1 => overdue[c]
    <3>1. AskedOnce(c) /\ Working(w, c)
      BY <1>1, <1>6, <2>3 DEF RetriesInv, Working
    <3>2. /\ latest[c].number = Len(outbox[c])
          /\ \A n \in 1..(Len(outbox[c]) - 1) : EventSent(c, n)
          /\ EventSent(c, Len(outbox[c])) /\ queue[c] = 0
          /\ number = Len(outbox[c])
          /\ \A v \in Workers : Working(v, c) => v = w
      BY <3>1 DEF AskedOnce, Idle
    <3>3. \A n \in DOMAIN outbox[c] : EventSent(c, n)
      BY <2>2, <3>2
    <3>4. Idle(c)'
      BY <1>1, <1>3, <3>2 DEF Idle, Working
    <3>5. EventTaken(c, Len(outbox[c]))
      BY <3>2 DEF EventSent, EventTaken
    <3>6. Len(outbox[c]) > RetryDelays + 1 => overdue[c]
      BY <2>2, <2>3, <3>5 DEF RetriesInv, LateEvents
    <3> QED
      BY <3>2, <3>3, <3>4, <3>6
  <2>4. CASE ScheduleRetry(c, AtDeadline(number))
    <3>1. AtDeadline(number) \in BOOLEAN
      BY DEF AtDeadline
    <3>2. c \notin repeated => (Len(outbox[c]) > RetryDelays => AtDeadline(number))
      BY <2>2, <2>3 DEF AtDeadline, RetryDelays
    <3> QED
      BY <1>1, <1>4, <2>3, <2>4, <3>1, <3>2, ScheduleRetries
  <2>5. CASE \E status \in Statuses \ {"retry_scheduled"} :
               /\ AppendEvent(c, status) /\ UNCHANGED outbox
               /\ status = "deadline_exceeded" =>
                     overdue[c] \/ TooManyRetries(c, number)
    <3>1. TooManyRetries(c, number) /\ c \notin repeated => overdue[c]
      BY <2>2, <2>3 DEF TooManyRetries, RetryDelays
    <3> QED
      BY <1>1, <1>4, <2>5, <3>1, SettleRetries
  <2>6. \/ ScheduleRetry(c, AtDeadline(number))
        \/ AppendEvent(c, "not_configured") /\ UNCHANGED outbox
        \/ AppendEvent(c, "available") /\ UNCHANGED outbox
        \/ /\ AppendEvent(c, "deadline_exceeded") /\ UNCHANGED outbox
           /\ overdue[c] \/ TooManyRetries(c, number)
    BY <2>1 DEF NextEvent
  <2>7. {"not_configured", "available", "deadline_exceeded"} \subseteq
           Statuses \ {"retry_scheduled"}
    BY DEF Statuses
  <2> HIDE DEF number
  <2> QED
    BY <2>4, <2>5, <2>6, <2>7
<1> QED
  BY <1>5, <1>6

-----------------------------------------------------------------------------
(* The theorems                                                            *)

LEMMA MetadataStepInv ==
    ASSUME MetadataConstants, MetadataInv, [MetadataNext]_metadataVars
    PROVE  MetadataInv'
<1>1. ASSUME NEW c \in Calls, Deadline(c)
      PROVE  MetadataInv'
  BY <1>1 DEF Deadline, MetadataInv, MetadataTypeOK, RunsBusy, BatchKnown,
              NewestPursued, Pending
<1>2. CASE UNCHANGED metadataVars
  BY <1>2 DEF metadataVars, MetadataInv, MetadataTypeOK, RunsBusy, BatchKnown,
              NewestPursued, Pending
<1>3. ASSUME NEW c \in Calls, AppendInitial(c)
      PROVE  MetadataInv'
  BY <1>3, AppendInitialInv
<1>4. CASE Dispatch
  BY <1>4, ClaimBatchInv, SendInv, AcknowledgeInv DEF Dispatch
<1>5. ASSUME NEW e \in batch, Release(e)
      PROVE  MetadataInv'
  BY <1>5, ReleaseInv
<1>6. CASE DispatcherDies
  BY <1>6, DispatcherDiesInv
<1>7. ASSUME NEW c \in Calls, NEW n \in DOMAIN outbox[c], ClaimLapses(c, n)
      PROVE  MetadataInv'
  BY <1>7, ClaimLapsesInv
<1>8. ASSUME NEW w \in Workers, Work(w) \/ WorkerLost(w)
      PROVE  MetadataInv'
  BY <1>8, ReceiveInv, AppendNextInv, CompleteInv, WorkerLostInv DEF Work
<1> QED
  BY <1>1, <1>2, <1>3, <1>4, <1>5, <1>6, <1>7, <1>8 DEF MetadataNext

\* Whatever dies, and however often, the newest outbox event of a call that
\* waits is pursued.
THEOREM MetadataSound == MetadataSpec => []MetadataInv
<1>1. MetadataInit => MetadataInv
  BY MetadataInitInv, MetadataConstants
<1>2. MetadataInv /\ [MetadataNext]_metadataVars => MetadataInv'
  BY MetadataStepInv, MetadataConstants
<1> QED
  BY <1>1, <1>2, PTL DEF MetadataSpec

\* A call that waits for its metadata is never forgotten: its retry is in the
\* outbox, in the broker or in the hands of a worker.
THEOREM RetriesPursued == MetadataSpec => []PendingIsPursued
<1>1. MetadataInv => PendingIsPursued
  <2> SUFFICES ASSUME MetadataInv, NEW c \in Calls, Pending(c)
               PROVE  \/ \E n \in DOMAIN outbox[c] : ~outbox[c][n].delivered
                      \/ queue[c] > 0
                      \/ \E w \in Workers : run[w].call = c /\ ~run[w].appended
    BY DEF PendingIsPursued
  <2>1. Len(outbox[c]) \in Nat /\ DOMAIN outbox[c] = 1..Len(outbox[c])
    BY MetadataTypes
  <2> QED
    BY <2>1 DEF MetadataInv, NewestPursued
<1> QED
  BY <1>1, MetadataSound, PTL

\* Every step keeps what is inductive about giving up.
LEMMA RetriesStep ==
    ASSUME MetadataConstants, MetadataInv, RetriesInv, GivenUpAfterDeadline,
           [MetadataNext]_metadataVars
    PROVE  RetriesInv' /\ GivenUpAfterDeadline'
<1>1. CASE UNCHANGED metadataVars
  <2>1. BatchOnce'
    BY <1>1 DEF metadataVars, RetriesInv, BatchOnce
  <2> QED
    BY <1>1, <2>1, MetadataTypes, RetriesKept DEF metadataVars, EventTaken, EventSent, Working
<1>2. CASE Dispatch
  BY <1>2, ClaimRetries, SendRetries, SettledRetries, ClaimBatchInv DEF Dispatch
<1>3. ASSUME NEW w \in Workers, AppendNext(w) \/ WorkerLost(w)
      PROVE  RetriesInv' /\ GivenUpAfterDeadline'
  <2>1. PICK c \in Calls : run[w].call = c
    BY <1>3 DEF AppendNext, WorkerLost, MetadataInv, RunsBusy
  <2> QED
    BY <1>3, <2>1, AppendNextRetries, WorkerLostRetries
<1>4. ASSUME NEW w \in Workers, Work(w)
      PROVE  RetriesInv' /\ GivenUpAfterDeadline'
  BY <1>3, <1>4, ReceiveRetries, CompleteRetries DEF Work
<1> QED
  BY <1>1, <1>2, <1>3, <1>4, AppendInitialRetries, DeadlineRetries, SettledRetries,
     DispatcherDiesRetries, ClaimLapsesRetries DEF MetadataNext

\* Giving up is giving up after the deadline, as long as no message of the call
\* was handled twice: the retry that counts too many was due only then.
THEOREM GivenUpInTime == MetadataSpec => []GivenUpAfterDeadline
<1> DEFINE Inv == MetadataInv /\ RetriesInv /\ GivenUpAfterDeadline
<1>1. MetadataInit => Inv
  BY MetadataInitInv, RetriesInit, MetadataConstants
<1>2. Inv /\ [MetadataNext]_metadataVars => Inv'
  BY MetadataStepInv, RetriesStep, MetadataConstants
<1>3. Inv => GivenUpAfterDeadline
  OBVIOUS
<1> QED
  BY <1>1, <1>2, <1>3, PTL DEF MetadataSpec
=============================================================================
