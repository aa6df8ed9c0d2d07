---------------------------- MODULE CallMetadata ----------------------------
(***************************************************************************)
(* What a model call cost, when its answer did not say: the call gets an   *)
(* append-only sequence of metadata events, and every event that schedules *)
(* a retry puts, in the same transaction, an event into the outbox.  The   *)
(* dispatcher claims what is due, sends a message for it and acknowledges; *)
(* a worker that receives the message asks the provider and appends the    *)
(* next event, until one of them is final.                                 *)
(*                                                                         *)
(* Nothing else asks again: a retry lives in its outbox event, its message *)
(* or its run.  Dispatchers and workers may die at any point; the broker   *)
(* redelivers what a lost worker had not acknowledged.                     *)
(*                                                                         *)
(* Time: overdue[c] says that 24 hours have passed since the call.  What   *)
(* is to be retried after minutes or hours may be due at any moment, what  *)
(* is to be retried at the deadline only when it has passed.               *)
(***************************************************************************)
EXTENDS ModelProvider

CONSTANTS
    Calls,          \* calls of the language model
    Workers,        \* worker processes
    MaxFaults,      \* bound: deaths and unreachable brokers of a behaviour
    NULL

ASSUME MetadataConstants ==
    /\ MaxFaults \in Nat
    /\ NULL \notin Calls

VARIABLES
    scope,          \* whether a call is a tenant's or the platform's
    latest,         \* llm_call_metadata_events: number and newest status
    outbox,         \* platform_outbox_events and tenant_outbox_events
    batch,          \* what the dispatcher has claimed and not yet settled
    queue,          \* messages in the broker, by call
    run,            \* what each worker is doing
    overdue,        \* the deadline of the call has passed
    repeated,       \* calls a message of which was handled once more
    faults          \* faults so far

metadataVars == <<scope, latest, outbox, batch, queue, run, overdue, repeated, faults>>

\* len(_RETRY_DELAYS_SECONDS).
RetryDelays == 4

Statuses == {"none", "retry_scheduled", "available", "unavailable",
             "not_configured", "deadline_exceeded"}

MetadataEvents == [number : Nat, status : Statuses]

\* late: available at the deadline; claimed: by a claim that has not lapsed.
OutboxRows == [late : BOOLEAN, claimed : BOOLEAN, delivered : BOOLEAN]

NewRow(late) == [late |-> late, claimed |-> FALSE, delivered |-> FALSE]

\* An event in the dispatcher's hands: the n-th of call c.
ClaimedEvents == [call : Calls, n : Nat \ {0}, sent : BOOLEAN]

\* number: the sequence number of the event that the run has read.
Runs == [call : Calls \union {NULL}, number : Nat, appended : BOOLEAN]

NoRun == [call |-> NULL, number |-> 0, appended |-> FALSE]

MetadataTypeOK ==
    /\ scope \in [Calls -> {"platform", "tenant"}]
    /\ latest \in [Calls -> MetadataEvents]
    /\ outbox \in [Calls -> Seq(OutboxRows)]
    /\ batch \subseteq ClaimedEvents
    /\ queue \in [Calls -> Nat]
    /\ run \in [Workers -> Runs]
    /\ overdue \in [Calls -> BOOLEAN]
    /\ repeated \subseteq Calls
    /\ faults \in Nat

MetadataInit ==
    /\ scope \in [Calls -> {"platform", "tenant"}]
    /\ latest = [c \in Calls |-> [number |-> 0, status |-> "none"]]
    /\ outbox = [c \in Calls |-> <<>>]
    /\ batch = {}
    /\ queue = [c \in Calls |-> 0]
    /\ run = [w \in Workers |-> NoRun]
    /\ overdue = [c \in Calls |-> FALSE]
    /\ repeated = {}
    /\ faults = 0

-----------------------------------------------------------------------------

Pending(c) == latest[c].status = "retry_scheduled"

Fault ==
    /\ faults < MaxFaults
    /\ faults' = faults + 1

\* The next event of a call, under its advisory lock.
AppendEvent(c, status) ==
    latest' = [latest EXCEPT ![c] = [number |-> @.number + 1, status |-> status]]

\* ... and the outbox event of one that schedules a retry.
ScheduleRetry(c, late) ==
    /\ AppendEvent(c, "retry_scheduled")
    /\ outbox' = [outbox EXCEPT ![c] = Append(@, NewRow(late))]

\* _append_initial_metadata.
AppendInitial(c) ==
    /\ latest[c].number = 0
    /\ \E reply \in Replies \ UncaughtFailures :
       \E status \in InitialMetadata(reply) :
          \/ status = "retry_scheduled" /\ ScheduleRetry(c, FALSE)
          \/ status # "retry_scheduled" /\ AppendEvent(c, status) /\ UNCHANGED outbox
    /\ UNCHANGED <<scope, batch, queue, run, overdue, repeated, faults>>

\* 24 hours pass; nobody waits for calls that are settled.
Deadline(c) ==
    /\ Pending(c)
    /\ ~overdue[c]
    /\ overdue' = [overdue EXCEPT ![c] = TRUE]
    /\ UNCHANGED <<scope, latest, outbox, batch, queue, run, repeated, faults>>

-----------------------------------------------------------------------------
(* The dispatcher                                                          *)

\* claim_platform_outbox_batch, claim_tenant_outbox_batch.
Claimable(c, n) ==
    /\ ~outbox[c][n].delivered
    /\ ~outbox[c][n].claimed
    /\ outbox[c][n].late => overdue[c]

ClaimBatch ==
    LET due == UNION {{[call |-> c, n |-> n, sent |-> FALSE] :
                          n \in {m \in DOMAIN outbox[c] : Claimable(c, m)}} : c \in Calls}
    IN
    /\ batch = {}
    /\ due # {}
    /\ batch' = due
    /\ outbox' = [c \in Calls |-> [n \in DOMAIN outbox[c] |->
          [outbox[c][n] EXCEPT !.claimed = @ \/ Claimable(c, n)]]]
    /\ UNCHANGED <<scope, latest, queue, run, overdue, repeated, faults>>

\* send_task reaches the broker.
Send(e) ==
    /\ e \in batch
    /\ ~e.sent
    /\ batch' = (batch \ {e}) \union {[e EXCEPT !.sent = TRUE]}
    /\ queue' = [queue EXCEPT ![e.call] = @ + 1]
    /\ UNCHANGED <<scope, latest, outbox, run, overdue, repeated, faults>>

\* ... or does not, and the claim is released.
Release(e) ==
    /\ e \in batch
    /\ ~e.sent
    /\ Fault
    /\ batch' = batch \ {e}
    /\ outbox' = [outbox EXCEPT ![e.call][e.n].claimed = FALSE]
    /\ UNCHANGED <<scope, latest, queue, run, overdue, repeated>>

\* Slip: whether the broker was reached is not asked.
AcknowledgeAnyway(e) ==
    /\ e \in batch
    /\ batch' = batch \ {e}
    /\ outbox' = [outbox EXCEPT ![e.call][e.n].delivered = TRUE]
    /\ UNCHANGED <<scope, latest, queue, run, overdue, repeated, faults>>

Acknowledge(e) ==
    /\ e \in batch
    /\ e.sent
    /\ batch' = batch \ {e}
    /\ outbox' = [outbox EXCEPT ![e.call][e.n].delivered = TRUE]
    /\ UNCHANGED <<scope, latest, queue, run, overdue, repeated, faults>>

\* The dispatcher dies and another takes its place: what was sent and not
\* acknowledged will be sent once more.
DispatcherDies ==
    /\ batch # {}
    /\ Fault
    /\ batch' = {}
    /\ repeated' = repeated \union {e.call : e \in {f \in batch : f.sent}}
    /\ UNCHANGED <<scope, latest, outbox, queue, run, overdue>>

\* The claim of a dispatcher that died lapses after _CLAIM_LEASE_SECONDS.
ClaimLapses(c, n) ==
    /\ n \in DOMAIN outbox[c]
    /\ outbox[c][n].claimed
    /\ ~outbox[c][n].delivered
    /\ \A e \in batch : ~(e.call = c /\ e.n = n)
    /\ outbox' = [outbox EXCEPT ![c][n].claimed = FALSE]
    /\ UNCHANGED <<scope, latest, batch, queue, run, overdue, repeated, faults>>

-----------------------------------------------------------------------------
(* Workers                                                                 *)

\* A worker receives a message.  _load_pending: a settled call needs nothing.
Receive(w, c) ==
    /\ run[w] = NoRun
    /\ queue[c] > 0
    /\ queue' = [queue EXCEPT ![c] = @ - 1]
    /\ run' = [run EXCEPT ![w] =
          IF Pending(c) THEN [call |-> c, number |-> latest[c].number, appended |-> FALSE]
                        ELSE NoRun]
    /\ UNCHANGED <<scope, latest, outbox, batch, overdue, repeated, faults>>

\* Slip: one event fewer.
TooManyRetriesEarly(c, number) == scope[c] = "platform" /\ number >= RetryDelays + 1

\* The platform's calls are given up after a fixed number of events.
TooManyRetries(c, number) == scope[c] = "platform" /\ number >= RetryDelays + 2

\* next_metadata_retry_at: the retry is the last one, at the deadline.
AtDeadline(number) == number - 1 >= RetryDelays

\* What a run decides from the event it has read, and appends to the newest.
NextEvent(c, number) ==
    \/ AppendEvent(c, "not_configured") /\ UNCHANGED outbox
    \/ /\ TooManyRetries(c, number)
       /\ AppendEvent(c, "deadline_exceeded")
       /\ UNCHANGED outbox
    \/ /\ ~TooManyRetries(c, number)
       /\ \/ AppendEvent(c, "available") /\ UNCHANGED outbox
          \/ overdue[c] /\ AppendEvent(c, "deadline_exceeded") /\ UNCHANGED outbox
          \/ ~overdue[c] /\ ScheduleRetry(c, AtDeadline(number))

\* fetch_generation has answered or failed: _append_available,
\* _append_retry_or_unavailable, _append_unavailable, if _locked_pending still
\* finds the call waiting.
AppendNext(w) ==
    LET c == run[w].call IN
    /\ run[w] # NoRun
    /\ ~run[w].appended
    /\ IF Pending(c) THEN NextEvent(c, run[w].number) ELSE UNCHANGED <<latest, outbox>>
    /\ run' = [run EXCEPT ![w].appended = TRUE]
    /\ UNCHANGED <<scope, batch, queue, overdue, repeated, faults>>

\* acks_late: the message is acknowledged when the run has ended.
Complete(w) ==
    /\ run[w].appended
    /\ run' = [run EXCEPT ![w] = NoRun]
    /\ UNCHANGED <<scope, latest, outbox, batch, queue, overdue, repeated, faults>>

\* A run may end by an exception, too, of the HTTP library or of the database:
\* acks_late acknowledges its message all the same (RaisingSpec).
Raise(w) ==
    /\ run[w] # NoRun
    /\ ~run[w].appended
    /\ Fault
    /\ run' = [run EXCEPT ![w] = NoRun]
    /\ UNCHANGED <<scope, latest, outbox, batch, queue, overdue, repeated>>

\* Slip: messages are acknowledged when they are received.
WorkerLostForGood(w) ==
    /\ run[w] # NoRun
    /\ Fault
    /\ run' = [run EXCEPT ![w] = NoRun]
    /\ UNCHANGED <<scope, latest, outbox, batch, queue, overdue, repeated>>

\* The worker is lost (reject_on_worker_lost): the message goes back.
WorkerLost(w) ==
    LET c == run[w].call IN
    /\ run[w] # NoRun
    /\ Fault
    /\ run' = [run EXCEPT ![w] = NoRun]
    /\ queue' = [queue EXCEPT ![c] = @ + 1]
    /\ repeated' = IF run[w].appended THEN repeated \union {c} ELSE repeated
    /\ UNCHANGED <<scope, latest, outbox, batch, overdue>>

-----------------------------------------------------------------------------

Dispatch ==
    \/ ClaimBatch
    \/ \E e \in batch : Send(e) \/ Acknowledge(e)

Work(w) ==
    \/ \E c \in Calls : Receive(w, c)
    \/ AppendNext(w)
    \/ Complete(w)

MetadataNext ==
    \/ \E c \in Calls : AppendInitial(c) \/ Deadline(c)
    \/ Dispatch
    \/ \E e \in batch : Release(e)
    \/ DispatcherDies
    \/ \E c \in Calls : \E n \in DOMAIN outbox[c] : ClaimLapses(c, n)
    \/ \E w \in Workers : Work(w) \/ WorkerLost(w)

MetadataSpec == MetadataInit /\ [][MetadataNext]_metadataVars

\* The dispatcher loops, workers consume, leases and deadlines pass.
MetadataFairness ==
    /\ WF_metadataVars(Dispatch)
    /\ \A w \in Workers : WF_metadataVars(Work(w))
    /\ \A c \in Calls :
          /\ WF_metadataVars(Deadline(c))
          /\ WF_metadataVars(\E n \in DOMAIN outbox[c] : ClaimLapses(c, n))

MetadataFairSpec == MetadataSpec /\ MetadataFairness

\* The same, with runs that an uncaught exception may end.
RaisingSpec ==
    /\ MetadataInit
    /\ [][MetadataNext \/ \E w \in Workers : Raise(w)]_metadataVars
    /\ MetadataFairness

-----------------------------------------------------------------------------
(* Invariants                                                              *)

\* A worker works on a call, or has no run.
RunsBusy == \A w \in Workers : run[w] # NoRun => run[w].call \in Calls

BatchKnown == \A e \in batch : e.n \in DOMAIN outbox[e.call]

\* The newest outbox event of a call that waits has not been sent, or what it
\* has sent is on its way.
NewestPursued ==
    \A c \in Calls :
        LET n == Len(outbox[c]) IN
        Pending(c) =>
            /\ n > 0
            /\ \/ /\ ~outbox[c][n].delivered
                  /\ \A e \in batch : e.call = c /\ e.n = n => ~e.sent
               \/ queue[c] > 0
               \/ \E w \in Workers : run[w].call = c /\ ~run[w].appended

\* The inductive invariant.
MetadataInv ==
    /\ MetadataTypeOK
    /\ RunsBusy
    /\ BatchKnown
    /\ NewestPursued

\* The n-th outbox event of call c has been sent.
EventSent(c, n) ==
    \/ outbox[c][n].delivered
    \/ [call |-> c, n |-> n, sent |-> TRUE] \in batch

\* ... or is in the dispatcher's hands.
EventTaken(c, n) ==
    \/ outbox[c][n].delivered
    \/ \E e \in batch : e.call = c /\ e.n = n

Working(w, c) == run[w].call = c /\ ~run[w].appended

Idle(c) == queue[c] = 0 /\ \A w \in Workers : ~Working(w, c)

\* Nothing is asked for a call before its first event.
NothingBefore ==
    \A c \in Calls :
        latest[c].number = 0 =>
            outbox[c] = <<>> /\ queue[c] = 0 /\ \A w \in Workers : run[w].call # c

\* The dispatcher has an event once, and until it is delivered.
BatchOnce ==
    \A e \in batch :
        /\ ~outbox[e.call][e.n].delivered
        /\ \A f \in batch : e.call = f.call /\ e.n = f.n => e = f

\* What is available at the deadline is claimed after it, and so is every event
\* after the last delay, as long as no message was handled twice.
LateEvents ==
    \A c \in Calls : \A n \in DOMAIN outbox[c] :
        /\ outbox[c][n].late /\ EventTaken(c, n) => overdue[c]
        /\ c \notin repeated /\ n > RetryDelays + 1 => outbox[c][n].late

\* A call that waits has been asked for once for each of its events: the newest
\* one has still to be sent, or is in one message or one run that has read it.
AskedOnce(c) ==
    LET newest == Len(outbox[c]) IN
    /\ latest[c].number = newest
    /\ \A n \in 1..(newest - 1) : EventSent(c, n)
    /\ \/ ~EventSent(c, newest) /\ Idle(c)
       \/ EventSent(c, newest) /\ queue[c] = 1 /\ \A w \in Workers : ~Working(w, c)
       \/ /\ EventSent(c, newest)
          /\ queue[c] = 0
          /\ \E w \in Workers :
                /\ Working(w, c)
                /\ run[w].number = newest
                /\ \A v \in Workers : Working(v, c) => v = w

\* What is inductive about giving up, with MetadataInv.
RetriesInv ==
    /\ NothingBefore
    /\ BatchOnce
    /\ LateEvents
    /\ \A c \in Calls : Pending(c) /\ c \notin repeated => AskedOnce(c)

-----------------------------------------------------------------------------
(* Properties                                                              *)

\* A call that waits for its metadata is never forgotten: the retry is in an
\* outbox event that is still to be delivered, in a message, or in the hands of
\* a worker, whatever dies in between (the transactional outbox, acks_late).
PendingIsPursued ==
    \A c \in Calls :
        Pending(c) =>
            \/ \E n \in DOMAIN outbox[c] : ~outbox[c][n].delivered
            \/ queue[c] > 0
            \/ \E w \in Workers : run[w].call = c /\ ~run[w].appended

\* Giving up after so many events is giving up after 24 hours, which is what
\* the category says, as long as no message was handled twice
\* (fetch_platform_call_metadata counts events, next_metadata_retry_at hours).
GivenUpAfterDeadline ==
    \A c \in Calls :
        latest[c].status = "deadline_exceeded" /\ c \notin repeated => overdue[c]

\* The same of every call: "Return the next durable retry time, or None once
\* the 24-hour deadline passes" (next_metadata_retry_at).
NeverGivenUpEarly ==
    \A c \in Calls : latest[c].status = "deadline_exceeded" => overdue[c]

\* The metadata of every call is settled in the end: found, or unavailable once
\* the deadline has passed, however often dispatchers and workers die.
MetadataSettles ==
    \A c \in Calls : Pending(c) ~> ~Pending(c)
=============================================================================
