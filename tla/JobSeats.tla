------------------------------ MODULE JobSeats ------------------------------
(***************************************************************************)
(* The jobs of one company and the active_jobs seats they hold.  A seat is *)
(* a reservation of the usage ledger that is confirmed when its job is     *)
(* activated and vacated after its job was closed.                         *)
(*                                                                         *)
(* Neither is one transaction.  An activation reads the job, commits the   *)
(* reservation, and then updates the job and confirms the seat together;   *)
(* what fails there is rolled back and the reservation is released.  A     *)
(* closure commits the job first and vacates its seat afterwards.          *)
(***************************************************************************)
EXTENDS UsageLedger

CONSTANTS
    Jobs,           \* the jobs of the company
    Requests        \* HTTP requests in progress

ASSUME JobConstants ==
    /\ Concurrent
    /\ NULL \notin Jobs \union Reservations

VARIABLES
    job,            \* job[j]: status and usage_reservation_id
    required,       \* jobs with a current_requirement_version_id
    companyOpen,    \* the company is not archived
    request,        \* request[a]: what request a is doing
    lost            \* history: the seats in the hands of requests that died

jobVars == <<job, required, companyOpen, request, lost>>
seatVars == <<allVars, jobVars>>

JobStatuses == {"draft", "active", "closed", "archived"}

Doing(pc, j, r) == [pc |-> pc, job |-> j, seat |-> r]
NoRequest == Doing("idle", NULL, NULL)

JobTypeOK ==
    /\ job \in [Jobs -> [status : JobStatuses, seat : Reservations \union {NULL}]]
    /\ required \subseteq Jobs
    /\ companyOpen \in BOOLEAN
    /\ request \in [Requests ->
         {NoRequest} \union
         [pc : {"checked"}, job : Jobs, seat : {NULL}] \union
         [pc : {"reserved", "undo", "closed"}, job : Jobs, seat : Reservations]]
    /\ lost \subseteq Reservations

\* create_job: a draft costs nothing.
JobInit ==
    /\ LedgerInit
    /\ job = [j \in Jobs |-> [status |-> "draft", seat |-> NULL]]
    /\ required = {}
    /\ companyOpen = TRUE
    /\ request = [a \in Requests |-> NoRequest]
    /\ lost = {}

-----------------------------------------------------------------------------

\* is_tenant_writable, asked before any request that writes is handled.
Writable == \E i \in CurrentRows : subs[i].end > now

\* The WHERE clause of the activation's UPDATE.
Startable(j) == job[j].status \in {"draft", "closed"} /\ j \in required

\* A seat that counts, by the entries alone.
Seated(r) == Has(r, "reserve") /\ ~Has(r, "release") /\ ~Has(r, "vacate")

\* The request returns, with its answer or with an error.
Done(a) == request' = [request EXCEPT ![a] = NoRequest]

ConfirmRequirement(j) ==
    /\ Writable
    /\ job[j].status # "archived"
    /\ required' = required \union {j}
    /\ UNCHANGED <<allVars, job, companyOpen, request, lost>>

ArchiveCompany ==
    /\ Writable
    /\ companyOpen
    /\ companyOpen' = FALSE
    /\ UNCHANGED <<allVars, job, required, request, lost>>

\* archive_job; an archived job keeps the number of its last seat.
ArchiveJob(j) ==
    /\ Writable
    /\ job[j].status \in {"draft", "closed"}
    /\ job' = [job EXCEPT ![j].status = "archived"]
    /\ UNCHANGED <<allVars, required, companyOpen, request, lost>>

-----------------------------------------------------------------------------
(* activate_job                                                            *)

CheckActivation(a, j) ==
    /\ request[a] = NoRequest
    /\ Writable
    /\ Startable(j)
    /\ companyOpen
    /\ request' = [request EXCEPT ![a] = Doing("checked", j, NULL)]
    /\ UNCHANGED <<allVars, job, required, companyOpen, lost>>

\* The reservation commits, and with it the transaction that read the job.  The
\* idempotency key has a nonce, so the seat is always a new one.
ReserveSeat(a) ==
    /\ request[a].pc = "checked"
    /\ \E r \in Reservations :
          /\ Reserve(r)
          /\ request' = [request EXCEPT
                ![a] = Doing("reserved", request[a].job, r)]
    /\ UNCHANGED <<job, required, companyOpen, lost>>

\* No quota, or no subscription: an error is the answer.
RefuseActivation(a) ==
    /\ request[a].pc = "checked"
    /\ Done(a)
    /\ UNCHANGED <<allVars, job, required, companyOpen, lost>>

\* Slip: the UPDATE does not look at the status again.
CommitAnyway(a) ==
    LET j == request[a].job
        r == request[a].seat
    IN
    /\ request[a].pc = "reserved"
    /\ Confirm(r)
    /\ job' = [job EXCEPT ![j] = [status |-> "active", seat |-> r]]
    /\ Done(a) \/ request' = [request EXCEPT ![a].pc = "undo"]
    /\ UNCHANGED <<required, companyOpen, lost>>

\* The conditional UPDATE and the confirmation are one transaction.  If the
\* acknowledgement of its commit is lost, the request takes it for a failure.
CommitActivation(a) ==
    LET j == request[a].job
        r == request[a].seat
    IN
    /\ request[a].pc = "reserved"
    /\ Startable(j)
    /\ Confirm(r)
    /\ job' = [job EXCEPT ![j] = [status |-> "active", seat |-> r]]
    /\ Done(a) \/ request' = [request EXCEPT ![a].pc = "undo"]
    /\ UNCHANGED <<required, companyOpen, lost>>

\* Another request won, or the transaction failed: it is rolled back.
LoseActivation(a) ==
    /\ request[a].pc = "reserved"
    /\ request' = [request EXCEPT ![a].pc = "undo"]
    /\ UNCHANGED <<allVars, job, required, companyOpen, lost>>

ReleaseSeat(a) ==
    /\ request[a].pc = "undo"
    /\ Release(request[a].seat)
    /\ Done(a)
    /\ UNCHANGED <<job, required, companyOpen, lost>>

-----------------------------------------------------------------------------
(* close_job                                                               *)

CloseJob(a, j) ==
    /\ request[a] = NoRequest
    /\ Writable
    /\ job[j].status = "active"
    /\ job' = [job EXCEPT ![j].status = "closed"]
    /\ request' = [request EXCEPT ![a] = Doing("closed", j, job[j].seat)]
    /\ UNCHANGED <<allVars, required, companyOpen, lost>>

\* Slip: the seat is read again from the job, after its commit.
VacateNewest(a) ==
    /\ request[a].pc = "closed"
    /\ Vacate(job[request[a].job].seat)
    /\ Done(a)
    /\ UNCHANGED <<job, required, companyOpen, lost>>

\* The seat the job had when it was closed, whatever it has now.
VacateSeat(a) ==
    /\ request[a].pc = "closed"
    /\ Vacate(request[a].seat)
    /\ Done(a)
    /\ UNCHANGED <<job, required, companyOpen, lost>>

-----------------------------------------------------------------------------
(* Failures                                                                *)

\* release or vacate_confirmed raises: the seat was confirmed after all, or no
\* subscription is current, or the one it waited for has been replaced.
FailSettlement(a) ==
    /\ \/ request[a].pc = "undo" /\ Has(request[a].seat, "confirm")
       \/ request[a].pc \in {"undo", "closed"} /\ ~Current(against[request[a].seat])
    /\ Done(a)
    /\ UNCHANGED <<allVars, job, required, companyOpen, lost>>

\* The process dies with the request.
Die(a) ==
    /\ request[a].pc \in {"reserved", "undo", "closed"}
    /\ Done(a)
    /\ lost' = lost \union {request[a].seat}
    /\ UNCHANGED <<allVars, job, required, companyOpen>>

RequestStep(a) ==
    \/ \E j \in Jobs : CheckActivation(a, j) \/ CloseJob(a, j)
    \/ ReserveSeat(a)
    \/ RefuseActivation(a)
    \/ CommitActivation(a)
    \/ LoseActivation(a)
    \/ ReleaseSeat(a)
    \/ VacateSeat(a)
    \/ FailSettlement(a)
    \/ Die(a)

JobNext ==
    \/ SubscriptionNext /\ UNCHANGED <<ledgerVars, jobVars>>
    \/ \E j \in Jobs : ConfirmRequirement(j) \/ ArchiveJob(j)
    \/ ArchiveCompany
    \/ \E a \in Requests : RequestStep(a)

JobSpec == JobInit /\ [][JobNext]_seatVars

-----------------------------------------------------------------------------
(* Properties                                                              *)

\* A job is active with a confirmed seat of its own, that is neither released
\* nor vacated, although another request may just be undoing its activation or
\* vacating a seat the job had before (activate_job, close_job).
ActiveJobsSeated ==
    \A j \in Jobs : job[j].status = "active" =>
        /\ job[j].seat \in Reservations
        /\ Has(job[j].seat, "confirm")
        /\ ~Has(job[j].seat, "release")
        /\ ~Has(job[j].seat, "vacate")
        /\ \A k \in Jobs \ {j} : job[k].seat # job[j].seat

\* No more jobs are activated on a subscription than its plan allows (ADR 0002).
ActiveJobsWithinPlan ==
    \A i \in DOMAIN subs :
        Cardinality({j \in Jobs : /\ job[j].status = "active"
                                  /\ against[job[j].seat] = i})
            <= LimitOf[subs[i].order]

\* Whoever holds a seat of the current subscription: an active job, a request
\* that will confirm, release or vacate it, or nobody any more because the
\* request that should have done so died.
SeatsAccounted ==
    \A r \in Reservations : Seated(r) /\ against[r] \in CurrentRows =>
        \/ \E j \in Jobs : job[j].status = "active" /\ job[j].seat = r
        \/ \E a \in Requests :
              /\ request[a].seat = r
              /\ Has(r, "confirm") => request[a].pc = "closed"
        \/ r \in lost

-----------------------------------------------------------------------------
(* The inductive invariant                                                 *)

\* Seats of jobs are confirmed, no two jobs share one, and the seat of an
\* active job is in use.
JobsSeated ==
    \A j \in Jobs :
        /\ job[j].seat # NULL =>
              /\ Has(job[j].seat, "confirm")
              /\ \A k \in Jobs \ {j} : job[k].seat # job[j].seat
        /\ job[j].status = "active" =>
              job[j].seat # NULL /\ ~Has(job[j].seat, "vacate")

\* A request that is about to confirm a seat is alone with it; one that is
\* about to vacate a seat is not about to vacate the seat of an active job.
RequestSeated(a) ==
    /\ request[a].pc \in {"reserved", "undo"} => Has(request[a].seat, "reserve")
    /\ request[a].pc = "reserved" =>
          /\ ~Has(request[a].seat, "confirm")
          /\ \A j \in Jobs : job[j].seat # request[a].seat
          /\ \A b \in Requests \ {a} : request[b].seat # request[a].seat
    /\ request[a].pc = "closed" =>
          /\ Has(request[a].seat, "confirm")
          /\ \A j \in Jobs : job[j].status = "active" =>
                job[j].seat # request[a].seat

RequestsSeated == \A a \in Requests : RequestSeated(a)

JobInv ==
    /\ LedgerInv
    /\ JobTypeOK
    /\ JobsSeated
    /\ RequestsSeated
    /\ SeatsAccounted
=============================================================================
