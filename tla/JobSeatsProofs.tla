--------------------------- MODULE JobSeatsProofs ---------------------------
(***************************************************************************)
(* Proofs about JobSeats, for any jobs, requests and seats: an active job  *)
(* has a seat of its own, no subscription carries more active jobs than    *)
(* its plan allows, and a seat is only lost with a request that died.      *)
(***************************************************************************)
EXTENDS JobSeats, BillingProofs

\* What a request is doing determines what it carries.
LEMMA RequestShape ==
    ASSUME JobConstants, JobTypeOK, NEW a \in Requests
    PROVE  /\ request[a].pc \in {"reserved", "undo", "closed"} =>
                 request[a].job \in Jobs /\ request[a].seat \in Reservations
           /\ request[a].pc = "checked" =>
                 request[a].job \in Jobs /\ request[a].seat = NULL
           /\ request[a].pc = "idle" => request[a] = NoRequest
           /\ request[a].pc \in {"idle", "checked", "reserved", "undo", "closed"}
           /\ request[a].seat \in Reservations \union {NULL}
<1>1. request[a] \in {NoRequest} \union
        [pc : {"checked"}, job : Jobs, seat : {NULL}] \union
        [pc : {"reserved", "undo", "closed"}, job : Jobs, seat : Reservations]
  BY DEF JobTypeOK
<1> QED
  BY <1>1 DEF NoRequest, Doing

LEMMA NoRequestShape ==
    NoRequest.pc = "idle" /\ NoRequest.seat = NULL /\ NoRequest.job = NULL
BY DEF NoRequest, Doing

\* A step that leaves the ledger alone.
LEMMA LedgerStill ==
    ASSUME SubscriptionConstants, LedgerConstants, LedgerInv, UNCHANGED allVars
    PROVE  /\ LedgerInv'
           /\ \A p, f : Has(p, f)' <=> Has(p, f)
           /\ \A p : Seated(p)' <=> Seated(p)
           /\ CurrentRows' = CurrentRows
           /\ against' = against
<1>1. LedgerInv'
  BY LedgerNextInv
<1>2. UNCHANGED <<subs, entry, against>>
  BY DEF allVars, subscriptionVars, ledgerVars
<1> QED
  BY <1>1, <1>2 DEF Has, Seated, CurrentRows, Current

\* The seats and the rows they are booked on, after an entry of r.
LEMMA LedgerMoves ==
    ASSUME SubscriptionConstants, LedgerConstants, LedgerInv,
           NEW r \in Reservations,
           Reserve(r) \/ Confirm(r) \/ Release(r) \/ Vacate(r)
    PROVE  /\ LedgerInv'
           /\ CurrentRows' = CurrentRows
           /\ \A p \in Reservations \ {r} :
                 /\ against'[p] = against[p]
                 /\ Seated(p)' <=> Seated(p)
                 /\ \A f \in EntryTypes : Has(p, f)' <=> Has(p, f)
<1>1. LedgerInv'
  BY LedgerNextInv DEF LedgerNext
<1>2. UNCHANGED subs
  BY DEF Reserve, Confirm, Release, Vacate, Settle, subscriptionVars
<1>3. LedgerTypeOK /\ now \in Nat
  BY DEF LedgerInv, SubscriptionInv, SubscriptionTypeOK
<1>4. PICK e \in EntryTypes : AddEntry(r, e)
  BY DEF Reserve, Confirm, Release, Vacate, Settle, EntryTypes
<1>5. \A p \in Reservations \ {r}, f \in EntryTypes : Has(p, f)' <=> Has(p, f)
  BY <1>3, <1>4, OneEntry DEF LedgerConstants
<1>6. \A p \in Reservations \ {r} : against'[p] = against[p]
  BY <1>3 DEF LedgerTypeOK, Reserve, Confirm, Release, Vacate, Settle
<1> QED
  BY <1>1, <1>2, <1>5, <1>6 DEF Seated, CurrentRows, Current, EntryTypes

\* The entries of r itself.
LEMMA OwnEntries ==
    ASSUME LedgerConstants, LedgerInv, NEW r \in Reservations,
           NEW e \in EntryTypes, AddEntry(r, e)
    PROVE  \A f \in EntryTypes : Has(r, f)' <=> Has(r, f) \/ f = e
BY OneEntry DEF LedgerConstants, LedgerInv, SubscriptionInv, SubscriptionTypeOK

\* No row of the table becomes current again.
LEMMA RowsEnd ==
    ASSUME SubscriptionConstants, SubscriptionInv,
           [SubscriptionNext]_subscriptionVars
    PROVE  \A i \in DOMAIN subs : i \in CurrentRows' => i \in CurrentRows
<1>1. subs \in Seq(Rows) /\ (\A k \in DOMAIN subs : subs[k] \in Rows)
  BY DEF SubscriptionInv, SubscriptionTypeOK
<1>2. CASE \E r \in Reviewers : Activate(r)
  <2> PICK r \in Reviewers : Activate(r)
    BY <1>2
  <2>1. \A i \in DOMAIN subs :
           Closed(r)[i].status \in CurrentStatuses =>
              subs[i].status \in CurrentStatuses
    BY <1>1, ClosedRows DEF CurrentStatuses
  <2>2. \A i \in DOMAIN subs : subs'[i] = Closed(r)[i]
    BY ActivatedRows
  <2> QED
    BY <2>1, <2>2 DEF CurrentRows, Current
<1>3. CASE \E k \in DOMAIN subs : CancelSubscription(k)
  BY <1>1, <1>3 DEF CancelSubscription, Rows, CurrentRows, Current
<1>4. CASE ExpireDueSubscriptions
  BY <1>1, <1>4 DEF ExpireDueSubscriptions, Rows, CurrentRows, Current,
                    CurrentStatuses
<1>5. CASE UNCHANGED subs
  BY <1>5 DEF CurrentRows, Current
<1> QED
  BY <1>2, <1>3, <1>4, <1>5
     DEF SubscriptionNext, ReviewStep, SubmitOrder, ReadOrder, Reject,
         WriteOrder, AbandonReview, Tick, subscriptionVars

-----------------------------------------------------------------------------

LEMMA JobInitInv ==
    ASSUME SubscriptionConstants, LedgerConstants, JobConstants, JobInit
    PROVE  JobInv
<1>1. LedgerInv
  BY LedgerInitInv DEF JobInit
<1>2. JobTypeOK
  BY DEF JobInit, JobTypeOK, JobStatuses
<1>3. JobsSeated
  BY DEF JobInit, JobsSeated
<1>4. RequestsSeated
  BY NoRequestShape DEF JobInit, RequestsSeated, RequestSeated
<1>5. SeatsAccounted
  BY DEF JobInit, LedgerInit, SeatsAccounted, Seated, Has, EntryTypes
<1> QED
  BY <1>1, <1>2, <1>3, <1>4, <1>5 DEF JobInv

\* A step of the subscriptions.
LEMMA SubscriptionJobInv ==
    ASSUME SubscriptionConstants, LedgerConstants, JobConstants, JobInv,
           [SubscriptionNext]_subscriptionVars, UNCHANGED <<ledgerVars, jobVars>>
    PROVE  JobInv'
<1> USE DEF JobInv
<1>1. LedgerInv'
  BY SubscriptionStepInv
<1>2. UNCHANGED <<entry, against, job, required, companyOpen, request, lost>>
  BY DEF ledgerVars, jobVars
<1>3. JobTypeOK' /\ JobsSeated' /\ RequestsSeated'
  BY <1>2 DEF JobTypeOK, JobsSeated, RequestsSeated, RequestSeated, Has
<1>4. SeatsAccounted'
  <2> SUFFICES ASSUME NEW r \in Reservations, Seated(r),
                      against[r] \in CurrentRows'
               PROVE  against[r] \in CurrentRows
    BY <1>2 DEF SeatsAccounted, Seated, Has
  <2>1. against[r] \in DOMAIN subs
    BY DEF Seated, LedgerInv, EntriesInOrder
  <2> QED
    BY <2>1, RowsEnd DEF LedgerInv
<1> QED
  BY <1>1, <1>3, <1>4

\* Steps that change neither the ledger, nor seats, nor requests.
LEMMA JobOnlyInv ==
    ASSUME SubscriptionConstants, LedgerConstants, JobConstants, JobInv,
           \/ \E j \in Jobs : ConfirmRequirement(j) \/ ArchiveJob(j)
           \/ ArchiveCompany
    PROVE  JobInv'
<1> USE DEF JobInv
<1>1. /\ UNCHANGED <<allVars, request, lost>>
      /\ \A j \in Jobs : /\ job'[j].seat = job[j].seat
                         /\ job'[j].status = "active" <=> job[j].status = "active"
  BY DEF ConfirmRequirement, ArchiveJob, ArchiveCompany, JobTypeOK, JobStatuses
<1>2. JobTypeOK'
  <2>1. CASE \E j \in Jobs : ConfirmRequirement(j)
    BY <1>1, <2>1 DEF ConfirmRequirement, JobTypeOK
  <2>2. CASE \E j \in Jobs : ArchiveJob(j)
    BY <1>1, <2>2 DEF ArchiveJob, JobTypeOK, JobStatuses
  <2>3. CASE ArchiveCompany
    BY <1>1, <2>3 DEF ArchiveCompany, JobTypeOK
  <2> QED
    BY <2>1, <2>2, <2>3
<1>3. JobsSeated' /\ RequestsSeated' /\ SeatsAccounted'
  BY <1>1, LedgerStill DEF JobsSeated, RequestsSeated, RequestSeated, SeatsAccounted
<1> QED
  BY <1>1, <1>2, <1>3, LedgerStill

-----------------------------------------------------------------------------
(* Requests that leave the ledger and the jobs alone                       *)

\* The new record of a request has the shape its counter asks for.
LEMMA RequestTyped ==
    ASSUME JobTypeOK, NEW a \in Requests, NEW new,
           \/ new = NoRequest
           \/ new \in [pc : {"checked"}, job : Jobs, seat : {NULL}]
           \/ new \in [pc : {"reserved", "undo", "closed"}, job : Jobs,
                       seat : Reservations],
           request' = [request EXCEPT ![a] = new],
           job' \in [Jobs -> [status : JobStatuses,
                              seat : Reservations \union {NULL}]],
           UNCHANGED <<required, companyOpen>>,
           lost' \subseteq Reservations
    PROVE  /\ JobTypeOK'
           /\ request'[a] = new
           /\ \A b \in Requests \ {a} : request'[b] = request[b]
BY DEF JobTypeOK

LEMMA NewRequestInv ==
    ASSUME SubscriptionConstants, LedgerConstants, JobConstants, JobInv,
           NEW a \in Requests, NEW j \in Jobs, CheckActivation(a, j)
    PROVE  JobInv'
<1> USE DEF JobInv
<1>1. /\ UNCHANGED <<allVars, job, lost, required, companyOpen>>
      /\ request' = [request EXCEPT ![a] = Doing("checked", j, NULL)]
      /\ request[a].seat = NULL
  BY NoRequestShape DEF CheckActivation
<1>2. /\ JobTypeOK'
      /\ request'[a].pc = "checked" /\ request'[a].seat = NULL
      /\ \A b \in Requests \ {a} : request'[b] = request[b]
  <2>1. Doing("checked", j, NULL) \in [pc : {"checked"}, job : Jobs, seat : {NULL}]
    BY DEF Doing
  <2> QED
    BY <1>1, <2>1, RequestTyped DEF JobTypeOK, Doing
<1>3. JobsSeated' /\ SeatsAccounted'
  BY <1>1, <1>2, LedgerStill DEF JobsSeated, SeatsAccounted, JobConstants
<1>4. RequestsSeated'
  BY <1>1, <1>2, LedgerStill, RequestShape
     DEF RequestsSeated, RequestSeated, JobConstants
<1> QED
  BY <1>2, <1>3, <1>4, <1>1, LedgerStill

\* A request ends without having settled the seat it may have.
LEMMA EndedInv ==
    ASSUME SubscriptionConstants, LedgerConstants, JobConstants, JobInv,
           NEW a \in Requests,
           RefuseActivation(a) \/ FailSettlement(a) \/ Die(a)
    PROVE  JobInv'
<1> USE DEF JobInv
<1>1. /\ UNCHANGED <<allVars, job, required, companyOpen>>
      /\ request' = [request EXCEPT ![a] = NoRequest]
      /\ lost \subseteq lost' /\ lost' \subseteq Reservations
      /\ Die(a) => request[a].seat \in lost'
  BY RequestShape DEF RefuseActivation, FailSettlement, Die, Done, JobTypeOK
<1>2. /\ JobTypeOK'
      /\ request'[a].pc = "idle" /\ request'[a].seat = NULL
      /\ \A b \in Requests \ {a} : request'[b] = request[b]
  BY <1>1, RequestTyped, NoRequestShape DEF JobTypeOK
<1>3. JobsSeated'
  BY <1>1, LedgerStill DEF JobsSeated
<1>4. RequestsSeated'
  BY <1>1, <1>2, LedgerStill, RequestShape DEF RequestsSeated, RequestSeated, JobConstants
<1>5. SeatsAccounted'
  <2> SUFFICES ASSUME NEW r \in Reservations, Seated(r),
                      against[r] \in CurrentRows, r \notin lost',
                      \A j \in Jobs : ~(job[j].status = "active" /\ job[j].seat = r)
               PROVE  \E b \in Requests \ {a} :
                         /\ request[b].seat = r
                         /\ Has(r, "confirm") => request[b].pc = "closed"
    BY <1>1, <1>2, LedgerStill DEF SeatsAccounted
  <2>1. PICK b \in Requests : /\ request[b].seat = r
                              /\ Has(r, "confirm") => request[b].pc = "closed"
    BY <1>1 DEF SeatsAccounted
  <2>2. b # a
    <3>1. ~Die(a) \/ b # a
      BY <1>1, <2>1
    <3>2. ~RefuseActivation(a) \/ b # a
      BY <2>1, RequestShape DEF RefuseActivation, JobConstants
    <3>3. ~FailSettlement(a) \/ b # a
      BY <2>1 DEF FailSettlement, CurrentRows
    <3> QED
      BY <3>1, <3>2, <3>3
  <2> QED
    BY <2>1, <2>2
<1> QED
  BY <1>1, <1>2, <1>3, <1>4, <1>5, LedgerStill

LEMMA LoseActivationInv ==
    ASSUME SubscriptionConstants, LedgerConstants, JobConstants, JobInv,
           NEW a \in Requests, LoseActivation(a)
    PROVE  JobInv'
<1> USE DEF JobInv
<1> DEFINE new == [request[a] EXCEPT !.pc = "undo"]
<1>1. /\ UNCHANGED <<allVars, job, lost, required, companyOpen>>
      /\ request' = [request EXCEPT ![a] = new]
      /\ request[a].pc = "reserved"
  BY DEF LoseActivation
<1>2. /\ new \in [pc : {"reserved", "undo", "closed"}, job : Jobs,
                  seat : Reservations]
      /\ new.pc = "undo" /\ new.seat = request[a].seat
  BY <1>1 DEF JobTypeOK, NoRequest, Doing
<1>3. /\ JobTypeOK'
      /\ request'[a] = new
      /\ \A b \in Requests \ {a} : request'[b] = request[b]
  <2> HIDE DEF new
  <2> QED
    BY <1>1, <1>2, RequestTyped DEF JobTypeOK
<1> HIDE DEF new
<1>4. JobsSeated'
  BY <1>1, LedgerStill DEF JobsSeated
<1>5. RequestsSeated'
  <2>1. \A b \in Requests : request'[b].seat = request[b].seat
    BY <1>2, <1>3
  <2> QED
    BY <1>1, <1>2, <1>3, <2>1, LedgerStill DEF RequestsSeated, RequestSeated
<1>6. SeatsAccounted'
  <2>1. ~Has(request[a].seat, "confirm")
    BY <1>1 DEF RequestsSeated, RequestSeated
  <2> QED
    BY <1>1, <1>2, <1>3, <2>1, LedgerStill DEF SeatsAccounted
<1> QED
  BY <1>1, <1>3, <1>4, <1>5, <1>6, LedgerStill

-----------------------------------------------------------------------------
(* Activation                                                              *)

LEMMA ReserveSeatInv ==
    ASSUME SubscriptionConstants, LedgerConstants, JobConstants, JobInv,
           NEW a \in Requests, ReserveSeat(a)
    PROVE  JobInv'
<1> USE DEF JobInv
<1>1. PICK r \in Reservations :
         /\ Reserve(r)
         /\ request' = [request EXCEPT ![a] = Doing("reserved", request[a].job, r)]
  BY DEF ReserveSeat
<1>2. /\ UNCHANGED <<job, required, companyOpen, lost>>
      /\ request[a].job \in Jobs /\ request[a].seat = NULL
  BY RequestShape DEF ReserveSeat
<1> DEFINE new == Doing("reserved", request[a].job, r)
<1>3. /\ JobTypeOK'
      /\ request'[a] = new /\ new.pc = "reserved" /\ new.seat = r
      /\ \A b \in Requests \ {a} : request'[b] = request[b]
  <2>1. new \in [pc : {"reserved", "undo", "closed"}, job : Jobs,
                 seat : Reservations] /\ new.pc = "reserved" /\ new.seat = r
    BY <1>2 DEF Doing
  <2> HIDE DEF new
  <2>2. request' = [request EXCEPT ![a] = new]
    BY <1>1 DEF new
  <2> QED
    BY <1>2, <2>1, <2>2, RequestTyped DEF JobTypeOK
<1> HIDE DEF new
<1>4. /\ ~Has(r, "reserve") /\ ~Has(r, "confirm")
      /\ \A f \in EntryTypes : Has(r, f)' <=> Has(r, f) \/ f = "reserve"
  BY <1>1, OwnEntries DEF Reserve, LedgerInv, EntriesInOrder, EntryTypes
<1>5. LedgerInv' /\ CurrentRows' = CurrentRows
      /\ \A p \in Reservations \ {r} :
            /\ against'[p] = against[p]
            /\ Seated(p)' <=> Seated(p)
            /\ \A f \in EntryTypes : Has(p, f)' <=> Has(p, f)
  BY <1>1, LedgerMoves
<1>6. \A j \in Jobs : job[j].seat # r /\ job[j].seat \in Reservations \union {NULL}
  BY <1>4 DEF JobsSeated, JobTypeOK, JobConstants, LedgerInv, EntriesInOrder
<1>7. \A b \in Requests : request[b].seat # r
  <2> SUFFICES ASSUME NEW b \in Requests, request[b].seat = r
               PROVE  FALSE
    OBVIOUS
  <2>1. request[b].pc \in {"reserved", "undo", "closed"}
    BY <1>1, RequestShape, NoRequestShape DEF JobConstants
  <2>2. Has(r, "confirm") => Has(r, "reserve")
    BY DEF LedgerInv, EntriesInOrder
  <2> QED
    BY <1>4, <2>1, <2>2 DEF RequestsSeated, RequestSeated
<1>8. JobsSeated'
  BY <1>2, <1>5, <1>6 DEF JobsSeated, EntryTypes
<1>9. RequestsSeated'
  <2> SUFFICES ASSUME NEW b \in Requests
               PROVE  RequestSeated(b)'
    BY DEF RequestsSeated
  <2>1. CASE b = a
    BY <1>2, <1>3, <1>4, <1>6, <1>7, <2>1 DEF RequestSeated, EntryTypes
  <2>2. CASE b # a
    <3>1. request'[b] = request[b] /\ request[b].seat # r /\ RequestSeated(b)
      BY <1>3, <1>7, <2>2 DEF RequestsSeated
    <3>2. request[b].pc \in {"reserved", "undo", "closed"}
             => request[b].seat \in Reservations \ {r}
      BY <3>1, RequestShape
    <3>3. \A c \in Requests \ {b} :
             request'[c].seat = request[c].seat \/ request'[c].seat = r
      BY <1>3
    <3> QED
      BY <1>2, <1>5, <3>1, <3>2, <3>3 DEF RequestSeated, EntryTypes
  <2> QED
    BY <2>1, <2>2
<1>10. SeatsAccounted'
  <2> SUFFICES ASSUME NEW p \in Reservations, Seated(p)',
                      against'[p] \in CurrentRows'
               PROVE  \/ \E j \in Jobs : job[j].status = "active" /\ job[j].seat = p
                      \/ \E b \in Requests :
                            /\ request'[b].seat = p
                            /\ Has(p, "confirm")' => request'[b].pc = "closed"
                      \/ p \in lost
    BY <1>2 DEF SeatsAccounted
  <2>1. CASE p = r
    BY <1>3, <1>4, <2>1 DEF EntryTypes
  <2>2. CASE p # r
    <3>1. \/ \E j \in Jobs : job[j].status = "active" /\ job[j].seat = p
          \/ \E b \in Requests :
                /\ request[b].seat = p
                /\ Has(p, "confirm") => request[b].pc = "closed"
          \/ p \in lost
      BY <1>5, <2>2 DEF SeatsAccounted
    <3>2. \A b \in Requests : request[b].seat = p => b # a
      BY <1>2 DEF JobConstants
    <3> QED
      BY <1>3, <1>5, <2>2, <3>1, <3>2 DEF EntryTypes
  <2> QED
    BY <2>1, <2>2
<1> QED
  BY <1>3, <1>5, <1>8, <1>9, <1>10

LEMMA CommitActivationInv ==
    ASSUME SubscriptionConstants, LedgerConstants, JobConstants, JobInv,
           NEW a \in Requests, CommitActivation(a)
    PROVE  JobInv'
<1> USE DEF JobInv
<1>0. PICK i, r : i = request[a].job /\ r = request[a].seat
  OBVIOUS
<1>1. /\ request[a].pc = "reserved" /\ i \in Jobs /\ r \in Reservations
      /\ Confirm(r) /\ job[i].status \in {"draft", "closed"}
      /\ job' = [job EXCEPT ![i] = [status |-> "active", seat |-> r]]
      /\ UNCHANGED <<required, companyOpen, lost>>
  BY <1>0, RequestShape DEF CommitActivation, Startable
<1>2. PICK new : /\ request' = [request EXCEPT ![a] = new]
                 /\ \/ new = NoRequest
                    \/ new = [request[a] EXCEPT !.pc = "undo"]
  BY DEF CommitActivation, Done
<1>3. /\ \/ new = NoRequest
         \/ new \in [pc : {"reserved", "undo", "closed"}, job : Jobs,
                     seat : Reservations]
      /\ new.pc \in {"idle", "undo"} /\ new.seat \in {r, NULL}
      /\ new.pc = "undo" => new.seat = r
  BY <1>0, <1>1, <1>2, NoRequestShape DEF JobTypeOK, NoRequest, Doing
<1>4. /\ JobTypeOK'
      /\ request'[a] = new
      /\ \A b \in Requests \ {a} : request'[b] = request[b]
  <2>1. job' \in [Jobs -> [status : JobStatuses,
                           seat : Reservations \union {NULL}]]
    BY <1>1 DEF JobTypeOK, JobStatuses
  <2> QED
    BY <1>1, <1>2, <1>3, <2>1, RequestTyped DEF JobTypeOK
<1>5. /\ job'[i].status = "active" /\ job'[i].seat = r
      /\ \A j \in Jobs \ {i} : job'[j] = job[j]
  BY <1>1 DEF JobTypeOK
<1>6. /\ ~Has(r, "confirm") /\ ~Has(r, "vacate") /\ Has(r, "reserve")
      /\ \A j \in Jobs : job[j].seat # r
      /\ \A b \in Requests \ {a} : request[b].seat # r
  BY <1>0, <1>1 DEF RequestsSeated, RequestSeated, LedgerInv, EntriesInOrder
<1>7. \A f \in EntryTypes : Has(r, f)' <=> Has(r, f) \/ f = "confirm"
  BY <1>1, OwnEntries DEF Confirm, Settle, EntryTypes
<1>8. LedgerInv' /\ CurrentRows' = CurrentRows
      /\ \A p \in Reservations \ {r} :
            /\ against'[p] = against[p]
            /\ Seated(p)' <=> Seated(p)
            /\ \A f \in EntryTypes : Has(p, f)' <=> Has(p, f)
  BY <1>1, LedgerMoves
<1>9. \A j \in Jobs : job[j].seat \in Reservations \union {NULL}
  BY DEF JobTypeOK
<1>10. JobsSeated'
  <2>1. \A p \in Reservations \ {r} : /\ Has(p, "confirm")' <=> Has(p, "confirm")
                                      /\ Has(p, "vacate")' <=> Has(p, "vacate")
    BY <1>8 DEF EntryTypes
  <2>2. Has(r, "confirm")' /\ ~Has(r, "vacate")'
    BY <1>6, <1>7 DEF EntryTypes
  <2> DEFINE Good(j) ==
        /\ job[j].seat # NULL =>
              /\ Has(job[j].seat, "confirm")
              /\ \A k \in Jobs \ {j} : job[k].seat # job[j].seat
        /\ job[j].status = "active" =>
              job[j].seat # NULL /\ ~Has(job[j].seat, "vacate")
  <2> SUFFICES ASSUME NEW j \in Jobs PROVE Good(j)'
    BY DEF JobsSeated
  <2>3. CASE j = i
    BY <1>1, <1>5, <1>6, <2>2, <2>3 DEF JobConstants
  <2>4. CASE j # i
    <3>1. job'[j] = job[j] /\ job[j].seat # r
      BY <1>5, <1>6, <2>4
    <3>2. \A k \in Jobs \ {j} : job'[k].seat \in {job[k].seat, r}
      BY <1>5
    <3>3. job[j].seat # NULL => job[j].seat \in Reservations \ {r}
      BY <1>9, <3>1
    <3>4. job[j].seat # NULL =>
             /\ Has(job[j].seat, "confirm")
             /\ \A k \in Jobs \ {j} : job[k].seat # job[j].seat
      BY DEF JobsSeated
    <3>5. job[j].status = "active" =>
             job[j].seat # NULL /\ ~Has(job[j].seat, "vacate")
      BY DEF JobsSeated
    <3> QED
      BY <2>1, <3>1, <3>2, <3>3, <3>4, <3>5
  <2> QED
    BY <2>3, <2>4
<1>11. RequestsSeated'
  <2> SUFFICES ASSUME NEW b \in Requests
               PROVE  RequestSeated(b)'
    BY DEF RequestsSeated
  <2>1. CASE b = a
    <3>1. request'[b].pc \in {"idle", "undo"}
          /\ (request'[b].pc = "undo" => request'[b].seat = r)
      BY <1>3, <1>4, <2>1
    <3>2. Has(r, "reserve")'
      BY <1>6, <1>7 DEF EntryTypes
    <3> QED
      BY <3>1, <3>2 DEF RequestSeated
  <2>2. CASE b # a
    <3>1. request'[b] = request[b] /\ request[b].seat # r
      BY <1>4, <1>6, <2>2
    <3>2. request[b].pc \in {"reserved", "undo", "closed"}
             => request[b].seat \in Reservations \ {r}
      BY <3>1, RequestShape
    <3>3. \A c \in Requests \ {b} :
             request'[c].seat \in {request[c].seat, r, NULL}
      <4>1. \A c \in Requests : c = a \/ request'[c] = request[c]
        BY <1>4
      <4>2. request'[a].seat \in {r, NULL}
        BY <1>3, <1>4
      <4> QED
        BY <4>1, <4>2
    <3>4. \A j \in Jobs : /\ job'[j].seat \in {job[j].seat, r}
                          /\ \/ job'[j].seat = r
                             \/ job'[j].status = job[j].status
      BY <1>5
    <3>5. NULL \notin Reservations /\ RequestSeated(b)
      BY DEF JobConstants, RequestsSeated
    <3>6. \A f \in EntryTypes : request[b].pc \in {"reserved", "undo", "closed"}
             => (Has(request[b].seat, f)' <=> Has(request[b].seat, f))
      BY <1>8, <3>1, <3>2
    <3> QED
      BY <3>1, <3>2, <3>3, <3>4, <3>5, <3>6 DEF RequestSeated, EntryTypes
  <2> QED
    BY <2>1, <2>2
<1>12. SeatsAccounted'
  <2> SUFFICES ASSUME NEW p \in Reservations, Seated(p)',
                      against'[p] \in CurrentRows', p \notin lost
               PROVE  \/ \E j \in Jobs : job'[j].status = "active" /\ job'[j].seat = p
                      \/ \E b \in Requests :
                            /\ request'[b].seat = p
                            /\ Has(p, "confirm")' => request'[b].pc = "closed"
    BY <1>1 DEF SeatsAccounted
  <2>1. CASE p = r
    BY <1>1, <1>5, <2>1
  <2>2. CASE p # r
    <3>1. \/ \E j \in Jobs : job[j].status = "active" /\ job[j].seat = p
          \/ \E b \in Requests :
                /\ request[b].seat = p
                /\ Has(p, "confirm") => request[b].pc = "closed"
      BY <1>8, <2>2 DEF SeatsAccounted
    <3>2. \A b \in Requests : request[b].seat = p => b # a
      BY <1>0, <2>2
    <3>3. \A j \in Jobs : job[j].status = "active" => j # i
      BY <1>1
    <3> QED
      BY <1>4, <1>5, <1>8, <2>2, <3>1, <3>2, <3>3 DEF EntryTypes
  <2> QED
    BY <2>1, <2>2
<1> QED
  BY <1>4, <1>8, <1>10, <1>11, <1>12

\* The seat goes back: to be released, or vacated.
LEMMA ReturnSeatInv ==
    ASSUME SubscriptionConstants, LedgerConstants, JobConstants, JobInv,
           NEW a \in Requests, ReleaseSeat(a) \/ VacateSeat(a)
    PROVE  JobInv'
<1> USE DEF JobInv
<1>0. PICK r : r = request[a].seat
  OBVIOUS
<1>1. /\ r \in Reservations
      /\ Release(r) \/ Vacate(r)
      /\ request' = [request EXCEPT ![a] = NoRequest]
      /\ UNCHANGED <<job, required, companyOpen, lost>>
  BY <1>0, RequestShape DEF ReleaseSeat, VacateSeat, Done
<1>2. \A j \in Jobs : job[j].status = "active" => job[j].seat # r
  <2>1. CASE ReleaseSeat(a)
    <3>1. ~Has(r, "confirm")
      BY <1>0, <2>1 DEF ReleaseSeat, Release, Settle
    <3> QED
      BY <1>1, <3>1 DEF JobsSeated, JobConstants
  <2>2. CASE VacateSeat(a)
    BY <1>0, <2>2 DEF VacateSeat, RequestsSeated, RequestSeated
  <2> QED
    BY <2>1, <2>2
<1>3. /\ JobTypeOK'
      /\ request'[a].pc = "idle" /\ request'[a].seat = NULL
      /\ \A b \in Requests \ {a} : request'[b] = request[b]
  BY <1>1, RequestTyped, NoRequestShape DEF JobTypeOK
<1>4. ~Seated(r)' /\ \A f \in {"reserve", "confirm"} : Has(r, f)' <=> Has(r, f)
  <2>1. CASE Release(r)
    BY <1>1, <2>1, OwnEntries DEF Release, Settle, EntryTypes, Seated
  <2>2. CASE Vacate(r)
    BY <1>1, <2>2, OwnEntries DEF Vacate, EntryTypes, Seated
  <2> QED
    BY <1>1, <2>1, <2>2
<1>5. LedgerInv' /\ CurrentRows' = CurrentRows
      /\ \A p \in Reservations \ {r} :
            /\ against'[p] = against[p]
            /\ Seated(p)' <=> Seated(p)
            /\ \A f \in EntryTypes : Has(p, f)' <=> Has(p, f)
  BY <1>1, LedgerMoves
<1>6. \A p \in Reservations :
         /\ \A f \in {"reserve", "confirm"} : Has(p, f)' <=> Has(p, f)
         /\ p # r => (Has(p, "vacate")' <=> Has(p, "vacate"))
  BY <1>4, <1>5 DEF EntryTypes
<1>7. \A j \in Jobs : job[j].seat \in Reservations \union {NULL}
  BY DEF JobTypeOK
<1>8. JobsSeated'
  BY <1>1, <1>2, <1>6, <1>7 DEF JobsSeated
<1>9. RequestsSeated'
  <2> SUFFICES ASSUME NEW b \in Requests
               PROVE  RequestSeated(b)'
    BY DEF RequestsSeated
  <2>1. CASE b = a
    BY <1>3, <2>1 DEF RequestSeated
  <2>2. CASE b # a
    <3>1. request'[b] = request[b] /\ RequestSeated(b)
      BY <1>3, <2>2 DEF RequestsSeated
    <3>2. request[b].pc \in {"reserved", "undo", "closed"}
             => request[b].seat \in Reservations
      BY RequestShape
    <3>3. \A c \in Requests : request'[c].seat \in {request[c].seat, NULL}
      <4>1. \A c \in Requests : c = a \/ request'[c] = request[c]
        BY <1>3
      <4> QED
        BY <1>3, <4>1
    <3> QED
      BY <1>1, <1>6, <3>1, <3>2, <3>3 DEF RequestSeated, JobConstants
  <2> QED
    BY <2>1, <2>2
<1>10. SeatsAccounted'
  <2> SUFFICES ASSUME NEW p \in Reservations \ {r}, Seated(p),
                      against[p] \in CurrentRows, p \notin lost
               PROVE  \/ \E j \in Jobs : job[j].status = "active" /\ job[j].seat = p
                      \/ \E b \in Requests \ {a} :
                            /\ request[b].seat = p
                            /\ Has(p, "confirm") => request[b].pc = "closed"
    BY <1>1, <1>3, <1>4, <1>5, <1>6 DEF SeatsAccounted
  <2> QED
    BY <1>0 DEF SeatsAccounted
<1> QED
  BY <1>3, <1>5, <1>8, <1>9, <1>10

-----------------------------------------------------------------------------
(* Closing                                                                 *)

LEMMA CloseJobInv ==
    ASSUME SubscriptionConstants, LedgerConstants, JobConstants, JobInv,
           NEW a \in Requests, NEW i \in Jobs, CloseJob(a, i)
    PROVE  JobInv'
<1> USE DEF JobInv
<1>0. PICK r : r = job[i].seat
  OBVIOUS
<1>1. /\ UNCHANGED <<allVars, required, companyOpen, lost>>
      /\ job' = [job EXCEPT ![i].status = "closed"]
      /\ request' = [request EXCEPT ![a] = Doing("closed", i, r)]
      /\ job[i].status = "active"
      /\ request[a].seat = NULL
  BY <1>0, NoRequestShape DEF CloseJob
<1>2. /\ r \in Reservations /\ Has(r, "confirm")
      /\ \A j \in Jobs \ {i} : job[j].seat # r
  BY <1>0, <1>1 DEF JobsSeated, JobTypeOK
<1>3. /\ \A j \in Jobs : job'[j].seat = job[j].seat
      /\ \A j \in Jobs \ {i} : job'[j].status = job[j].status
      /\ job'[i].status = "closed"
      /\ job' \in [Jobs -> [status : JobStatuses, seat : Reservations \union {NULL}]]
  BY <1>1 DEF JobTypeOK, JobStatuses
<1> DEFINE new == Doing("closed", i, r)
<1>4. /\ new \in [pc : {"reserved", "undo", "closed"}, job : Jobs,
                  seat : Reservations]
      /\ new.pc = "closed" /\ new.seat = r
  BY <1>2 DEF Doing
<1>5. request' = [request EXCEPT ![a] = new]
  BY <1>1
<1> HIDE DEF new
<1>6. /\ JobTypeOK'
      /\ request'[a].pc = "closed" /\ request'[a].seat = r
      /\ \A b \in Requests \ {a} : request'[b] = request[b]
  BY <1>1, <1>3, <1>4, <1>5, RequestTyped DEF JobTypeOK
<1>7. JobsSeated'
  BY <1>1, <1>3, LedgerStill DEF JobsSeated
<1>8. RequestsSeated'
  <2> SUFFICES ASSUME NEW b \in Requests
               PROVE  RequestSeated(b)'
    BY DEF RequestsSeated
  <2>1. CASE b = a
    BY <1>1, <1>2, <1>3, <1>6, <2>1, LedgerStill DEF RequestSeated
  <2>2. CASE b # a
    <3>1. request'[b] = request[b] /\ RequestSeated(b)
      BY <1>6, <2>2 DEF RequestsSeated
    <3>2. \A c \in Requests : request'[c].seat \in {request[c].seat, job[i].seat}
      <4>1. \A c \in Requests : c = a \/ request'[c] = request[c]
        BY <1>6
      <4> QED
        BY <1>0, <1>6, <4>1
    <3>3. \A j \in Jobs : job'[j].status = "active" => job[j].status = "active"
      BY <1>3
    <3> QED
      BY <1>1, <1>3, <3>1, <3>2, <3>3, LedgerStill DEF RequestSeated
  <2> QED
    BY <2>1, <2>2
<1>9. SeatsAccounted'
  <2> SUFFICES ASSUME NEW p \in Reservations, Seated(p),
                      against[p] \in CurrentRows, p \notin lost
               PROVE  \/ \E j \in Jobs : job'[j].status = "active" /\ job'[j].seat = p
                      \/ \E b \in Requests :
                            /\ request'[b].seat = p
                            /\ Has(p, "confirm") => request'[b].pc = "closed"
    BY <1>1, LedgerStill DEF SeatsAccounted
  <2>1. CASE p = r
    BY <1>6, <2>1
  <2>2. CASE p # r
    <3>1. \/ \E j \in Jobs : job[j].status = "active" /\ job[j].seat = p
          \/ \E b \in Requests :
                /\ request[b].seat = p
                /\ Has(p, "confirm") => request[b].pc = "closed"
      BY DEF SeatsAccounted
    <3>2. \A b \in Requests : request[b].seat = p => b # a
      BY <1>1 DEF JobConstants
    <3>3. \A j \in Jobs : job[j].seat = p => j # i
      BY <1>0, <2>2
    <3> QED
      BY <1>3, <1>6, <3>1, <3>2, <3>3
  <2> QED
    BY <2>1, <2>2
<1> QED
  BY <1>1, <1>6, <1>7, <1>8, <1>9, LedgerStill

-----------------------------------------------------------------------------
(* Theorems                                                                *)

LEMMA JobNextInv ==
    ASSUME SubscriptionConstants, LedgerConstants, JobConstants, JobInv,
           [JobNext]_seatVars
    PROVE  JobInv'
<1>1. CASE SubscriptionNext /\ UNCHANGED <<ledgerVars, jobVars>>
  BY <1>1, SubscriptionJobInv
<1>2. CASE \/ \E j \in Jobs : ConfirmRequirement(j) \/ ArchiveJob(j)
           \/ ArchiveCompany
  BY <1>2, JobOnlyInv
<1>3. ASSUME NEW a \in Requests, RequestStep(a)
      PROVE  JobInv'
  BY <1>3, NewRequestInv, CloseJobInv, ReserveSeatInv, CommitActivationInv,
     LoseActivationInv, ReturnSeatInv, EndedInv DEF RequestStep
<1>4. CASE UNCHANGED seatVars
  <2>1. UNCHANGED <<ledgerVars, jobVars>> /\ [SubscriptionNext]_subscriptionVars
    BY <1>4 DEF seatVars, allVars
  <2> QED
    BY <2>1, SubscriptionJobInv
<1> QED
  BY <1>1, <1>2, <1>3, <1>4 DEF JobNext

\* Whatever the interleaving of requests, failed transactions, lost answers,
\* crashes, renewals and expiries, the jobs, their seats and the requests that
\* hold seats stay consistent; and whoever still counts against the current
\* subscription is an active job, a request at work, or a request that died.
THEOREM JobSeatsSound ==
    ASSUME SubscriptionConstants, LedgerConstants, JobConstants
    PROVE  JobSpec => []JobInv
<1>1. JobInit => JobInv
  BY JobInitInv
<1>2. JobInv /\ [JobNext]_seatVars => JobInv'
  BY JobNextInv
<1> QED
  BY <1>1, <1>2, PTL DEF JobSpec

\* No seat that counts is forgotten by everyone but a request that died.
THEOREM SeatsStayAccounted ==
    ASSUME SubscriptionConstants, LedgerConstants, JobConstants
    PROVE  JobSpec => []SeatsAccounted
<1>1. JobInv => SeatsAccounted
  BY DEF JobInv
<1> QED
  BY <1>1, JobSeatsSound, PTL

LEMMA SeatOfActiveJob ==
    ASSUME JobConstants, JobInv
    PROVE  ActiveJobsSeated
<1>1. SettledOnce
  BY DEF JobInv, LedgerInv, JobConstants, EntriesInOrder, TimelyUseStays, SettledOnce
<1> QED
  BY <1>1 DEF ActiveJobsSeated, JobInv, JobTypeOK, JobsSeated, SettledOnce

\* An active job has a confirmed seat of its own, neither released nor vacated.
THEOREM ActiveJobsStaySeated ==
    ASSUME SubscriptionConstants, LedgerConstants, JobConstants
    PROVE  JobSpec => []ActiveJobsSeated
<1>1. JobInv => ActiveJobsSeated
  BY SeatOfActiveJob
<1> QED
  BY <1>1, JobSeatsSound, PTL

LEMMA JobsWithinSeats ==
    ASSUME SubscriptionConstants, LedgerConstants, JobConstants, JobInv
    PROVE  ActiveJobsWithinPlan
<1> SUFFICES ASSUME NEW i \in DOMAIN subs
             PROVE  Cardinality({j \in Jobs : /\ job[j].status = "active"
                                              /\ against[job[j].seat] = i})
                       <= LimitOf[subs[i].order]
  BY DEF ActiveJobsWithinPlan
<1> DEFINE On == {j \in Jobs : job[j].status = "active" /\ against[job[j].seat] = i}
           f == [j \in On |-> job[j].seat]
<1>1. IsFiniteSet(Held(i))
  BY FS_Subset DEF Held, LedgerConstants
<1>2. f \in Injection(On, Held(i))
  <2>1. ActiveJobsSeated
    BY SeatOfActiveJob
  <2>2. \A j \in On : job[j].seat \in Held(i)
    BY <2>1 DEF ActiveJobsSeated, Held, JobInv, LedgerInv, EntriesInOrder
  <2>3. \A j, k \in On : f[j] = f[k] => j = k
    BY <2>1 DEF ActiveJobsSeated
  <2> QED
    BY <2>2, <2>3 DEF Injection, IsInjective
<1>3. Cardinality(On) <= Cardinality(Held(i)) /\ IsFiniteSet(On)
  <2> HIDE DEF On, f
  <2> QED
    BY <1>1, <1>2, FS_Injection
<1>4. Cardinality(Held(i)) <= LimitOf[subs[i].order]
  BY DEF JobInv, LedgerInv, BalanceCounts, NoOverspend, JobConstants
<1>5. Cardinality(On) \in Nat /\ Cardinality(Held(i)) \in Nat
  BY <1>1, <1>3, FS_CardinalityType
<1>6. LimitOf[subs[i].order] \in Nat
  <2>1. subs[i] \in Rows
    BY DEF JobInv, LedgerInv, SubscriptionInv, SubscriptionTypeOK
  <2>2. subs[i].order \in Orders \union {NULL}
    BY <2>1 DEF Rows
  <2> QED
    BY <2>2 DEF LedgerConstants
<1> HIDE DEF On
<1>7. Cardinality(On) <= LimitOf[subs[i].order]
  BY <1>3, <1>4, <1>5, <1>6
<1> QED
  BY <1>7 DEF On

\* Never are more jobs active on a subscription than its plan allows.
THEOREM ActiveJobsStayWithinPlan ==
    ASSUME SubscriptionConstants, LedgerConstants, JobConstants
    PROVE  JobSpec => []ActiveJobsWithinPlan
<1>1. JobInv => ActiveJobsWithinPlan
  BY JobsWithinSeats
<1> QED
  BY <1>1, JobSeatsSound, PTL

\* The jobs use the ledger as it is meant to be used: every step of a request
\* is a step of the ledger or leaves it alone, so what LedgerSpec promises holds
\* of the jobs too (job_service calls usage_service and writes no entry itself).
THEOREM JobsUseTheLedger ==
    ASSUME SubscriptionConstants, LedgerConstants, JobConstants
    PROVE  JobSpec => LedgerSpec
<1>1. JobInit => LedgerInit
  BY DEF JobInit
<1>2. JobInv /\ [JobNext]_seatVars => [LedgerNext]_allVars
  <2> SUFFICES ASSUME JobInv, [JobNext]_seatVars
               PROVE  [LedgerNext]_allVars
    OBVIOUS
  <2>1. CASE SubscriptionNext /\ UNCHANGED <<ledgerVars, jobVars>>
    BY <2>1 DEF LedgerNext
  <2>2. CASE \/ \E j \in Jobs : ConfirmRequirement(j) \/ ArchiveJob(j)
             \/ ArchiveCompany
    BY <2>2 DEF ConfirmRequirement, ArchiveJob, ArchiveCompany
  <2>3. ASSUME NEW a \in Requests, RequestStep(a)
        PROVE  [LedgerNext]_allVars
    <3>1. \/ UNCHANGED allVars
          \/ ReserveSeat(a) \/ CommitActivation(a) \/ ReleaseSeat(a) \/ VacateSeat(a)
      BY <2>3 DEF RequestStep, CheckActivation, CloseJob, RefuseActivation,
                  LoseActivation, FailSettlement, Die
    <3>2. CASE ReserveSeat(a)
      BY <3>2 DEF ReserveSeat, LedgerNext
    <3>3. CASE CommitActivation(a) \/ ReleaseSeat(a) \/ VacateSeat(a)
      <4>1. request[a].seat \in Reservations
        BY <3>3, RequestShape DEF CommitActivation, ReleaseSeat, VacateSeat, JobInv
      <4> QED
        BY <3>3, <4>1 DEF CommitActivation, ReleaseSeat, VacateSeat, LedgerNext
    <3> QED
      BY <3>1, <3>2, <3>3
  <2>4. CASE UNCHANGED seatVars
    BY <2>4 DEF seatVars
  <2> QED
    BY <2>1, <2>2, <2>3, <2>4 DEF JobNext
<1> QED
  BY <1>1, <1>2, JobSeatsSound, PTL DEF JobSpec, LedgerSpec
=============================================================================
