---------------------------- MODULE Subscriptions ----------------------------
(***************************************************************************)
(* The subscriptions of one tenant and the offline orders that pay for     *)
(* them.  A platform administrator reviews an order by reading it first    *)
(* and writing it later, in a transaction that takes no lock before its    *)
(* first write: two reviews of one order may both have read it pending.    *)
(*                                                                         *)
(* Transactions run under READ COMMITTED.  A review that rejects writes    *)
(* and commits at once; one that confirms writes the order (and so locks   *)
(* its row), reads the current subscriptions, and then commits.            *)
(***************************************************************************)
EXTENDS Integers, Sequences, FiniteSets

CONSTANTS
    Orders,         \* offline orders, one for each idempotency key
    Reviewers,      \* review requests of platform administrators in progress
    NULL,           \* the SQL NULL
    Trial,          \* length of the trial period
    Month,          \* length of a paid period
    MaxNow          \* bound of the model: the clock stops here

ASSUME SubscriptionConstants ==
    /\ NULL \notin Orders
    /\ Trial \in Nat \ {0}
    /\ Month \in Nat \ {0}
    /\ MaxNow \in Nat

VARIABLES
    now,            \* the clock
    order,          \* offline_orders: order[o] is the status of o
    subs,           \* tenant_subscriptions, in the order of their insertion
    review          \* review[r]: what review request r is doing

subscriptionVars == <<now, order, subs, review>>

CurrentStatuses == {"trialing", "active"}
OrderStatuses == {"absent", "pending", "confirmed", "rejected"}

Row(status, start, end, paidBy) ==
    [status |-> status, start |-> start, end |-> end, order |-> paidBy,
     cancelRequested |-> FALSE]

Rows == [status : CurrentStatuses \union {"expired", "cancelled"},
         start : Nat,
         end : Nat,
         order : Orders \union {NULL},    \* NULL: the trial
         cancelRequested : BOOLEAN]

\* A review: the order and the verdict, the time it was asked for, and the rows
\* it found current once it had written the order.
At(pc, o, verdict, time, found) ==
    [pc |-> pc, order |-> o, verdict |-> verdict, time |-> time,
     found |-> found]

NoReview == At("idle", NULL, "none", 0, {})

Reviews == {NoReview} \union
           [pc : {"read", "written"},
            order : Orders,
            verdict : {"confirm", "reject"},
            time : Nat,
            found : SUBSET Nat]

SubscriptionTypeOK ==
    /\ now \in Nat
    /\ order \in [Orders -> OrderStatuses]
    /\ subs \in Seq(Rows)
    /\ review \in [Reviewers -> Reviews]

\* start_trial_subscription, in the transaction that registers the tenant.
SubscriptionInit ==
    /\ now = 0
    /\ order = [o \in Orders |-> "absent"]
    /\ subs = <<Row("trialing", 0, Trial, NULL)>>
    /\ review = [r \in Reviewers |-> NoReview]

-----------------------------------------------------------------------------

Current(i) == subs[i].status \in CurrentStatuses
CurrentRows == {i \in DOMAIN subs : Current(i)}
Paid(i) == subs[i].order # NULL

\* Slip: every paid period starts when the order is confirmed.
AnchorAtOnce(found, time) == time

\* _activate_subscription: prepaid time that is still to come is kept.
Anchor(found, time) ==
    IF \E i \in found : Paid(i) /\ subs[i].end > time
    THEN subs[CHOOSE i \in found : Paid(i) /\ subs[i].end > time].end
    ELSE time

-----------------------------------------------------------------------------
(* Members                                                                 *)

\* submit_offline_order; the same key again finds the order that exists.
SubmitOrder(o) ==
    /\ order[o] = "absent"
    /\ order' = [order EXCEPT ![o] = "pending"]
    /\ UNCHANGED <<now, subs, review>>

\* cancel_subscription records the wish on the row that was current when it
\* looked; the row stays current until its end.
CancelSubscription(i) ==
    /\ ~subs[i].cancelRequested
    /\ subs' = [subs EXCEPT ![i].cancelRequested = TRUE]
    /\ UNCHANGED <<now, order, review>>

-----------------------------------------------------------------------------
(* Platform administrators                                                 *)

\* confirm_order or reject_order loads the order.  One that is not pending
\* ends the request: it is the answer, or a conflict.
ReadOrder(r, o, verdict) ==
    /\ review[r].pc = "idle"
    /\ order[o] = "pending"
    /\ review' = [review EXCEPT ![r] = At("read", o, verdict, now, {})]
    /\ UNCHANGED <<now, order, subs>>

\* The row lock of an order that is written and not yet committed.
OrderLocked(o) ==
    \E r \in Reviewers : review[r].pc = "written" /\ review[r].order = o

Reject(r) ==
    LET o == review[r].order IN
    /\ review[r].pc = "read"
    /\ review[r].verdict = "reject"
    /\ ~OrderLocked(o)
    /\ order' = [order EXCEPT ![o] = "rejected"]
    /\ review' = [review EXCEPT ![r] = NoReview]
    /\ UNCHANGED <<now, subs>>

\* Slip: the order is committed before its subscription is.
WriteOrderFirst(r) ==
    /\ review[r].pc = "read"
    /\ review[r].verdict = "confirm"
    /\ ~OrderLocked(review[r].order)
    /\ order' = [order EXCEPT ![review[r].order] = "confirmed"]
    /\ review' = [review EXCEPT ![r].pc = "written", ![r].found = CurrentRows]
    /\ UNCHANGED <<now, subs>>

\* The UPDATE of the order goes out before _activate_subscription reads the
\* current rows; no other transaction sees it yet.
WriteOrder(r) ==
    /\ review[r].pc = "read"
    /\ review[r].verdict = "confirm"
    /\ ~OrderLocked(review[r].order)
    /\ review' = [review EXCEPT ![r].pc = "written", ![r].found = CurrentRows]
    /\ UNCHANGED <<now, order, subs>>

\* Slip: no unique index on the tenant's current row.
ActivateUnchecked(r) ==
    LET rv == review[r]
        start == Anchor(rv.found, rv.time)
        closed == [i \in DOMAIN subs |->
                     IF i \in rv.found
                     THEN [subs[i] EXCEPT !.status = "cancelled"]
                     ELSE subs[i]]
    IN
    /\ rv.pc = "written"
    /\ subs' = Append(closed, Row("active", start, start + Month, rv.order))
    /\ order' = [order EXCEPT ![rv.order] = "confirmed"]
    /\ review' = [review EXCEPT ![r] = NoReview]
    /\ UNCHANGED now

\* The commit: the rows it found are cancelled by their keys, whatever became
\* of them, and a new one is inserted.
Activate(r) ==
    LET rv == review[r]
        start == Anchor(rv.found, rv.time)
        closed == [i \in DOMAIN subs |->
                     IF i \in rv.found
                     THEN [subs[i] EXCEPT !.status = "cancelled"]
                     ELSE subs[i]]
    IN
    /\ rv.pc = "written"
    /\ CurrentRows \subseteq rv.found       \* uq_tenant_subscriptions_current
    /\ subs' = Append(closed, Row("active", start, start + Month, rv.order))
    /\ order' = [order EXCEPT ![rv.order] = "confirmed"]
    /\ review' = [review EXCEPT ![r] = NoReview]
    /\ UNCHANGED now

\* The transaction is rolled back: the unique index rejects the second current
\* row, or the request dies.
AbandonReview(r) ==
    /\ review[r].pc # "idle"
    /\ review' = [review EXCEPT ![r] = NoReview]
    /\ UNCHANGED <<now, order, subs>>

-----------------------------------------------------------------------------
(* Time                                                                    *)

\* Slip: only paid subscriptions expire.
DuePaid(i) == subs[i].status = "active" /\ subs[i].end <= now

Due(i) == Current(i) /\ subs[i].end <= now

\* expire_due_subscriptions, one UPDATE statement.
ExpireDueSubscriptions ==
    /\ \E i \in DOMAIN subs : Due(i)
    /\ subs' = [i \in DOMAIN subs |->
                  IF Due(i) THEN [subs[i] EXCEPT !.status = "expired"]
                  ELSE subs[i]]
    /\ UNCHANGED <<now, order, review>>

Tick ==
    /\ now < MaxNow
    /\ now' = now + 1
    /\ UNCHANGED <<order, subs, review>>

ReviewStep(r) ==
    \/ \E o \in Orders, verdict \in {"confirm", "reject"} :
          ReadOrder(r, o, verdict)
    \/ Reject(r)
    \/ WriteOrder(r)
    \/ Activate(r)
    \/ AbandonReview(r)

SubscriptionNext ==
    \/ \E o \in Orders : SubmitOrder(o)
    \/ \E i \in DOMAIN subs : CancelSubscription(i)
    \/ \E r \in Reviewers : ReviewStep(r)
    \/ ExpireDueSubscriptions
    \/ Tick

SubscriptionSpec ==
    SubscriptionInit /\ [][SubscriptionNext]_subscriptionVars

-----------------------------------------------------------------------------
(* Invariants                                                              *)

\* The tenant has one current subscription at most: reserve, settlement and the
\* write gate all read "the" current row (_load_current_subscription).
OneCurrent == \A i, k \in CurrentRows : i = k

\* An order is confirmed together with its subscription (confirm_order), so a
\* confirmed order has a row that it paid for, whatever the reviewers do.
ConfirmedOrderPaidFor ==
    \A o \in Orders : order[o] = "confirmed" =>
        \E i \in DOMAIN subs : subs[i].order = o

\* A review is asked for before it is written, and what it finds is one row of
\* the table at most.
ReviewsInOrder ==
    \A r \in Reviewers : review[r].pc # "idle" =>
        /\ review[r].order \in Orders
        /\ review[r].time <= now
        /\ review[r].found \subseteq DOMAIN subs
        /\ \A i, k \in review[r].found : i = k

\* The inductive invariant.
SubscriptionInv ==
    /\ SubscriptionTypeOK
    /\ OneCurrent
    /\ ReviewsInOrder
    /\ ConfirmedOrderPaidFor

-----------------------------------------------------------------------------
(* Properties                                                              *)

\* A renewal never truncates prepaid time: a paid subscription that loses its
\* currency before its end is followed by one that starts no earlier than that
\* end (_activate_subscription), whatever else happens at the same time.
PrepaidTimeKept ==
    [][\A i \in DOMAIN subs :
          Current(i) /\ Paid(i) /\ subs[i].end > now =>
             \E k \in DOMAIN subs' :
                /\ subs'[k].status \in CurrentStatuses
                /\ subs'[k].order # NULL
                /\ k = i \/ subs'[k].start >= subs[i].end]_subscriptionVars

\* Only one month is activated for an order: confirm_order says that a second
\* confirmation activates no second subscription.
OneActivationPerOrder ==
    \A i, k \in DOMAIN subs : Paid(i) /\ subs[i].order = subs[k].order => i = k

\* A rejected order pays for nothing: reject_order says it refuses a confirmed
\* order because its subscription is live.
RejectedOrderPaysNothing ==
    \A o \in Orders : order[o] = "rejected" =>
        \A i \in DOMAIN subs : subs[i].order # o

\* No two reviews of one order overlap, as a row lock taken by the first read
\* would have it.
ReviewsApart ==
    \A q, r \in Reviewers :
        review[q].pc # "idle" /\ review[r].pc # "idle"
            /\ review[q].order = review[r].order => q = r

\* What is inductive about it: orders are reviewed while they are pending, and
\* pay for nothing before they are confirmed.
PaidByConfirmed ==
    /\ \A i \in DOMAIN subs : Paid(i) => order[subs[i].order] = "confirmed"
    /\ \A r \in Reviewers :
          review[r].pc # "idle" => order[review[r].order] = "pending"
    /\ OneActivationPerOrder
=============================================================================
