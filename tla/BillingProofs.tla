---------------------------- MODULE BillingProofs ----------------------------
(***************************************************************************)
(* Proofs about Subscriptions and UsageLedger, for any number of orders,   *)
(* reviewers, months and reservations, and any plans: one current          *)
(* subscription, a subscription for every confirmed order, and no prepaid  *)
(* time lost, whatever reviews run at the same time; one activation for an *)
(* order whose reviews do not overlap.  A limit is never overspent, unless *)
(* a periodic metric has entries older than the period they are booked on, *)
(* and a reservation is settled one way only.                              *)
(***************************************************************************)
EXTENDS UsageLedger, SequenceTheorems, FiniteSetTheorems, TLAPS

-----------------------------------------------------------------------------
(* Subscriptions                                                           *)

\* The rows after Activate(r), apart from the one it adds.
Closed(r) == [i \in DOMAIN subs |->
                IF i \in review[r].found
                THEN [subs[i] EXCEPT !.status = "cancelled"]
                ELSE subs[i]]

\* Rewriting rows without adding one leaves a sequence of rows.
LEMMA RowsRewritten ==
    ASSUME subs \in Seq(Rows),
           NEW f \in [DOMAIN subs -> Rows]
    PROVE  f \in Seq(Rows) /\ DOMAIN f = DOMAIN subs /\ Len(f) = Len(subs)
<1>1. Len(subs) \in Nat /\ DOMAIN subs = 1..Len(subs)
  OBVIOUS
<1>2. f \in [1..Len(subs) -> Rows]
  BY <1>1
<1>3. f \in Seq(Rows)
  BY <1>1, <1>2, SeqDef
<1>4. DOMAIN f = 1..Len(f) /\ Len(f) \in Nat
  BY <1>3
<1> QED
  BY <1>1, <1>2, <1>3, <1>4

\* A row is a record of four plain columns and a flag.
LEMMA RowType ==
    ASSUME NEW status \in CurrentStatuses, NEW start \in Nat, NEW end \in Nat,
           NEW o \in Orders \union {NULL}
    PROVE  Row(status, start, end, o) \in Rows
BY DEF Row, Rows

LEMMA ClosedRows ==
    ASSUME subs \in Seq(Rows), NEW r \in Reviewers
    PROVE  /\ Closed(r) \in Seq(Rows)
           /\ DOMAIN Closed(r) = DOMAIN subs
           /\ Len(Closed(r)) = Len(subs)
           /\ \A i \in DOMAIN subs :
                 /\ Closed(r)[i].status = IF i \in review[r].found
                                          THEN "cancelled" ELSE subs[i].status
                 /\ Closed(r)[i].start = subs[i].start
                 /\ Closed(r)[i].end = subs[i].end
                 /\ Closed(r)[i].order = subs[i].order
<1>1. \A i \in DOMAIN subs : subs[i] \in Rows
  OBVIOUS
<1>2. Closed(r) \in [DOMAIN subs -> Rows]
  BY <1>1 DEF Closed, Rows
<1>3. \A i \in DOMAIN subs :
        /\ Closed(r)[i].status = IF i \in review[r].found
                                 THEN "cancelled" ELSE subs[i].status
        /\ Closed(r)[i].start = subs[i].start
        /\ Closed(r)[i].end = subs[i].end
        /\ Closed(r)[i].order = subs[i].order
  BY <1>1 DEF Closed, Rows
<1> QED
  BY <1>2, <1>3, RowsRewritten

\* What a review remembers, by its program counter.
LEMMA ReviewFacts ==
    ASSUME SubscriptionInv, NEW r \in Reviewers, review[r].pc # "idle"
    PROVE  /\ review[r].order \in Orders
           /\ review[r].time \in Nat
           /\ review[r].time <= now
           /\ review[r].found \subseteq DOMAIN subs
           /\ \A i, k \in review[r].found : i = k
<1>1. review[r] \in Reviews
  BY DEF SubscriptionInv, SubscriptionTypeOK
<1> QED
  BY <1>1 DEF SubscriptionInv, ReviewsInOrder, Reviews, NoReview, At

\* The new row starts at the end of the paid row that was found current, if
\* that is still to come, and at the time of the review otherwise.
LEMMA AnchorFacts ==
    ASSUME SubscriptionInv, NEW r \in Reviewers, review[r].pc # "idle"
    PROVE  /\ Anchor(review[r].found, review[r].time) \in Nat
           /\ \A i \in review[r].found :
                 Paid(i) /\ subs[i].end > review[r].time =>
                    Anchor(review[r].found, review[r].time) = subs[i].end
<1> DEFINE found == review[r].found
           time == review[r].time
           Ahead(i) == Paid(i) /\ subs[i].end > time
<1>1. /\ time \in Nat
      /\ \A i, k \in found : i = k
      /\ \A i \in found : i \in DOMAIN subs
  BY ReviewFacts
<1>2. \A i \in found : subs[i].end \in Nat
  <2>1. \A i \in DOMAIN subs : subs[i] \in Rows
    BY DEF SubscriptionInv, SubscriptionTypeOK
  <2> QED
    BY <1>1, <2>1 DEF Rows
<1>3. ASSUME NEW i \in found, Ahead(i)
      PROVE  Anchor(found, time) = subs[i].end
  <2>1. (CHOOSE k \in found : Ahead(k)) \in found
    BY <1>3
  <2>2. (CHOOSE k \in found : Ahead(k)) = i
    BY <1>1, <2>1
  <2> QED
    BY <1>3, <2>2 DEF Anchor
<1>4. CASE \E i \in found : Ahead(i)
  BY <1>2, <1>3, <1>4
<1>5. CASE ~\E i \in found : Ahead(i)
  <2>1. Anchor(found, time) = time
    BY <1>5 DEF Anchor
  <2> QED
    BY <1>1, <1>3, <2>1
<1> QED
  BY <1>4, <1>5

-----------------------------------------------------------------------------

LEMMA InitInv ==
    ASSUME SubscriptionConstants, SubscriptionInit
    PROVE  SubscriptionInv
<1>1. Row("trialing", 0, Trial, NULL) \in Rows
  BY RowType DEF SubscriptionConstants, CurrentStatuses
<1>2. subs \in Seq(Rows) /\ DOMAIN subs = {1}
  BY <1>1 DEF SubscriptionInit
<1>3. SubscriptionTypeOK
  BY <1>2 DEF SubscriptionInit, SubscriptionTypeOK, OrderStatuses, Reviews
<1>4. OneCurrent
  BY <1>2 DEF OneCurrent, CurrentRows
<1>5. ReviewsInOrder /\ ConfirmedOrderPaidFor
  BY DEF SubscriptionInit, ReviewsInOrder, ConfirmedOrderPaidFor, NoReview, At
<1> QED
  BY <1>3, <1>4, <1>5 DEF SubscriptionInv

\* Steps that leave the rows and the orders as they are.
LEMMA ReviewOnly ==
    ASSUME SubscriptionInv,
           UNCHANGED <<now, order, subs>>,
           review' \in [Reviewers -> Reviews],
           ReviewsInOrder'
    PROVE  SubscriptionInv'
BY DEF SubscriptionInv, SubscriptionTypeOK, OneCurrent, CurrentRows, Current,
       ConfirmedOrderPaidFor

LEMMA ReadOrderInv ==
    ASSUME SubscriptionInv, NEW r \in Reviewers, NEW o \in Orders,
           NEW verdict \in {"confirm", "reject"}, ReadOrder(r, o, verdict)
    PROVE  SubscriptionInv'
<1>1. At("read", o, verdict, now, {}) \in Reviews
  BY DEF Reviews, At, SubscriptionInv, SubscriptionTypeOK
<1>2. review' \in [Reviewers -> Reviews]
  BY <1>1 DEF ReadOrder, SubscriptionInv, SubscriptionTypeOK
<1>3. ReviewsInOrder'
  BY DEF ReadOrder, ReviewsInOrder, At, SubscriptionInv, SubscriptionTypeOK
<1> QED
  BY <1>2, <1>3, ReviewOnly DEF ReadOrder

LEMMA AbandonReviewInv ==
    ASSUME SubscriptionInv, NEW r \in Reviewers, AbandonReview(r)
    PROVE  SubscriptionInv'
<1>1. review' \in [Reviewers -> Reviews]
  BY DEF AbandonReview, SubscriptionInv, SubscriptionTypeOK, Reviews
<1>2. ReviewsInOrder'
  BY DEF AbandonReview, ReviewsInOrder, NoReview, At, SubscriptionInv,
         SubscriptionTypeOK
<1> QED
  BY <1>1, <1>2, ReviewOnly DEF AbandonReview

LEMMA WriteOrderInv ==
    ASSUME SubscriptionInv, NEW r \in Reviewers, WriteOrder(r)
    PROVE  SubscriptionInv'
<1>1. review[r] \in Reviews /\ review[r].pc = "read"
  BY DEF WriteOrder, SubscriptionInv, SubscriptionTypeOK
<1>2. CurrentRows \subseteq DOMAIN subs /\ CurrentRows \subseteq Nat
  BY DEF CurrentRows, SubscriptionInv, SubscriptionTypeOK
<1>3. review' \in [Reviewers -> Reviews]
  <2>1. [review[r] EXCEPT !.pc = "written", !.found = CurrentRows] \in Reviews
    <3>1. review[r] \in [pc : {"read", "written"}, order : Orders,
                         verdict : {"confirm", "reject"}, time : Nat,
                         found : SUBSET Nat]
      BY <1>1 DEF Reviews, NoReview, At
    <3> QED
      BY <1>2, <3>1 DEF Reviews
  <2>2. review' = [review EXCEPT ![r] = [review[r] EXCEPT
                      !.pc = "written", !.found = CurrentRows]]
    BY DEF WriteOrder
  <2> QED
    BY <2>1, <2>2 DEF SubscriptionInv, SubscriptionTypeOK
<1>4. ReviewsInOrder'
  BY <1>1, <1>2
     DEF WriteOrder, ReviewsInOrder, OneCurrent, SubscriptionInv,
         SubscriptionTypeOK
<1> QED
  BY <1>3, <1>4, ReviewOnly DEF WriteOrder

LEMMA RejectInv ==
    ASSUME SubscriptionInv, NEW r \in Reviewers, Reject(r)
    PROVE  SubscriptionInv'
<1>1. SubscriptionTypeOK'
  BY DEF Reject, SubscriptionInv, SubscriptionTypeOK, Reviews, OrderStatuses
<1>2. OneCurrent'
  BY DEF Reject, SubscriptionInv, OneCurrent, CurrentRows, Current
<1>3. ReviewsInOrder'
  BY DEF Reject, SubscriptionInv, ReviewsInOrder, NoReview, At,
         SubscriptionTypeOK
<1>4. ConfirmedOrderPaidFor'
  BY DEF Reject, SubscriptionInv, ConfirmedOrderPaidFor, SubscriptionTypeOK
<1> QED
  BY <1>1, <1>2, <1>3, <1>4 DEF SubscriptionInv

\* The rows the commit leaves: all that were current are closed, the new one
\* is the only current row.
LEMMA ActivatedRows ==
    ASSUME SubscriptionConstants, SubscriptionInv, NEW r \in Reviewers,
           Activate(r)
    PROVE  LET n == Len(subs) + 1
               start == Anchor(review[r].found, review[r].time)
           IN  /\ subs' \in Seq(Rows)
               /\ DOMAIN subs' = 1..n
               /\ DOMAIN subs = 1..Len(subs)
               /\ Len(subs) \in Nat
               /\ subs'[n] = Row("active", start, start + Month,
                                 review[r].order)
               /\ \A i \in DOMAIN subs : subs'[i] = Closed(r)[i]
               /\ CurrentRows' = {n}
<1> DEFINE n == Len(subs) + 1
           start == Anchor(review[r].found, review[r].time)
           new == Row("active", start, start + Month, review[r].order)
<1>1. review[r].pc # "idle" /\ subs \in Seq(Rows)
  BY DEF Activate, SubscriptionInv, SubscriptionTypeOK
<1>2. start \in Nat /\ review[r].order \in Orders
  BY <1>1, AnchorFacts, ReviewFacts
<1>3. new \in Rows
  BY <1>2, RowType DEF SubscriptionConstants, CurrentStatuses
<1>4. subs' = Append(Closed(r), new)
  BY DEF Activate, Closed
<1>5. /\ Closed(r) \in Seq(Rows)
      /\ DOMAIN Closed(r) = DOMAIN subs
      /\ Len(Closed(r)) = Len(subs)
  BY <1>1, ClosedRows
<1>6. Len(subs) \in Nat /\ DOMAIN subs = 1..Len(subs)
  BY <1>1
<1>7. /\ subs' \in Seq(Rows)
      /\ DOMAIN subs' = 1..n
      /\ subs'[n] = new
      /\ \A i \in DOMAIN subs : subs'[i] = Closed(r)[i]
  BY <1>3, <1>4, <1>5, <1>6
<1>8. CurrentRows' = {n}
  <2>1. subs'[n].status = "active"
    BY <1>7 DEF Row
  <2>2. ASSUME NEW i \in DOMAIN subs, subs'[i].status \in CurrentStatuses
        PROVE  FALSE
    <3>1. Closed(r)[i].status = IF i \in review[r].found
                                THEN "cancelled" ELSE subs[i].status
      BY <1>1, ClosedRows
    <3>2. i \notin review[r].found /\ subs[i].status \in CurrentStatuses
      BY <1>7, <2>2, <3>1 DEF CurrentStatuses
    <3> QED
      BY <3>2 DEF Activate, CurrentRows, Current
  <2> QED
    BY <1>6, <1>7, <2>1, <2>2 DEF CurrentRows, Current, CurrentStatuses
<1> QED
  BY <1>6, <1>7, <1>8

LEMMA ActivateInv ==
    ASSUME SubscriptionConstants, SubscriptionInv, NEW r \in Reviewers,
           Activate(r)
    PROVE  SubscriptionInv'
<1>1. /\ subs' \in Seq(Rows)
      /\ DOMAIN subs' = 1..(Len(subs) + 1)
      /\ DOMAIN subs = 1..Len(subs)
      /\ Len(subs) \in Nat
      /\ CurrentRows' = {Len(subs) + 1}
      /\ subs'[Len(subs) + 1].order = review[r].order
      /\ \A i \in DOMAIN subs : subs'[i].order = subs[i].order
  <2>1. subs \in Seq(Rows)
    BY DEF SubscriptionInv, SubscriptionTypeOK
  <2>2. \A i \in DOMAIN subs : Closed(r)[i].order = subs[i].order
    BY <2>1, ClosedRows
  <2>3. Row("active", Anchor(review[r].found, review[r].time),
            Anchor(review[r].found, review[r].time) + Month,
            review[r].order).order = review[r].order
    BY DEF Row
  <2>4. /\ subs' \in Seq(Rows)
        /\ DOMAIN subs' = 1..(Len(subs) + 1)
        /\ DOMAIN subs = 1..Len(subs)
        /\ Len(subs) \in Nat
        /\ CurrentRows' = {Len(subs) + 1}
    BY ActivatedRows
  <2>5. subs'[Len(subs) + 1].order = review[r].order
    BY <2>3, ActivatedRows
  <2>6. \A i \in DOMAIN subs : subs'[i] = Closed(r)[i]
    BY ActivatedRows
  <2> QED
    BY <2>2, <2>4, <2>5, <2>6
<1>2. review[r].order \in Orders
  BY ReviewFacts DEF Activate
<1>3. SubscriptionTypeOK'
  BY <1>1 DEF Activate, SubscriptionInv, SubscriptionTypeOK, OrderStatuses,
              Reviews
<1>4. OneCurrent'
  BY <1>1 DEF OneCurrent
<1>5. ReviewsInOrder'
  BY <1>1 DEF Activate, SubscriptionInv, ReviewsInOrder, NoReview, At,
              SubscriptionTypeOK
<1>6. ConfirmedOrderPaidFor'
  <2> SUFFICES ASSUME NEW o \in Orders, order'[o] = "confirmed"
               PROVE  \E i \in DOMAIN subs' : subs'[i].order = o
    BY DEF ConfirmedOrderPaidFor
  <2>1. CASE o = review[r].order
    BY <1>1, <2>1
  <2>2. CASE o # review[r].order
    <3>1. order[o] = "confirmed"
      BY <2>2 DEF Activate, SubscriptionInv, SubscriptionTypeOK
    <3> QED
      BY <1>1, <3>1 DEF SubscriptionInv, ConfirmedOrderPaidFor
  <2> QED
    BY <2>1, <2>2
<1> QED
  BY <1>3, <1>4, <1>5, <1>6 DEF SubscriptionInv

\* Steps that rewrite rows in place, and make none current.
LEMMA RowsInPlace ==
    ASSUME SubscriptionInv,
           UNCHANGED <<now, review>>,
           order' \in [Orders -> OrderStatuses],
           \A o \in Orders : order'[o] = "confirmed" => order[o] = "confirmed",
           subs' \in Seq(Rows), DOMAIN subs' = DOMAIN subs,
           \A i \in DOMAIN subs :
              /\ subs'[i].order = subs[i].order
              /\ subs'[i].status \in CurrentStatuses =>
                    subs[i].status \in CurrentStatuses
    PROVE  SubscriptionInv'
<1>1. SubscriptionTypeOK'
  BY DEF SubscriptionInv, SubscriptionTypeOK
<1>2. OneCurrent'
  BY DEF SubscriptionInv, OneCurrent, CurrentRows, Current
<1>3. ReviewsInOrder'
  BY DEF SubscriptionInv, ReviewsInOrder
<1>4. ConfirmedOrderPaidFor'
  BY DEF SubscriptionInv, ConfirmedOrderPaidFor
<1> QED
  BY <1>1, <1>2, <1>3, <1>4 DEF SubscriptionInv

LEMMA CancelSubscriptionInv ==
    ASSUME SubscriptionInv, NEW i \in DOMAIN subs, CancelSubscription(i)
    PROVE  SubscriptionInv'
<1>1. subs \in Seq(Rows) /\ \A k \in DOMAIN subs : subs[k] \in Rows
  BY DEF SubscriptionInv, SubscriptionTypeOK
<1>2. subs' \in [DOMAIN subs -> Rows]
  BY <1>1 DEF CancelSubscription, Rows
<1>3. subs' \in Seq(Rows) /\ DOMAIN subs' = DOMAIN subs
  BY <1>1, <1>2, RowsRewritten
<1>4. \A k \in DOMAIN subs : /\ subs'[k].order = subs[k].order
                             /\ subs'[k].status = subs[k].status
  BY <1>1 DEF CancelSubscription, Rows
<1> QED
  BY <1>3, <1>4, RowsInPlace
     DEF CancelSubscription, SubscriptionInv, SubscriptionTypeOK

LEMMA ExpireInv ==
    ASSUME SubscriptionInv, ExpireDueSubscriptions
    PROVE  SubscriptionInv'
<1>1. subs \in Seq(Rows) /\ \A k \in DOMAIN subs : subs[k] \in Rows
  BY DEF SubscriptionInv, SubscriptionTypeOK
<1>2. subs' \in [DOMAIN subs -> Rows]
  BY <1>1 DEF ExpireDueSubscriptions, Rows
<1>3. subs' \in Seq(Rows) /\ DOMAIN subs' = DOMAIN subs
  BY <1>1, <1>2, RowsRewritten
<1>4. \A k \in DOMAIN subs :
        /\ subs'[k].order = subs[k].order
        /\ subs'[k].status \in CurrentStatuses =>
              subs[k].status \in CurrentStatuses
  BY <1>1 DEF ExpireDueSubscriptions, Rows, CurrentStatuses
<1> QED
  BY <1>3, <1>4, RowsInPlace
     DEF ExpireDueSubscriptions, SubscriptionInv, SubscriptionTypeOK

LEMMA SubmitOrderInv ==
    ASSUME SubscriptionInv, NEW o \in Orders, SubmitOrder(o)
    PROVE  SubscriptionInv'
<1>1. order' \in [Orders -> OrderStatuses]
  BY DEF SubmitOrder, SubscriptionInv, SubscriptionTypeOK, OrderStatuses
<1>2. \A p \in Orders : order'[p] = "confirmed" => order[p] = "confirmed"
  BY DEF SubmitOrder, SubscriptionInv, SubscriptionTypeOK
<1> QED
  BY <1>1, <1>2, RowsInPlace DEF SubmitOrder, SubscriptionInv,
                                 SubscriptionTypeOK

LEMMA TickInv ==
    ASSUME SubscriptionInv, Tick
    PROVE  SubscriptionInv'
<1>1. \A r \in Reviewers : review[r].pc # "idle" => review[r].time \in Nat
  BY ReviewFacts
<1> QED
  BY <1>1
     DEF Tick, SubscriptionInv, SubscriptionTypeOK, OneCurrent, CurrentRows,
         Current, ReviewsInOrder, ConfirmedOrderPaidFor

LEMMA NextInv ==
    ASSUME SubscriptionConstants, SubscriptionInv,
           [SubscriptionNext]_subscriptionVars
    PROVE  SubscriptionInv'
<1>1. CASE SubscriptionNext
  <2>1. ASSUME NEW r \in Reviewers, ReviewStep(r)
        PROVE  SubscriptionInv'
    BY <2>1, ReadOrderInv, RejectInv, WriteOrderInv, ActivateInv,
       AbandonReviewInv DEF ReviewStep
  <2> QED
    BY <1>1, <2>1, SubmitOrderInv, CancelSubscriptionInv, ExpireInv, TickInv
       DEF SubscriptionNext
<1>2. CASE UNCHANGED subscriptionVars
  BY <1>2 DEF subscriptionVars, SubscriptionInv, SubscriptionTypeOK,
              OneCurrent, CurrentRows, Current, ReviewsInOrder,
              ConfirmedOrderPaidFor
<1> QED
  BY <1>1, <1>2

-----------------------------------------------------------------------------

\* The inductive invariant holds: among other things the tenant has one current
\* subscription at most (OneCurrent) and every confirmed order has a
\* subscription (ConfirmedOrderPaidFor), however reviews interleave.
THEOREM SubscriptionsSound ==
    ASSUME SubscriptionConstants
    PROVE  SubscriptionSpec => []SubscriptionInv
<1>1. SubscriptionInit => SubscriptionInv
  BY InitInv
<1>2. SubscriptionInv /\ [SubscriptionNext]_subscriptionVars
        => SubscriptionInv'
  BY NextInv
<1> QED
  BY <1>1, <1>2, PTL DEF SubscriptionSpec

\* However reviews, cancellations and the sweep interleave, the tenant never has
\* two current subscriptions (_load_current_subscription).
THEOREM OneCurrentRow ==
    ASSUME SubscriptionConstants
    PROVE  SubscriptionSpec => []OneCurrent
<1>1. SubscriptionInv => OneCurrent
  BY DEF SubscriptionInv
<1> QED
  BY <1>1, SubscriptionsSound, PTL

\* An order is never confirmed without its subscription (confirm_order).
THEOREM ConfirmedOrdersActivated ==
    ASSUME SubscriptionConstants
    PROVE  SubscriptionSpec => []ConfirmedOrderPaidFor
<1>1. SubscriptionInv => ConfirmedOrderPaidFor
  BY DEF SubscriptionInv
<1> QED
  BY <1>1, SubscriptionsSound, PTL

\* The step that replaces a paid row puts one behind it that starts no earlier
\* than the end of the old one.
LEMMA ActivateKeepsPrepaid ==
    ASSUME SubscriptionConstants, SubscriptionInv, NEW r \in Reviewers,
           Activate(r),
           NEW i \in DOMAIN subs, Current(i), Paid(i), subs[i].end > now
    PROVE  \E k \in DOMAIN subs' :
              /\ subs'[k].status \in CurrentStatuses
              /\ subs'[k].order # NULL
              /\ subs'[k].start >= subs[i].end
<1> DEFINE n == Len(subs) + 1
           start == Anchor(review[r].found, review[r].time)
<1>1. review[r].pc # "idle" /\ i \in review[r].found
  BY DEF Activate, CurrentRows
<1>2. subs[i].end \in Nat /\ now \in Nat
  <2>1. subs[i] \in Rows
    BY DEF SubscriptionInv, SubscriptionTypeOK
  <2> QED
    BY <2>1 DEF Rows, SubscriptionInv, SubscriptionTypeOK
<1>3. review[r].time \in Nat /\ review[r].time <= now
      /\ review[r].order \in Orders
  BY <1>1, ReviewFacts
<1>4. start = subs[i].end
  BY <1>1, <1>2, <1>3, AnchorFacts
<1>5. /\ n \in DOMAIN subs'
      /\ subs'[n] = Row("active", start, start + Month, review[r].order)
  BY ActivatedRows
<1>6. subs'[n].status \in CurrentStatuses /\ subs'[n].order # NULL
      /\ subs'[n].start = subs[i].end
  BY <1>3, <1>4, <1>5 DEF Row, CurrentStatuses, SubscriptionConstants
<1> QED
  BY <1>2, <1>5, <1>6

\* No prepaid time is lost (PrepaidTimeKept), whatever the length of a month
\* and however many orders are reviewed at the same time.
THEOREM PrepaidKept ==
    ASSUME SubscriptionConstants
    PROVE  SubscriptionSpec => PrepaidTimeKept
<1> DEFINE Kept == \A i \in DOMAIN subs :
                      Current(i) /\ Paid(i) /\ subs[i].end > now =>
                         \E k \in DOMAIN subs' :
                            /\ subs'[k].status \in CurrentStatuses
                            /\ subs'[k].order # NULL
                            /\ k = i \/ subs'[k].start >= subs[i].end
<1>1. ASSUME SubscriptionInv, SubscriptionNext
      PROVE  Kept
  <2> SUFFICES ASSUME NEW i \in DOMAIN subs, Current(i), Paid(i),
                      subs[i].end > now
               PROVE  \E k \in DOMAIN subs' :
                         /\ subs'[k].status \in CurrentStatuses
                         /\ subs'[k].order # NULL
                         /\ k = i \/ subs'[k].start >= subs[i].end
    OBVIOUS
  <2>1. \A k \in DOMAIN subs : subs[k] \in Rows
    BY <1>1 DEF SubscriptionInv, SubscriptionTypeOK
  <2>2. CASE \E r \in Reviewers : Activate(r)
    BY <1>1, <2>2, ActivateKeepsPrepaid
  <2>3. CASE \E k \in DOMAIN subs : CancelSubscription(k)
    BY <2>1, <2>3 DEF CancelSubscription, Rows, Current, Paid
  <2>4. CASE ExpireDueSubscriptions
    <3>1. now \in Nat /\ subs[i].end \in Nat
      BY <1>1, <2>1 DEF SubscriptionInv, SubscriptionTypeOK, Rows
    <3>2. ~Due(i)
      BY <3>1 DEF Due
    <3>3. DOMAIN subs' = DOMAIN subs /\ subs'[i] = subs[i]
      BY <2>4, <3>2 DEF ExpireDueSubscriptions
    <3> QED
      BY <3>3 DEF Current, Paid
  <2>5. CASE UNCHANGED subs
    BY <2>5 DEF Current, Paid
  <2> QED
    BY <1>1, <2>2, <2>3, <2>4, <2>5
       DEF SubscriptionNext, ReviewStep, SubmitOrder, ReadOrder, Reject,
           WriteOrder, AbandonReview, Tick
<1>2. SubscriptionInv /\ [SubscriptionNext]_subscriptionVars
        => [Kept]_subscriptionVars
  BY <1>1
<1> QED
  BY <1>2, SubscriptionsSound, PTL DEF SubscriptionSpec, PrepaidTimeKept

-----------------------------------------------------------------------------
(* Reviews that do not overlap                                             *)

\* The rows of the table keep who paid for them; a new row is Activate's.
LEMMA SameRowsPaid ==
    ASSUME PaidByConfirmed,
           DOMAIN subs' = DOMAIN subs,
           \A i \in DOMAIN subs : subs'[i].order = subs[i].order,
           \A o \in Orders : order[o] = "confirmed" => order'[o] = "confirmed",
           \A i \in DOMAIN subs : Paid(i) => subs[i].order \in Orders,
           \A r \in Reviewers :
              review'[r].pc # "idle" => order'[review'[r].order] = "pending"
    PROVE  PaidByConfirmed'
BY DEF PaidByConfirmed, OneActivationPerOrder, Paid

LEMMA ReviewedApartStep ==
    ASSUME SubscriptionConstants, SubscriptionInv, PaidByConfirmed,
           ReviewsApart, [SubscriptionNext]_subscriptionVars
    PROVE  PaidByConfirmed'
<1>1. /\ order \in [Orders -> OrderStatuses]
      /\ review \in [Reviewers -> Reviews]
      /\ subs \in Seq(Rows)
      /\ \A i \in DOMAIN subs : subs[i] \in Rows
  BY DEF SubscriptionInv, SubscriptionTypeOK
<1>2. \A i \in DOMAIN subs : Paid(i) => subs[i].order \in Orders
  BY <1>1 DEF Rows, Paid
<1>3. NoReview.pc = "idle"
  BY DEF NoReview, At
<1>4. \A r \in Reviewers : review[r].pc # "idle" => review[r].order \in Orders
  BY ReviewFacts
<1>5. ASSUME NEW o \in Orders, SubmitOrder(o)
      PROVE  PaidByConfirmed'
  <2>1. \A r \in Reviewers : review[r].pc # "idle" => review[r].order # o
    BY <1>5 DEF SubmitOrder, PaidByConfirmed
  <2> QED
    BY <1>1, <1>2, <1>4, <1>5, <2>1, SameRowsPaid DEF SubmitOrder, PaidByConfirmed
<1>6. ASSUME NEW i \in DOMAIN subs, CancelSubscription(i)
      PROVE  PaidByConfirmed'
  <2>1. \A k \in DOMAIN subs : subs'[k].order = subs[k].order
    BY <1>1, <1>6 DEF CancelSubscription, Rows
  <2> QED
    BY <1>2, <1>6, <2>1, SameRowsPaid DEF CancelSubscription, PaidByConfirmed
<1>7. CASE ExpireDueSubscriptions
  <2>1. \A k \in DOMAIN subs : subs'[k].order = subs[k].order
    BY <1>1, <1>7 DEF ExpireDueSubscriptions, Rows
  <2> QED
    BY <1>2, <1>7, <2>1, SameRowsPaid DEF ExpireDueSubscriptions, PaidByConfirmed
<1>8. ASSUME NEW r \in Reviewers, NEW o \in Orders,
             NEW verdict \in {"confirm", "reject"}, ReadOrder(r, o, verdict)
      PROVE  PaidByConfirmed'
  <2>1. \A q \in Reviewers :
           review'[q].pc # "idle" => order[review'[q].order] = "pending"
    BY <1>1, <1>8 DEF ReadOrder, At, PaidByConfirmed
  <2> QED
    BY <1>2, <1>8, <2>1, SameRowsPaid DEF ReadOrder
<1>9. ASSUME NEW r \in Reviewers, Reject(r)
      PROVE  PaidByConfirmed'
  <2>1. /\ review[r].pc # "idle" /\ review[r].order \in Orders
        /\ order[review[r].order] = "pending"
    BY <1>4, <1>9 DEF Reject, PaidByConfirmed
  <2>2. \A q \in Reviewers :
           review'[q].pc # "idle" => order'[review'[q].order] = "pending"
    BY <1>1, <1>3, <1>9, <2>1 DEF Reject, ReviewsApart, PaidByConfirmed
  <2> QED
    BY <1>1, <1>2, <1>9, <2>1, <2>2, SameRowsPaid DEF Reject
<1>10. ASSUME NEW r \in Reviewers, WriteOrder(r)
       PROVE  PaidByConfirmed'
  <2>1. \A q \in Reviewers : /\ review'[q].order = review[q].order
                             /\ review'[q].pc # "idle" => review[q].pc # "idle"
    <3>1. review[r].pc = "read" /\ review[r] \in Reviews
      BY <1>1, <1>10 DEF WriteOrder
    <3>2. review'[r].order = review[r].order
      BY <1>1, <1>10, <3>1 DEF WriteOrder, Reviews, NoReview, At
    <3> QED
      BY <1>1, <1>10, <3>1, <3>2 DEF WriteOrder
  <2>2. order' = order /\ subs' = subs
    BY <1>10 DEF WriteOrder
  <2>3. \A q \in Reviewers :
           review'[q].pc # "idle" => order'[review'[q].order] = "pending"
    BY <2>1, <2>2 DEF PaidByConfirmed
  <2> QED
    BY <2>2, <2>3 DEF PaidByConfirmed, OneActivationPerOrder, Paid
<1>11. ASSUME NEW r \in Reviewers, Activate(r)
       PROVE  PaidByConfirmed'
  <2> DEFINE o == review[r].order
  <2>1. /\ review[r].pc # "idle" /\ o \in Orders
        /\ order[o] = "pending"
    BY <1>4, <1>11 DEF Activate, PaidByConfirmed
  <2>2. /\ DOMAIN subs' = DOMAIN subs \union {Len(subs) + 1}
        /\ Len(subs) + 1 \notin DOMAIN subs
        /\ \A i \in DOMAIN subs : subs'[i].order = subs[i].order
        /\ subs'[Len(subs) + 1].order = o
    <3>1. \A i \in DOMAIN subs : i \in DOMAIN subs' /\ subs'[i] = Closed(r)[i]
      BY <1>1, <1>11, ActivatedRows
    <3>2. \A i \in DOMAIN subs : Closed(r)[i].order = subs[i].order
      BY <1>1, ClosedRows
    <3>3. /\ Closed(r) \in Seq(Rows) /\ Len(Closed(r)) = Len(subs)
          /\ \E start, end : subs' = Append(Closed(r), Row("active", start, end, o))
      BY <1>1, <1>11, ClosedRows DEF Activate, Closed
    <3>4. \A start, end : Row("active", start, end, o).order = o
      BY DEF Row
    <3> QED
      BY <1>1, <3>1, <3>2, <3>3, <3>4
  <2>3. \A i \in DOMAIN subs : Paid(i) => subs[i].order # o
    BY <2>1 DEF PaidByConfirmed
  <2>4. order' = [order EXCEPT ![o] = "confirmed"]
    BY <1>11 DEF Activate
  <2>5. \A q \in Reviewers :
           review'[q].pc # "idle" => order'[review'[q].order] = "pending"
    BY <1>1, <1>3, <1>11, <2>1, <2>4 DEF Activate, ReviewsApart, PaidByConfirmed
  <2> QED
    BY <1>1, <1>2, <2>1, <2>2, <2>3, <2>4, <2>5
       DEF PaidByConfirmed, OneActivationPerOrder, Paid
<1>12. ASSUME NEW r \in Reviewers, AbandonReview(r)
       PROVE  PaidByConfirmed'
  <2>1. \A q \in Reviewers :
           review'[q].pc # "idle" => order[review'[q].order] = "pending"
    BY <1>1, <1>3, <1>12 DEF AbandonReview, PaidByConfirmed
  <2> QED
    BY <1>2, <1>12, <2>1, SameRowsPaid DEF AbandonReview
<1>13. CASE Tick \/ UNCHANGED subscriptionVars
  BY <1>2, <1>13, SameRowsPaid DEF Tick, subscriptionVars, PaidByConfirmed
<1> QED
  BY <1>5, <1>6, <1>7, <1>8, <1>9, <1>10, <1>11, <1>12, <1>13
     DEF SubscriptionNext, ReviewStep

\* The month that is activated twice, and the rejected order that pays for one,
\* need two reviews of that order which overlap, and nothing else does it: with
\* reviews apart an order is activated once, and a rejected one never
\* (confirm_order, reject_order).
THEOREM ReviewedApart ==
    SubscriptionSpec /\ []ReviewsApart
        => [](OneActivationPerOrder /\ RejectedOrderPaysNothing)
<1>1. SubscriptionInit => PaidByConfirmed
  BY DEF SubscriptionInit, PaidByConfirmed, OneActivationPerOrder, Paid, Row,
         NoReview, At
<1>2. SubscriptionInv /\ PaidByConfirmed /\ ReviewsApart
        /\ [SubscriptionNext]_subscriptionVars => PaidByConfirmed'
  BY ReviewedApartStep, SubscriptionConstants
<1>3. SubscriptionInv /\ PaidByConfirmed
        => OneActivationPerOrder /\ RejectedOrderPaysNothing
  <2> SUFFICES ASSUME SubscriptionInv, PaidByConfirmed, NEW o \in Orders,
                      order[o] = "rejected", NEW i \in DOMAIN subs
               PROVE  subs[i].order # o
    BY DEF PaidByConfirmed, RejectedOrderPaysNothing
  <2> QED
    BY SubscriptionConstants DEF PaidByConfirmed, Paid, SubscriptionConstants
<1> QED
  BY <1>1, <1>2, <1>3, SubscriptionsSound, SubscriptionConstants, PTL
     DEF SubscriptionSpec

-----------------------------------------------------------------------------
(* The usage ledger                                                        *)

\* No step of the subscriptions takes a row away, or changes who paid for it or
\* when its period starts.
LEMMA RowsStay ==
    ASSUME SubscriptionConstants, SubscriptionInv,
           [SubscriptionNext]_subscriptionVars
    PROVE  /\ DOMAIN subs \subseteq DOMAIN subs'
           /\ \A i \in DOMAIN subs : /\ subs'[i].order = subs[i].order
                                     /\ subs'[i].start = subs[i].start
           /\ now \in Nat /\ now' \in Nat /\ now <= now'
<1>1. subs \in Seq(Rows) /\ (\A k \in DOMAIN subs : subs[k] \in Rows)
      /\ now \in Nat
  BY DEF SubscriptionInv, SubscriptionTypeOK
<1>2. CASE \E r \in Reviewers : Activate(r)
  <2> PICK r \in Reviewers : Activate(r)
    BY <1>2
  <2>1. \A i \in DOMAIN subs : /\ Closed(r)[i].order = subs[i].order
                               /\ Closed(r)[i].start = subs[i].start
    BY <1>1, ClosedRows
  <2>2. \A i \in DOMAIN subs : i \in DOMAIN subs' /\ subs'[i] = Closed(r)[i]
    BY ActivatedRows
  <2> QED
    BY <1>1, <2>1, <2>2 DEF Activate
<1>3. CASE \E k \in DOMAIN subs : CancelSubscription(k)
  BY <1>1, <1>3 DEF CancelSubscription, Rows
<1>4. CASE ExpireDueSubscriptions
  BY <1>1, <1>4 DEF ExpireDueSubscriptions, Rows
<1>5. CASE UNCHANGED subs /\ (UNCHANGED now \/ now' = now + 1)
  BY <1>1, <1>5
<1> QED
  BY <1>2, <1>3, <1>4, <1>5
     DEF SubscriptionNext, ReviewStep, SubmitOrder, ReadOrder, Reject,
         WriteOrder, AbandonReview, Tick, subscriptionVars

-----------------------------------------------------------------------------
(* Balances                                                                *)

LEMMA HeldFinite ==
    ASSUME LedgerConstants, NEW i
    PROVE  /\ IsFiniteSet(Held(i)) /\ Cardinality(Held(i)) \in Nat
           /\ IsFiniteSet(Used(i)) /\ Cardinality(Used(i)) \in Nat
           /\ IsFiniteSet(Reserved(i)) /\ Cardinality(Reserved(i)) \in Nat
<1>1. /\ Held(i) \subseteq Reservations
      /\ Used(i) \subseteq Reservations
      /\ Reserved(i) \subseteq Reservations
  BY DEF Held, Used, Reserved
<1> QED
  BY <1>1, FS_Subset, FS_CardinalityType DEF LedgerConstants

\* compute_balance counts exactly what is held, for a concurrent metric and as
\* long as no entry is older than the period of its row.
LEMMA BalanceIsExact ==
    ASSUME LedgerConstants, EntriesInOrder, BalanceCounts, NEW i
    PROVE  /\ Used(i) \union Reserved(i) = Held(i)
           /\ Used(i) \intersect Reserved(i) = {}
<1>1. \A r \in Reservations, e \in EntryTypes : Counts(r, e) <=> Has(r, e)
  BY DEF BalanceCounts, EntriesInPeriod, Counts
<1> QED
  BY <1>1 DEF Used, Reserved, Held, Freed, EntriesInOrder, EntryTypes

LEMMA RemainingIsExact ==
    ASSUME LedgerConstants, EntriesInOrder, BalanceCounts, NEW i \in DOMAIN subs,
           subs[i].order \in Orders \union {NULL}
    PROVE  Remaining(i) = LimitOf[subs[i].order] - Cardinality(Held(i))
<1>1. Cardinality(Held(i)) = Cardinality(Used(i)) + Cardinality(Reserved(i))
  <2>1. Cardinality(Used(i) \union Reserved(i)) =
          Cardinality(Used(i)) + Cardinality(Reserved(i))
          - Cardinality(Used(i) \intersect Reserved(i))
    BY HeldFinite, FS_Union
  <2>2. /\ Used(i) \union Reserved(i) = Held(i)
        /\ Used(i) \intersect Reserved(i) = {}
    BY BalanceIsExact
  <2>3. Cardinality(Used(i) \intersect Reserved(i)) = 0
    BY <2>2, FS_EmptySet
  <2>4. Cardinality(Used(i)) \in Nat /\ Cardinality(Reserved(i)) \in Nat
    BY HeldFinite
  <2>5. Cardinality(Held(i)) = Cardinality(Used(i)) + Cardinality(Reserved(i))
                               - Cardinality(Used(i) \intersect Reserved(i))
    BY <2>1, <2>2
  <2> QED
    BY <2>3, <2>4, <2>5
<1>2. LimitOf[subs[i].order] \in Nat
  BY DEF LedgerConstants
<1> QED
  BY <1>1, <1>2, HeldFinite DEF Remaining

\* Fewer held reservations of the same row stay within the same limit.
LEMMA FewerHeld ==
    ASSUME LedgerConstants, NoOverspend, NEW i \in DOMAIN subs,
           subs'[i].order = subs[i].order,
           subs[i].order \in Orders \union {NULL},
           Held(i)' \subseteq Held(i)
    PROVE  Cardinality(Held(i)') <= LimitOf[subs'[i].order]
<1>1. IsFiniteSet(Held(i)) /\ Cardinality(Held(i)) \in Nat
  BY HeldFinite
<1>2. IsFiniteSet(Held(i)') /\ Cardinality(Held(i)') \in Nat
  BY <1>1, FS_Subset, FS_CardinalityType
<1>3. Cardinality(Held(i)') <= Cardinality(Held(i))
  BY <1>1, FS_Subset
<1>4. Cardinality(Held(i)) <= LimitOf[subs[i].order]
  BY DEF NoOverspend
<1>5. LimitOf[subs[i].order] \in Nat
  BY DEF LedgerConstants
<1> QED
  BY <1>1, <1>2, <1>3, <1>4, <1>5

\* An entry that is older than the period of its row stays so, a use that was
\* confirmed late too, and what made the balance wrong is not undone.
LEMMA OnceMiscounted ==
    ASSUME BalanceCounts',
           \A r \in Reservations, e \in EntryTypes :
              Has(r, e) => /\ Has(r, e)'
                           /\ entry'[r][e] = entry[r][e]
                           /\ expires'[r] = expires[r]
                           /\ subs'[against'[r]].start = subs[against[r]].start
    PROVE  BalanceCounts
BY DEF BalanceCounts, EntriesInPeriod, ConfirmedInTime, EntryTypes

\* Every row is paid for by an order or is the trial.
LEMMA RowOrder ==
    ASSUME SubscriptionInv, NEW i \in DOMAIN subs
    PROVE  subs[i].order \in Orders \union {NULL}
<1>1. subs[i] \in Rows
  BY DEF SubscriptionInv, SubscriptionTypeOK
<1> QED
  BY <1>1 DEF Rows

-----------------------------------------------------------------------------
(* Preservation                                                            *)

LEMMA LedgerInitInv ==
    ASSUME SubscriptionConstants, LedgerConstants, LedgerInit
    PROVE  LedgerInv
<1>1. SubscriptionInv
  BY InitInv DEF LedgerInit
<1>2. LedgerTypeOK
  BY DEF LedgerInit, LedgerTypeOK
<1>3. EntriesInOrder /\ SweepFound /\ TimelyUseStays
  BY DEF LedgerInit, EntriesInOrder, SweepFound, TimelyUseStays, Has, EntryTypes
<1>4. NoOverspend
  <2> SUFFICES ASSUME NEW i \in DOMAIN subs
               PROVE  Cardinality(Held(i)) <= LimitOf[subs[i].order]
    BY DEF NoOverspend
  <2>1. Held(i) = {}
    BY DEF Held, LedgerInit, Has, EntryTypes
  <2>2. LimitOf[subs[i].order] \in Nat
    BY <1>1, RowOrder DEF LedgerConstants
  <2> QED
    BY <2>1, <2>2, FS_EmptySet
<1> QED
  BY <1>1, <1>2, <1>3, <1>4 DEF LedgerInv

\* A step of the subscriptions.
LEMMA SubscriptionStepInv ==
    ASSUME SubscriptionConstants, LedgerConstants, LedgerInv,
           [SubscriptionNext]_subscriptionVars, UNCHANGED ledgerVars
    PROVE  LedgerInv'
<1> USE DEF LedgerInv
<1>1. SubscriptionInv'
  BY NextInv
<1>2. LedgerTypeOK'
  BY DEF LedgerTypeOK, ledgerVars
<1>3. EntriesInOrder'
  BY RowsStay DEF EntriesInOrder, Has, ledgerVars
<1>4. SweepFound'
  <2> SUFFICES ASSUME NEW r \in sweep
               PROVE  /\ Has(r, "reserve")
                      /\ expires[r] # NULL
                      /\ expires[r] <= now'
                      /\ Has(r, "confirm") => entry[r]["confirm"] >= expires[r]
    BY DEF SweepFound, Has, ledgerVars
  <2>1. expires[r] \in Nat /\ expires[r] <= now
    BY DEF SweepFound, LedgerTypeOK
  <2> QED
    BY <2>1, RowsStay DEF SweepFound
<1>5. TimelyUseStays'
  BY DEF TimelyUseStays, Has, ledgerVars
<1>6. ASSUME BalanceCounts'
      PROVE  NoOverspend'
  <2> SUFFICES ASSUME NEW i \in DOMAIN subs'
               PROVE  Cardinality(Held(i)') <= LimitOf[subs'[i].order]
    BY DEF NoOverspend
  <2>0. BalanceCounts
    <3>1. \A r \in Reservations, e \in EntryTypes : Has(r, e) => Has(r, "reserve")
      BY DEF EntriesInOrder, EntryTypes
    <3>2. \A r \in Reservations, e \in EntryTypes :
             Has(r, e) => against[r] \in DOMAIN subs
      BY <3>1 DEF EntriesInOrder
    <3> QED
      BY <1>6, <3>2, RowsStay, OnceMiscounted DEF Has, ledgerVars
  <2>1. Held(i)' \subseteq Held(i)
    <3>1. \A r \in Reservations : Live(r)' => Live(r)
      BY RowsStay DEF Live, LedgerTypeOK, ledgerVars
    <3> QED
      BY <3>1 DEF Held, Has, ledgerVars
  <2>2. CASE i \in DOMAIN subs
    BY <2>0, <2>1, <2>2, RowsStay, RowOrder, FewerHeld
  <2>3. CASE i \notin DOMAIN subs
    <3>1. i # 0
      <4>1. subs' \in Seq(Rows)
        BY <1>1 DEF SubscriptionInv, SubscriptionTypeOK
      <4> QED
        BY <4>1
    <3>2. Held(i) = {}
      BY <2>3, <3>1 DEF Held, EntriesInOrder
    <3>3. LimitOf[subs'[i].order] \in Nat
      <4>1. subs'[i] \in Rows
        BY <1>1 DEF SubscriptionInv, SubscriptionTypeOK
      <4> QED
        BY <4>1 DEF Rows, LedgerConstants
    <3> QED
      BY <2>1, <3>2, <3>3, FS_EmptySet
  <2> QED
    BY <2>2, <2>3
<1> QED
  BY <1>1, <1>2, <1>3, <1>4, <1>5, <1>6

\* A settlement of the entries: what it holds may shrink, and only that.
LEMMA EntriesOnly ==
    ASSUME SubscriptionConstants, LedgerConstants, LedgerInv,
           UNCHANGED <<subscriptionVars, against, expires>>,
           LedgerTypeOK', EntriesInOrder', SweepFound', TimelyUseStays',
           \A r \in Reservations, e \in EntryTypes :
              Has(r, e) => Has(r, e)' /\ entry'[r][e] = entry[r][e],
           Concurrent \/ ConfirmedInTime' => \A i : Held(i)' \subseteq Held(i)
    PROVE  LedgerInv'
<1> USE DEF LedgerInv
<1>1. UNCHANGED <<now, order, subs, review>>
  BY DEF subscriptionVars
<1>2. SubscriptionInv'
  BY <1>1 DEF SubscriptionInv, SubscriptionTypeOK, OneCurrent, CurrentRows,
              Current, ReviewsInOrder, ConfirmedOrderPaidFor
<1>3. ASSUME BalanceCounts'
      PROVE  NoOverspend'
  <2> SUFFICES ASSUME NEW i \in DOMAIN subs'
               PROVE  Cardinality(Held(i)') <= LimitOf[subs'[i].order]
    BY DEF NoOverspend
  <2>1. i \in DOMAIN subs /\ subs'[i] = subs[i]
    BY <1>1
  <2>2. BalanceCounts
    BY <1>1, <1>3, OnceMiscounted
  <2>3. Concurrent \/ ConfirmedInTime'
    BY <1>3 DEF BalanceCounts
  <2> QED
    BY <2>1, <2>2, <2>3, RowOrder, FewerHeld
<1> QED
  BY <1>2, <1>3

\* Adding one entry.
LEMMA OneEntry ==
    ASSUME LedgerTypeOK, now \in Nat, NULL \notin Nat,
           NEW r \in Reservations, NEW e \in EntryTypes, AddEntry(r, e)
    PROVE  /\ entry' \in [Reservations -> [EntryTypes -> Nat \union {NULL}]]
           /\ \A p \in Reservations, f \in EntryTypes :
                 Has(p, f)' <=> Has(p, f) \/ (p = r /\ f = e)
BY DEF LedgerTypeOK, AddEntry, Has

\* The ledger only grows.
LEMMA EntriesStay ==
    ASSUME LedgerTypeOK, now \in Nat, NULL \notin Nat,
           NEW r \in Reservations, NEW e \in EntryTypes, ~Has(r, e),
           AddEntry(r, e)
    PROVE  \A p \in Reservations, f \in EntryTypes :
              Has(p, f) => Has(p, f)' /\ entry'[p][f] = entry[p][f]
BY DEF LedgerTypeOK, AddEntry, Has

LEMMA ReserveInv ==
    ASSUME SubscriptionConstants, LedgerConstants, LedgerInv,
           NEW r \in Reservations, Reserve(r)
    PROVE  LedgerInv'
<1> USE DEF LedgerInv
<1>1. UNCHANGED <<now, order, subs, review>> /\ sweep' = sweep
  BY DEF Reserve, subscriptionVars
<1>2. SubscriptionInv'
  BY <1>1 DEF SubscriptionInv, SubscriptionTypeOK, OneCurrent, CurrentRows,
              Current, ReviewsInOrder, ConfirmedOrderPaidFor
<1>3. PICK i \in CurrentRows : /\ Remaining(i) >= 1
                               /\ against' = [against EXCEPT ![r] = i]
  BY DEF Reserve
<1>4. i \in DOMAIN subs /\ i \in Nat /\ now \in Nat
  BY <1>3 DEF CurrentRows, SubscriptionInv, SubscriptionTypeOK
<1>5. /\ entry' \in [Reservations -> [EntryTypes -> Nat \union {NULL}]]
      /\ \A p \in Reservations, f \in EntryTypes :
            Has(p, f)' <=> Has(p, f) \/ (p = r /\ f = "reserve")
  BY <1>4, OneEntry DEF Reserve, LedgerConstants, EntryTypes
<1>6. /\ expires' \in [Reservations -> Nat \union {NULL}]
      /\ \A p \in Reservations \ {r} : expires'[p] = expires[p]
      /\ Concurrent => expires'[r] = NULL
  BY <1>4 DEF Reserve, LedgerTypeOK, LedgerConstants
<1>7. /\ against' \in [Reservations -> Nat] /\ against'[r] = i
      /\ \A p \in Reservations \ {r} : against'[p] = against[p]
  BY <1>3, <1>4 DEF LedgerTypeOK
<1>8. ~Has(r, "reserve") /\ ~Has(r, "confirm") /\ ~Has(r, "release")
      /\ ~Has(r, "vacate") /\ against[r] = 0
  BY DEF Reserve, EntriesInOrder
<1>9. LedgerTypeOK'
  BY <1>1, <1>5, <1>6, <1>7 DEF LedgerTypeOK
<1>10. EntriesInOrder'
  BY <1>1, <1>4, <1>5, <1>6, <1>7 DEF EntriesInOrder, EntryTypes
<1>11. \A p \in Reservations, f \in EntryTypes :
          Has(p, f) => p # r /\ Has(p, f)' /\ entry'[p][f] = entry[p][f]
  <2>1. \A p \in Reservations, f \in EntryTypes :
           Has(p, f) => Has(p, f)' /\ entry'[p][f] = entry[p][f]
    BY <1>4, EntriesStay DEF Reserve, LedgerConstants, EntryTypes
  <2> QED
    BY <1>8, <2>1 DEF EntryTypes
<1>12. SweepFound' /\ TimelyUseStays'
  <2>1. \A p \in Reservations : Has(p, "confirm")' => Has(p, "confirm")
    BY <1>5 DEF EntryTypes
  <2>2. \A p \in Reservations : Has(p, "release")' => Has(p, "release")
    BY <1>5 DEF EntryTypes
  <2>3. r \notin sweep
    BY <1>8 DEF SweepFound
  <2>4. \A p \in Reservations : Has(p, "confirm") =>
           p # r /\ entry'[p]["confirm"] = entry[p]["confirm"]
    BY <1>11 DEF EntryTypes
  <2>5. SweepFound'
    BY <1>1, <1>5, <1>6, <2>1, <2>3, <2>4 DEF SweepFound, LedgerTypeOK, EntryTypes
  <2> QED
    BY <1>6, <2>1, <2>2, <2>4, <2>5 DEF TimelyUseStays
<1>13. ASSUME BalanceCounts'
       PROVE  NoOverspend'
  <2> SUFFICES ASSUME NEW k \in DOMAIN subs
               PROVE  Cardinality(Held(k)') <= LimitOf[subs[k].order]
    BY <1>1 DEF NoOverspend
  <2>1. BalanceCounts
    BY <1>1, <1>6, <1>7, <1>11, <1>13, OnceMiscounted
  <2>2. \A p \in Reservations \ {r} : Live(p)' <=> Live(p)
    BY <1>1, <1>6 DEF Live
  <2>3. CASE k = i
    <3>1. Held(k)' \subseteq Held(k) \union {r}
      BY <1>5, <1>7, <1>8, <2>2, <2>3 DEF Held, EntryTypes
    <3>2. r \notin Held(k)
      BY <1>8 DEF Held
    <3>3. Cardinality(Held(k) \union {r}) = Cardinality(Held(k)) + 1
      BY <3>2, HeldFinite, FS_AddElement
    <3>4. Cardinality(Held(k)) + 1 <= LimitOf[subs[k].order]
      <4>1. Remaining(k) = LimitOf[subs[k].order] - Cardinality(Held(k))
        BY <2>1, RemainingIsExact, RowOrder
      <4>2. LimitOf[subs[k].order] \in Nat /\ Cardinality(Held(k)) \in Nat
        BY RowOrder, HeldFinite DEF LedgerConstants
      <4> QED
        BY <1>3, <2>3, <4>1, <4>2
    <3>5. /\ IsFiniteSet(Held(k) \union {r})
          /\ Cardinality(Held(k)') <= Cardinality(Held(k) \union {r})
          /\ Cardinality(Held(k)') \in Nat
      BY <3>1, HeldFinite, FS_AddElement, FS_Subset, FS_CardinalityType
    <3> QED
      BY <3>3, <3>4, <3>5, HeldFinite, RowOrder DEF LedgerConstants
  <2>4. CASE k # i
    <3>1. Held(k)' \subseteq Held(k)
      BY <1>5, <1>7, <1>8, <2>2, <2>4 DEF Held, EntryTypes
    <3> QED
      BY <1>1, <2>1, <3>1, FewerHeld, RowOrder
  <2> QED
    BY <2>3, <2>4
<1> QED
  BY <1>2, <1>9, <1>10, <1>12, <1>13

LEMMA ConfirmInv ==
    ASSUME SubscriptionConstants, LedgerConstants, LedgerInv,
           NEW r \in Reservations, Confirm(r)
    PROVE  LedgerInv'
<1> USE DEF LedgerInv
<1>1. /\ now \in Nat
      /\ UNCHANGED <<now, order, subs, review, against, expires, sweep>>
      /\ Has(r, "reserve") /\ ~Has(r, "release")
      /\ entry'[r]["confirm"] = now
  BY DEF Confirm, Settle, AddEntry, LedgerTypeOK, EntryTypes, subscriptionVars,
         SubscriptionInv, SubscriptionTypeOK
<1>2. /\ entry' \in [Reservations -> [EntryTypes -> Nat \union {NULL}]]
      /\ \A p \in Reservations, f \in EntryTypes :
            Has(p, f)' <=> Has(p, f) \/ (p = r /\ f = "confirm")
  BY <1>1, OneEntry DEF Confirm, Settle, LedgerConstants, EntryTypes
<1>3. LedgerTypeOK'
  BY <1>1, <1>2 DEF LedgerTypeOK
<1>4. EntriesInOrder'
  BY <1>1, <1>2 DEF EntriesInOrder, EntryTypes
<1>5. \A p \in Reservations, f \in EntryTypes :
         Has(p, f) => Has(p, f)' /\ entry'[p][f] = entry[p][f]
  BY <1>1, EntriesStay DEF Confirm, Settle, LedgerConstants, EntryTypes
<1>6. SweepFound'
  BY <1>1, <1>2, <1>5 DEF SweepFound, LedgerTypeOK, EntryTypes
<1>7. TimelyUseStays'
  BY <1>1, <1>2, <1>5 DEF TimelyUseStays, EntryTypes
<1>8. ASSUME Concurrent \/ ConfirmedInTime', NEW i
      PROVE  Held(i)' \subseteq Held(i)
  <2>1. Has(r, "confirm")'
    BY <1>2 DEF EntryTypes
  <2>2. Live(r)
    BY <1>1, <1>8, <2>1 DEF ConfirmedInTime, Live, EntriesInOrder, LedgerTypeOK
  <2>3. \A p \in Reservations : Live(p)' <=> Live(p)
    BY <1>1 DEF Live
  <2> QED
    BY <1>1, <1>2, <2>2, <2>3 DEF Held, EntryTypes
<1> QED
  BY <1>3, <1>4, <1>5, <1>6, <1>7, <1>8, EntriesOnly DEF Confirm, Settle

LEMMA ReleaseInv ==
    ASSUME SubscriptionConstants, LedgerConstants, LedgerInv,
           NEW r \in Reservations, Release(r)
    PROVE  LedgerInv'
<1> USE DEF LedgerInv
<1>1. /\ now \in Nat
      /\ UNCHANGED <<now, order, subs, review, against, expires, sweep>>
      /\ Has(r, "reserve") /\ ~Has(r, "confirm")
  BY DEF Release, Settle, subscriptionVars, SubscriptionInv, SubscriptionTypeOK
<1>2. /\ entry' \in [Reservations -> [EntryTypes -> Nat \union {NULL}]]
      /\ \A p \in Reservations, f \in EntryTypes :
            Has(p, f)' <=> Has(p, f) \/ (p = r /\ f = "release")
  BY <1>1, OneEntry DEF Release, Settle, LedgerConstants, EntryTypes
<1>3. LedgerTypeOK'
  BY <1>1, <1>2 DEF LedgerTypeOK
<1>4. EntriesInOrder'
  BY <1>1, <1>2 DEF EntriesInOrder, EntryTypes
<1>5. \A p \in Reservations, f \in EntryTypes :
         Has(p, f) => Has(p, f)' /\ entry'[p][f] = entry[p][f]
  BY <1>1, EntriesStay DEF Release, Settle, LedgerConstants, EntryTypes
<1>6. SweepFound'
  BY <1>1, <1>2, <1>5 DEF SweepFound, LedgerTypeOK, EntryTypes
<1>7. TimelyUseStays'
  BY <1>1, <1>2, <1>5 DEF TimelyUseStays, EntryTypes
<1>8. ASSUME NEW i
      PROVE  Held(i)' \subseteq Held(i)
  BY <1>1, <1>2 DEF Held, Live, EntryTypes
<1> QED
  BY <1>3, <1>4, <1>5, <1>6, <1>7, <1>8, EntriesOnly DEF Release, Settle

LEMMA VacateInv ==
    ASSUME SubscriptionConstants, LedgerConstants, LedgerInv,
           NEW r \in Reservations, Vacate(r)
    PROVE  LedgerInv'
<1> USE DEF LedgerInv
<1>1. /\ now \in Nat
      /\ UNCHANGED <<now, order, subs, review, against, expires, sweep>>
      /\ Has(r, "confirm")
  BY DEF Vacate, subscriptionVars, SubscriptionInv, SubscriptionTypeOK
<1>2. /\ entry' \in [Reservations -> [EntryTypes -> Nat \union {NULL}]]
      /\ \A p \in Reservations, f \in EntryTypes :
            Has(p, f)' <=> Has(p, f) \/ (p = r /\ f = "vacate")
  BY <1>1, OneEntry DEF Vacate, LedgerConstants, EntryTypes
<1>3. LedgerTypeOK'
  BY <1>1, <1>2 DEF LedgerTypeOK
<1>4. EntriesInOrder'
  BY <1>1, <1>2 DEF EntriesInOrder, EntryTypes
<1>5. \A p \in Reservations, f \in EntryTypes :
         Has(p, f) => Has(p, f)' /\ entry'[p][f] = entry[p][f]
  BY <1>1, EntriesStay DEF Vacate, LedgerConstants, EntryTypes
<1>6. SweepFound'
  BY <1>1, <1>2, <1>5 DEF SweepFound, LedgerTypeOK, EntryTypes
<1>7. TimelyUseStays'
  BY <1>1, <1>2, <1>5 DEF TimelyUseStays, EntryTypes
<1>8. ASSUME NEW i
      PROVE  Held(i)' \subseteq Held(i)
  BY <1>1, <1>2 DEF Held, Live, EntryTypes
<1> QED
  BY <1>3, <1>4, <1>5, <1>6, <1>7, <1>8, EntriesOnly DEF Vacate

LEMMA SweepInv ==
    ASSUME SubscriptionConstants, LedgerConstants, LedgerInv,
           FindExpired \/ AbandonSweep
    PROVE  LedgerInv'
<1> USE DEF LedgerInv
<1>1. /\ now \in Nat
      /\ UNCHANGED <<now, order, subs, review, entry, against, expires>>
      /\ sweep' = {} \/ sweep' = {r \in Reservations : Expired(r)}
  BY DEF FindExpired, AbandonSweep, subscriptionVars, SubscriptionInv,
         SubscriptionTypeOK
<1>2. SweepFound'
  BY <1>1 DEF SweepFound, Expired, Has, EntriesInOrder, LedgerTypeOK,
              LedgerConstants
<1>3. LedgerTypeOK'
  BY <1>1 DEF LedgerTypeOK
<1>4. EntriesInOrder'
  BY <1>1 DEF EntriesInOrder, Has
<1>5. TimelyUseStays'
  BY <1>1 DEF TimelyUseStays, Has
<1>6. SubscriptionInv'
  BY <1>1 DEF SubscriptionInv, SubscriptionTypeOK, OneCurrent, CurrentRows,
              Current, ConfirmedOrderPaidFor, ReviewsInOrder
<1>7. BalanceCounts' => NoOverspend'
  BY <1>1 DEF BalanceCounts, ConfirmedInTime, EntriesInPeriod, NoOverspend, Held,
              Has, Live
<1> QED
  BY <1>2, <1>3, <1>4, <1>5, <1>6, <1>7

LEMMA ReleaseExpiredInv ==
    ASSUME SubscriptionConstants, LedgerConstants, LedgerInv, ReleaseExpired
    PROVE  LedgerInv'
<1> USE DEF LedgerInv
<1>1. /\ now \in Nat
      /\ UNCHANGED <<now, order, subs, review, against, expires>>
      /\ sweep' = {}
  BY DEF ReleaseExpired, subscriptionVars, SubscriptionInv, SubscriptionTypeOK
<1>2. /\ entry' \in [Reservations -> [EntryTypes -> Nat \union {NULL}]]
      /\ \A p \in Reservations, f \in EntryTypes :
            Has(p, f)' <=> Has(p, f) \/ (p \in sweep /\ f = "release")
  BY <1>1 DEF ReleaseExpired, LedgerTypeOK, LedgerConstants, Has, EntryTypes
<1>3. LedgerTypeOK'
  BY <1>1, <1>2 DEF LedgerTypeOK
<1>4. EntriesInOrder'
  BY <1>1, <1>2 DEF EntriesInOrder, SweepFound, EntryTypes
<1>5. SweepFound'
  BY <1>1 DEF SweepFound
<1>6. \A p \in Reservations, f \in EntryTypes :
         Has(p, f) => Has(p, f)' /\ entry'[p][f] = entry[p][f]
  BY DEF ReleaseExpired, LedgerTypeOK, Has, EntryTypes
<1>7. TimelyUseStays'
  <2> SUFFICES ASSUME NEW r \in Reservations,
                      Has(r, "confirm")', Has(r, "release")'
               PROVE  expires[r] # NULL /\ entry'[r]["confirm"] >= expires[r]
    BY <1>1 DEF TimelyUseStays
  <2>1. Has(r, "confirm") /\ (Has(r, "release") \/ r \in sweep)
    BY <1>2 DEF EntryTypes
  <2>2. entry'[r]["confirm"] = entry[r]["confirm"]
    BY <1>6, <2>1 DEF EntryTypes
  <2> QED
    BY <2>1, <2>2 DEF TimelyUseStays, SweepFound
<1>8. ASSUME NEW i
      PROVE  Held(i)' \subseteq Held(i)
  BY <1>1, <1>2 DEF Held, Live, EntryTypes
<1> QED
  BY <1>3, <1>4, <1>5, <1>6, <1>7, <1>8, EntriesOnly DEF ReleaseExpired

-----------------------------------------------------------------------------
(* Theorems                                                                *)

LEMMA LedgerNextInv ==
    ASSUME SubscriptionConstants, LedgerConstants, LedgerInv,
           [LedgerNext]_allVars
    PROVE  LedgerInv'
<1>1. CASE SubscriptionNext /\ UNCHANGED ledgerVars
  BY <1>1, SubscriptionStepInv
<1>2. CASE \E r \in Reservations :
              Reserve(r) \/ Confirm(r) \/ Release(r) \/ Vacate(r)
  BY <1>2, ReserveInv, ConfirmInv, ReleaseInv, VacateInv
<1>3. CASE FindExpired \/ AbandonSweep
  BY <1>3, SweepInv
<1>4. CASE ReleaseExpired
  BY <1>4, ReleaseExpiredInv
<1>5. CASE UNCHANGED allVars
  BY <1>5, SubscriptionStepInv DEF allVars
<1> QED
  BY <1>1, <1>2, <1>3, <1>4, <1>5 DEF LedgerNext

\* The ledger's inductive invariant holds of every run (usage_service).
THEOREM LedgerSound == LedgerSpec => []LedgerInv
<1>1. LedgerInit => LedgerInv
  BY LedgerInitInv, SubscriptionConstants, LedgerConstants
<1>2. LedgerInv /\ [LedgerNext]_allVars => LedgerInv'
  BY LedgerNextInv, SubscriptionConstants, LedgerConstants
<1> QED
  BY <1>1, <1>2, PTL DEF LedgerSpec

\* Seats of one subscription never exceed its plan, however many callers
\* reserve at once and whatever happens to the subscription (reserve).
THEOREM SeatsNeverOverspend ==
    ASSUME Concurrent
    PROVE  LedgerSpec => []NoOverspend
<1>1. LedgerInv => NoOverspend
  BY DEF LedgerInv, BalanceCounts
<1> QED
  BY <1>1, LedgerSound, PTL

\* A metered limit, as that of the searches, is overspent in two ways only: by an
\* entry that is older than the period of the row it is booked on, which a
\* renewal before the end of the paid period makes possible, and by a use that
\* is confirmed after its reservation expired (reserve, compute_balance, _settle).
THEOREM OverspentOnlyEarly ==
    LedgerSpec => [](ConfirmedInTime /\ EntriesInPeriod => NoOverspend)
<1>1. LedgerInv => (ConfirmedInTime /\ EntriesInPeriod => NoOverspend)
  BY DEF LedgerInv, BalanceCounts
<1> QED
  BY <1>1, LedgerSound, PTL

\* The ledger leaves the subscriptions to their own operations, so what
\* SubscriptionSpec promises of orders and prepaid time holds of the ledger and
\* of what is built on it (usage_service writes no subscription).
THEOREM LedgerKeepsSubscriptions == LedgerSpec => SubscriptionSpec
<1>1. LedgerInit => SubscriptionInit
  BY DEF LedgerInit
<1>2. [LedgerNext]_allVars => [SubscriptionNext]_subscriptionVars
  BY DEF LedgerNext, allVars, Reserve, Confirm, Release, Settle, Vacate,
         FindExpired, ReleaseExpired, AbandonSweep
<1> QED
  BY <1>1, <1>2, PTL DEF LedgerSpec, SubscriptionSpec

\* A use that was confirmed before its reservation expired is never freed, by
\* its holder or by the sweep (_settle, release_expired_reservations).
THEOREM SettledOneWay == LedgerSpec => []TimelyUseStays
<1>1. LedgerInv => TimelyUseStays
  BY DEF LedgerInv
<1> QED
  BY <1>1, LedgerSound, PTL
=============================================================================
