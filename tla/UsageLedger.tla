----------------------------- MODULE UsageLedger -----------------------------
(***************************************************************************)
(* The usage ledger of one tenant, for one metric: an append-only table in *)
(* which a reservation is an entry, and its settlement another one.        *)
(* Balances are computed from the entries of the current subscription, so  *)
(* the module extends Subscriptions: a renewal changes what is counted.    *)
(*                                                                         *)
(* A reservation and its settlement lock the current subscription row for  *)
(* the whole transaction; the sweep of expired reservations locks nothing, *)
(* and writes long after it has read.                                      *)
(***************************************************************************)
EXTENDS Subscriptions

CONSTANTS
    Reservations,   \* reservations, one for each idempotency key
    Concurrent,     \* TRUE: the metric is in CONCURRENT_METRICS
    LimitOf,        \* the entitlement of each order's plan; NULL: the trial's
    TTL             \* DEFAULT_RESERVATION_TTL_SECONDS

ASSUME LedgerConstants ==
    /\ NULL \notin Nat
    /\ IsFiniteSet(Reservations)
    /\ Concurrent \in BOOLEAN
    /\ LimitOf \in [Orders \union {NULL} -> Nat]
    /\ TTL \in Nat \ {0}

VARIABLES
    entry,          \* entry[r][e]: created_at of the entry of type e, or NULL
    against,        \* against[r]: row of the subscription r is booked on, 0: none
    expires,        \* expires[r]: expires_at of the reservation, or NULL
    sweep           \* reservations the running sweep has found expired

ledgerVars == <<entry, against, expires, sweep>>

EntryTypes == {"reserve", "confirm", "release", "vacate"}

LedgerTypeOK ==
    /\ entry \in [Reservations -> [EntryTypes -> Nat \union {NULL}]]
    /\ against \in [Reservations -> Nat]
    /\ expires \in [Reservations -> Nat \union {NULL}]
    /\ sweep \subseteq Reservations

LedgerInit ==
    /\ SubscriptionInit
    /\ entry = [r \in Reservations |-> [e \in EntryTypes |-> NULL]]
    /\ against = [r \in Reservations |-> 0]
    /\ expires = [r \in Reservations |-> NULL]
    /\ sweep = {}

-----------------------------------------------------------------------------
(* compute_balance                                                         *)

Has(r, e) == entry[r][e] # NULL

\* Entries of a periodic metric count from the start of the billing period.
Counts(r, e) ==
    /\ Has(r, e)
    /\ Concurrent \/ entry[r][e] >= subs[against[r]].start

Freed(r) == Counts(r, "release") \/ Counts(r, "vacate")

Live(r) == expires[r] # NULL => expires[r] > now

Used(i) ==
    {r \in Reservations : against[r] = i /\ Counts(r, "confirm") /\ ~Freed(r)}

\* Slip: what is reserved and not yet confirmed is not counted.
ReservedNothing(i) == {}

Reserved(i) ==
    {r \in Reservations : /\ against[r] = i
                          /\ Counts(r, "reserve")
                          /\ ~Counts(r, "confirm")
                          /\ ~Freed(r)
                          /\ Live(r)}

Remaining(i) ==
    LimitOf[subs[i].order] - Cardinality(Used(i)) - Cardinality(Reserved(i))

-----------------------------------------------------------------------------
(* Callers                                                                 *)

AddEntry(r, e) == entry' = [entry EXCEPT ![r][e] = now]

\* reserve: a key that is known answers with the reservation it made.
Reserve(r) ==
    /\ ~Has(r, "reserve")
    /\ \E i \in CurrentRows :
          /\ now <= subs[i].end
          /\ Remaining(i) >= 1
          /\ against' = [against EXCEPT ![r] = i]
    /\ AddEntry(r, "reserve")
    /\ expires' = [expires EXCEPT ![r] = IF Concurrent THEN NULL ELSE now + TTL]
    /\ UNCHANGED <<subscriptionVars, sweep>>

\* _settle: under the lock of the current subscription, whichever it is, the
\* entry is booked on the reservation's own.  Without one it raises.
Settle(r, e, conflict) ==
    /\ CurrentRows # {}
    /\ Has(r, "reserve")
    /\ ~Has(r, e)
    /\ ~Has(r, conflict)
    /\ AddEntry(r, e)
    /\ UNCHANGED <<subscriptionVars, against, expires, sweep>>

\* It does not look at the expiry: a use may be confirmed late.
Confirm(r) == Settle(r, "confirm", "release")

Release(r) == Settle(r, "release", "confirm")

\* vacate_confirmed, for seats only.
Vacate(r) ==
    /\ Concurrent
    /\ CurrentRows # {}
    /\ Has(r, "confirm")
    /\ ~Has(r, "vacate")
    /\ ~Has(r, "release")
    /\ AddEntry(r, "vacate")
    /\ UNCHANGED <<subscriptionVars, against, expires, sweep>>

-----------------------------------------------------------------------------
(* The sweep of expired reservations                                       *)

\* Slip: what has been consumed is released with the rest.
ExpiredOrUsed(r) ==
    /\ expires[r] # NULL
    /\ expires[r] <= now
    /\ ~Has(r, "release")

\* Slip: a reservation that expires this instant is left for the next sweep.
PastExpiry(r) ==
    /\ expires[r] # NULL
    /\ expires[r] < now
    /\ ~Has(r, "confirm")
    /\ ~Has(r, "release")

Expired(r) ==
    /\ expires[r] # NULL
    /\ expires[r] <= now
    /\ ~Has(r, "confirm")
    /\ ~Has(r, "release")

FindExpired ==
    /\ sweep = {}
    /\ sweep' = {r \in Reservations : Expired(r)}
    /\ sweep' # {}
    /\ UNCHANGED <<subscriptionVars, entry, against, expires>>

\* Every reservation found is released; the unique index skips those that were
\* released meanwhile, and says nothing of those that were confirmed.
ReleaseExpired ==
    /\ sweep # {}
    /\ entry' = [r \in Reservations |->
                   IF r \in sweep /\ ~Has(r, "release")
                   THEN [entry[r] EXCEPT !["release"] = now]
                   ELSE entry[r]]
    /\ sweep' = {}
    /\ UNCHANGED <<subscriptionVars, against, expires>>

\* The sweep's one transaction is rolled back; Celery tries it again.
AbandonSweep ==
    /\ sweep # {}
    /\ sweep' = {}
    /\ UNCHANGED <<subscriptionVars, entry, against, expires>>

LedgerNext ==
    \/ SubscriptionNext /\ UNCHANGED ledgerVars
    \/ \E r \in Reservations : Reserve(r) \/ Confirm(r) \/ Release(r) \/ Vacate(r)
    \/ FindExpired
    \/ ReleaseExpired
    \/ AbandonSweep

allVars == <<subscriptionVars, ledgerVars>>

LedgerSpec == LedgerInit /\ [][LedgerNext]_allVars

-----------------------------------------------------------------------------
(* Invariants                                                              *)

\* Entries follow one another: a settlement has its reservation, booked on a
\* row of the tenant, and only what was confirmed is vacated.
EntriesInOrder ==
    \A r \in Reservations :
        /\ Has(r, "reserve") => against[r] \in DOMAIN subs
        /\ ~Has(r, "reserve") => against[r] = 0 /\ expires[r] = NULL
        /\ Has(r, "confirm") \/ Has(r, "release") => Has(r, "reserve")
        /\ Has(r, "vacate") => Has(r, "confirm")
        /\ Concurrent => expires[r] = NULL

\* What the sweep is about to release has expired; if it is confirmed, then too
\* late.
SweepFound ==
    \A r \in sweep :
        /\ Has(r, "reserve")
        /\ expires[r] # NULL
        /\ expires[r] <= now
        /\ Has(r, "confirm") => entry[r]["confirm"] >= expires[r]

\* What is held of a subscription, by the entries alone.
Held(i) ==
    {r \in Reservations : /\ against[r] = i
                          /\ Has(r, "reserve")
                          /\ ~Has(r, "release")
                          /\ ~Has(r, "vacate")
                          /\ Has(r, "confirm") \/ Live(r)}

\* Reservations never overspend (reserve): what is used or reserved of a
\* subscription stays within the limit of its plan.
NoOverspend ==
    \A i \in DOMAIN subs : Cardinality(Held(i)) <= LimitOf[subs[i].order]

\* Every entry was made in the period of its row or later.  An order that is
\* confirmed before the paid time is over breaks it: its row starts at the end of
\* that time, and is current at once.
EntriesInPeriod ==
    \A r \in Reservations, e \in EntryTypes :
        Has(r, e) => entry[r][e] >= subs[against[r]].start

\* Every use was confirmed before its reservation expired.  A use that is
\* confirmed late was not counted for a while, and its unit may be reserved.
ConfirmedInTime ==
    \A r \in Reservations :
        Has(r, "confirm") /\ expires[r] # NULL => entry[r]["confirm"] < expires[r]

\* The balance counts what is held.
BalanceCounts == Concurrent \/ (ConfirmedInTime /\ EntriesInPeriod)

\* A use that was confirmed before its reservation expired stays one: neither
\* its holder nor the sweep, which releases what it read to be unsettled some time
\* ago, frees it (_settle, release_expired_reservations).
TimelyUseStays ==
    \A r \in Reservations :
        Has(r, "confirm") /\ Has(r, "release") =>
            /\ expires[r] # NULL
            /\ entry[r]["confirm"] >= expires[r]

\* The inductive invariant.
LedgerInv ==
    /\ SubscriptionInv
    /\ LedgerTypeOK
    /\ EntriesInOrder
    /\ SweepFound
    /\ TimelyUseStays
    /\ BalanceCounts => NoOverspend

-----------------------------------------------------------------------------
(* Properties                                                              *)

\* The long-lived count limits do not start again with a renewal
\* (CONCURRENT_METRICS): the seats held, whatever subscription they are booked
\* on, are within a limit the tenant has paid for.
SeatsWithinLimit ==
    Cardinality(UNION {Held(i) : i \in DOMAIN subs}) <=
        LimitOf[CHOOSE o \in Orders \union {NULL} :
                  \A p \in Orders \union {NULL} : LimitOf[p] <= LimitOf[o]]

\* A metered limit is not overspent by uses that are confirmed in time (reserve).
NoOverspendInTime == ConfirmedInTime => NoOverspend

\* A reservation is consumed or freed, never both (_settle raises
\* ReservationStateError for the opposite settlement).
SettledOnce == \A r \in Reservations : ~(Has(r, "confirm") /\ Has(r, "release"))

\* A reservation that expires does not stay open: the sweep releases it unless
\* its holder settles it first (release_expired_reservations).
ExpiredSettles ==
    \A r \in Reservations :
        expires[r] # NULL /\ expires[r] <= now
            ~> Has(r, "confirm") \/ Has(r, "release")
=============================================================================
