---------------------- MODULE RequirementTaskLifecycle ----------------------
(***************************************************************************)
(* What PostgreSQL promises about the rows of                              *)
(* job_requirement_parsing_tasks, whoever writes them: the transition      *)
(* matrix and the lease columns enforced by the trigger                    *)
(* validate_requirement_task_transition, and the partial unique index      *)
(* uq_requirement_tasks_one_nonterminal.  A transaction that would break   *)
(* them is aborted, so a program that implements this specification never  *)
(* meets one of these aborts.                                              *)
(***************************************************************************)
EXTENDS Integers

CONSTANTS Tasks,      \* task rows that may come to exist
          Jobs,       \* jobs of one tenant
          JobOf,      \* the job each task row is created for
          Holders,    \* lease tokens
          NoHolder    \* the NULL of lease_token

VARIABLES status,     \* status[t]: the status column, "absent" before the INSERT
          holder,     \* holder[t]: the lease_token column
          expired     \* expired[t]: lease_expires_at <= now()

vars == <<status, holder, expired>>

-----------------------------------------------------------------------------

Nonterminal == {"queued", "running", "retry_scheduled", "cancel_requested"}
Terminal == {"succeeded", "failed", "cancelled"}
Leased == {"running", "cancel_requested"}

\* The (OLD.status, NEW.status) pairs the trigger lets through; the pair
\* running -> queued also needs an expired lease.
LegalChange ==
    {"queued"} \X {"running", "cancelled"}
    \union {"running"} \X {"retry_scheduled", "succeeded", "failed",
                           "cancel_requested", "queued"}
    \union {"retry_scheduled"} \X {"queued", "cancelled"}
    \union {"cancel_requested"} \X {"cancelled"}

LeaseColumns(t) == holder[t] # NoHolder <=> status[t] \in Leased

OneNonterminal ==
    \A s, t \in Tasks :
        /\ s # t
        /\ JobOf[s] = JobOf[t]
        => ~(status[s] \in Nonterminal /\ status[t] \in Nonterminal)

-----------------------------------------------------------------------------

Init ==
    /\ status = [t \in Tasks |-> "absent"]
    /\ holder = [t \in Tasks |-> NoHolder]
    /\ expired = [t \in Tasks |-> TRUE]

\* INSERT of a task row (always "queued", without a lease).
Insert(t) ==
    /\ status[t] = "absent"
    /\ \A s \in Tasks : JobOf[s] = JobOf[t] => status[s] \notin Nonterminal
    /\ status' = [status EXCEPT ![t] = "queued"]
    /\ UNCHANGED <<holder, expired>>

\* UPDATE of a row that the trigger accepts.
Update(t, new, token, lapsed) ==
    /\ status[t] \in Nonterminal
    /\ <<status[t], new>> \in LegalChange
    /\ status[t] = "running" /\ new = "queued" => expired[t]
    /\ token # NoHolder <=> new \in Leased
    /\ status[t] \in Leased /\ new \in Leased => token = holder[t]
    /\ status' = [status EXCEPT ![t] = new]
    /\ holder' = [holder EXCEPT ![t] = token]
    /\ expired' = [expired EXCEPT ![t] = lapsed]

\* The deadline of a leased row: it passes, or it is moved.  The trigger does
\* not look at lease_expires_at when status and token stay the same.
Lease(t) ==
    /\ status[t] \in Leased
    /\ expired' = [expired EXCEPT ![t] = ~expired[t]]
    /\ UNCHANGED <<status, holder>>

Next ==
    \E t \in Tasks :
        \/ Insert(t)
        \/ Lease(t)
        \/ \E new \in Nonterminal \union Terminal,
              token \in Holders \union {NoHolder},
              lapsed \in BOOLEAN : Update(t, new, token, lapsed)

Spec == Init /\ [][Next]_vars
=============================================================================
