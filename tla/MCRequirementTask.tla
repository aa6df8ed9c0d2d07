------------------------- MODULE MCRequirementTask -------------------------
(* Instances of RequirementTask for TLC.                                   *)
EXTENDS RequirementTaskInvariants, TLC

CONSTANTS j1, j2, t1, t2, c1, w1, w2

\* All tasks are created for one job.
SameJob == [t \in Tasks |-> j1]

\* Every task has a job of its own.
OwnJobs == [t \in Tasks |-> IF t = t1 THEN j1 ELSE j2]

\* Slots are interchangeable; the liveness runs do without it.
WorkerSymmetry == Permutations(Workers)

\* Behaviours without archivals, purges and decisions about drafts: what is
\* left is the contest of several tasks for the tenant's slots.
ContestNext ==
    \/ \E t \in Tasks : CreateTask(t) \/ CancelTask(t)
    \/ DeliveryStep
    \/ \E w \in Workers : RunStep(w) \/ Heartbeat(w) \/ WorkerDies(w)
    \/ \E t \in Tasks : Tick(t) \/ ScheduleDue(t) \/ RecoverExpired(t)
ContestSpec == Init /\ [][ContestNext]_vars /\ Fairness

\* Without purges, which no guard looks at.
UnpurgedNext ==
    \/ MemberStep
    \/ DeliveryStep
    \/ \E w \in Workers : RunStep(w) \/ Heartbeat(w) \/ WorkerDies(w)
    \/ \E t \in Tasks : Tick(t) \/ ScheduleDue(t) \/ RecoverExpired(t)
UnpurgedSpec == Init /\ [][UnpurgedNext]_vars
=============================================================================
