----------------------------- MODULE RefundQueue -----------------------------
(***************************************************************************)
(* The durable queue of refunds for undelivered messages: the trigger and  *)
(* the backfill that create jobs                                           *)
(* (repository/campaign_refund_reconciliation_repository.go and migration  *)
(* 0153), and the scheduler of each application instance that leases jobs  *)
(* and runs them                                                           *)
(* (app/scheduler/campaign_refund_reconciliation_scheduler.go).            *)
(*                                                                         *)
(* A claim is identified by its started_at in the code and by the attempt  *)
(* number here: every claim sets both to a value of its own.  What one     *)
(* attempt does to the ledger is CampaignFunds' ReconcileOutcome; here it  *)
(* is reduced to what the campaign can claim.                              *)
(***************************************************************************)
EXTENDS Integers, FiniteSets, FiniteSetsExt

CONSTANTS Campaigns,    \* campaign ids
          Instances,    \* application instances running the scheduler
          MaxParallel,  \* maxParallelRuns of an instance
          MaxAttempts,  \* maxAttempts of a job
          BatchSize,    \* discoveryBatchSize
          MaxFaults     \* bound: crashes, failed job updates, late workers

ASSUME QueueAssumption ==
    /\ Campaigns \subseteq Nat \ {0}
    /\ IsFiniteSet(Campaigns)
    /\ MaxParallel \in Nat \ {0}
    /\ MaxAttempts \in Nat \ {0}
    /\ BatchSize \in Nat \ {0}
    /\ MaxFaults \in Nat

VARIABLES executed,   \* campaigns: the set of those with status executed
          claim,      \* what a refund attempt would find
          refunded,   \* completed partial refund transactions per campaign
          job,        \* the row of each campaign in the queue
          cursor,     \* last_campaign_id of the scheduler state
          worker,     \* the goroutine of each instance for each campaign
          faults      \* faults so far

vars == <<executed, claim, refunded, job, cursor, worker, faults>>

Claims == {"unreported", "owed", "nothing", "broken", "unscheduled"}
States == {"none", "pending", "processing", "retry", "completed", "manual_review"}
Closed == {"completed", "manual_review"}

\* due: eligible_at, or next_attempt_at, has come; lapsed: the lease is over.
Job(state, attempt) ==
    [state |-> state, attempt |-> attempt, due |-> FALSE, lapsed |-> FALSE]
NoJob == Job("none", 0)

Worker(pc, token) == [pc |-> pc, token |-> token]
NoWorker == Worker("idle", 0)

inFlight(i) == {c \in Campaigns : worker[i][c].pc # "idle"}
availableSlots(i) == IF Cardinality(inFlight(i)) >= MaxParallel THEN 0
                     ELSE MaxParallel - Cardinality(inFlight(i))

\* The worker that holds the current claim of a campaign's job.
Holds(i, c) ==
    worker[i][c].pc # "idle" /\ worker[i][c].token = job[c].attempt

Init ==
    /\ executed \in SUBSET Campaigns
    /\ claim \in [Campaigns -> {"unreported", "unscheduled"}]
    /\ refunded = [c \in Campaigns |-> 0]
    /\ job = [c \in Campaigns |-> NoJob]
    /\ cursor = 0
    /\ worker = [i \in Instances |-> [c \in Campaigns |-> NoWorker]]
    /\ faults = 0

-----------------------------------------------------------------------------
(* Creating jobs *)

\* ON CONFLICT DO NOTHING; a campaign without a schedule goes to a human.
Enqueued(c) ==
    IF job[c].state # "none" THEN job[c]
    ELSE Job(IF claim[c] = "unscheduled" THEN "manual_review" ELSE "pending", 0)

\* Mutant: the trigger is not there, jobs come from the backfill alone.
NoTrigger(c) ==
    /\ c \notin executed
    /\ executed' = executed \cup {c}
    /\ UNCHANGED <<claim, refunded, job, cursor, worker, faults>>

\* MoveCampaignToExecuted fires the trigger in its transaction.
MoveCampaignToExecuted(c) ==
    /\ c \notin executed
    /\ executed' = executed \cup {c}
    /\ job' = [job EXCEPT ![c] = Enqueued(c)]
    /\ UNCHANGED <<claim, refunded, cursor, worker, faults>>

\* The first BatchSize executed campaigns beyond the cursor.
Scanned ==
    LET beyond == {c \in executed : c > cursor}
    IN  {c \in beyond : Cardinality({d \in beyond : d <= c}) <= BatchSize}

DiscoverPending ==
    [c \in Campaigns |-> IF c \in Scanned THEN Enqueued(c) ELSE job[c]]

-----------------------------------------------------------------------------
(* Leasing jobs *)

\* Mutant: a job whose worker died is not looked at again.
ClaimableUnleased(c) == job[c].state \in {"pending", "retry"} /\ job[c].due
Claimable(c) ==
    \/ job[c].state \in {"pending", "retry"} /\ job[c].due
    \/ job[c].state = "processing" /\ job[c].lapsed

\* One tick of an instance.  Discovery and the claim are two transactions,
\* but a job is never due when it is created, so what comes between them
\* could as well have come before.  Every claimed job gets a new lease, even
\* one that this instance still has in flight, for which it starts no second
\* worker.
runOnce(i) ==
    LET ready == {c \in Campaigns : Claimable(c)}
        limit == Min({availableSlots(i), Cardinality(ready)})
    IN  /\ cursor' = IF Scanned = {} THEN cursor ELSE Max(Scanned)
        /\ \E S \in kSubset(limit, ready) :
              /\ job' = [c \in Campaigns |->
                           IF c \in S THEN Job("processing", job[c].attempt + 1)
                                      ELSE DiscoverPending[c]]
              /\ worker' = [worker EXCEPT ![i] = [c \in Campaigns |->
                           IF c \in S \ inFlight(i)
                           THEN Worker("running", job[c].attempt + 1)
                           ELSE worker[i][c]]]
        /\ UNCHANGED <<executed, claim, refunded, faults>>

\* A pending job becomes eligible, or the delay of a retry is over.
BecomeDue(c) ==
    /\ job[c].state \in {"pending", "retry"}
    /\ ~job[c].due
    /\ job' = [job EXCEPT ![c].due = TRUE]
    /\ UNCHANGED <<executed, claim, refunded, cursor, worker, faults>>

\* A lease is longer than the timeout of an attempt, so it outlives the
\* worker unless the worker died, or was late, which is a fault.
LeaseLapses(c) ==
    /\ job[c].state = "processing"
    /\ ~job[c].lapsed
    /\ job' = [job EXCEPT ![c].lapsed = TRUE]
    /\ IF \E i \in Instances : Holds(i, c)
       THEN faults < MaxFaults /\ faults' = faults + 1
       ELSE UNCHANGED faults
    /\ UNCHANGED <<executed, claim, refunded, cursor, worker>>

-----------------------------------------------------------------------------
(* Running a job *)

Owed(c) == claim[c] = "owed" /\ refunded[c] = 0

\* The executor's transaction commits a refund or finds that none is due.
Verdict(c) ==
    CASE claim[c] = "unreported" -> "error"
      [] claim[c] \in {"broken", "unscheduled"} -> "manual"
      [] OTHER -> "done"

SetWorker(i, c, w) == worker' = [worker EXCEPT ![i][c] = w]

\* acknowledged is FALSE when the time ran out while the commit was under
\* way: the refund is there, the worker takes the attempt for a failure.
ReconcileUndeliveredCampaignRefund(i, c, acknowledged) ==
    /\ worker[i][c].pc = "running"
    /\ refunded' = [refunded EXCEPT ![c] = IF Owed(c) THEN @ + 1 ELSE @]
    /\ SetWorker(i, c, Worker(IF acknowledged THEN Verdict(c) ELSE "error",
                              worker[i][c].token))
    /\ UNCHANGED <<executed, claim, job, cursor, faults>>

\* The transaction fails or times out, and rolls back.
AttemptFails(i, c) ==
    /\ worker[i][c].pc = "running"
    /\ SetWorker(i, c, Worker("error", worker[i][c].token))
    /\ UNCHANGED <<executed, claim, refunded, job, cursor, faults>>

\* Mutant: one attempt too many.
NextStateLate(i, c) ==
    CASE worker[i][c].pc = "done" -> "completed"
      [] worker[i][c].pc = "error" /\ worker[i][c].token <= MaxAttempts -> "retry"
      [] OTHER -> "manual_review"
\* Complete, Retry or ManualReview; fail() gives up after MaxAttempts.
NextState(i, c) ==
    CASE worker[i][c].pc = "done" -> "completed"
      [] worker[i][c].pc = "error" /\ worker[i][c].token < MaxAttempts -> "retry"
      [] OTHER -> "manual_review"

\* Mutant: a job is updated whoever holds it.
StillAnyones(i, c) == worker[i][c].pc # "idle"
\* WHERE state = 'processing' AND started_at = the claim's
StillMine(i, c) == job[c].state = "processing" /\ Holds(i, c)

FinishJob(i, c) ==
    /\ worker[i][c].pc \in {"done", "manual", "error"}
    /\ job' = IF StillMine(i, c)
              THEN [job EXCEPT ![c] = Job(NextState(i, c), job[c].attempt)]
              ELSE job
    /\ SetWorker(i, c, NoWorker)
    /\ UNCHANGED <<executed, claim, refunded, cursor, faults>>

\* The update of the job row fails and is only logged.
FinishFails(i, c) ==
    /\ worker[i][c].pc \in {"done", "manual", "error"}
    /\ faults < MaxFaults
    /\ faults' = faults + 1
    /\ SetWorker(i, c, NoWorker)
    /\ UNCHANGED <<executed, claim, refunded, job, cursor>>

\* A crash, or a shutdown that cancels the context of every worker.
Crash(i) ==
    /\ faults < MaxFaults
    /\ inFlight(i) # {}
    /\ faults' = faults + 1
    /\ worker' = [worker EXCEPT ![i] = [c \in Campaigns |-> NoWorker]]
    /\ UNCHANGED <<executed, claim, refunded, job, cursor>>

\* The bot reports the delivery statistics.
UpdateCampaignStatistics(c, what) ==
    /\ claim[c] = "unreported"
    /\ claim' = [claim EXCEPT ![c] = what]
    /\ UNCHANGED <<executed, refunded, job, cursor, worker, faults>>

Work(i, c) ==
    \/ \E acknowledged \in BOOLEAN :
          ReconcileUndeliveredCampaignRefund(i, c, acknowledged)
    \/ AttemptFails(i, c)
    \/ FinishJob(i, c)

Next ==
    \/ \E c \in Campaigns : MoveCampaignToExecuted(c)
    \/ \E c \in Campaigns, what \in {"owed", "nothing", "broken"} :
          UpdateCampaignStatistics(c, what)
    \/ \E i \in Instances : runOnce(i)
    \/ \E c \in Campaigns : BecomeDue(c)
    \/ \E c \in Campaigns : LeaseLapses(c)
    \/ \E i \in Instances, c \in Campaigns : Work(i, c)
    \/ \E i \in Instances, c \in Campaigns : FinishFails(i, c)
    \/ \E i \in Instances : Crash(i)

Spec == Init /\ [][Next]_vars

\* The ticker of every instance keeps ticking, an attempt ends by its
\* timeout, and time passes.
Fairness ==
    /\ \A i \in Instances : WF_vars(runOnce(i))
    /\ \A i \in Instances, c \in Campaigns : WF_vars(Work(i, c))
    /\ \A c \in Campaigns : WF_vars(BecomeDue(c)) /\ WF_vars(LeaseLapses(c))

FairSpec == Spec /\ Fairness

-----------------------------------------------------------------------------
(* Properties *)

\* Rows and workers keep their shape.
TypeOK ==
    /\ executed \subseteq Campaigns
    /\ claim \in [Campaigns -> Claims]
    /\ refunded \in [Campaigns -> Nat]
    /\ job \in [Campaigns -> [state : States, attempt : Nat, due : BOOLEAN,
                              lapsed : BOOLEAN]]
    /\ cursor \in Nat
    /\ worker \in [Instances -> [Campaigns ->
                     [pc : {"idle", "running", "done", "manual", "error"},
                      token : Nat]]]
    /\ faults \in 0 .. MaxFaults

\* Discovery never looks behind its cursor, and need not: the trigger has
\* queued whatever was executed there since.
NothingBehindCursor ==
    \A c \in executed : c <= cursor => job[c].state # "none"

\* However claims, leases and workers interleave, an instance runs at most
\* MaxParallel jobs, also when it is handed back a job it still has in flight,
\* a job has one worker at most that may still decide it, and a job only waits
\* for another attempt while it has attempts left.
WithinLimits ==
    /\ \A i \in Instances : Cardinality(inFlight(i)) <= MaxParallel
    /\ \A c \in Campaigns :
          /\ \A i, k \in Instances : Holds(i, c) /\ Holds(k, c) => i = k
          /\ job[c].state = "retry" => job[c].attempt < MaxAttempts

\* Seen from the campaign, the queue is the contract: at most one refund, one
\* final verdict, completed only when nothing is owed.
Contract == INSTANCE RefundContract WITH
    verdict <- [c \in Campaigns |->
                  IF job[c].state \in Closed THEN job[c].state ELSE "open"]
ImplementsContract == Contract!Spec

\* Once faults have ended, the refund of every executed campaign is settled.
EverySettled ==
    \A c \in Campaigns : c \in executed ~> job[c].state \in Closed

=============================================================================
