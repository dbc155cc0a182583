---------------------------- MODULE TagEvaluation ----------------------------
(***************************************************************************)
(* Evaluation of the tag catalog for a bundle's persona by a language      *)
(* model (business_flow/bundle_tag_evaluation_flow.go) and the scheduler   *)
(* that executes the runs (app/scheduler/bundle_tag_evaluation_scheduler). *)
(* A customer requests a run; an execution analyses the persona, cuts the  *)
(* active tags into batches and has each batch scored.  Runs, attempts,    *)
(* batches and scores are only ever inserted, and a run's status is that   *)
(* of its latest event, so that an interrupted run is taken up again.      *)
(*                                                                         *)
(* Every action does at most one write.  The events are kept as what the   *)
(* code asks of them: the status of the latest and the existence of four   *)
(* types.  All requests are made within one UTC day.                       *)
(***************************************************************************)
EXTENDS Integers, FiniteSets

CONSTANTS Bundles, Customers,
          Owner,              \* the customer of a bundle
          Replicas,           \* processes with a scheduler
          Tags,               \* ids of the tag catalog
          Edits,              \* the changes of a tag that may happen
          BatchSize,          \* tag_batch_size
          MaxMissing,         \* max_missing_tag_count
          MaxAttempts,        \* max_retries + 1
          MaxParallelBatches, \* max_parallel_batches
          MaxParallelRuns,    \* max_parallel_runs of the scheduler
          DailyLimit,         \* daily_limit_per_customer
          NoBundle,
          MaxRun,             \* bound: runs
          MaxFaults,          \* bound: interruptions and failed statements
          MaxEdits            \* bound: changes of the catalog

\* incomplete: active, without the metadata that an evaluation needs.
TagStates == {"active", "incomplete", "inactive"}

ASSUME EvaluationAssumption ==
    /\ Owner \in [Bundles -> Customers] /\ NoBundle \notin Bundles
    /\ Tags \subseteq Nat /\ IsFiniteSet(Tags)
    /\ Edits \subseteq Tags \X TagStates \X TagStates
    /\ {BatchSize, MaxAttempts, MaxParallelBatches, MaxParallelRuns,
        DailyLimit} \subseteq Nat \ {0}
    /\ {MaxMissing, MaxRun, MaxFaults, MaxEdits} \subseteq Nat

VARIABLES catalog,  \* tags: whether a tag is active and has its metadata
          run,      \* the rows and events of each run
          last,     \* id of the latest run
          listed,   \* runs left of the page a scheduler is working through
          job,      \* execution of a run in a process
          faults, edits

vars == <<catalog, run, last, listed, job, faults, edits>>

Runs == 1 .. MaxRun
Batches == 1 .. Cardinality(Tags)
Items == {0} \cup Batches   \* 0: the persona analysis

\* The latest attempt of an item: a 2xx answer that validates, an answer or an
\* error after which the call is repeated, a status that forbids it.
AnswerKinds == {"none", "usable", "retry", "fatal"}
Answer(kind, tags) == [kind |-> kind, tags |-> tags]

Statuses == {"none", "created", "evaluating", "evaluated", "error"}
NoRun == [bundle |-> NoBundle, status |-> "none",
          started |-> {},        \* persona_analysis_started, batch_started
          done |-> {},           \* batch_completed
          completed |-> FALSE,   \* evaluation_completed
          plan |-> [k \in Batches |-> {}],
          tries |-> [i \in Items |-> 0],
          answer |-> [i \in Items |-> Answer("none", {})],
          scores |-> [k \in Batches |-> {}]]

Steps == {"idle", "locking", "checking", "persona", "asking", "planning",
          "scoring", "failing"}
BatchSteps == {"queued", "ready", "calling", "storing", "stored", "ended",
               "failed"}
Job(step) == [step |-> step, at |-> [k \in Batches |-> "queued"],
              cancelled |-> FALSE]

RunRecords == [bundle : Bundles \cup {NoBundle},
               status : Statuses,
               started : SUBSET Items,
               done : SUBSET Batches,
               completed : BOOLEAN,
               plan : [Batches -> SUBSET Tags],
               tries : [Items -> 0 .. MaxAttempts],
               answer : [Items -> [kind : AnswerKinds, tags : SUBSET Tags]],
               scores : [Batches -> SUBSET Tags]]

Jobs == [step : Steps, at : [Batches -> BatchSteps], cancelled : BOOLEAN]

TypeOK ==
    /\ catalog \in [Tags -> TagStates]
    /\ run \in [Runs -> RunRecords]
    /\ last \in 0 .. MaxRun
    /\ listed \in [Replicas -> SUBSET Runs]
    /\ job \in [Replicas -> [Runs -> Jobs]]
    /\ faults \in 0 .. MaxFaults /\ edits \in 0 .. MaxEdits

Init ==
    /\ catalog \in [Tags -> TagStates]
    /\ run = [r \in Runs |-> NoRun]
    /\ last = 0
    /\ listed = [p \in Replicas |-> {}]
    /\ job = [p \in Replicas |-> [r \in Runs |-> Job("idle")]]
    /\ faults = 0 /\ edits = 0

-----------------------------------------------------------------------------
(* Requests and the catalog                                                *)

RunsOf(b) == {r \in Runs : run[r].bundle = b}
IsPending(r) == run[r].status \in {"created", "evaluating"}

\* current_bundle_tag_evaluation_status: evaluating if the latest run is.
Evaluating(b) == \E r \in RunsOf(b) : /\ \A s \in RunsOf(b) : s <= r
                                      /\ IsPending(r)

Submitted(c) == {r \in Runs : \E b \in Bundles : Owner[b] = c /\ r \in RunsOf(b)}

\* RequestBundleTagEvaluation: one transaction, under the locks of the
\* customer's and the bundle's rows.
Request(b) ==
    /\ ~Evaluating(b)
    /\ Cardinality(Submitted(Owner[b])) < DailyLimit
    /\ last < MaxRun
    /\ last' = last + 1
    /\ run' = [run EXCEPT ![last + 1] =
                   [NoRun EXCEPT !.bundle = b, !.status = "created"]]
    /\ UNCHANGED <<catalog, listed, job, faults, edits>>

\* The catalog is maintained outside of this program.
EditTag(t) ==
    /\ edits < MaxEdits /\ edits' = edits + 1
    /\ \E s \in TagStates : /\ <<t, catalog[t], s>> \in Edits
                            /\ catalog' = [catalog EXCEPT ![t] = s]
    /\ UNCHANGED <<run, last, listed, job, faults>>

-----------------------------------------------------------------------------
(* The scheduler of a process                                              *)

InFlight(p) == {r \in Runs : job[p][r].step # "idle"}

\* Mutant: only runs that nobody has started are listed.
PendingCreated == {r \in Runs : run[r].status = "created"}

Pending == {r \in Runs : IsPending(r)}

\* runOnce, when the previous round is over: the oldest pending runs, twice as
\* many as may be in flight.
List(p) ==
    /\ listed[p] = {}
    /\ listed' = [listed EXCEPT ![p] =
           {r \in Pending : Cardinality({s \in Pending : s < r}) <
                                2 * MaxParallelRuns}]
    /\ UNCHANGED <<catalog, run, last, job, faults, edits>>

\* tryMarkInFlight for the next row; a round ends when all slots are taken.
Launch(p) ==
    \E r \in listed[p] :
        LET free == r \notin InFlight(p)
                    /\ Cardinality(InFlight(p)) < MaxParallelRuns
            now == InFlight(p) \cup {s \in {r} : free}
            full == free /\ Cardinality(now) >= MaxParallelRuns
        IN /\ \A s \in listed[p] : r <= s
           /\ listed' = [listed EXCEPT ![p] = {s \in @ \ {r} : ~full}]
           /\ job' = [job EXCEPT ![p][r] = IF free THEN Job("locking") ELSE @]
           /\ UNCHANGED <<catalog, run, last, faults, edits>>

-----------------------------------------------------------------------------
(* ExecuteBundleTagEvaluationRun                                           *)

Goto(p, r, step) == job' = [job EXCEPT ![p][r].step = step]
End(p, r) == job' = [job EXCEPT ![p][r] = Job("idle")]
Env == UNCHANGED <<catalog, last, listed, faults, edits>>

\* Mutant: the lock is released before the failure is recorded.
HoldsUntilFailing(p, r) ==
    job[p][r].step \notin {"idle", "locking", "failing"}

\* An execution holds the advisory lock of its bundle, a lock of its own
\* database session, from acquireBundleTagEvaluationLock until it returns.
Holds(p, r) == job[p][r].step \notin {"idle", "locking"}

\* Mutant: the lock is not exclusive.
LockShared(b) == TRUE

LockFree(b) == \A p \in Replicas, s \in RunsOf(b) : ~Holds(p, s)

AcquireLock(p, r) ==
    /\ job[p][r].step = "locking"
    /\ IF LockFree(run[r].bundle) THEN Goto(p, r, "checking") ELSE End(p, r)
    /\ UNCHANGED run /\ Env

\* The status is read under the lock.  Only an evaluated run is left alone, and
\* only a created one gets its evaluation_started.
CheckStatus(p, r) ==
    /\ job[p][r].step = "checking"
    /\ IF run[r].status = "evaluated" THEN End(p, r) ELSE Goto(p, r, "persona")
    /\ run' = [run EXCEPT ![r].status = IF @ = "created" THEN "evaluating" ELSE @]
    /\ Env

\* What the latest of n attempts leads to.
Resume(n, kind, success, repeat, failure) ==
    IF kind = "usable" THEN success
    ELSE IF kind # "fatal" /\ n < MaxAttempts THEN repeat
    ELSE failure

\* Start of ensurePersonaAnalysis: what the latest attempt left.
BeginPersona(p, r) ==
    LET kind == run[r].answer[0].kind
        next == Resume(run[r].tries[0], kind, "planning", "asking", "failing")
    IN /\ job[p][r].step = "persona"
       /\ IF kind \in {"usable", "fatal"} \/ 0 \in run[r].started
             THEN UNCHANGED run
             ELSE run' = [run EXCEPT ![r].started = @ \cup {0},
                                     ![r].status = "evaluating"]
       /\ Goto(p, r, next) /\ Env

\* The attempt is saved, and the events that report it set the status.  Once an
\* attempt has settled the item their number is of no more use.
SaveAttempt(r, i, a, status) ==
    LET tries == IF a.kind = "retry" THEN run[r].tries[i] + 1 ELSE 0
    IN run' = [run EXCEPT ![r] =
                   [run[r] EXCEPT !.tries = [run[r].tries EXCEPT ![i] = tries],
                                  !.answer = [run[r].answer EXCEPT ![i] = a],
                                  !.status = status]]

\* The call returns.  An error is not reported by an event, an answer without
\* text is.
PersonaAnswered(p, r) ==
    \E kind \in AnswerKinds \ {"none"} :
        /\ job[p][r].step = "asking"
        /\ \E status \in {run[r].status, "evaluating"} :
               /\ kind = "usable" => status = "evaluating"
               /\ kind = "fatal" => status = run[r].status
               /\ SaveAttempt(r, 0, Answer(kind, {}), status)
        /\ Goto(p, r, Resume(run[r].tries[0] + 1, kind,
                            "planning", "asking", "failing"))
        /\ Env

-----------------------------------------------------------------------------
(* ensureBatches                                                           *)

Planned(r) == {k \in Batches : run[r].plan[k] # {}}
Active == {t \in Tags : catalog[t] # "inactive"}

\* The tags in the order of their ids, in batches of BatchSize.
Chunks(S) ==
    [k \in Batches |-> {t \in S :
        Cardinality({u \in S : u < t}) \div BatchSize = k - 1}]

\* The pages of the scan are read at once here.
EnsureBatches(p, r) ==
    LET plan == Chunks(Active)
    IN /\ job[p][r].step = "planning"
       /\ \/ /\ Planned(r) # {}
             /\ Goto(p, r, "scoring") /\ UNCHANGED run
          \/ /\ Planned(r) = {} /\ \E t \in Tags : catalog[t] = "incomplete"
             /\ Goto(p, r, "failing") /\ UNCHANGED run
          \/ /\ Planned(r) = {} /\ \A t \in Tags : catalog[t] # "incomplete"
             /\ run' = [run EXCEPT ![r].plan = plan,
                                   ![r].status = IF Active = {} THEN @
                                                 ELSE "evaluating"]
             /\ Goto(p, r, "scoring")
       /\ Env

-----------------------------------------------------------------------------
(* runBundleTagEvaluationBatchesConcurrently and processBatch              *)

At(p, r, k, step) == job' = [job EXCEPT ![p][r].at[k] = step]
FailBatch(p, r, k) ==
    job' = [job EXCEPT ![p][r].at[k] = "failed", ![p][r].cancelled = TRUE]
MoveTo(p, r, k, step) ==
    IF step = "failed" THEN FailBatch(p, r, k) ELSE At(p, r, k, step)

Working(p, r) == {k \in Planned(r) :
                     job[p][r].at[k] \notin {"queued", "ended", "failed"}}

\* A goroutine is at a step of batch k and its context is not cancelled.
AtBatch(p, r, k, step) ==
    /\ job[p][r].step = "scoring" /\ ~job[p][r].cancelled
    /\ k \in Planned(r) /\ job[p][r].at[k] = step

\* All tags of the batch have a score.
Scored(r, k) == Cardinality(run[r].scores[k]) = Cardinality(run[r].plan[k])

\* The next batch of the queue: completed before, scored before, answered
\* before or to be asked for.
BeginBatch(p, r, k) ==
    LET kind == run[r].answer[k].kind
    IN /\ AtBatch(p, r, k, "queued")
       /\ \A j \in Planned(r) : job[p][r].at[j] = "queued" => k <= j
       /\ Cardinality(Working(p, r)) < MaxParallelBatches
       /\ \/ /\ k \in run[r].done
             /\ At(p, r, k, "ended") /\ UNCHANGED run
          \/ /\ k \notin run[r].done /\ Scored(r, k)
             /\ At(p, r, k, "stored") /\ UNCHANGED run
          \/ /\ k \notin run[r].done /\ ~Scored(r, k)
             /\ run' = IF k \in run[r].started THEN run
                       ELSE [run EXCEPT ![r].started = @ \cup {k},
                                        ![r].status = "evaluating"]
             /\ MoveTo(p, r, k, Resume(run[r].tries[k], kind,
                                       "storing", "ready", "failed"))
       /\ Env

\* ensureBatchTagsRemainActive, then the call.
CallProvider(p, r, k) ==
    /\ AtBatch(p, r, k, "ready")
    /\ MoveTo(p, r, k, IF run[r].plan[k] \subseteq Active THEN "calling"
                      ELSE "failed")
    /\ UNCHANGED run /\ Env

\* parseAndValidateBatchResponse lets up to MaxMissing tags be missing.
Valid(T) == {S \in SUBSET T : Cardinality(T \ S) <= MaxMissing}

\* The call returns; its attempt and the events batch_response_received and
\* batch_failed are saved.
BatchAnswered(p, r, k) ==
    /\ AtBatch(p, r, k, "calling")
    /\ \E a \in {Answer("usable", S) : S \in Valid(run[r].plan[k])} \cup
                {Answer("retry", {}), Answer("fatal", {})} :
           /\ SaveAttempt(r, k, a, "evaluating")
           /\ MoveTo(p, r, k, Resume(run[r].tries[k] + 1, a.kind,
                                     "storing", "ready", "failed"))
    /\ Env

\* insertBatchScores; (evaluation_run_id, tag_id) is unique.
StoreScores(p, r, k) ==
    LET new == run[r].answer[k].tags
        taken == UNION {run[r].scores[j] : j \in Batches}
    IN /\ AtBatch(p, r, k, "storing")
       /\ IF new \cap taken = {}
             THEN /\ run' = [run EXCEPT ![r].scores[k] = @ \cup new]
                  /\ At(p, r, k, "stored")
             ELSE FailBatch(p, r, k) /\ UNCHANGED run
       /\ Env

CompleteBatch(p, r, k) ==
    /\ AtBatch(p, r, k, "stored")
    /\ run' = [run EXCEPT ![r].done = @ \cup {k}, ![r].status = "evaluating"]
    /\ At(p, r, k, "ended") /\ Env

\* Once a batch has failed the others stop at their next call or statement.
StopBatch(p, r, k) ==
    /\ job[p][r].step = "scoring" /\ job[p][r].cancelled
    /\ k \in Working(p, r)
    /\ At(p, r, k, "failed") /\ UNCHANGED run /\ Env

\* Mutant: batches still in the queue are not waited for.
BatchesOverEarly(p, r) == Working(p, r) = {}

\* All goroutines have returned.
BatchesOver(p, r) ==
    /\ Working(p, r) = {}
    /\ job[p][r].cancelled \/ \A k \in Planned(r) : job[p][r].at[k] # "queued"

Missing(r) == Cardinality(UNION {run[r].plan[k] : k \in Batches})
              - Cardinality(UNION {run[r].scores[k] : k \in Batches})

Accepted(r) == Missing(r) \in 0 .. MaxMissing * Cardinality(Planned(r))

Finish(p, r) ==
    /\ job[p][r].step = "scoring" /\ BatchesOver(p, r)
    /\ IF job[p][r].cancelled \/ ~Accepted(r)
          THEN Goto(p, r, "failing") /\ UNCHANGED run
          ELSE /\ run' = IF run[r].completed THEN run
                         ELSE [run EXCEPT ![r].completed = TRUE,
                                          ![r].status = "evaluated"]
               /\ End(p, r)
    /\ Env

\* failRun: evaluation_failed.
Fail(p, r) ==
    /\ job[p][r].step = "failing"
    /\ run' = [run EXCEPT ![r].status = "error"]
    /\ End(p, r) /\ Env

-----------------------------------------------------------------------------
(* Faults                                                                  *)

Fault == faults < MaxFaults /\ faults' = faults + 1
             /\ UNCHANGED <<catalog, run, last, edits>>

\* The hour of an execution is over, or the statement that ends it failed:
\* failRunUnlessCanceled leaves no event.
Interrupt(p, r) ==
    /\ job[p][r].step # "idle"
    /\ End(p, r) /\ Fault /\ UNCHANGED listed

\* The process is stopped or dies, and with it the session of its locks.
Crash(p) ==
    /\ job' = [job EXCEPT ![p] = [r \in Runs |-> Job("idle")]]
    /\ listed' = [listed EXCEPT ![p] = {}]
    /\ Fault

\* A statement fails where its error makes the run fail, or the client of the
\* provider cannot be made.
StatementFails(p, r) ==
    /\ \/ /\ \/ job[p][r].step \in {"persona", "asking", "planning"}
             \/ job[p][r].step = "scoring" /\ BatchesOver(p, r)
          /\ Goto(p, r, "failing")
       \/ \E k \in Working(p, r) : /\ job[p][r].step = "scoring"
                                   /\ FailBatch(p, r, k)
    /\ Fault /\ UNCHANGED listed

-----------------------------------------------------------------------------

Batch(p, r, k) ==
    \/ BeginBatch(p, r, k) \/ CallProvider(p, r, k) \/ BatchAnswered(p, r, k)
    \/ StoreScores(p, r, k) \/ CompleteBatch(p, r, k) \/ StopBatch(p, r, k)

Execute(p, r) ==
    \/ AcquireLock(p, r) \/ CheckStatus(p, r) \/ BeginPersona(p, r)
    \/ PersonaAnswered(p, r) \/ EnsureBatches(p, r)
    \/ \E k \in Batches : Batch(p, r, k)
    \/ Finish(p, r) \/ Fail(p, r)

Next ==
    \/ \E b \in Bundles : Request(b)
    \/ \E t \in Tags : EditTag(t)
    \/ \E p \in Replicas : List(p) \/ Launch(p) \/ Crash(p)
    \/ \E p \in Replicas, r \in Runs :
           Execute(p, r) \/ Interrupt(p, r) \/ StatementFails(p, r)

Spec == Init /\ [][Next]_vars

\* Every process ticks, and the calls and statements of an execution return.
Fairness ==
    \A p \in Replicas : /\ WF_vars(List(p) \/ Launch(p))
                        /\ \A r \in Runs : WF_vars(Execute(p, r))

FairSpec == Spec /\ Fairness

-----------------------------------------------------------------------------
(* Properties                                                              *)

\* The scores that targeting reads are those of a completed run: each of its
\* batches has all its scores but the few that may be missing, whatever
\* interruptions and repetitions it went through.
EvaluatedIsScored ==
    \A r \in Runs : run[r].completed =>
        \A k \in Planned(r) : /\ run[r].scores[k] \in Valid(run[r].plan[k])
                              /\ k \in run[r].done

\* A run that is evaluated stays so, with the scores it has, although another
\* process or an older list may still offer it for execution.
EvaluatedStays ==
    [][\A r \in Runs : run[r].status = "evaluated" => run'[r] = run[r]]_vars

\* No call is under way for something that already has a usable answer:
\* provider calls are paid for, and resuming a run reuses them.
AnswersReused ==
    \A p \in Replicas, r \in Runs :
        /\ job[p][r].step = "asking" => run[r].answer[0].kind # "usable"
        /\ job[p][r].step = "scoring" =>
               \A k \in Batches : job[p][r].at[k] = "calling" =>
                                      run[r].answer[k].kind # "usable"

\* Every run that is requested comes to an end.
EveryRunEnds ==
    \A r \in Runs : IsPending(r) ~> ~IsPending(r)

=============================================================================
