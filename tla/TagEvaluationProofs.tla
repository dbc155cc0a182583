------------------------- MODULE TagEvaluationProofs -------------------------
(* Theorems about TagEvaluation, for every value of its constants. *)
EXTENDS TagEvaluation, FiniteSetTheorems, TLAPS

\* What a run's rows say of each other.
RowOK(x) ==
    /\ \A k \in Batches :
           /\ k \in x.done => x.scores[k] \in Valid(x.plan[k])
           /\ x.scores[k] # {} => x.scores[k] \in Valid(x.plan[k])
           /\ x.answer[k].kind = "usable" => x.answer[k].tags \in Valid(x.plan[k])
           /\ x.plan[k] = {} => /\ x.answer[k].kind = "none"
                                /\ x.scores[k] = {} /\ k \notin x.done
           /\ x.completed => x.plan[k] = {} \/ k \in x.done
    /\ x.status = "evaluated" <=> x.completed

\* The advisory lock is held.
Holding(j) == j.step \notin {"idle", "locking"}

\* What the goroutine of a batch knows of it at a step.
Knows(step, x, k) ==
    /\ step \in {"ready", "calling"} => /\ x.answer[k].kind # "usable"
                                       /\ x.tries[k] < MaxAttempts
    /\ step = "storing" => x.answer[k].kind = "usable"
    /\ step = "stored" => x.scores[k] \in Valid(x.plan[k])
    /\ step = "ended" => k \in x.done

BatchOK(j, x, k) ==
    Knows(j.at[k], x, k) /\ (j.at[k] = "failed" => j.cancelled)

\* What an execution knows of its run.
JobOK(j, x) ==
    /\ j.step \notin {"scoring", "failing"} =>
           ~j.cancelled /\ \A k \in Batches : j.at[k] = "queued"
    /\ j.step = "asking" => x.answer[0].kind # "usable" /\ x.tries[0] < MaxAttempts
    /\ j.step = "scoring" => \A k \in Batches : BatchOK(j, x, k)
    /\ x.status = "evaluated" => j.step \in {"idle", "locking", "checking"}

\* One execution of a bundle at a time.
Exclusive ==
    \A p \in Replicas, q \in Replicas, r \in Runs, s \in Runs :
        Holds(p, r) /\ Holds(q, s) /\ run[r].bundle = run[s].bundle
            => p = q /\ r = s

\* Nothing refers to a run that was not requested.
Fresh ==
    \A r \in Runs : r > last =>
        /\ run[r] = NoRun
        /\ \A p \in Replicas : r \notin listed[p] /\ job[p][r].step = "idle"

Rows == \A r \in Runs : RowOK(run[r])
Executions == \A p \in Replicas, r \in Runs : JobOK(job[p][r], run[r])

Inv == TypeOK /\ Exclusive /\ Fresh /\ Rows /\ Executions

Stays == \A r \in Runs : run[r].status = "evaluated" => run'[r] = run[r]

\* An execution goes from job[p][r] to j and leaves its run as x.
Step(p, r, x, j) ==
    /\ job[p][r].step # "idle"
    /\ x \in RunRecords /\ j \in Jobs
    /\ run' = [run EXCEPT ![r] = x]
    /\ job' = [job EXCEPT ![p] = [@ EXCEPT ![r] = j]]
    /\ x.bundle = run[r].bundle
    /\ RowOK(x) /\ JobOK(j, x)
    /\ Holding(j) => Holds(p, r) \/ LockFree(run[r].bundle)
    /\ x # run[r] => Holds(p, r)
    /\ run[r].status = "evaluated" => x = run[r]

-----------------------------------------------------------------------------
(* Types *)

LEMMA ConstantFacts ==
    /\ IsFiniteSet(Tags) /\ Cardinality(Tags) \in Nat
    /\ MaxMissing \in Nat /\ MaxAttempts \in Nat \ {0} /\ MaxRun \in Nat
    /\ MaxFaults \in Nat /\ MaxEdits \in Nat
    /\ Batches \subseteq Nat \ {0} /\ 0 \in Items /\ Batches \subseteq Items
  BY EvaluationAssumption, FS_CardinalityType DEF Batches, Items

LEMMA NoRunType == NoRun \in RunRecords /\ RowOK(NoRun)
  BY ConstantFacts DEF NoRun, RunRecords, RowOK, Statuses, AnswerKinds, Answer

LEMMA JobType ==
    ASSUME NEW step \in Steps
    PROVE  /\ Job(step) \in Jobs /\ Job(step).step = step
           /\ ~Job(step).cancelled
           /\ \A k \in Batches : Job(step).at[k] = "queued"
  BY DEF Job, Jobs, BatchSteps

LEMMA RunFields ==
    ASSUME NEW x \in RunRecords
    PROVE  /\ x.bundle \in Bundles \cup {NoBundle} /\ x.status \in Statuses
           /\ x.started \in SUBSET Items /\ x.done \in SUBSET Batches
           /\ x.completed \in BOOLEAN
           /\ x.plan \in [Batches -> SUBSET Tags]
           /\ x.tries \in [Items -> 0 .. MaxAttempts]
           /\ x.answer \in [Items -> [kind : AnswerKinds, tags : SUBSET Tags]]
           /\ x.scores \in [Batches -> SUBSET Tags]
  BY DEF RunRecords

LEMMA JobFields ==
    ASSUME NEW j \in Jobs
    PROVE  /\ j.step \in Steps /\ j.at \in [Batches -> BatchSteps]
           /\ j.cancelled \in BOOLEAN
  BY DEF Jobs

-----------------------------------------------------------------------------
(* Steps of one execution *)

\* A step of one execution leaves the others alone: nobody else holds the lock.
LEMMA StepKeeps ==
    ASSUME Inv, NEW p \in Replicas, NEW r \in Runs, NEW x, NEW j,
           Step(p, r, x, j),
           catalog' \in [Tags -> TagStates], last' = last,
           listed' = listed, faults' \in 0 .. MaxFaults, edits' \in 0 .. MaxEdits
    PROVE  Inv' /\ Stays
  <1> USE DEF Inv, TypeOK
  <1>1. /\ run'[r] = x /\ \A s \in Runs \ {r} : run'[s] = run[s]
        /\ \A s \in Runs : run'[s].bundle = run[s].bundle
        /\ run' \in [Runs -> RunRecords]
    BY DEF Step
  <1>2. /\ job'[p][r] = j
        /\ \A q \in Replicas, s \in Runs :
               q # p \/ s # r => job'[q][s] = job[q][s]
        /\ job' \in [Replicas -> [Runs -> Jobs]]
    BY DEF Step
  <1>3. TypeOK'
    BY <1>1, <1>2
  <1>4. Exclusive'
    <2>1. \A q \in Replicas, s \in Runs : Holds(q, s)' => Holds(q, s)
              \/ (q = p /\ s = r /\ LockFree(run[r].bundle))
      BY <1>2 DEF Holds, Step, Holding
    <2>2. LockFree(run[r].bundle) => \A q \in Replicas, s \in Runs :
              run[s].bundle = run[r].bundle => ~Holds(q, s)
      BY DEF LockFree, RunsOf
    <2> QED
      BY <1>1, <2>1, <2>2 DEF Exclusive
  <1>5. Fresh'
    <2>1. ~(r > last)
      BY DEF Step, Fresh
    <2> QED
      BY <1>1, <1>2, <2>1 DEF Fresh
  <1>6. Rows'
    BY <1>1 DEF Rows, Step
  <1>7. Executions'
    <2>1. SUFFICES ASSUME NEW q \in Replicas, NEW s \in Runs
                   PROVE  JobOK(job'[q][s], run'[s])
      BY DEF Executions
    <2>2. JobOK(job[q][s], run[s])
      BY DEF Executions
    <2>3. CASE s # r
      BY <1>1, <1>2, <2>2, <2>3
    <2>4. CASE s = r /\ q = p
      BY <1>1, <1>2, <2>4 DEF Step
    <2>5. CASE s = r /\ q # p
      <3>1. CASE x = run[r]
        BY <1>1, <1>2, <2>2, <2>5, <3>1
      <3>2. CASE x # run[r]
        <4>1. ~Holds(q, r)
          BY <2>5, <3>2 DEF Step, Exclusive
        <4> QED
          BY <1>1, <1>2, <2>2, <2>5, <4>1 DEF Holds, JobOK
      <3> QED
        BY <3>1, <3>2
    <2> QED
      BY <2>3, <2>4, <2>5
  <1>8. Stays
    BY <1>1 DEF Stays, Step
  <1> QED
    BY <1>3, <1>4, <1>5, <1>6, <1>7, <1>8

\* Fields of a record that EXCEPT does not name are kept.
LEMMA Moved ==
    ASSUME NEW j \in Jobs, NEW step \in Steps
    PROVE  /\ [j EXCEPT !.step = step] \in Jobs
           /\ [j EXCEPT !.step = step].step = step
           /\ [j EXCEPT !.step = step].at = j.at
           /\ [j EXCEPT !.step = step].cancelled = j.cancelled
  BY DEF Jobs

LEMMA Facts ==
    ASSUME Inv, NEW p \in Replicas, NEW r \in Runs
    PROVE  /\ run[r] \in RunRecords /\ job[p][r] \in Jobs
           /\ RowOK(run[r]) /\ JobOK(job[p][r], run[r])
           /\ run = [run EXCEPT ![r] = run[r]]
           /\ catalog \in [Tags -> TagStates] /\ last \in 0 .. MaxRun
           /\ faults \in 0 .. MaxFaults /\ edits \in 0 .. MaxEdits
  BY DEF Inv, TypeOK, Rows, Executions

\* An execution goes on to another step and leaves its run as x.
LEMMA GotoKeeps ==
    ASSUME Inv, NEW p \in Replicas, NEW r \in Runs, NEW x \in RunRecords,
           NEW step \in Steps, Goto(p, r, step), run' = [run EXCEPT ![r] = x],
           catalog' = catalog, last' = last, listed' = listed,
           faults' \in 0 .. MaxFaults, edits' = edits,
           job[p][r].step # "idle", x.bundle = run[r].bundle, RowOK(x),
           JobOK([job[p][r] EXCEPT !.step = step], x),
           Holds(p, r) \/ (LockFree(run[r].bundle) /\ x = run[r]),
           run[r].status = "evaluated" => x = run[r]
    PROVE  Inv' /\ Stays
  <1> DEFINE j == [job[p][r] EXCEPT !.step = step]
  <1>1. job' = [job EXCEPT ![p] = [@ EXCEPT ![r] = j]]
    BY DEF Goto, Inv, TypeOK
  <1>2. j \in Jobs
    BY Facts, Moved
  <1>3. Step(p, r, x, j)
    BY <1>1, <1>2 DEF Step
  <1> QED
    BY <1>3, StepKeeps, Facts

\* An execution returns and leaves its run as x.
LEMMA EndKeeps ==
    ASSUME Inv, NEW p \in Replicas, NEW r \in Runs, NEW x \in RunRecords,
           End(p, r), run' = [run EXCEPT ![r] = x],
           catalog' = catalog, last' = last, listed' = listed,
           faults' \in 0 .. MaxFaults, edits' = edits,
           job[p][r].step # "idle", x.bundle = run[r].bundle, RowOK(x),
           x # run[r] => Holds(p, r),
           run[r].status = "evaluated" => x = run[r]
    PROVE  Inv' /\ Stays
  <1>1. job' = [job EXCEPT ![p] = [@ EXCEPT ![r] = Job("idle")]]
    BY DEF End, Inv, TypeOK
  <1>2. Job("idle") \in Jobs /\ JobOK(Job("idle"), x) /\ ~Holding(Job("idle"))
    BY JobType DEF Steps, JobOK, Holding
  <1>3. Step(p, r, x, Job("idle"))
    BY <1>1, <1>2 DEF Step
  <1> QED
    BY <1>3, StepKeeps, Facts

\* The goroutine of batch k goes on to a step and leaves the run as x.
LEMMA BatchKeeps ==
    ASSUME Inv, NEW p \in Replicas, NEW r \in Runs, NEW x \in RunRecords,
           NEW k \in Batches, NEW step \in BatchSteps,
           MoveTo(p, r, k, step), run' = [run EXCEPT ![r] = x],
           catalog' = catalog, last' = last, listed' = listed,
           faults' \in 0 .. MaxFaults, edits' = edits,
           job[p][r].step = "scoring", x.bundle = run[r].bundle, RowOK(x),
           x.status # "evaluated", Knows(step, x, k),
           \A l \in Batches \ {k} :
               /\ x.answer[l] = run[r].answer[l] /\ x.tries[l] = run[r].tries[l]
               /\ x.scores[l] = run[r].scores[l] /\ x.plan[l] = run[r].plan[l]
               /\ l \in run[r].done => l \in x.done
    PROVE  Inv' /\ Stays
  <1> DEFINE old == job[p][r]
             at == [old.at EXCEPT ![k] = step]
             j == IF step = "failed"
                     THEN [old EXCEPT !.at = at, !.cancelled = TRUE]
                     ELSE [old EXCEPT !.at = at]
  <1>1. job' = [job EXCEPT ![p] = [@ EXCEPT ![r] = j]]
    <2>1. CASE step = "failed"
      <3>1. job' = [job EXCEPT ![p][r].at[k] = "failed", ![p][r].cancelled = TRUE]
        BY <2>1 DEF MoveTo, FailBatch
      <3> QED
        BY <2>1, <3>1 DEF Inv, TypeOK
    <2>2. CASE step # "failed"
      BY <2>2 DEF MoveTo, At
    <2> QED
      BY <2>1, <2>2
  <1>2. /\ j \in Jobs /\ j.step = "scoring" /\ j.at[k] = step
        /\ step = "failed" => j.cancelled
        /\ old.cancelled => j.cancelled
        /\ \A l \in Batches \ {k} : j.at[l] = old.at[l]
    BY Facts DEF Jobs
  <1> HIDE DEF j
  <1>3. \A l \in Batches : BatchOK(old, run[r], l)
    BY Facts DEF JobOK
  <1>4. \A l \in Batches : BatchOK(j, x, l)
    BY <1>2, <1>3 DEF BatchOK, Knows
  <1>5. JobOK(j, x)
    BY <1>2, <1>4 DEF JobOK
  <1>6. Holds(p, r) /\ run[r].status # "evaluated"
    BY Facts DEF Holds, JobOK
  <1>7. Step(p, r, x, j)
    BY <1>1, <1>2, <1>5, <1>6 DEF Step
  <1> QED
    BY <1>7, StepKeeps, Facts

-----------------------------------------------------------------------------
(* The actions of an execution *)

LEMMA AcquireLockKeeps ==
    ASSUME Inv, NEW p \in Replicas, NEW r \in Runs, AcquireLock(p, r)
    PROVE  Inv' /\ Stays
  <1>1. CASE LockFree(run[r].bundle)
    <2>1. "checking" \in Steps /\ Goto(p, r, "checking")
      BY <1>1 DEF AcquireLock, Steps
    <2>2. JobOK([job[p][r] EXCEPT !.step = "checking"], run[r])
      BY <2>1, Facts, Moved DEF AcquireLock, JobOK
    <2> QED
      BY <1>1, <2>1, <2>2, Facts, GotoKeeps DEF AcquireLock, Env
  <1>2. CASE ~LockFree(run[r].bundle)
    BY <1>2, Facts, EndKeeps DEF AcquireLock, Env
  <1> QED
    BY <1>1, <1>2

LEMMA CheckStatusKeeps ==
    ASSUME Inv, NEW p \in Replicas, NEW r \in Runs, CheckStatus(p, r)
    PROVE  Inv' /\ Stays
  <1> DEFINE x == [run[r] EXCEPT !.status = IF @ = "created" THEN "evaluating" ELSE @]
  <1>1. run' = [run EXCEPT ![r] = x] /\ x \in RunRecords /\ x.bundle = run[r].bundle
    <2>1. run' = [run EXCEPT ![r] = x]
      BY DEF CheckStatus, Inv, TypeOK
    <2> QED
      BY <2>1, Facts DEF RunRecords, Statuses
  <1>2. RowOK(x) /\ x.answer = run[r].answer /\ x.tries = run[r].tries
        /\ (x.status = "evaluated" <=> run[r].status = "evaluated")
        /\ (run[r].status = "evaluated" => x = run[r])
    BY Facts DEF RowOK, RunRecords
  <1> HIDE DEF x
  <1>3. CASE run[r].status = "evaluated"
    BY <1>1, <1>2, <1>3, Facts, EndKeeps DEF CheckStatus, Env
  <1>4. CASE run[r].status # "evaluated"
    <2>1. "persona" \in Steps /\ Goto(p, r, "persona") /\ Holds(p, r)
      BY <1>4 DEF CheckStatus, Steps, Holds
    <2>2. JobOK([job[p][r] EXCEPT !.step = "persona"], x)
      BY <1>2, <1>4, <2>1, Facts, Moved DEF CheckStatus, JobOK
    <2> QED
      BY <1>1, <1>2, <2>1, <2>2, Facts, GotoKeeps DEF CheckStatus, Env
  <1> QED
    BY <1>3, <1>4

\* Before the batches an execution moves on with a run that is not evaluated.
Preparing == {"checking", "persona", "asking", "planning"}

LEMMA PreparingKeeps ==
    ASSUME Inv, NEW p \in Replicas, NEW r \in Runs, NEW x \in RunRecords,
           job[p][r].step \in Preparing, run[r].status # "evaluated",
           NEW step \in {"persona", "asking", "planning", "scoring", "failing"},
           Goto(p, r, step), run' = [run EXCEPT ![r] = x],
           catalog' = catalog, last' = last, listed' = listed,
           faults' \in 0 .. MaxFaults, edits' = edits,
           x.bundle = run[r].bundle, RowOK(x), x.status # "evaluated",
           step = "asking" => x.answer[0].kind # "usable" /\ x.tries[0] < MaxAttempts
    PROVE  Inv' /\ Stays
  <1>1. step \in Steps /\ job[p][r].step # "idle" /\ Holds(p, r)
    BY DEF Steps, Preparing, Holds
  <1>2. ~job[p][r].cancelled /\ \A k \in Batches : job[p][r].at[k] = "queued"
    BY Facts DEF JobOK, Preparing
  <1>3. JobOK([job[p][r] EXCEPT !.step = step], x)
    BY <1>1, <1>2, Facts, Moved DEF JobOK, BatchOK, Knows
  <1> QED
    BY <1>1, <1>3, GotoKeeps

LEMMA BeginPersonaKeeps ==
    ASSUME Inv, NEW p \in Replicas, NEW r \in Runs, BeginPersona(p, r)
    PROVE  Inv' /\ Stays
  <1> DEFINE kind == run[r].answer[0].kind
             step == Resume(run[r].tries[0], kind, "planning", "asking", "failing")
             x == IF kind \in {"usable", "fatal"} \/ 0 \in run[r].started THEN run[r]
                  ELSE [run[r] EXCEPT !.started = @ \cup {0}, !.status = "evaluating"]
  <1>1. job[p][r].step = "persona" /\ Goto(p, r, step) /\ Env
    BY DEF BeginPersona
  <1>2. run[r].status # "evaluated"
    BY <1>1, Facts DEF JobOK
  <1>3. run' = [run EXCEPT ![r] = x]
    BY Facts DEF BeginPersona, Inv, TypeOK
  <1>4. /\ run[r].started \cup {0} \in SUBSET Items
        /\ "evaluating" \in Statuses
    BY Facts, RunFields, ConstantFacts DEF Statuses
  <1>5. /\ x \in RunRecords /\ x.bundle = run[r].bundle
        /\ x.status \in {run[r].status, "evaluating"}
        /\ x.completed = run[r].completed /\ x.done = run[r].done
        /\ x.plan = run[r].plan /\ x.scores = run[r].scores
        /\ x.answer = run[r].answer /\ x.tries = run[r].tries
    <2>1. CASE kind \in {"usable", "fatal"} \/ 0 \in run[r].started
      BY <2>1, Facts
    <2>2. CASE ~(kind \in {"usable", "fatal"} \/ 0 \in run[r].started)
      <3> DEFINE started == run[r].started \cup {0}
                 y == [run[r] EXCEPT !.started = started, !.status = "evaluating"]
      <3>1. x = y
        BY <2>2
      <3>2. started \in SUBSET Items
        BY <1>4
      <3> HIDE DEF started
      <3>5. run[r] \in RunRecords
        BY Facts
      <3>3. y \in RunRecords
        BY <3>2, <1>4, <3>5, RunFields DEF RunRecords
      <3>4. /\ y.bundle = run[r].bundle /\ y.status = "evaluating"
            /\ y.completed = run[r].completed /\ y.done = run[r].done
            /\ y.plan = run[r].plan /\ y.scores = run[r].scores
            /\ y.answer = run[r].answer /\ y.tries = run[r].tries
        BY Facts DEF RunRecords
      <3> HIDE DEF y, x
      <3> QED
        BY <3>1, <3>3, <3>4
    <2> QED
      BY <2>1, <2>2
  <1>6. /\ step \in {"persona", "asking", "planning", "scoring", "failing"}
        /\ step = "asking" => kind # "usable" /\ run[r].tries[0] < MaxAttempts
    BY DEF Resume
  <1> HIDE DEF x, step
  <1>7. RowOK(x) /\ x.status # "evaluated"
    BY <1>2, <1>5, Facts DEF RowOK
  <1>8. step = "asking" => x.answer[0].kind # "usable" /\ x.tries[0] < MaxAttempts
    BY <1>5, <1>6
  <1>9. job[p][r].step \in Preparing /\ faults' \in 0 .. MaxFaults
    BY <1>1, Facts DEF Preparing, Env
  <1> QED
    BY <1>1, <1>2, <1>3, <1>5, <1>6, <1>7, <1>8, <1>9, PreparingKeeps DEF Env

\* An attempt of item i is saved.
LEMMA SavedAttempt ==
    ASSUME Inv, NEW r \in Runs, NEW i \in Items,
           NEW a \in [kind : AnswerKinds, tags : SUBSET Tags],
           NEW status \in Statuses, SaveAttempt(r, i, a, status),
           run[r].tries[i] < MaxAttempts, a.kind # "none"
    PROVE  \E x \in RunRecords :
               /\ run' = [run EXCEPT ![r] = x]
               /\ x.bundle = run[r].bundle /\ x.status = status
               /\ x.completed = run[r].completed /\ x.done = run[r].done
               /\ x.plan = run[r].plan /\ x.scores = run[r].scores
               /\ x.answer = [run[r].answer EXCEPT ![i] = a]
               /\ \A l \in Items \ {i} : x.tries[l] = run[r].tries[l]
               /\ a.kind = "retry" => x.tries[i] = run[r].tries[i] + 1
  <1> DEFINE n == IF a.kind = "retry" THEN run[r].tries[i] + 1 ELSE 0
             x == [run[r] EXCEPT !.tries = [run[r].tries EXCEPT ![i] = n],
                                 !.answer = [run[r].answer EXCEPT ![i] = a],
                                 !.status = status]
  <1>1. run[r] \in RunRecords
    BY DEF Inv, TypeOK
  <1>2. n \in 0 .. MaxAttempts
    BY <1>1, ConstantFacts, RunFields
  <1>3. run' = [run EXCEPT ![r] = x]
    BY DEF SaveAttempt
  <1>4. [run[r].tries EXCEPT ![i] = n] \in [Items -> 0 .. MaxAttempts]
        /\ [run[r].answer EXCEPT ![i] = a] \in
               [Items -> [kind : AnswerKinds, tags : SUBSET Tags]]
    BY <1>1, <1>2, RunFields
  <1> HIDE DEF n
  <1>5. x \in RunRecords
    BY <1>1, <1>4, RunFields DEF RunRecords
  <1>6. /\ x.bundle = run[r].bundle /\ x.status = status
        /\ x.completed = run[r].completed /\ x.done = run[r].done
        /\ x.plan = run[r].plan /\ x.scores = run[r].scores
        /\ x.answer = [run[r].answer EXCEPT ![i] = a]
        /\ x.tries = [run[r].tries EXCEPT ![i] = n]
    BY <1>1 DEF RunRecords
  <1>7. \A l \in Items \ {i} : x.tries[l] = run[r].tries[l]
    BY <1>1, <1>6, RunFields
  <1>8. a.kind = "retry" => x.tries[i] = run[r].tries[i] + 1
    BY <1>1, <1>6, RunFields DEF n
  <1> HIDE DEF x
  <1> QED
    BY <1>3, <1>5, <1>6, <1>7, <1>8

LEMMA PersonaAnsweredKeeps ==
    ASSUME Inv, NEW p \in Replicas, NEW r \in Runs, PersonaAnswered(p, r)
    PROVE  Inv' /\ Stays
  <1>1. PICK kind \in AnswerKinds \ {"none"} :
            /\ job[p][r].step = "asking"
            /\ \E status \in {run[r].status, "evaluating"} :
                   /\ kind = "usable" => status = "evaluating"
                   /\ kind = "fatal" => status = run[r].status
                   /\ SaveAttempt(r, 0, Answer(kind, {}), status)
            /\ Goto(p, r, Resume(run[r].tries[0] + 1, kind,
                                "planning", "asking", "failing"))
            /\ Env
    BY DEF PersonaAnswered
  <1>2. PICK status \in {run[r].status, "evaluating"} :
            SaveAttempt(r, 0, Answer(kind, {}), status)
    BY <1>1
  <1>3. run[r].status # "evaluated" /\ run[r].tries[0] < MaxAttempts
    BY <1>1, Facts DEF JobOK
  <1>4. /\ Answer(kind, {}) \in [kind : AnswerKinds, tags : SUBSET Tags]
        /\ Answer(kind, {}).kind = kind
        /\ status \in Statuses /\ 0 \in Items
    BY Facts, RunFields, ConstantFacts DEF Answer, Statuses
  <1>5. PICK x \in RunRecords :
            /\ run' = [run EXCEPT ![r] = x]
            /\ x.bundle = run[r].bundle /\ x.status = status
            /\ x.completed = run[r].completed /\ x.done = run[r].done
            /\ x.plan = run[r].plan /\ x.scores = run[r].scores
            /\ x.answer = [run[r].answer EXCEPT ![0] = Answer(kind, {})]
            /\ \A l \in Items \ {0} : x.tries[l] = run[r].tries[l]
            /\ kind = "retry" => x.tries[0] = run[r].tries[0] + 1
    BY <1>1, <1>2, <1>3, <1>4, SavedAttempt
  <1>6. /\ \A k \in Batches : x.answer[k] = run[r].answer[k]
        /\ x.answer[0].kind = kind
    BY <1>4, <1>5, Facts, RunFields, ConstantFacts
  <1>7. RowOK(x) /\ x.status # "evaluated"
    BY <1>2, <1>3, <1>5, <1>6, Facts DEF RowOK
  <1> DEFINE step == Resume(run[r].tries[0] + 1, kind, "planning", "asking", "failing")
  <1>8. /\ step \in {"persona", "asking", "planning", "scoring", "failing"}
        /\ step = "asking" => kind = "retry" /\ run[r].tries[0] + 1 < MaxAttempts
    BY <1>1 DEF Resume, AnswerKinds
  <1>9. Goto(p, r, step)
    BY <1>1
  <1> HIDE DEF step
  <1>10. step = "asking" => x.answer[0].kind # "usable" /\ x.tries[0] < MaxAttempts
    BY <1>5, <1>6, <1>8
  <1>11. job[p][r].step \in Preparing /\ faults' \in 0 .. MaxFaults
    BY <1>1, Facts DEF Preparing, Env
  <1>12. Env
    BY <1>1
  <1> QED
    BY <1>3, <1>5, <1>7, <1>8, <1>9, <1>10, <1>11, <1>12, PreparingKeeps DEF Env

LEMMA EnsureBatchesKeeps ==
    ASSUME Inv, NEW p \in Replicas, NEW r \in Runs, EnsureBatches(p, r)
    PROVE  Inv' /\ Stays
  <1> DEFINE plan == Chunks(Active)
  <1>1. job[p][r].step = "planning" /\ Env
    BY DEF EnsureBatches
  <1>2. run[r].status # "evaluated"
    BY <1>1, Facts DEF JobOK
  <1>3. CASE Goto(p, r, "scoring") /\ UNCHANGED run
    BY <1>1, <1>2, <1>3, Facts, PreparingKeeps DEF Preparing, Env
  <1>4. CASE Goto(p, r, "failing") /\ UNCHANGED run
    BY <1>1, <1>2, <1>4, Facts, PreparingKeeps DEF Preparing, Env
  <1>5. CASE /\ Planned(r) = {} /\ Goto(p, r, "scoring")
             /\ run' = [run EXCEPT ![r].plan = plan,
                                   ![r].status = IF Active = {} THEN @
                                                 ELSE "evaluating"]
    <2> DEFINE status == IF Active = {} THEN run[r].status ELSE "evaluating"
               x == [run[r] EXCEPT !.plan = plan, !.status = status]
    <2>1. plan \in [Batches -> SUBSET Tags]
      BY DEF Chunks, Active
    <2> HIDE DEF plan
    <2>2. run' = [run EXCEPT ![r] = x]
      BY <1>5 DEF Inv, TypeOK
    <2>3. status \in Statuses /\ status # "evaluated"
      BY <1>2, Facts, RunFields DEF Statuses
    <2> HIDE DEF status
    <2>11. run[r] \in RunRecords
      BY Facts
    <2>9. x \in RunRecords
      BY <2>1, <2>3, <2>11, RunFields DEF RunRecords
    <2>10. /\ x.bundle = run[r].bundle /\ x.status = status
           /\ x.answer = run[r].answer /\ x.scores = run[r].scores
           /\ x.done = run[r].done /\ x.completed = run[r].completed
      BY Facts DEF RunRecords
    <2>4. /\ x \in RunRecords /\ x.bundle = run[r].bundle /\ x.status # "evaluated"
          /\ x.answer = run[r].answer /\ x.scores = run[r].scores
          /\ x.done = run[r].done /\ x.completed = run[r].completed
      BY <2>3, <2>9, <2>10
    <2>5. \A k \in Batches : run[r].plan[k] = {}
      BY <1>5 DEF Planned
    <2>6. \A k \in Batches : run[r].answer[k].kind = "none"
              /\ run[r].scores[k] = {} /\ k \notin run[r].done
      BY <2>5, Facts DEF RowOK
    <2>7. ~run[r].completed
      BY <1>2, Facts DEF RowOK
    <2>8. RowOK(x)
      BY <2>4, <2>6, <2>7 DEF RowOK
    <2> HIDE DEF x
    <2> QED
      BY <1>1, <1>2, <1>5, <2>2, <2>4, <2>8, Facts, PreparingKeeps
         DEF Preparing, Env
  <1> QED
    BY <1>1, <1>3, <1>4, <1>5 DEF EnsureBatches

-----------------------------------------------------------------------------
(* The actions of a batch *)

LEMMA ValidSets ==
    ASSUME NEW T \in SUBSET Tags
    PROVE  /\ IsFiniteSet(T) /\ Cardinality(T) \in Nat
           /\ T \in Valid(T)
           /\ Cardinality(T) = 0 => T = {}
           /\ \A S \in Valid(T), U \in Valid(T) : S \cup U \in Valid(T)
           /\ \A S \in Valid(T) : {} \cup S \in Valid(T)
  <1>1. IsFiniteSet(T)
    BY ConstantFacts, FS_Subset
  <1>2. Cardinality(T) \in Nat /\ (Cardinality(T) = 0 => T = {})
    BY <1>1, FS_CardinalityType, FS_EmptySet
  <1>3. T \in Valid(T)
    BY FS_EmptySet, ConstantFacts DEF Valid
  <1>4. ASSUME NEW S \in Valid(T), NEW U \in Valid(T)
        PROVE  S \cup U \in Valid(T)
    <2>1. IsFiniteSet(T \ S) /\ T \ (S \cup U) \subseteq T \ S
      BY <1>1, FS_Subset
    <2>2. /\ Cardinality(T \ (S \cup U)) \in Nat /\ Cardinality(T \ S) \in Nat
          /\ Cardinality(T \ (S \cup U)) <= Cardinality(T \ S)
      BY <2>1, FS_Subset, FS_CardinalityType
    <2> QED
      BY <2>2, ConstantFacts DEF Valid
  <1> QED
    BY <1>1, <1>2, <1>3, <1>4

\* A batch that is being worked on: the run and its rows are as they should be.
LEMMA BatchFacts ==
    ASSUME Inv, NEW p \in Replicas, NEW r \in Runs, NEW k \in Batches,
           job[p][r].step = "scoring", k \in Planned(r)
    PROVE  /\ run[r] \in RunRecords /\ job[p][r] \in Jobs /\ RowOK(run[r])
           /\ run[r].status # "evaluated" /\ ~run[r].completed
           /\ run[r].plan[k] # {} /\ run[r].plan[k] \in SUBSET Tags
           /\ Knows(job[p][r].at[k], run[r], k)
           /\ k \in Items /\ "evaluating" \in Statuses
           /\ faults \in 0 .. MaxFaults
  <1>1. /\ run[r] \in RunRecords /\ job[p][r] \in Jobs /\ RowOK(run[r])
        /\ JobOK(job[p][r], run[r]) /\ faults \in 0 .. MaxFaults
    BY Facts
  <1>2. run[r].status # "evaluated" /\ ~run[r].completed
    BY <1>1 DEF JobOK, RowOK
  <1>3. Knows(job[p][r].at[k], run[r], k)
    BY <1>1 DEF JobOK, BatchOK
  <1>4. run[r].plan[k] # {} /\ run[r].plan[k] \in SUBSET Tags
    BY <1>1, RunFields DEF Planned
  <1> QED
    BY <1>1, <1>2, <1>3, <1>4, ConstantFacts DEF Statuses

LEMMA BeginBatchKeeps ==
    ASSUME Inv, NEW p \in Replicas, NEW r \in Runs, NEW k \in Batches,
           BeginBatch(p, r, k)
    PROVE  Inv' /\ Stays
  <1>1. /\ job[p][r].step = "scoring" /\ k \in Planned(r) /\ Env
        /\ run = [run EXCEPT ![r] = run[r]]
    BY Facts DEF BeginBatch, AtBatch
  <1>2. CASE k \in run[r].done /\ At(p, r, k, "ended") /\ UNCHANGED run
    <2>1. MoveTo(p, r, k, "ended") /\ Knows("ended", run[r], k)
          /\ "ended" \in BatchSteps
      BY <1>2 DEF MoveTo, Knows, BatchSteps
    <2> QED
      BY <1>1, <1>2, <2>1, BatchFacts, BatchKeeps DEF Env
  <1>3. CASE Scored(r, k) /\ At(p, r, k, "stored") /\ UNCHANGED run
    <2>1. run[r].scores[k] # {}
      BY <1>1, <1>3, BatchFacts, ValidSets, FS_EmptySet DEF Scored
    <2>2. MoveTo(p, r, k, "stored") /\ Knows("stored", run[r], k)
          /\ "stored" \in BatchSteps
      BY <1>1, <1>3, <2>1, BatchFacts DEF MoveTo, Knows, BatchSteps, RowOK
    <2> QED
      BY <1>1, <1>3, <2>2, BatchFacts, BatchKeeps DEF Env
  <1>4. CASE /\ run' = IF k \in run[r].started THEN run
                       ELSE [run EXCEPT ![r].started = @ \cup {k},
                                        ![r].status = "evaluating"]
             /\ MoveTo(p, r, k, Resume(run[r].tries[k], run[r].answer[k].kind,
                                       "storing", "ready", "failed"))
    <2> DEFINE step == Resume(run[r].tries[k], run[r].answer[k].kind,
                              "storing", "ready", "failed")
               started == run[r].started \cup {k}
               y == [run[r] EXCEPT !.started = started, !.status = "evaluating"]
               x == IF k \in run[r].started THEN run[r] ELSE y
    <2>1. step \in BatchSteps /\ Knows(step, run[r], k)
      BY DEF Resume, Knows, BatchSteps
    <2>2. MoveTo(p, r, k, step)
      BY <1>4
    <2> HIDE DEF step
    <2>3. run' = [run EXCEPT ![r] = x]
      BY <1>1, <1>4 DEF Inv, TypeOK
    <2>4. started \in SUBSET Items /\ run[r] \in RunRecords
      BY <1>1, BatchFacts, RunFields
    <2> HIDE DEF started
    <2>5. y \in RunRecords
      BY <1>1, <2>4, BatchFacts, RunFields DEF RunRecords
    <2>6. /\ y.bundle = run[r].bundle /\ y.status = "evaluating"
          /\ y.completed = run[r].completed /\ y.done = run[r].done
          /\ y.plan = run[r].plan /\ y.scores = run[r].scores
          /\ y.answer = run[r].answer /\ y.tries = run[r].tries
      BY <2>4 DEF RunRecords
    <2> HIDE DEF y
    <2>7. /\ x \in RunRecords /\ x.bundle = run[r].bundle
          /\ x.status # "evaluated"
          /\ x.completed = run[r].completed /\ x.done = run[r].done
          /\ x.plan = run[r].plan /\ x.scores = run[r].scores
          /\ x.answer = run[r].answer /\ x.tries = run[r].tries
      BY <1>1, <2>4, <2>5, <2>6, BatchFacts
    <2> HIDE DEF x
    <2>8. RowOK(x) /\ Knows(step, x, k)
      BY <1>1, <2>1, <2>7, BatchFacts DEF RowOK, Knows
    <2> QED
      BY <1>1, <2>1, <2>2, <2>3, <2>7, <2>8, BatchFacts, BatchKeeps DEF Env
  <1> QED
    BY <1>2, <1>3, <1>4 DEF BeginBatch

LEMMA CallProviderKeeps ==
    ASSUME Inv, NEW p \in Replicas, NEW r \in Runs, NEW k \in Batches,
           CallProvider(p, r, k)
    PROVE  Inv' /\ Stays
  <1>1. /\ job[p][r].step = "scoring" /\ job[p][r].at[k] = "ready"
        /\ k \in Planned(r) /\ Env /\ UNCHANGED run
        /\ run = [run EXCEPT ![r] = run[r]]
    BY Facts DEF CallProvider, AtBatch
  <1>2. PICK step \in {"calling", "failed"} : MoveTo(p, r, k, step)
    BY DEF CallProvider
  <1>3. step \in BatchSteps /\ Knows(step, run[r], k)
    BY <1>1, BatchFacts DEF Knows, BatchSteps
  <1> QED
    BY <1>1, <1>2, <1>3, BatchFacts, BatchKeeps DEF Env

LEMMA BatchAnsweredKeeps ==
    ASSUME Inv, NEW p \in Replicas, NEW r \in Runs, NEW k \in Batches,
           BatchAnswered(p, r, k)
    PROVE  Inv' /\ Stays
  <1>1. /\ job[p][r].step = "scoring" /\ job[p][r].at[k] = "calling"
        /\ k \in Planned(r) /\ Env
    BY DEF BatchAnswered, AtBatch
  <1>2. PICK a \in {Answer("usable", S) : S \in Valid(run[r].plan[k])} \cup
                   {Answer("retry", {}), Answer("fatal", {})} :
            /\ SaveAttempt(r, k, a, "evaluating")
            /\ MoveTo(p, r, k, Resume(run[r].tries[k] + 1, a.kind,
                                     "storing", "ready", "failed"))
    BY DEF BatchAnswered
  <1>3. /\ a \in [kind : AnswerKinds, tags : SUBSET Tags]
        /\ a.kind \in {"usable", "retry", "fatal"}
        /\ a.kind = "usable" => a.tags \in Valid(run[r].plan[k])
    <2>1. run[r].plan[k] \in SUBSET Tags
      BY <1>1, BatchFacts
    <2>2. CASE a \in {Answer("retry", {}), Answer("fatal", {})}
      BY <2>2 DEF Answer, AnswerKinds
    <2>3. ASSUME NEW S \in Valid(run[r].plan[k]), a = Answer("usable", S)
          PROVE  /\ a \in [kind : AnswerKinds, tags : SUBSET Tags]
                 /\ a.kind = "usable" /\ a.tags = S
      BY <2>1, <2>3 DEF Answer, AnswerKinds, Valid
    <2> QED
      BY <2>2, <2>3 DEF Answer
  <1>4. run[r].tries[k] < MaxAttempts
    BY <1>1, BatchFacts DEF Knows
  <1>5. PICK x \in RunRecords :
            /\ run' = [run EXCEPT ![r] = x]
            /\ x.bundle = run[r].bundle /\ x.status = "evaluating"
            /\ x.completed = run[r].completed /\ x.done = run[r].done
            /\ x.plan = run[r].plan /\ x.scores = run[r].scores
            /\ x.answer = [run[r].answer EXCEPT ![k] = a]
            /\ \A l \in Items \ {k} : x.tries[l] = run[r].tries[l]
            /\ a.kind = "retry" => x.tries[k] = run[r].tries[k] + 1
    BY <1>1, <1>2, <1>3, <1>4, BatchFacts, SavedAttempt
  <1>6. /\ x.answer[k] = a
        /\ \A l \in Batches \ {k} : x.answer[l] = run[r].answer[l]
    BY <1>1, <1>5, BatchFacts, RunFields, ConstantFacts
  <1>7. RowOK(x)
    BY <1>1, <1>3, <1>5, <1>6, BatchFacts DEF RowOK
  <1> DEFINE step == Resume(run[r].tries[k] + 1, a.kind,
                            "storing", "ready", "failed")
  <1>8. /\ step \in BatchSteps /\ step \in {"storing", "ready", "failed"}
        /\ step = "storing" => a.kind = "usable"
        /\ step = "ready" => a.kind = "retry" /\ run[r].tries[k] + 1 < MaxAttempts
    BY <1>3 DEF Resume, BatchSteps
  <1>9. MoveTo(p, r, k, step)
    BY <1>2
  <1> HIDE DEF step
  <1>10. Knows(step, x, k)
    BY <1>5, <1>6, <1>8 DEF Knows
  <1>11. \A l \in Batches \ {k} : x.tries[l] = run[r].tries[l]
    BY <1>5, ConstantFacts
  <1> QED
    BY <1>1, <1>5, <1>6, <1>7, <1>8, <1>9, <1>10, <1>11, BatchFacts, BatchKeeps
       DEF Env

LEMMA StoreScoresKeeps ==
    ASSUME Inv, NEW p \in Replicas, NEW r \in Runs, NEW k \in Batches,
           StoreScores(p, r, k)
    PROVE  Inv' /\ Stays
  <1>1. /\ job[p][r].step = "scoring" /\ job[p][r].at[k] = "storing"
        /\ k \in Planned(r) /\ Env
        /\ run = [run EXCEPT ![r] = run[r]]
    BY Facts DEF StoreScores, AtBatch
  <1>2. CASE FailBatch(p, r, k) /\ UNCHANGED run
    <2>1. MoveTo(p, r, k, "failed") /\ Knows("failed", run[r], k)
          /\ "failed" \in BatchSteps
      BY <1>2 DEF MoveTo, Knows, BatchSteps
    <2> QED
      BY <1>1, <1>2, <2>1, BatchFacts, BatchKeeps DEF Env
  <1>3. CASE /\ run' = [run EXCEPT ![r].scores[k] = @ \cup run[r].answer[k].tags]
             /\ At(p, r, k, "stored")
    <2> DEFINE new == run[r].scores[k] \cup run[r].answer[k].tags
               scores == [run[r].scores EXCEPT ![k] = new]
               x == [run[r] EXCEPT !.scores = scores]
    <2>1. new \in Valid(run[r].plan[k])
      <3>1. run[r].answer[k].tags \in Valid(run[r].plan[k])
        BY <1>1, BatchFacts DEF Knows, RowOK
      <3>2. run[r].scores[k] = {} \/ run[r].scores[k] \in Valid(run[r].plan[k])
        BY <1>1, BatchFacts DEF RowOK
      <3> QED
        BY <1>1, <3>1, <3>2, BatchFacts, ValidSets
    <2>2. new \in SUBSET Tags
      BY <1>1, <2>1, BatchFacts DEF Valid
    <2>3. run' = [run EXCEPT ![r] = x]
      BY <1>3 DEF Inv, TypeOK
    <2> HIDE DEF new
    <2>4. /\ scores \in [Batches -> SUBSET Tags] /\ scores[k] = new
          /\ \A l \in Batches \ {k} : scores[l] = run[r].scores[l]
      BY <1>1, <2>2, BatchFacts, RunFields
    <2> HIDE DEF scores
    <2>5. run[r] \in RunRecords
      BY Facts
    <2>6. x \in RunRecords
      BY <2>4, <2>5, RunFields DEF RunRecords
    <2>7. /\ x.bundle = run[r].bundle /\ x.status = run[r].status
          /\ x.completed = run[r].completed /\ x.done = run[r].done
          /\ x.plan = run[r].plan /\ x.scores = scores
          /\ x.answer = run[r].answer /\ x.tries = run[r].tries
      BY <2>5 DEF RunRecords
    <2> HIDE DEF x
    <2>8. RowOK(x)
      BY <1>1, <2>1, <2>4, <2>7, BatchFacts DEF RowOK
    <2>9. /\ MoveTo(p, r, k, "stored") /\ Knows("stored", x, k)
          /\ "stored" \in BatchSteps /\ x.status # "evaluated"
      BY <1>1, <1>3, <2>1, <2>4, <2>7, BatchFacts DEF MoveTo, Knows, BatchSteps
    <2>10. \A l \in Batches \ {k} :
               /\ x.answer[l] = run[r].answer[l] /\ x.tries[l] = run[r].tries[l]
               /\ x.scores[l] = run[r].scores[l] /\ x.plan[l] = run[r].plan[l]
               /\ l \in run[r].done => l \in x.done
      BY <2>4, <2>7
    <2> QED
      BY <1>1, <2>3, <2>6, <2>7, <2>8, <2>9, <2>10, BatchFacts, BatchKeeps DEF Env
  <1> QED
    BY <1>2, <1>3 DEF StoreScores

LEMMA CompleteBatchKeeps ==
    ASSUME Inv, NEW p \in Replicas, NEW r \in Runs, NEW k \in Batches,
           CompleteBatch(p, r, k)
    PROVE  Inv' /\ Stays
  <1> DEFINE done == run[r].done \cup {k}
             x == [run[r] EXCEPT !.done = done, !.status = "evaluating"]
  <1>1. /\ job[p][r].step = "scoring" /\ job[p][r].at[k] = "stored"
        /\ k \in Planned(r) /\ Env /\ At(p, r, k, "ended")
    BY DEF CompleteBatch, AtBatch
  <1>2. run' = [run EXCEPT ![r] = x]
    BY DEF CompleteBatch, Inv, TypeOK
  <1>3. done \in SUBSET Batches /\ run[r] \in RunRecords
    BY <1>1, BatchFacts, RunFields
  <1>4. \A l \in Batches : l \in done <=> l = k \/ l \in run[r].done
    OBVIOUS
  <1> HIDE DEF done
  <1>5. x \in RunRecords
    BY <1>1, <1>3, BatchFacts, RunFields DEF RunRecords
  <1>6. /\ x.bundle = run[r].bundle /\ x.status = "evaluating"
        /\ x.completed = run[r].completed /\ x.done = done
        /\ x.plan = run[r].plan /\ x.scores = run[r].scores
        /\ x.answer = run[r].answer /\ x.tries = run[r].tries
    BY <1>3 DEF RunRecords
  <1> HIDE DEF x
  <1>7. RowOK(x)
    BY <1>1, <1>4, <1>6, BatchFacts DEF RowOK, Knows
  <1>8. /\ MoveTo(p, r, k, "ended") /\ Knows("ended", x, k)
        /\ "ended" \in BatchSteps /\ x.status # "evaluated"
    BY <1>1, <1>4, <1>6 DEF MoveTo, Knows, BatchSteps
  <1> QED
    BY <1>1, <1>2, <1>4, <1>5, <1>6, <1>7, <1>8, BatchFacts, BatchKeeps DEF Env

LEMMA StopBatchKeeps ==
    ASSUME Inv, NEW p \in Replicas, NEW r \in Runs, NEW k \in Batches,
           StopBatch(p, r, k)
    PROVE  Inv' /\ Stays
  <1>1. /\ job[p][r].step = "scoring" /\ job[p][r].cancelled
        /\ k \in Planned(r) /\ Env /\ UNCHANGED run /\ At(p, r, k, "failed")
        /\ run = [run EXCEPT ![r] = run[r]]
    BY Facts DEF StopBatch, Working
  <1>2. FailBatch(p, r, k)
    <2> DEFINE old == job[p][r]
               at == [old.at EXCEPT ![k] = "failed"]
    <2>1. job' = [job EXCEPT ![p] = [@ EXCEPT ![r] = [old EXCEPT !.at = at]]]
      BY <1>1 DEF At, Inv, TypeOK
    <2>2. [old EXCEPT !.at = at, !.cancelled = TRUE] = [old EXCEPT !.at = at]
      BY <1>1, Facts DEF Jobs
    <2>3. job' = [job EXCEPT ![p] = [@ EXCEPT ![r] =
                      [old EXCEPT !.at = at, !.cancelled = TRUE]]]
      BY <2>1, <2>2
    <2> QED
      BY <2>3 DEF FailBatch, Inv, TypeOK
  <1>3. MoveTo(p, r, k, "failed") /\ Knows("failed", run[r], k)
        /\ "failed" \in BatchSteps
    BY <1>2 DEF MoveTo, Knows, BatchSteps
  <1> QED
    BY <1>1, <1>3, BatchFacts, BatchKeeps DEF Env

-----------------------------------------------------------------------------
(* The end of an execution, faults, requests and the scheduler *)

LEMMA FinishKeeps ==
    ASSUME Inv, NEW p \in Replicas, NEW r \in Runs, Finish(p, r)
    PROVE  Inv' /\ Stays
  <1>1. /\ job[p][r].step = "scoring" /\ BatchesOver(p, r) /\ Env
        /\ run[r].status # "evaluated" /\ ~run[r].completed
    BY Facts DEF Finish, JobOK, RowOK
  <1>2. Holds(p, r)
    BY <1>1 DEF Holds
  <1>3. CASE Goto(p, r, "failing") /\ UNCHANGED run
    <2>1. "failing" \in Steps /\ JobOK([job[p][r] EXCEPT !.step = "failing"], run[r])
      BY <1>1, Facts, Moved DEF Steps, JobOK
    <2> QED
      BY <1>1, <1>2, <1>3, <2>1, Facts, GotoKeeps DEF Env
  <1>4. CASE /\ ~job[p][r].cancelled /\ End(p, r)
             /\ run' = [run EXCEPT ![r].completed = TRUE, ![r].status = "evaluated"]
    <2> DEFINE x == [run[r] EXCEPT !.completed = TRUE, !.status = "evaluated"]
    <2>1. run' = [run EXCEPT ![r] = x]
      BY <1>4 DEF Inv, TypeOK
    <2>2. run[r] \in RunRecords /\ RowOK(run[r])
      BY Facts
    <2>3. x \in RunRecords
      BY <2>2, RunFields DEF RunRecords, Statuses
    <2>4. /\ x.bundle = run[r].bundle /\ x.status = "evaluated" /\ x.completed
          /\ x.done = run[r].done /\ x.plan = run[r].plan
          /\ x.scores = run[r].scores /\ x.answer = run[r].answer
      BY <2>2 DEF RunRecords
    <2> HIDE DEF x
    <2>5. \A k \in Batches : run[r].plan[k] = {} \/ k \in run[r].done
      <3>1. SUFFICES ASSUME NEW k \in Batches, run[r].plan[k] # {}
                     PROVE  k \in run[r].done
        OBVIOUS
      <3>2. job[p][r].at[k] = "ended"
        <4>1. job[p][r].at[k] # "failed"
          BY <1>1, <1>4, Facts DEF JobOK, BatchOK
        <4> QED
          BY <1>1, <1>4, <3>1, <4>1 DEF BatchesOver, Working, Planned
      <3>3. Knows(job[p][r].at[k], run[r], k)
        BY <1>1, <3>1, BatchFacts DEF Planned
      <3> QED
        BY <3>2, <3>3 DEF Knows
    <2>6. RowOK(x)
      BY <2>2, <2>4, <2>5 DEF RowOK
    <2> QED
      BY <1>1, <1>2, <1>4, <2>1, <2>3, <2>4, <2>6, Facts, EndKeeps DEF Env
  <1> QED
    BY <1>1, <1>3, <1>4 DEF Finish

LEMMA FailKeeps ==
    ASSUME Inv, NEW p \in Replicas, NEW r \in Runs, Fail(p, r)
    PROVE  Inv' /\ Stays
  <1> DEFINE x == [run[r] EXCEPT !.status = "error"]
  <1>1. /\ job[p][r].step = "failing" /\ Env /\ End(p, r) /\ Holds(p, r)
        /\ run[r].status # "evaluated"
    BY Facts DEF Fail, JobOK, Holds
  <1>2. run' = [run EXCEPT ![r] = x]
    BY DEF Fail, Inv, TypeOK
  <1>3. run[r] \in RunRecords /\ RowOK(run[r])
    BY Facts
  <1>4. x \in RunRecords
    BY <1>3, RunFields DEF RunRecords, Statuses
  <1>5. /\ x.bundle = run[r].bundle /\ x.status = "error"
        /\ x.completed = run[r].completed /\ x.done = run[r].done
        /\ x.plan = run[r].plan /\ x.scores = run[r].scores
        /\ x.answer = run[r].answer
    BY <1>3 DEF RunRecords
  <1> HIDE DEF x
  <1>6. RowOK(x)
    BY <1>1, <1>3, <1>5 DEF RowOK
  <1> QED
    BY <1>1, <1>2, <1>4, <1>5, <1>6, Facts, EndKeeps DEF Env

LEMMA FaultCount ==
    ASSUME Inv, Fault
    PROVE  /\ faults' \in 0 .. MaxFaults
           /\ UNCHANGED <<catalog, run, last, edits>>
  BY ConstantFacts DEF Fault, Inv, TypeOK

LEMMA InterruptKeeps ==
    ASSUME Inv, NEW p \in Replicas, NEW r \in Runs, Interrupt(p, r)
    PROVE  Inv' /\ Stays
  BY Facts, FaultCount, EndKeeps DEF Interrupt

LEMMA StatementFailsKeeps ==
    ASSUME Inv, NEW p \in Replicas, NEW r \in Runs, StatementFails(p, r)
    PROVE  Inv' /\ Stays
  <1>1. /\ Fault /\ listed' = listed /\ faults' \in 0 .. MaxFaults
        /\ UNCHANGED <<catalog, run, last, edits>>
        /\ run' = [run EXCEPT ![r] = run[r]]
    BY FaultCount, Facts DEF StatementFails
  <1>2. CASE /\ job[p][r].step \in {"persona", "asking", "planning", "scoring"}
             /\ Goto(p, r, "failing")
    <2>1. run[r].status # "evaluated" /\ Holds(p, r) /\ "failing" \in Steps
      BY <1>2, Facts DEF JobOK, Holds, Steps
    <2>2. JobOK([job[p][r] EXCEPT !.step = "failing"], run[r])
      BY <2>1, Facts, Moved DEF JobOK
    <2> QED
      BY <1>1, <1>2, <2>1, <2>2, Facts, GotoKeeps
  <1>3. ASSUME NEW k \in Working(p, r), job[p][r].step = "scoring",
               FailBatch(p, r, k)
        PROVE  Inv' /\ Stays
    <2>1. k \in Batches /\ k \in Planned(r)
      BY DEF Working, Planned
    <2>2. MoveTo(p, r, k, "failed") /\ Knows("failed", run[r], k)
          /\ "failed" \in BatchSteps
      BY <1>3 DEF MoveTo, Knows, BatchSteps
    <2> QED
      BY <1>1, <1>3, <2>1, <2>2, BatchFacts, BatchKeeps
  <1> QED
    BY <1>2, <1>3 DEF StatementFails

\* Executions that are over or have not begun disturb nobody.
LEMMA RestartKeeps ==
    ASSUME Inv, run' = run, NEW step \in {"idle", "locking"},
           \A q \in Replicas, s \in Runs :
               job'[q][s] = job[q][s] \/ job'[q][s] = Job(step)
    PROVE  Exclusive' /\ Executions'
  <1>1. /\ Job(step).step = step /\ ~Job(step).cancelled
        /\ \A k \in Batches : Job(step).at[k] = "queued"
    BY JobType DEF Steps
  <1>2. \A q \in Replicas, s \in Runs : Holds(q, s)' => Holds(q, s)
    BY <1>1 DEF Holds
  <1>3. Exclusive'
    BY <1>2 DEF Inv, Exclusive
  <1>4. \A s \in Runs : JobOK(Job(step), run[s])
    BY <1>1 DEF JobOK
  <1>5. \A q \in Replicas, s \in Runs : JobOK(job[q][s], run[s])
    BY DEF Inv, Executions
  <1>6. \A q \in Replicas, s \in Runs : JobOK(job'[q][s], run'[s])
    BY <1>4, <1>5
  <1> QED
    BY <1>3, <1>6 DEF Executions

\* A process dies with its executions; what they had written stays.
LEMMA CrashKeeps ==
    ASSUME Inv, NEW p \in Replicas, Crash(p)
    PROVE  Inv' /\ Stays
  <1> USE DEF Inv, TypeOK
  <1>1. UNCHANGED <<catalog, run, last, edits>> /\ faults' \in 0 .. MaxFaults
    BY FaultCount DEF Crash
  <1>2. /\ job' \in [Replicas -> [Runs -> Jobs]]
        /\ listed' \in [Replicas -> SUBSET Runs]
        /\ \A q \in Replicas, s \in Runs :
               /\ job'[q][s] = job[q][s] \/ job'[q][s] = Job("idle")
               /\ listed'[q] \subseteq listed[q]
    BY JobType DEF Crash, Steps
  <1>3. Job("idle").step = "idle" /\ ~Job("idle").cancelled
        /\ \A k \in Batches : Job("idle").at[k] = "queued"
    BY JobType DEF Steps
  <1>4. TypeOK'
    BY <1>1, <1>2
  <1>5. Exclusive' /\ Executions'
    BY <1>1, <1>2, RestartKeeps
  <1>6. Fresh'
    BY <1>1, <1>2, <1>3 DEF Fresh
  <1> QED
    BY <1>1, <1>4, <1>5, <1>6 DEF Rows, Stays

LEMMA RequestKeeps ==
    ASSUME Inv, NEW b \in Bundles, Request(b)
    PROVE  Inv' /\ Stays
  <1> DEFINE n == last + 1
             x == [NoRun EXCEPT !.bundle = b, !.status = "created"]
  <1> USE DEF Inv, TypeOK
  <1>1. /\ n \in Runs /\ n > last /\ last' = n /\ last' \in 0 .. MaxRun
        /\ UNCHANGED <<catalog, listed, job, faults, edits>>
        /\ run' = [run EXCEPT ![n] = x]
    BY ConstantFacts DEF Request, Runs
  <1>2. x \in RunRecords
    BY NoRunType DEF RunRecords, Statuses
  <1>3. RowOK(x) /\ x.status = "created"
    BY ConstantFacts DEF NoRun, RowOK, Answer
  <1> HIDE DEF x
  <1>4. /\ run[n] = NoRun
        /\ \A p \in Replicas : n \notin listed[p] /\ job[p][n].step = "idle"
    BY <1>1 DEF Fresh
  <1>5. run'[n] = x /\ \A s \in Runs \ {n} : run'[s] = run[s]
    BY <1>1
  <1>6. TypeOK'
    BY <1>1, <1>2
  <1>7. Exclusive'
    BY <1>1, <1>4, <1>5 DEF Exclusive, Holds
  <1>8. Fresh'
    BY <1>1, <1>5 DEF Fresh, Runs
  <1>9. Rows'
    BY <1>3, <1>5 DEF Rows
  <1>10. Executions'
    BY <1>1, <1>3, <1>4, <1>5 DEF Executions, JobOK
  <1>11. Stays
    BY <1>4, <1>5 DEF Stays, NoRun
  <1> QED
    BY <1>6, <1>7, <1>8, <1>9, <1>10, <1>11

LEMMA EditTagKeeps ==
    ASSUME Inv, NEW t \in Tags, EditTag(t)
    PROVE  Inv' /\ Stays
  <1>1. catalog' \in [Tags -> TagStates] /\ edits' \in 0 .. MaxEdits
    BY ConstantFacts DEF EditTag, Inv, TypeOK
  <1>2. UNCHANGED <<run, last, listed, job, faults>>
    BY DEF EditTag
  <1> QED
    BY <1>1, <1>2 DEF Inv, TypeOK, Exclusive, Holds, Fresh, Rows, Executions, Stays

LEMMA ListKeeps ==
    ASSUME Inv, NEW p \in Replicas, List(p)
    PROVE  Inv' /\ Stays
  <1>1. UNCHANGED <<catalog, run, last, job, faults, edits>>
    BY DEF List
  <1>2. /\ listed' \in [Replicas -> SUBSET Runs]
        /\ \A q \in Replicas : listed'[q] \subseteq listed[q] \cup Pending
    BY DEF List, Inv, TypeOK, Pending
  <1>3. \A r \in Pending : ~(r > last)
    BY DEF Pending, IsPending, Inv, Fresh, NoRun
  <1>4. Fresh'
    BY <1>1, <1>2, <1>3 DEF Fresh, Inv
  <1> QED
    BY <1>1, <1>2, <1>4 DEF Inv, TypeOK, Exclusive, Holds, Rows, Executions, Stays

LEMMA LaunchKeeps ==
    ASSUME Inv, NEW p \in Replicas, Launch(p)
    PROVE  Inv' /\ Stays
  <1> USE DEF Inv, TypeOK
  <1>1. PICK r \in listed[p] :
            LET free == r \notin InFlight(p)
                        /\ Cardinality(InFlight(p)) < MaxParallelRuns
                now == InFlight(p) \cup {s \in {r} : free}
                full == free /\ Cardinality(now) >= MaxParallelRuns
            IN /\ \A s \in listed[p] : r <= s
               /\ listed' = [listed EXCEPT ![p] = {s \in @ \ {r} : ~full}]
               /\ job' = [job EXCEPT ![p][r] = IF free THEN Job("locking") ELSE @]
               /\ UNCHANGED <<catalog, run, last, faults, edits>>
    BY DEF Launch
  <1>2. UNCHANGED <<catalog, run, last, faults, edits>>
    BY <1>1
  <1>3. /\ listed' \in [Replicas -> SUBSET Runs]
        /\ \A q \in Replicas : listed'[q] \subseteq listed[q]
    BY <1>1
  <1>4. Job("locking") \in Jobs /\ Job("locking").step = "locking"
        /\ ~Job("locking").cancelled
        /\ \A k \in Batches : Job("locking").at[k] = "queued"
    BY JobType DEF Steps
  <1>5. r \in Runs /\ ~(r > last)
    BY DEF Fresh
  <1>6. /\ job' \in [Replicas -> [Runs -> Jobs]]
        /\ \A q \in Replicas, s \in Runs :
               \/ job'[q][s] = job[q][s]
               \/ job'[q][s] = Job("locking") /\ s = r
    BY <1>1, <1>4, <1>5
  <1>7. TypeOK'
    BY <1>2, <1>3, <1>6
  <1>8. Exclusive' /\ Executions'
    BY <1>2, <1>6, RestartKeeps
  <1>9. Fresh'
    BY <1>2, <1>3, <1>5, <1>6 DEF Fresh
  <1> QED
    BY <1>2, <1>7, <1>8, <1>9 DEF Rows, Stays

-----------------------------------------------------------------------------
(* The invariant and the theorems *)

LEMMA InitInv == Init => Inv
  <1> SUFFICES ASSUME Init PROVE Inv
    OBVIOUS
  <1> USE DEF Init
  <1>1. Job("idle") \in Jobs /\ Job("idle").step = "idle"
        /\ ~Job("idle").cancelled
        /\ \A k \in Batches : Job("idle").at[k] = "queued"
    BY JobType DEF Steps
  <1>2. TypeOK
    BY <1>1, NoRunType, ConstantFacts DEF TypeOK
  <1>3. NoRun.status = "none"
    BY DEF NoRun
  <1>4. Exclusive
    BY <1>1 DEF Exclusive, Holds
  <1>5. Fresh
    BY <1>1 DEF Fresh
  <1>6. Rows
    BY NoRunType DEF Rows
  <1>7. Executions
    BY <1>1, <1>3 DEF Executions, JobOK
  <1> QED
    BY <1>2, <1>4, <1>5, <1>6, <1>7 DEF Inv

LEMMA NextKeeps ==
    ASSUME Inv, [Next]_vars
    PROVE  Inv' /\ Stays
  <1>1. ASSUME NEW b \in Bundles, Request(b) PROVE Inv' /\ Stays
    BY <1>1, RequestKeeps
  <1>2. ASSUME NEW t \in Tags, EditTag(t) PROVE Inv' /\ Stays
    BY <1>2, EditTagKeeps
  <1>3. ASSUME NEW p \in Replicas, List(p) \/ Launch(p) \/ Crash(p)
        PROVE  Inv' /\ Stays
    BY <1>3, ListKeeps, LaunchKeeps, CrashKeeps
  <1>4. ASSUME NEW p \in Replicas, NEW r \in Runs, NEW k \in Batches,
               Batch(p, r, k)
        PROVE  Inv' /\ Stays
    BY <1>4, BeginBatchKeeps, CallProviderKeeps, BatchAnsweredKeeps,
       StoreScoresKeeps, CompleteBatchKeeps, StopBatchKeeps DEF Batch
  <1>5. ASSUME NEW p \in Replicas, NEW r \in Runs, Execute(p, r)
        PROVE  Inv' /\ Stays
    BY <1>4, <1>5, AcquireLockKeeps, CheckStatusKeeps, BeginPersonaKeeps,
       PersonaAnsweredKeeps, EnsureBatchesKeeps, FinishKeeps, FailKeeps
       DEF Execute
  <1>6. ASSUME NEW p \in Replicas, NEW r \in Runs,
               Interrupt(p, r) \/ StatementFails(p, r)
        PROVE  Inv' /\ Stays
    BY <1>6, InterruptKeeps, StatementFailsKeeps
  <1>7. CASE UNCHANGED vars
    BY <1>7 DEF vars, Inv, TypeOK, Exclusive, Holds, Fresh, Rows, Executions, Stays
  <1> QED
    BY <1>1, <1>2, <1>3, <1>5, <1>6, <1>7 DEF Next

LEMMA Invariant == Spec => []Inv
  BY InitInv, NextKeeps, PTL DEF Spec

\* The type invariant: among others, no item is tried more often than the
\* retries allow (ensurePersonaAnalysis, processBatch).
THEOREM TypesCorrect == Spec => []TypeOK
  <1>1. Inv => TypeOK
    BY DEF Inv
  <1> QED
    BY <1>1, Invariant, PTL

\* ExecuteBundleTagEvaluationRun: the scores of a completed run are complete,
\* through any interruptions, failed statements and resumptions.
THEOREM EvaluatedScores == Spec => []EvaluatedIsScored
  <1>1. Inv => EvaluatedIsScored
    BY DEF Inv, Rows, RowOK, EvaluatedIsScored, Planned
  <1> QED
    BY <1>1, Invariant, PTL

\* processBatch, ensurePersonaAnalysis: no call is made for what has a usable
\* answer, although any number of executions come one after the other.
THEOREM PaidAnswersReused == Spec => []AnswersReused
  <1>1. Inv => AnswersReused
    BY DEF Inv, Executions, JobOK, BatchOK, Knows, AnswersReused
  <1> QED
    BY <1>1, Invariant, PTL

\* The status is read under the lock: an evaluated run is never touched again.
THEOREM EvaluatedRunsStay == Spec => EvaluatedStays
  <1>1. Stays => (\A r \in Runs : run[r].status = "evaluated" => run'[r] = run[r])
    BY DEF Stays
  <1>2. Inv /\ [Next]_vars =>
            [\A r \in Runs : run[r].status = "evaluated" => run'[r] = run[r]]_vars
    BY <1>1, NextKeeps
  <1> QED
    BY <1>2, Invariant, PTL DEF Spec, EvaluatedStays

\* acquireBundleTagEvaluationLock: whatever the processes list and launch, one
\* execution of a bundle's runs at a time gets beyond the lock.
THEOREM OneExecutionPerBundle == Spec => []Exclusive
  <1>1. Inv => Exclusive
    BY DEF Inv
  <1> QED
    BY <1>1, Invariant, PTL

=============================================================================
