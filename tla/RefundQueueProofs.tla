-------------------------- MODULE RefundQueueProofs --------------------------
(* Theorems about RefundQueue, for every value of its constants. *)
EXTENDS RefundQueue, FiniteSetTheorems, WellFoundedInduction, TLAPS

JobRows == [state : States, attempt : Nat, due : BOOLEAN, lapsed : BOOLEAN]
WorkerRows == [pc : {"idle", "running", "done", "manual", "error"}, token : Nat]

\* Nothing is left to pay: everything was delivered, or the refund is there.
Paid(c) == claim[c] = "nothing" \/ refunded[c] = 1

\* What a worker goes by, and what it has found when it reports success.
Working(i, c) ==
    LET me == worker[i][c]
    IN  me.pc # "idle" => /\ c \in executed
                          /\ me.token <= job[c].attempt
                          /\ me.pc = "done" => Paid(c)

\* A job belongs to an executed campaign and is completed when that is paid.
Justified(c) ==
    /\ IF job[c].state = "none" THEN job[c].attempt = 0 ELSE c \in executed
    /\ job[c].state = "completed" => Paid(c)
    /\ refunded[c] \in {0, 1}

QueueInv ==
    /\ \A i \in Instances, c \in Campaigns : Working(i, c)
    /\ \A c \in Campaigns : Justified(c)

-----------------------------------------------------------------------------
(* Finite sets and numbers *)

\* A finite set of naturals has a maximum: the element with the fewest
\* elements above it.
LEMMA MaxOfNaturals ==
    ASSUME NEW S \in SUBSET Nat, IsFiniteSet(S), S # {}
    PROVE  Max(S) \in S /\ \A y \in S : Max(S) >= y
  <1> DEFINE Above(x) == {y \in S : y >= x}
             Sizes == {Cardinality(Above(x)) : x \in S}
  <1>1. \A x \in S : IsFiniteSet(Above(x)) /\ Cardinality(Above(x)) \in Nat
    BY FS_Subset, FS_CardinalityType
  <1>2. Sizes \subseteq Nat /\ Sizes # {}
    BY <1>1
  <1>3. \E n \in Sizes : \A m \in Sizes : ~ (<<m, n>> \in OpToRel(<, Nat))
    BY <1>2, WFMin, NatLessThanWellFounded
  <1>4. PICK n \in Sizes : \A m \in Sizes : ~ (m < n)
    BY <1>2, <1>3 DEF OpToRel
  <1>5. PICK x \in S : n = Cardinality(Above(x))
    OBVIOUS
  <1>6. \A y \in S : x >= y
    <2>1. SUFFICES ASSUME NEW y \in S, y > x PROVE FALSE
      OBVIOUS
    <2>2. Above(y) \subseteq Above(x) /\ x \in Above(x) /\ x \notin Above(y)
      <3>1. \A z \in S : z \in Nat
        OBVIOUS
      <3>2. \A z \in S : z >= y => z >= x
        BY <2>1, <3>1
      <3>3. x >= x /\ ~ (x >= y)
        BY <2>1, <3>1
      <3> QED
        BY <3>2, <3>3
    <2>3. Cardinality(Above(y)) <= Cardinality(Above(x))
          /\ Cardinality(Above(y)) # Cardinality(Above(x))
      BY <1>1, <2>2, FS_Subset
    <2> HIDE DEF Above
    <2> QED
      BY <1>1, <1>4, <1>5, <2>3
  <1> QED
    BY <1>6 DEF Max

\* The lesser of two naturals.
LEMMA MinOfTwo ==
    ASSUME NEW m \in Nat, NEW n \in Nat
    PROVE  Min({m, n}) \in Nat /\ Min({m, n}) <= m /\ Min({m, n}) <= n
  <1>1. \E x \in {m, n} : \A y \in {m, n} : x <= y
    <2>1. CASE m <= n
      BY <2>1
    <2>2. CASE n <= m
      BY <2>2
    <2> QED
      BY <2>1, <2>2
  <1>2. Min({m, n}) \in {m, n} /\ \A y \in {m, n} : Min({m, n}) <= y
    BY <1>1 DEF Min
  <1> QED
    BY <1>2

\* Campaigns in flight are finitely many.
LEMMA FlightFinite ==
    ASSUME NEW i \in Instances
    PROVE  IsFiniteSet(inFlight(i)) /\ Cardinality(inFlight(i)) \in Nat
  <1>1. inFlight(i) \in SUBSET Campaigns
    BY DEF inFlight
  <1> QED
    BY <1>1, FS_Subset, FS_CardinalityType, QueueAssumption

-----------------------------------------------------------------------------
(* Types *)

LEMMA JobType ==
    ASSUME NEW state \in States, NEW n \in Nat
    PROVE  /\ Job(state, n) \in JobRows
           /\ Job(state, n).state = state /\ Job(state, n).attempt = n
  BY DEF Job, JobRows

LEMMA WorkerType ==
    ASSUME NEW pc \in {"idle", "running", "done", "manual", "error"}, NEW n \in Nat
    PROVE  /\ Worker(pc, n) \in WorkerRows
           /\ Worker(pc, n).pc = pc /\ Worker(pc, n).token = n
  BY DEF Worker, WorkerRows

LEMMA Fields ==
    ASSUME TypeOK, NEW c \in Campaigns
    PROVE  /\ c \in Nat
           /\ job[c] \in JobRows /\ job[c].state \in States /\ job[c].attempt \in Nat
           /\ claim[c] \in Claims /\ refunded[c] \in Nat
           /\ \A i \in Instances :
                 /\ worker[i] \in [Campaigns -> WorkerRows]
                 /\ worker[i][c] \in WorkerRows
                 /\ worker[i][c].pc \in {"idle", "running", "done", "manual", "error"}
                 /\ worker[i][c].token \in Nat
  BY QueueAssumption DEF TypeOK, JobRows, WorkerRows

\* What one row or one worker becomes keeps the types of all.
LEMMA JobUpdate ==
    ASSUME TypeOK, NEW c \in Campaigns, NEW v \in JobRows,
           job' = [job EXCEPT ![c] = v]
    PROVE  /\ job' \in [Campaigns -> JobRows]
           /\ job'[c] = v
           /\ \A d \in Campaigns \ {c} : job'[d] = job[d]
  BY DEF TypeOK, JobRows

LEMMA WorkerUpdate ==
    ASSUME TypeOK, NEW i \in Instances, NEW c \in Campaigns, NEW w \in WorkerRows,
           SetWorker(i, c, w)
    PROVE  /\ worker' \in [Instances -> [Campaigns -> WorkerRows]]
           /\ worker'[i][c] = w
           /\ \A k \in Instances, d \in Campaigns :
                 k # i \/ d # c => worker'[k][d] = worker[k][d]
  BY DEF TypeOK, WorkerRows, SetWorker

LEMMA NewJob ==
    ASSUME TypeOK, NEW c \in Campaigns
    PROVE  /\ Enqueued(c) \in JobRows
           /\ Enqueued(c).attempt = job[c].attempt \/ job[c].state = "none"
           /\ Enqueued(c).attempt \in Nat
           /\ Enqueued(c).state # "none"
           /\ job[c].state # "none" => Enqueued(c) = job[c]
           /\ job[c].state = "none" =>
                 Enqueued(c).state = IF claim[c] = "unscheduled"
                                     THEN "manual_review" ELSE "pending"
  BY Fields, JobType DEF Enqueued, States

LEMMA ScannedFacts ==
    ASSUME TypeOK
    PROVE  /\ Scanned \in SUBSET Nat /\ IsFiniteSet(Scanned)
           /\ Scanned \subseteq executed
           /\ Scanned # {} => Max(Scanned) \in Scanned /\ Max(Scanned) \in Nat
                              /\ \A c \in Scanned : Max(Scanned) >= c
  <1>1. Scanned \in SUBSET Campaigns /\ Scanned \subseteq executed
    BY DEF Scanned, TypeOK
  <1>2. IsFiniteSet(Scanned)
    BY <1>1, FS_Subset, QueueAssumption
  <1> QED
    BY <1>1, <1>2, MaxOfNaturals, QueueAssumption

\* A tick, pointwise: which jobs it claims, and who works on them.
LEMMA Tick ==
    ASSUME TypeOK, NEW i \in Instances, runOnce(i)
    PROVE  \E S \in SUBSET Campaigns :
              /\ \A c \in S : Claimable(c)
              /\ IsFiniteSet(S) /\ Cardinality(S) <= availableSlots(i)
              /\ \A c \in Campaigns :
                    job'[c] = IF c \in S THEN Job("processing", job[c].attempt + 1)
                              ELSE DiscoverPending[c]
              /\ \A k \in Instances, c \in Campaigns :
                    worker'[k][c] = IF k = i /\ c \in S \ inFlight(i)
                                    THEN Worker("running", job[c].attempt + 1)
                                    ELSE worker[k][c]
              /\ job' \in [Campaigns -> JobRows]
              /\ worker' \in [Instances -> [Campaigns -> WorkerRows]]
  <1> DEFINE ready == {c \in Campaigns : Claimable(c)}
             limit == Min({availableSlots(i), Cardinality(ready)})
  <1>1. PICK S \in kSubset(limit, ready) :
          /\ job' = [c \in Campaigns |->
                       IF c \in S THEN Job("processing", job[c].attempt + 1)
                                  ELSE DiscoverPending[c]]
          /\ worker' = [worker EXCEPT ![i] = [c \in Campaigns |->
                       IF c \in S \ inFlight(i)
                       THEN Worker("running", job[c].attempt + 1)
                       ELSE worker[i][c]]]
    BY DEF runOnce
  <1>2. S \subseteq ready /\ S \in SUBSET Campaigns /\ Cardinality(S) = limit
    BY <1>1 DEF kSubset
  <1>3. ready \in SUBSET Campaigns /\ Cardinality(ready) \in Nat
        /\ IsFiniteSet(S)
    BY <1>2, FS_Subset, FS_CardinalityType, QueueAssumption
  <1>4. availableSlots(i) \in Nat
    BY FlightFinite, QueueAssumption DEF availableSlots
  <1>5. limit <= availableSlots(i)
    <2> HIDE DEF ready
    <2> QED
      BY <1>3, <1>4, MinOfTwo
  <1>6. worker \in [Instances -> [Campaigns -> WorkerRows]]
    BY DEF TypeOK, WorkerRows
  <1>7. \A c \in Campaigns :
           /\ Job("processing", job[c].attempt + 1) \in JobRows
           /\ Worker("running", job[c].attempt + 1) \in WorkerRows
           /\ DiscoverPending[c] \in JobRows
    BY Fields, JobType, WorkerType, NewJob DEF DiscoverPending, States
  <1>8. job' \in [Campaigns -> JobRows]
    BY <1>1, <1>7
  <1>9. /\ worker' \in [Instances -> [Campaigns -> WorkerRows]]
        /\ \A k \in Instances, c \in Campaigns :
              worker'[k][c] = IF k = i /\ c \in S \ inFlight(i)
                              THEN Worker("running", job[c].attempt + 1)
                              ELSE worker[k][c]
    BY <1>1, <1>6, <1>7
  <1>10. \A c \in Campaigns :
           job'[c] = IF c \in S THEN Job("processing", job[c].attempt + 1)
                     ELSE DiscoverPending[c]
    BY <1>1
  <1> QED
    BY <1>2, <1>3, <1>5, <1>8, <1>9, <1>10

LEMMA VerdictType ==
    ASSUME NEW c \in Campaigns
    PROVE  Verdict(c) \in {"error", "manual", "done"}
  BY DEF Verdict

LEMMA NextStateType ==
    ASSUME NEW i \in Instances, NEW c \in Campaigns
    PROVE  /\ NextState(i, c) \in {"completed", "retry", "manual_review"}
           /\ NextState(i, c) = "completed" => worker[i][c].pc = "done"
           /\ NextState(i, c) = "retry" => worker[i][c].token < MaxAttempts
  BY DEF NextState

LEMMA InitTypes == Init => TypeOK /\ QueueInv
  <1> SUFFICES ASSUME Init PROVE TypeOK /\ QueueInv
    OBVIOUS
  <1>1. NoJob \in JobRows /\ NoJob.state = "none" /\ NoJob.attempt = 0
        /\ NoWorker \in WorkerRows
        /\ NoWorker.pc = "idle"
    BY JobType, WorkerType DEF NoJob, NoWorker, States
  <1>2. TypeOK
    BY <1>1, QueueAssumption DEF Init, TypeOK, Claims, JobRows, WorkerRows
  <1>3. QueueInv
    BY <1>1 DEF Init, QueueInv, Working, Justified
  <1> QED
    BY <1>2, <1>3

\* TypeOK with the row types by name.
Shapes ==
    /\ executed \subseteq Campaigns
    /\ claim \in [Campaigns -> Claims]
    /\ refunded \in [Campaigns -> Nat]
    /\ job \in [Campaigns -> JobRows]
    /\ cursor \in Nat
    /\ worker \in [Instances -> [Campaigns -> WorkerRows]]
    /\ faults \in 0 .. MaxFaults

LEMMA ShapesAreTypes == (TypeOK <=> Shapes) /\ (TypeOK' <=> Shapes')
  BY DEF TypeOK, Shapes, JobRows, WorkerRows

LEMMA TypeStep == TypeOK /\ [Next]_vars => TypeOK'
  <1> SUFFICES ASSUME TypeOK, [Next]_vars PROVE TypeOK'
    OBVIOUS
  <1>0. Shapes /\ MaxFaults \in Nat
    BY ShapesAreTypes, QueueAssumption
  <1>1. SUFFICES Shapes'
    BY ShapesAreTypes
  <1>2. ASSUME NEW c \in Campaigns, MoveCampaignToExecuted(c) PROVE Shapes'
    BY <1>0, <1>2, NewJob, JobUpdate DEF Shapes, MoveCampaignToExecuted
  <1>3. ASSUME NEW c \in Campaigns, NEW what \in {"owed", "nothing", "broken"},
               UpdateCampaignStatistics(c, what)
        PROVE  Shapes'
    BY <1>0, <1>3 DEF Shapes, UpdateCampaignStatistics, Claims
  <1>4. ASSUME NEW i \in Instances, runOnce(i) PROVE Shapes'
    BY <1>0, <1>4, Tick, ScannedFacts DEF Shapes, runOnce
  <1>5. ASSUME NEW c \in Campaigns, BecomeDue(c) PROVE Shapes'
    BY <1>0, <1>5 DEF Shapes, BecomeDue, JobRows
  <1>6. ASSUME NEW c \in Campaigns, LeaseLapses(c) PROVE Shapes'
    <2>1. job' \in [Campaigns -> JobRows]
      BY <1>0, <1>6 DEF Shapes, LeaseLapses, JobRows
    <2>2. faults' \in 0 .. MaxFaults
      BY <1>0, <1>6 DEF Shapes, LeaseLapses
    <2> QED
      BY <1>0, <1>6, <2>1, <2>2 DEF Shapes, LeaseLapses
  <1>7. ASSUME NEW i \in Instances, NEW c \in Campaigns, Work(i, c) PROVE Shapes'
    <2>1. worker[i][c].token \in Nat /\ job[c].attempt \in Nat
      BY Fields
    <2>2. ASSUME NEW acknowledged \in BOOLEAN,
                 ReconcileUndeliveredCampaignRefund(i, c, acknowledged)
          PROVE  Shapes'
      <3>1. worker' \in [Instances -> [Campaigns -> WorkerRows]]
        BY <2>1, <2>2, VerdictType, WorkerType, WorkerUpdate
           DEF ReconcileUndeliveredCampaignRefund
      <3> QED
        BY <1>0, <2>2, <3>1 DEF Shapes, ReconcileUndeliveredCampaignRefund
    <2>3. CASE AttemptFails(i, c)
      BY <1>0, <2>1, <2>3, WorkerType, WorkerUpdate DEF Shapes, AttemptFails
    <2>4. CASE FinishJob(i, c)
      <3>1. Job(NextState(i, c), job[c].attempt) \in JobRows
        BY <2>1, NextStateType, JobType DEF States
      <3>2. NoWorker \in WorkerRows
        BY WorkerType DEF NoWorker
      <3> QED
        BY <1>0, <2>4, <3>1, <3>2, JobUpdate, WorkerUpdate DEF Shapes, FinishJob
    <2> QED
      BY <1>7, <2>2, <2>3, <2>4 DEF Work
  <1>8. ASSUME NEW i \in Instances, NEW c \in Campaigns, FinishFails(i, c) PROVE Shapes'
    BY <1>0, <1>8, WorkerType, WorkerUpdate DEF Shapes, FinishFails, NoWorker
  <1>9. ASSUME NEW i \in Instances, Crash(i) PROVE Shapes'
    BY <1>0, <1>9, WorkerType DEF Shapes, Crash, NoWorker
  <1>10. CASE UNCHANGED vars
    BY <1>0, <1>10 DEF Shapes, vars
  <1> QED
    BY <1>2, <1>3, <1>4, <1>5, <1>6, <1>7, <1>8, <1>9, <1>10 DEF Next

-----------------------------------------------------------------------------
(* Claims, verdicts and refunds *)

\* What is paid stays paid, and refunds are never more than one.
LEMMA PaidStays ==
    ASSUME TypeOK, QueueInv, [Next]_vars, NEW c \in Campaigns
    PROVE  (Paid(c) => Paid(c)') /\ refunded'[c] \in {0, 1}
  <1>0. refunded[c] \in {0, 1} /\ refunded \in [Campaigns -> Nat]
        /\ claim \in [Campaigns -> Claims]
    BY DEF QueueInv, Justified, TypeOK
  <1>1. CASE UNCHANGED <<claim, refunded>>
    BY <1>0, <1>1 DEF Paid
  <1>2. ASSUME NEW d \in Campaigns, NEW what, UpdateCampaignStatistics(d, what)
        PROVE  (Paid(c) => Paid(c)') /\ refunded'[c] \in {0, 1}
    BY <1>0, <1>2 DEF UpdateCampaignStatistics, Paid
  <1>3. ASSUME NEW i \in Instances, NEW d \in Campaigns, NEW acknowledged,
               ReconcileUndeliveredCampaignRefund(i, d, acknowledged)
        PROVE  (Paid(c) => Paid(c)') /\ refunded'[c] \in {0, 1}
    BY <1>0, <1>3 DEF ReconcileUndeliveredCampaignRefund, Paid, Owed
  <1> QED
    BY <1>1, <1>2, <1>3 DEF Next, vars, Work, MoveCampaignToExecuted, runOnce,
       BecomeDue, LeaseLapses, AttemptFails, FinishJob, FinishFails, Crash

\* Success is only reported for what is paid.
LEMMA VerdictPays ==
    ASSUME TypeOK, QueueInv, NEW i \in Instances, NEW c \in Campaigns,
           NEW acknowledged,
           ReconcileUndeliveredCampaignRefund(i, c, acknowledged), Verdict(c) = "done"
    PROVE  Paid(c)'
  <1>1. refunded[c] \in {0, 1} /\ claim[c] \in Claims
    BY DEF QueueInv, Justified, TypeOK
  <1>2. claim[c] \in {"owed", "nothing"}
    BY <1>1 DEF Verdict, Claims
  <1>3. claim' = claim /\ refunded'[c] = IF Owed(c) THEN refunded[c] + 1 ELSE refunded[c]
    BY DEF ReconcileUndeliveredCampaignRefund, TypeOK
  <1> QED
    BY <1>1, <1>2, <1>3 DEF Paid, Owed

\* A worker that is left alone, on a job whose attempts do not go back.
LEMMA WorkingStays ==
    ASSUME TypeOK, QueueInv, [Next]_vars, NEW i \in Instances, NEW c \in Campaigns,
           worker'[i][c] = worker[i][c] \/ worker'[i][c].pc = "idle",
           executed \subseteq executed', job'[c].attempt \in Nat,
           job[c].attempt <= job'[c].attempt
    PROVE  Working(i, c)'
  <1>1. Working(i, c) /\ job[c].attempt \in Nat /\ worker[i][c].token \in Nat
    BY Fields DEF QueueInv
  <1>2. Paid(c) => Paid(c)'
    BY PaidStays
  <1> QED
    BY <1>1, <1>2 DEF Working

\* A job that keeps its state, or takes one that needs no justification.
LEMMA JustifiedStays ==
    ASSUME TypeOK, QueueInv, [Next]_vars, NEW c \in Campaigns,
           executed \subseteq executed',
           \/ job'[c].state = job[c].state /\ job'[c].attempt = job[c].attempt
           \/ job'[c].state \notin {"none", "completed"} /\ c \in executed'
    PROVE  Justified(c)'
  <1>1. Justified(c) /\ refunded'[c] \in {0, 1} /\ (Paid(c) => Paid(c)')
    BY PaidStays DEF QueueInv
  <1> QED
    BY <1>1 DEF Justified

\* Time changes neither the state of a job nor its attempt.
LEMMA ClockLeavesState ==
    ASSUME TypeOK, NEW c \in Campaigns, BecomeDue(c) \/ LeaseLapses(c)
    PROVE  /\ executed' = executed /\ worker' = worker
           /\ \A d \in Campaigns : /\ job'[d].state = job[d].state
                                   /\ job'[d].attempt = job[d].attempt
  <1>1. job \in [Campaigns -> JobRows]
    BY ShapesAreTypes DEF Shapes
  <1>2. CASE job' = [job EXCEPT ![c].due = TRUE]
    BY <1>1, <1>2 DEF JobRows, BecomeDue, LeaseLapses
  <1>3. CASE job' = [job EXCEPT ![c].lapsed = TRUE]
    BY <1>1, <1>3 DEF JobRows, BecomeDue, LeaseLapses
  <1> QED
    BY <1>2, <1>3 DEF BecomeDue, LeaseLapses

\* A worker that takes a step keeps its claim, or lets go of it.
LEMMA WorkKeepsToken ==
    ASSUME TypeOK, NEW i \in Instances, NEW c \in Campaigns, Work(i, c)
    PROVE  /\ \A k \in Instances, d \in Campaigns :
                 \/ worker'[k][d].token = worker[k][d].token /\ worker[k][d].pc # "idle"
                 \/ worker'[k][d].pc = "idle"
                 \/ worker'[k][d] = worker[k][d]
           /\ \A d \in Campaigns : job'[d].attempt = job[d].attempt
  <1>1. worker[i][c].token \in Nat /\ job[c].attempt \in Nat
    BY Fields
  <1>2. \/ \E pc \in {"error", "manual", "done"} :
              /\ SetWorker(i, c, Worker(pc, worker[i][c].token))
              /\ worker[i][c].pc # "idle" /\ job' = job
        \/ FinishJob(i, c)
    BY VerdictType DEF Work, ReconcileUndeliveredCampaignRefund, AttemptFails
  <1>3. ASSUME NEW pc \in {"error", "manual", "done"}, job' = job,
               SetWorker(i, c, Worker(pc, worker[i][c].token)),
               worker[i][c].pc # "idle"
        PROVE  \A k \in Instances, d \in Campaigns :
                  \/ /\ worker'[k][d].token = worker[k][d].token
                     /\ worker[k][d].pc # "idle"
                  \/ worker'[k][d] = worker[k][d]
    BY <1>1, <1>3, WorkerType, WorkerUpdate
  <1>4. ASSUME FinishJob(i, c)
        PROVE  /\ \A k \in Instances, d \in Campaigns :
                     worker'[k][d].pc = "idle" \/ worker'[k][d] = worker[k][d]
               /\ \A d \in Campaigns : job'[d].attempt = job[d].attempt
    <2>1. \A k \in Instances, d \in Campaigns :
             worker'[k][d].pc = "idle" \/ worker'[k][d] = worker[k][d]
      BY <1>4, WorkerType, WorkerUpdate DEF FinishJob, NoWorker
    <2>2. /\ Job(NextState(i, c), job[c].attempt) \in JobRows
          /\ Job(NextState(i, c), job[c].attempt).attempt = job[c].attempt
      BY <1>1, JobType, NextStateType DEF States
    <2> QED
      BY <1>4, <2>1, <2>2, JobUpdate DEF FinishJob
  <1> QED
    BY <1>2, <1>3, <1>4

LEMMA QueueInvStep == TypeOK /\ QueueInv /\ [Next]_vars => QueueInv'
  <1> SUFFICES ASSUME TypeOK, QueueInv, [Next]_vars PROVE QueueInv'
    OBVIOUS
  <1>0. \A c \in Campaigns : job[c].attempt \in Nat /\ job'[c].attempt \in Nat
    BY TypeStep DEF TypeOK
  <1>1. ASSUME executed \subseteq executed', UNCHANGED worker,
               \A c \in Campaigns :
                  /\ job[c].attempt <= job'[c].attempt
                  /\ \/ job'[c].state = job[c].state /\ job'[c].attempt = job[c].attempt
                     \/ job'[c].state \notin {"none", "completed"} /\ c \in executed'
        PROVE  QueueInv'
    BY <1>0, <1>1, WorkingStays, JustifiedStays DEF QueueInv
  <1>2. ASSUME NEW c \in Campaigns, MoveCampaignToExecuted(c) PROVE QueueInv'
    <2>1. /\ job' = [job EXCEPT ![c] = Enqueued(c)] /\ UNCHANGED worker
          /\ executed' = executed \cup {c}
      BY <1>2 DEF MoveCampaignToExecuted
    <2>2. /\ job'[c] = Enqueued(c) /\ \A d \in Campaigns \ {c} : job'[d] = job[d]
          /\ job[c].state = "none" => Enqueued(c).state \notin {"none", "completed"}
      BY <2>1, NewJob, JobUpdate
    <2>3. job[c].attempt <= job'[c].attempt
      <3>1. CASE job[c].state = "none"
        BY <1>0, <2>2, <3>1 DEF QueueInv, Justified
      <3>2. CASE job[c].state # "none"
        BY <1>0, <2>2, <3>2 DEF Enqueued
      <3> QED
        BY <3>1, <3>2
    <2> QED
      BY <1>0, <1>1, <2>1, <2>2, <2>3, NewJob
  <1>3. CASE UNCHANGED <<executed, job, worker>>
    BY <1>0, <1>1, <1>3
  <1>4. ASSUME NEW i \in Instances, runOnce(i) PROVE QueueInv'
    <2>1. PICK S \in SUBSET Campaigns :
             /\ \A c \in S : Claimable(c)
             /\ \A c \in Campaigns :
                   job'[c] = IF c \in S THEN Job("processing", job[c].attempt + 1)
                             ELSE DiscoverPending[c]
             /\ \A k \in Instances, c \in Campaigns :
                   worker'[k][c] = IF k = i /\ c \in S \ inFlight(i)
                                   THEN Worker("running", job[c].attempt + 1)
                                   ELSE worker[k][c]
      BY <1>4, Tick
    <2>2. executed' = executed /\ Scanned \subseteq executed
      BY <1>4, ScannedFacts DEF runOnce
    <2>3. ASSUME NEW c \in S
          PROVE  /\ c \in executed
                 /\ job'[c].state = "processing"
                 /\ job'[c].attempt = job[c].attempt + 1
      <3>1. job[c].state # "none"
        BY <2>1 DEF Claimable
      <3> QED
        BY <1>0, <2>1, <3>1, JobType DEF QueueInv, Justified, States
    <2>4. ASSUME NEW c \in Campaigns \ S
          PROVE  /\ job[c].attempt <= job'[c].attempt
                 /\ \/ job'[c].state = job[c].state /\ job'[c].attempt = job[c].attempt
                    \/ job'[c].state \notin {"none", "completed"} /\ c \in executed
      <3>1. job'[c] = IF c \in Scanned THEN Enqueued(c) ELSE job[c]
        BY <2>1 DEF DiscoverPending
      <3>2. job[c].state = "none" => job[c].attempt = 0
        BY DEF QueueInv, Justified
      <3> QED
        BY <1>0, <2>2, <3>1, <3>2, NewJob
    <2>5. \A c \in Campaigns : Justified(c)'
      BY <2>2, <2>3, <2>4, JustifiedStays
    <2>6. ASSUME NEW k \in Instances, NEW c \in Campaigns
          PROVE  Working(k, c)'
      <3>1. CASE k = i /\ c \in S \ inFlight(i)
        <4>1. worker'[k][c].pc = "running" /\ worker'[k][c].token = job[c].attempt + 1
          BY <1>0, <2>1, <3>1, WorkerType
        <4> QED
          BY <1>0, <2>2, <2>3, <3>1, <4>1 DEF Working
      <3>2. CASE ~ (k = i /\ c \in S \ inFlight(i))
        <4>1. worker'[k][c] = worker[k][c] /\ job[c].attempt <= job'[c].attempt
          BY <1>0, <2>1, <2>3, <2>4, <3>2
        <4> QED
          BY <1>0, <2>2, <4>1, WorkingStays
      <3> QED
        BY <3>1, <3>2
    <2> QED
      BY <2>5, <2>6 DEF QueueInv
  <1>5. ASSUME NEW c \in Campaigns, BecomeDue(c) \/ LeaseLapses(c) PROVE QueueInv'
    BY <1>0, <1>1, <1>5, ClockLeavesState
  <1>6. ASSUME NEW i \in Instances, NEW c \in Campaigns, Work(i, c) PROVE QueueInv'
    <2>0. /\ worker[i][c].pc # "idle" /\ executed' = executed /\ c \in executed
          /\ worker[i][c].token \in Nat /\ worker[i][c].token <= job[c].attempt
          /\ worker[i][c].pc = "done" => Paid(c)
          /\ Paid(c) => Paid(c)'
      BY <1>6, PaidStays, Fields DEF QueueInv, Working, Work, AttemptFails, FinishJob,
         ReconcileUndeliveredCampaignRefund
    <2>1. ASSUME NEW pc \in {"error", "manual", "done"}, pc = "done" => Paid(c)',
                 SetWorker(i, c, Worker(pc, worker[i][c].token)), job' = job
          PROVE  QueueInv'
      <3>1. /\ worker'[i][c].pc = pc /\ worker'[i][c].token = worker[i][c].token
            /\ \A k \in Instances, d \in Campaigns :
                  k # i \/ d # c => worker'[k][d] = worker[k][d]
        BY <2>0, <2>1, WorkerType, WorkerUpdate
      <3>2. Working(i, c)'
        BY <2>0, <2>1, <3>1 DEF Working
      <3> QED
        BY <1>0, <2>0, <2>1, <3>1, <3>2, WorkingStays, JustifiedStays DEF QueueInv
    <2>2. ASSUME NEW acknowledged \in BOOLEAN,
                 ReconcileUndeliveredCampaignRefund(i, c, acknowledged)
          PROVE  QueueInv'
      <3>1. CASE acknowledged
        BY <2>1, <2>2, <3>1, VerdictType, VerdictPays
           DEF ReconcileUndeliveredCampaignRefund
      <3>2. CASE ~acknowledged
        BY <2>1, <2>2, <3>2 DEF ReconcileUndeliveredCampaignRefund
      <3> QED
        BY <3>1, <3>2
    <2>3. CASE AttemptFails(i, c)
      BY <2>1, <2>3 DEF AttemptFails
    <2>4. CASE FinishJob(i, c)
      <3>1. /\ worker'[i][c].pc = "idle"
            /\ \A k \in Instances, d \in Campaigns :
                  k # i \/ d # c => worker'[k][d] = worker[k][d]
        BY <2>4, WorkerType, WorkerUpdate DEF FinishJob, NoWorker
      <3>2. CASE job' = job
        BY <1>0, <2>0, <3>1, <3>2, WorkingStays, JustifiedStays DEF QueueInv
      <3>3. CASE job' = [job EXCEPT ![c] = Job(NextState(i, c), job[c].attempt)]
        <4>1. /\ job'[c].state = NextState(i, c) /\ job'[c].attempt = job[c].attempt
              /\ \A d \in Campaigns \ {c} : job'[d] = job[d]
          <5>1. NextState(i, c) \in States
            BY NextStateType DEF States
          <5>2. /\ Job(NextState(i, c), job[c].attempt) \in JobRows
                /\ Job(NextState(i, c), job[c].attempt).state = NextState(i, c)
                /\ Job(NextState(i, c), job[c].attempt).attempt = job[c].attempt
            BY <1>0, <5>1, JobType
          <5> QED
            BY <3>3, <5>2, JobUpdate
        <4>2. Justified(c)'
          BY <2>0, <4>1, PaidStays, NextStateType DEF Justified
        <4> QED
          BY <1>0, <2>0, <3>1, <4>1, <4>2, WorkingStays, JustifiedStays DEF QueueInv
      <3> QED
        BY <2>4, <3>2, <3>3 DEF FinishJob
    <2> QED
      BY <1>6, <2>2, <2>3, <2>4 DEF Work
  <1>7. ASSUME UNCHANGED <<executed, job>>,
               \A i \in Instances, c \in Campaigns :
                  worker'[i][c] = worker[i][c] \/ worker'[i][c].pc = "idle"
        PROVE  QueueInv'
    BY <1>0, <1>7, WorkingStays, JustifiedStays DEF QueueInv
  <1>8. ASSUME NEW i \in Instances, NEW c \in Campaigns, FinishFails(i, c)
        PROVE  QueueInv'
    BY <1>7, <1>8, WorkerType, WorkerUpdate DEF FinishFails, NoWorker
  <1>9. ASSUME NEW i \in Instances, Crash(i) PROVE QueueInv'
    BY <1>7, <1>9, WorkerType DEF Crash, NoWorker, TypeOK
  <1> QED
    BY <1>2, <1>3, <1>4, <1>5, <1>6, <1>8, <1>9 DEF Next, vars,
       UpdateCampaignStatistics

\* The rows of the queue and its workers keep their shape, whatever the
\* instances, claims and crashes.
THEOREM TypesCorrect == Spec => []TypeOK
  BY InitTypes, TypeStep, PTL DEF Spec

-----------------------------------------------------------------------------
(* The queue implements its contract *)

\* How a case stands, as the contract sees it.
Stand == [c \in Campaigns |->
            IF job[c].state \in Closed THEN job[c].state ELSE "open"]

LEMMA InitRefines == Init => Contract!Init
  <1> SUFFICES ASSUME Init PROVE Contract!Init
    OBVIOUS
  <1>1. NoJob.state = "none"
    BY DEF NoJob, Job
  <1>2. Stand = [c \in Campaigns |-> "open"]
    BY <1>1 DEF Init, Stand, Closed
  <1>3. claim \in [Campaigns -> Contract!Claims]
    BY DEF Init, Contract!Claims
  <1> QED
    BY <1>2, <1>3 DEF Init, Contract!Init, Stand

\* Steps that leave every case as it stands.
LEMMA SameStand ==
    ASSUME \A c \in Campaigns : job'[c].state = job[c].state
                                \/ {job[c].state, job'[c].state} \cap Closed = {}
    PROVE  Stand' = Stand
  BY DEF Stand

LEMMA StepRefines ==
    TypeOK /\ QueueInv /\ [Next]_vars => [Contract!Next]_(Contract!vars)
  <1> SUFFICES ASSUME TypeOK, QueueInv, [Next]_vars
               PROVE  Contract!Next \/ UNCHANGED <<executed, claim, refunded, Stand>>
    BY DEF Contract!vars, Stand
  <1>1. CASE UNCHANGED <<executed, claim, refunded, job>>
    BY <1>1 DEF Stand
  <1>2. ASSUME NEW c \in Campaigns, MoveCampaignToExecuted(c) PROVE Contract!Next
    <2>1. \A d \in Campaigns :
             job'[d] = IF d = c THEN Enqueued(c) ELSE job[d]
      BY <1>2, NewJob, JobUpdate DEF MoveCampaignToExecuted
    <2>2. CASE job[c].state = "none" /\ claim[c] = "unscheduled"
      <3>1. Stand' = [Stand EXCEPT ![c] = "manual_review"]
        BY <2>1, <2>2, NewJob DEF Stand, Closed
      <3>2. Contract!Finish(c)
        BY <1>2, <2>2, <3>1 DEF MoveCampaignToExecuted, Contract!Finish, Stand
      <3> QED
        BY <3>2 DEF Contract!Next
    <2>3. CASE ~ (job[c].state = "none" /\ claim[c] = "unscheduled")
      <3>1. Stand' = Stand
        BY <2>1, <2>3, NewJob, SameStand DEF Closed
      <3>2. Contract!Finish(c)
        BY <1>2, <3>1 DEF MoveCampaignToExecuted, Contract!Finish, Stand
      <3> QED
        BY <3>2 DEF Contract!Next
    <2> QED
      BY <2>2, <2>3
  <1>3. ASSUME NEW c \in Campaigns, NEW what \in {"owed", "nothing", "broken"},
               UpdateCampaignStatistics(c, what)
        PROVE  Contract!Next
    <2>1. Contract!Report(c, what)
      BY <1>3 DEF UpdateCampaignStatistics, Contract!Report
    <2> QED
      BY <2>1 DEF Contract!Next
  <1>4. ASSUME NEW i \in Instances, runOnce(i) PROVE Contract!Next
    <2>1. PICK S \in SUBSET Campaigns :
             /\ \A c \in S : Claimable(c)
             /\ \A c \in Campaigns :
                   job'[c] = IF c \in S THEN Job("processing", job[c].attempt + 1)
                             ELSE DiscoverPending[c]
      BY <1>4, Tick
    <2> DEFINE filed == {c \in Scanned : job[c].state = "none"
                                         /\ claim[c] = "unscheduled"}
    <2>2. filed \subseteq executed /\ filed \in SUBSET Campaigns
      BY ScannedFacts DEF TypeOK
    <2>3. ASSUME NEW c \in Campaigns
          PROVE  Stand'[c] = IF c \in filed THEN "manual_review" ELSE Stand[c]
      <3>1. CASE c \in S
        <4>1. job[c].state \in {"pending", "retry", "processing"}
          BY <2>1, <3>1 DEF Claimable
        <4>2. job'[c].state = "processing"
          BY <2>1, <3>1, Fields, JobType DEF States
        <4> QED
          BY <4>1, <4>2 DEF Stand, Closed
      <3>2. CASE c \notin S
        <4>1. job'[c] = IF c \in Scanned THEN Enqueued(c) ELSE job[c]
          BY <2>1, <3>2 DEF DiscoverPending
        <4> QED
          BY <4>1, NewJob DEF Stand, Closed
      <3> QED
        BY <3>1, <3>2
    <2>4. \A c \in filed : Stand[c] = "open" /\ claim[c] = "unscheduled"
      BY <2>2 DEF Stand, Closed
    <2>5. Stand' = [c \in Campaigns |-> IF c \in filed THEN "manual_review"
                                       ELSE Stand[c]]
      BY <2>3 DEF Stand
    <2> HIDE DEF filed
    <2>6. Contract!Backfill(filed)
      BY <1>4, <2>2, <2>4, <2>5 DEF runOnce, Contract!Backfill, Stand
    <2>7. \E T \in SUBSET Campaigns : Contract!Backfill(T)
      BY <2>2, <2>6 DEF Contract!Backfill
    <2> QED
      BY <2>7 DEF Contract!Next
  <1>5. ASSUME NEW c \in Campaigns, BecomeDue(c) \/ LeaseLapses(c)
        PROVE  UNCHANGED <<executed, claim, refunded, Stand>>
    <2>1. \A d \in Campaigns : job'[d].state = job[d].state
      BY <1>5, Fields DEF BecomeDue, LeaseLapses, TypeOK
    <2> QED
      BY <1>5, <2>1, SameStand DEF BecomeDue, LeaseLapses
  <1>6. ASSUME NEW i \in Instances, NEW c \in Campaigns, NEW acknowledged,
               ReconcileUndeliveredCampaignRefund(i, c, acknowledged)
        PROVE  Contract!Next \/ UNCHANGED <<executed, claim, refunded, Stand>>
    <2>1. Stand' = Stand /\ UNCHANGED <<executed, claim>>
      BY <1>6 DEF ReconcileUndeliveredCampaignRefund, Stand
    <2>2. CASE Owed(c)
      <3>1. c \in executed /\ refunded' = [refunded EXCEPT ![c] = 1]
        BY <1>6, <2>2 DEF ReconcileUndeliveredCampaignRefund, Owed, QueueInv, Working
      <3>2. Stand[c] # "completed"
        BY <2>2 DEF Stand, Owed, QueueInv, Justified, Paid
      <3>3. Contract!Owed(c)
        BY <2>2 DEF Owed, Contract!Owed
      <3>4. Contract!Refund(c)
        BY <2>1, <3>1, <3>2, <3>3 DEF Contract!Refund, Stand
      <3> QED
        BY <3>4 DEF Contract!Next
    <2>3. CASE ~Owed(c)
      <3>1. refunded' = refunded
        BY <1>6, <2>3 DEF ReconcileUndeliveredCampaignRefund, TypeOK
      <3> QED
        BY <2>1, <3>1
    <2> QED
      BY <2>2, <2>3
  <1>7. ASSUME NEW i \in Instances, NEW c \in Campaigns, FinishJob(i, c), job' # job
        PROVE  Contract!Next \/ UNCHANGED <<executed, claim, refunded, Stand>>
    <2>1. /\ job' = [job EXCEPT ![c] = Job(NextState(i, c), job[c].attempt)]
          /\ StillMine(i, c) /\ UNCHANGED <<executed, claim, refunded>>
          /\ worker[i][c].pc # "idle"
      BY <1>7 DEF FinishJob
    <2>2. /\ \A d \in Campaigns \ {c} : job'[d] = job[d]
          /\ job'[c].state = NextState(i, c)
      BY <2>1 DEF Job, TypeOK
    <2>3. job[c].state = "processing" /\ c \in executed /\ Stand[c] = "open"
      BY <2>1 DEF StillMine, QueueInv, Working, Stand, Closed
    <2>4. CASE NextState(i, c) = "retry"
      BY <2>1, <2>2, <2>3, <2>4, SameStand DEF Closed
    <2>5. CASE NextState(i, c) \in {"completed", "manual_review"}
      <3>1. Stand' = [Stand EXCEPT ![c] = NextState(i, c)]
        BY <2>2, <2>5 DEF Stand, Closed
      <3>2. NextState(i, c) = "completed" => Paid(c)
        BY <2>1, NextStateType DEF QueueInv, Working
      <3>3. Contract!Close(c)
        BY <2>1, <2>3, <2>5, <3>1, <3>2 DEF Contract!Close, Stand, Paid
      <3> QED
        BY <3>3 DEF Contract!Next
    <2> QED
      BY <2>4, <2>5, NextStateType
  <1> QED
    BY <1>1, <1>2, <1>3, <1>4, <1>5, <1>6, <1>7 DEF Next, vars, Work, AttemptFails,
       FinishJob, FinishFails, Crash

\* The queue of leased jobs, with its crashes, lapsed leases and lost
\* acknowledgements, implements RefundContract: at most one refund, a verdict
\* that is never revised, completed only when nothing is owed.
THEOREM QueueImplementsContract == Spec => ImplementsContract
  <1>1. Init => TypeOK /\ QueueInv
    BY InitTypes
  <1>2. TypeOK /\ QueueInv /\ [Next]_vars => (TypeOK /\ QueueInv)'
    BY TypeStep, QueueInvStep
  <1> QED
    BY <1>1, <1>2, InitRefines, StepRefines, PTL
       DEF Spec, ImplementsContract, Contract!Spec

-----------------------------------------------------------------------------
(* Discovery *)

\* A pass of discovery leaves out nothing below the cursor it sets: what lies
\* below an element of the batch is part of the batch.
LEMMA BatchIsInitial ==
    ASSUME TypeOK, NEW m \in Scanned, NEW c \in executed, c > cursor, c <= m
    PROVE  c \in Scanned
  <1> DEFINE beyond == {d \in executed : d > cursor}
             below(n) == {d \in beyond : d <= n}
  <1>0. /\ executed \in SUBSET Nat /\ IsFiniteSet(executed)
        /\ \A d \in executed : d \in Nat
        /\ BatchSize \in Nat /\ c \in Nat /\ m \in Nat /\ m \in executed
    BY FS_Subset, QueueAssumption DEF TypeOK, Scanned
  <1>1. below(c) \subseteq below(m)
    <2>1. \A d \in executed : d <= c => d <= m
      BY <1>0
    <2> QED
      BY <2>1
  <1>2. IsFiniteSet(below(m))
    BY <1>0, FS_Subset
  <1>3. /\ Cardinality(below(c)) \in Nat /\ Cardinality(below(m)) \in Nat
        /\ Cardinality(below(c)) <= Cardinality(below(m))
    BY <1>1, <1>2, FS_Subset, FS_CardinalityType
  <1>4. Cardinality(below(m)) <= BatchSize
    BY DEF Scanned
  <1>5. Cardinality(below(c)) <= BatchSize
    <2> HIDE DEF below
    <2> QED
      BY <1>0, <1>3, <1>4
  <1> QED
    BY <1>5 DEF Scanned

LEMMA CursorStep ==
    TypeOK /\ NothingBehindCursor /\ [Next]_vars => NothingBehindCursor'
  <1> SUFFICES ASSUME TypeOK, NothingBehindCursor, [Next]_vars,
                      NEW c \in executed', c <= cursor'
               PROVE  job'[c].state # "none"
    BY DEF NothingBehindCursor
  <1>0. c \in Campaigns /\ c \in Nat /\ cursor \in Nat
    BY TypeStep, QueueAssumption DEF TypeOK
  <1>1. ASSUME c \in executed, c <= cursor, job'[c].state # "none" \/ job'[c] = job[c]
        PROVE  job'[c].state # "none"
    BY <1>1 DEF NothingBehindCursor
  <1>2. CASE UNCHANGED <<executed, job, cursor>>
    BY <1>1, <1>2
  <1>3. ASSUME NEW d \in Campaigns, MoveCampaignToExecuted(d)
        PROVE  job'[c].state # "none"
    <2>1. CASE c = d
      BY <1>3, <2>1, NewJob, JobUpdate DEF MoveCampaignToExecuted
    <2>2. CASE c # d
      BY <1>0, <1>1, <1>3, <2>2 DEF MoveCampaignToExecuted, TypeOK
    <2> QED
      BY <2>1, <2>2
  <1>4. ASSUME NEW i \in Instances, runOnce(i) PROVE job'[c].state # "none"
    <2>1. PICK S \in SUBSET Campaigns :
             job'[c] = IF c \in S THEN Job("processing", job[c].attempt + 1)
                       ELSE DiscoverPending[c]
      BY <1>0, <1>4, Tick
    <2>2. executed' = executed
          /\ cursor' = IF Scanned = {} THEN cursor ELSE Max(Scanned)
      BY <1>4 DEF runOnce
    <2>3. CASE c \in S
      BY <1>0, <2>1, <2>3, Fields, JobType DEF States
    <2>4. CASE c \in Scanned /\ c \notin S
      BY <1>0, <2>1, <2>4, NewJob DEF DiscoverPending
    <2>5. CASE c \notin Scanned /\ c \notin S
      <3>1. c <= cursor
        BY <1>0, <2>2, <2>5, ScannedFacts, BatchIsInitial
      <3> QED
        BY <1>0, <1>1, <2>1, <2>2, <2>5, <3>1 DEF DiscoverPending
    <2> QED
      BY <2>3, <2>4, <2>5
  <1>5. ASSUME NEW d \in Campaigns, BecomeDue(d) \/ LeaseLapses(d)
        PROVE  job'[c].state # "none"
    BY <1>0, <1>5 DEF BecomeDue, LeaseLapses, TypeOK, NothingBehindCursor
  <1>6. ASSUME NEW i \in Instances, NEW d \in Campaigns, FinishJob(i, d), job' # job
        PROVE  job'[c].state # "none"
    <2>1. /\ job' = [job EXCEPT ![d] = Job(NextState(i, d), job[d].attempt)]
          /\ UNCHANGED <<executed, cursor>>
      BY <1>6 DEF FinishJob
    <2>2. job'[d].state # "none" /\ (c # d => job'[c] = job[c])
      BY <1>0, <2>1, NextStateType DEF Job, TypeOK
    <2> QED
      BY <1>1, <2>1, <2>2
  <1> QED
    BY <1>2, <1>3, <1>4, <1>5, <1>6 DEF Next, vars, Work, AttemptFails, FinishJob,
       FinishFails, Crash, UpdateCampaignStatistics,
       ReconcileUndeliveredCampaignRefund

\* No executed campaign is left behind the backfill cursor without a job, in
\* whatever order campaigns are executed.
THEOREM DiscoveryIsComplete == Spec => []NothingBehindCursor
  <1>1. Init => NothingBehindCursor
    BY QueueAssumption DEF Init, NothingBehindCursor
  <1> QED
    BY <1>1, CursorStep, TypesCorrect, PTL DEF Spec

-----------------------------------------------------------------------------
(* Limits *)

Slots == \A i \in Instances : Cardinality(inFlight(i)) <= MaxParallel
OneHolder ==
    \A c \in Campaigns : \A i, k \in Instances : Holds(i, c) /\ Holds(k, c) => i = k
RetriesLeft == \A c \in Campaigns : job[c].state = "retry" => job[c].attempt < MaxAttempts

LEMMA SlotsStep == TypeOK /\ Slots /\ [Next]_vars => Slots'
  <1> SUFFICES ASSUME TypeOK, Slots, [Next]_vars, NEW k \in Instances
               PROVE  Cardinality(inFlight(k)') <= MaxParallel
    BY DEF Slots
  <1>0. IsFiniteSet(inFlight(k)) /\ Cardinality(inFlight(k)) \in Nat
        /\ Cardinality(inFlight(k)) <= MaxParallel /\ MaxParallel \in Nat
    BY FlightFinite, QueueAssumption DEF Slots
  <1>1. ASSUME \A c \in Campaigns : worker'[k][c].pc # "idle" => worker[k][c].pc # "idle"
        PROVE  Cardinality(inFlight(k)') <= MaxParallel
    <2>1. inFlight(k)' \in SUBSET inFlight(k)
      BY <1>1 DEF inFlight
    <2>2. Cardinality(inFlight(k)') <= Cardinality(inFlight(k))
          /\ Cardinality(inFlight(k)') \in Nat
      BY <1>0, <2>1, FS_Subset, FS_CardinalityType
    <2> QED
      BY <1>0, <2>2
  <1>2. ASSUME NEW i \in Instances, runOnce(i)
        PROVE  Cardinality(inFlight(k)') <= MaxParallel
    <2>1. PICK S \in SUBSET Campaigns :
             /\ IsFiniteSet(S) /\ Cardinality(S) <= availableSlots(i)
             /\ \A l \in Instances, c \in Campaigns :
                   worker'[l][c] = IF l = i /\ c \in S \ inFlight(i)
                                   THEN Worker("running", job[c].attempt + 1)
                                   ELSE worker[l][c]
      BY <1>2, Tick
    <2>2. CASE k # i
      BY <1>1, <2>1, <2>2
    <2>3. CASE k = i
      <3>1. inFlight(k)' \in SUBSET (inFlight(k) \cup S)
        BY <2>1, <2>3 DEF inFlight
      <3>2. /\ IsFiniteSet(inFlight(k) \cup S)
            /\ Cardinality(inFlight(k) \cup S) =
                  Cardinality(inFlight(k)) + Cardinality(S)
                     - Cardinality(inFlight(k) \cap S)
        BY <1>0, <2>1, FS_Union
      <3>3. /\ Cardinality(S) \in Nat /\ Cardinality(inFlight(k) \cap S) \in Nat
            /\ Cardinality(inFlight(k)') \in Nat
            /\ Cardinality(inFlight(k) \cup S) \in Nat
            /\ Cardinality(inFlight(k)') <= Cardinality(inFlight(k) \cup S)
        BY <1>0, <2>1, <3>1, <3>2, FS_Subset, FS_CardinalityType
      <3>4. Cardinality(S) <= IF Cardinality(inFlight(k)) >= MaxParallel THEN 0
                              ELSE MaxParallel - Cardinality(inFlight(k))
        BY <2>1, <2>3 DEF availableSlots
      <3> QED
        BY <1>0, <3>2, <3>3, <3>4
    <2> QED
      BY <2>2, <2>3
  <1>3. ASSUME NEW i \in Instances, NEW c \in Campaigns, Work(i, c) \/ FinishFails(i, c)
        PROVE  Cardinality(inFlight(k)') <= MaxParallel
    <2>1. worker[i][c].pc # "idle"
          /\ \E w : worker' = [worker EXCEPT ![i][c] = w]
      BY <1>3 DEF Work, ReconcileUndeliveredCampaignRefund, AttemptFails, FinishJob,
         FinishFails, SetWorker
    <2> QED
      BY <1>1, <2>1 DEF TypeOK
  <1>4. ASSUME NEW i \in Instances, Crash(i)
        PROVE  Cardinality(inFlight(k)') <= MaxParallel
    BY <1>1, <1>4, WorkerType DEF Crash, NoWorker, TypeOK
  <1>5. CASE UNCHANGED worker
    BY <1>1, <1>5
  <1> QED
    BY <1>2, <1>3, <1>4, <1>5 DEF Next, vars, MoveCampaignToExecuted,
       UpdateCampaignStatistics, BecomeDue, LeaseLapses

LEMMA OneHolderStep == TypeOK /\ QueueInv /\ OneHolder /\ [Next]_vars => OneHolder'
  <1> SUFFICES ASSUME TypeOK, QueueInv, OneHolder, [Next]_vars, NEW c \in Campaigns
               PROVE  \A k, l \in Instances : (Holds(k, c) /\ Holds(l, c))' => k = l
    BY DEF OneHolder
  <1>0. \A k \in Instances :
           /\ worker[k][c].pc # "idle" => worker[k][c].token <= job[c].attempt
           /\ worker[k][c].token \in Nat /\ job[c].attempt \in Nat
    BY Fields DEF QueueInv, Working
  <1>1. ASSUME \A k \in Instances : Holds(k, c)' => Holds(k, c)
        PROVE  \A k, l \in Instances : (Holds(k, c) /\ Holds(l, c))' => k = l
    BY <1>1 DEF OneHolder
  <1>2. ASSUME NEW d \in Campaigns, MoveCampaignToExecuted(d)
        PROVE  \A k \in Instances : Holds(k, c)' => Holds(k, c)
    <2>1. job'[c].attempt = job[c].attempt \/ job[c].state = "none"
      BY <1>2, NewJob, JobUpdate DEF MoveCampaignToExecuted
    <2>2. job[c].state = "none" => job'[c].attempt = job[c].attempt
      <3>1. job'[c] = job[c] \/ job'[c] = Enqueued(c)
        BY <1>2, NewJob, JobUpdate DEF MoveCampaignToExecuted
      <3>2. job[c].state = "none" => job[c].attempt = 0 /\ Enqueued(c).attempt = 0
        BY JobType DEF QueueInv, Justified, Enqueued, States
      <3> QED
        BY <3>1, <3>2
    <2> QED
      BY <1>2, <2>1, <2>2 DEF MoveCampaignToExecuted, Holds
  <1>3. ASSUME NEW i \in Instances, runOnce(i)
        PROVE  \A k, l \in Instances : (Holds(k, c) /\ Holds(l, c))' => k = l
    <2>1. PICK S \in SUBSET Campaigns :
             /\ job'[c] = IF c \in S THEN Job("processing", job[c].attempt + 1)
                          ELSE DiscoverPending[c]
             /\ \A k \in Instances :
                   worker'[k][c] = IF k = i /\ c \in S \ inFlight(i)
                                   THEN Worker("running", job[c].attempt + 1)
                                   ELSE worker[k][c]
      BY <1>3, Tick
    <2>2. CASE c \in S
      <3>1. job'[c].attempt = job[c].attempt + 1
        BY <1>0, <1>3, <2>1, <2>2, Fields, JobType DEF States
      <3>2. \A k \in Instances \ {i} : ~ Holds(k, c)'
        BY <1>0, <2>1, <3>1 DEF Holds
      <3> QED
        BY <3>2
    <2>3. CASE c \notin S
      <3>1. job'[c].attempt = job[c].attempt
        <4>1. job'[c] = job[c] \/ job'[c] = Enqueued(c)
          BY <2>1, <2>3 DEF DiscoverPending
        <4>2. job[c].state = "none" => job[c].attempt = 0 /\ Enqueued(c).attempt = 0
          BY JobType DEF QueueInv, Justified, Enqueued, States
        <4> QED
          BY <4>1, <4>2, NewJob
      <3> QED
        BY <1>1, <2>1, <2>3, <3>1 DEF Holds
    <2> QED
      BY <2>2, <2>3
  <1>4. ASSUME NEW d \in Campaigns, BecomeDue(d) \/ LeaseLapses(d)
        PROVE  \A k \in Instances : Holds(k, c)' => Holds(k, c)
    BY <1>4, ClockLeavesState DEF Holds
  <1>5. ASSUME NEW i \in Instances, NEW d \in Campaigns, Work(i, d)
        PROVE  \A k \in Instances : Holds(k, c)' => Holds(k, c)
    BY <1>5, WorkKeepsToken DEF Holds
  <1>6. ASSUME NEW i \in Instances, NEW d \in Campaigns, FinishFails(i, d)
        PROVE  \A k \in Instances : Holds(k, c)' => Holds(k, c)
    BY <1>6 DEF FinishFails, SetWorker, Holds, TypeOK, NoWorker, Worker
  <1>7. ASSUME NEW i \in Instances, Crash(i)
        PROVE  \A k \in Instances : Holds(k, c)' => Holds(k, c)
    BY <1>7 DEF Crash, Holds, TypeOK, NoWorker, Worker
  <1>8. CASE UNCHANGED <<job, worker>>
    BY <1>1, <1>8 DEF Holds
  <1> QED
    BY <1>1, <1>2, <1>3, <1>4, <1>5, <1>6, <1>7, <1>8 DEF Next, vars,
       UpdateCampaignStatistics

LEMMA RetriesStep == TypeOK /\ RetriesLeft /\ [Next]_vars => RetriesLeft'
  <1> SUFFICES ASSUME TypeOK, RetriesLeft, [Next]_vars, NEW c \in Campaigns,
                      job'[c].state = "retry"
               PROVE  job'[c].attempt < MaxAttempts
    BY DEF RetriesLeft
  <1>1. ASSUME job'[c].state = job[c].state, job'[c].attempt = job[c].attempt
        PROVE  job'[c].attempt < MaxAttempts
    BY <1>1 DEF RetriesLeft
  <1>2. ASSUME NEW d \in Campaigns, MoveCampaignToExecuted(d)
        PROVE  job'[c].attempt < MaxAttempts
    <2>1. job'[c] = job[c] \/ job'[c] = Enqueued(c)
      BY <1>2, NewJob, JobUpdate DEF MoveCampaignToExecuted
    <2> QED
      BY <1>1, <2>1, NewJob
  <1>3. ASSUME NEW i \in Instances, runOnce(i)
        PROVE  job'[c].attempt < MaxAttempts
    <2>1. \/ job'[c] = Job("processing", job[c].attempt + 1)
          \/ job'[c] = DiscoverPending[c]
      BY <1>3, Tick
    <2>2. job'[c] = job[c] \/ job'[c] = Enqueued(c)
      BY <2>1, Fields, JobType DEF DiscoverPending, States
    <2> QED
      BY <1>1, <2>2, NewJob
  <1>4. ASSUME NEW d \in Campaigns, BecomeDue(d) \/ LeaseLapses(d)
        PROVE  job'[c].attempt < MaxAttempts
    BY <1>1, <1>4, ClockLeavesState
  <1>5. ASSUME NEW i \in Instances, NEW d \in Campaigns, FinishJob(i, d), job' # job
        PROVE  job'[c].attempt < MaxAttempts
    <2>1. /\ job' = [job EXCEPT ![d] = Job(NextState(i, d), job[d].attempt)]
          /\ StillMine(i, d)
      BY <1>5 DEF FinishJob
    <2>2. CASE c # d
      BY <1>1, <2>1, <2>2 DEF TypeOK
    <2>3. CASE c = d
      <3>1. job'[c].state = NextState(i, c) /\ job'[c].attempt = job[c].attempt
        BY <2>1, <2>3 DEF Job, TypeOK
      <3> QED
        BY <2>1, <2>3, <3>1, NextStateType DEF StillMine, Holds
    <2> QED
      BY <2>2, <2>3
  <1>6. CASE job' = job
    BY <1>1, <1>6
  <1> QED
    BY <1>2, <1>3, <1>4, <1>5, <1>6 DEF Next, vars, Work, AttemptFails, FinishFails,
       Crash, UpdateCampaignStatistics, ReconcileUndeliveredCampaignRefund

\* No instance runs more jobs than it has slots, no job has two workers that
\* may still decide it, and no job waits for an attempt it does not have.
THEOREM LimitsKept == Spec => []WithinLimits
  <1> DEFINE Inv == QueueInv /\ Slots /\ OneHolder /\ RetriesLeft
  <1>1. Init => Inv
    <2> SUFFICES ASSUME Init PROVE Inv
      OBVIOUS
    <2>1. \A i \in Instances, c \in Campaigns : worker[i][c].pc = "idle"
      BY DEF Init, NoWorker, Worker
    <2>2. \A i \in Instances : inFlight(i) = {}
      BY <2>1 DEF inFlight
    <2>3. Slots
      BY <2>2, FS_EmptySet, QueueAssumption DEF Slots
    <2>4. OneHolder
      BY <2>1 DEF OneHolder, Holds
    <2>5. RetriesLeft
      BY DEF Init, RetriesLeft, NoJob, Job
    <2> QED
      BY <2>3, <2>4, <2>5, InitTypes
  <1>2. TypeOK /\ Inv /\ [Next]_vars => Inv'
    BY QueueInvStep, SlotsStep, OneHolderStep, RetriesStep
  <1>3. Inv => WithinLimits
    BY DEF WithinLimits, Slots, OneHolder, RetriesLeft
  <1> QED
    BY <1>1, <1>2, <1>3, TypesCorrect, PTL DEF Spec

=============================================================================
