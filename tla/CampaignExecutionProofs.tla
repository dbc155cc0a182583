---------------------- MODULE CampaignExecutionProofs ----------------------
(* Theorems about CampaignExecution, for every value of its constants. *)
EXTENDS CampaignExecution, FiniteSetTheorems, TLAPS

\* The column types, without the bound on the pipeline.
Shapes ==
    /\ status \in [Campaigns -> {"approved", "running", "executed", "interrupted"}]
    /\ due \in [Campaigns -> BOOLEAN]
    /\ stale \in [Campaigns -> BOOLEAN]
    /\ audience \in [Campaigns -> 0..MaxBatches]
    /\ checkpoint \in [Campaigns -> {"none", "current", "retired"}]
    /\ rows \in [Campaigns -> SUBSET (Batch \cup {AuditRows})]
    /\ calls \in [Campaigns -> [Batch -> Nat]]
    /\ worker \in [Workers -> Worker]
    /\ orphans \subseteq Campaigns \X {"running", "executed"}

\* A worker between the grant of its claim and its end.
Busy == {"claimed", "fetching", "sending", "prepared", "completing", "draining"}
Holds(w, c) == worker[w].pc \in Busy /\ worker[w].campaign = c

\* One worker at most holds a campaign; what it holds is neither in the queue
\* nor stale.
Exclusive ==
    /\ \A w, v \in Workers, c \in Campaigns : Holds(w, c) /\ Holds(v, c) => w = v
    /\ \A w \in Workers, c \in Campaigns :
          Holds(w, c) => status[c] # "approved" /\ ~stale[c]

\* Where a worker is in its campaign: batches below next were launched, and
\* called unless still waiting for their goroutine; none from next on was.
Pipeline(w) ==
    LET me == worker[w]
        c  == worker[w].campaign
    IN  /\ me.pc # "idle" => c \in Campaigns
        /\ me.pc \in {"idle", "claiming", "claimed", "fetching"} => me.next = 1
        /\ me.pc \in {"idle", "claiming", "completing"} =>
              me.launched = {} /\ me.waiting = {}
        /\ me.pc \in {"claimed", "fetching"} =>
              rows[c] \subseteq {AuditRows} /\ checkpoint[c] # "current"
        /\ me.pc = "prepared" => me.next =< audience[c] /\ me.next \in rows[c]
        /\ me.pc = "completing" => me.next > audience[c]
        /\ me.pc \in Busy =>
              /\ me.next =< audience[c] + 1
              /\ me.launched \cap me.waiting = {}
              /\ \A b \in me.launched \cup me.waiting : b < me.next
              /\ \A b \in Batch :
                    calls[c][b] = IF b < me.next /\ b \notin me.launched THEN 1 ELSE 0
              /\ \A b \in Batch : b < me.next => b \in rows[c]

\* Every batch went to the provider and no worker has one in flight.
Done(c) ==
    /\ \A b \in 1..audience[c] : calls[c][b] = 1
    /\ \A w \in Workers :
          worker[w].campaign = c => worker[w].launched = {} /\ worker[w].waiting = {}

\* Of each campaign, what the properties say, and of a request to complete it
\* that is still under way, that it would be right to serve it.
Recorded(c) ==
    /\ \A b \in Batch : calls[c][b] =< 1
    /\ \A b \in Batch : calls[c][b] > 0 => b \in rows[c]
    /\ status[c] = "approved" => rows[c] \subseteq {AuditRows} /\ checkpoint[c] # "current"
    /\ status[c] = "interrupted" => rows[c] \cap Batch # {}
    /\ status[c] = "executed" => Done(c)
    /\ <<c, "executed">> \in orphans => Done(c)

ExecutionInv ==
    /\ Exclusive
    /\ \A w \in Workers : Pipeline(w)
    /\ \A c \in Campaigns : Recorded(c)

\* The bound on the pipeline, which a prepared batch will need again.
PipelineBound == \A w \in Workers :
    /\ Cardinality(InFlight(w)) =< Concurrency
    /\ worker[w].pc = "prepared" => Cardinality(InFlight(w)) < Concurrency

-----------------------------------------------------------------------------
(* Types *)

LEMMA BatchFacts == 1 \in 1..(MaxBatches + 1) /\ MaxBatches \in Nat
  BY ExecutionAssumption

LEMMA IdleType == Idle \in Worker
  BY BatchFacts DEF Idle, At, Worker

LEMMA InitShapes == Init => Shapes
  BY IdleType, ExecutionAssumption DEF Init, Shapes, Batch, AuditRows

\* The recovery leaves statuses, checkpoints and staleness typed.
LEMMA RecoverShapes ==
    ASSUME Shapes, NEW selected \in SUBSET Campaigns,
           recoverUndeliveredCampaigns(selected)
    PROVE  /\ status' \in [Campaigns -> {"approved", "running", "executed", "interrupted"}]
           /\ checkpoint' \in [Campaigns -> {"none", "current", "retired"}]
           /\ stale' \in [Campaigns -> BOOLEAN]
  BY DEF Shapes, recoverUndeliveredCampaigns, Settled

\* The record of a worker, taken apart and put together.
LEMMA WorkerFields ==
    ASSUME Shapes, NEW w \in Workers
    PROVE  /\ worker[w].pc \in Busy \cup {"idle", "claiming"}
           /\ worker[w].campaign \in Campaigns \cup {NoCampaign}
           /\ worker[w].next \in 1..(MaxBatches + 1)
           /\ worker[w].launched \subseteq Batch
           /\ worker[w].waiting \subseteq Batch
  <1>1. worker[w] \in Worker
    BY DEF Shapes
  <1> QED
    BY <1>1 DEF Worker, Busy

LEMMA WorkerRecord ==
    ASSUME NEW pc \in Busy \cup {"idle", "claiming"},
           NEW c \in Campaigns \cup {NoCampaign}, NEW n \in 1..(MaxBatches + 1),
           NEW launched \in SUBSET Batch, NEW waiting \in SUBSET Batch
    PROVE  At(pc, c, n, launched, waiting) \in Worker
  BY DEF At, Worker, Busy

LEMMA SetWorker ==
    ASSUME Shapes, NEW w \in Workers, NEW r \in Worker,
           worker' = [worker EXCEPT ![w] = r]
    PROVE  worker' \in [Workers -> Worker]
  BY DEF Shapes

LEMMA WorkerStep ==
    ASSUME Shapes, NEW w \in Workers
    PROVE  /\ \A pc \in Busy : Goto(w, pc) => worker' \in [Workers -> Worker]
           /\ Rest(w) => worker' \in [Workers -> Worker]
  <1>1. ASSUME NEW pc \in Busy, Goto(w, pc)
        PROVE  worker' \in [Workers -> Worker]
    <2>1. At(pc, worker[w].campaign, worker[w].next, worker[w].launched,
             worker[w].waiting) \in Worker
      BY WorkerFields, WorkerRecord
    <2> QED
      BY <1>1, <2>1, SetWorker DEF Goto
  <1>2. ASSUME Rest(w)
        PROVE  worker' \in [Workers -> Worker]
    BY <1>2, IdleType, SetWorker DEF Rest
  <1> QED
    BY <1>1, <1>2

\* What a worker waits for is a request that the server knows.
LEMMA RequestType ==
    ASSUME Shapes, NEW w \in Workers, Pipeline(w)
    PROVE  Request(w) \subseteq Campaigns \X {"running", "executed"}
  <1>1. worker[w].pc # "idle" => worker[w].campaign \in Campaigns
    BY DEF Pipeline
  <1> QED
    BY <1>1 DEF Request

\* There is a batch after the ones launched as long as the audience has one.
LEMMA NextBatch ==
    ASSUME Shapes, NEW w \in Workers, NEW c \in Campaigns,
           worker[w].next =< audience[c]
    PROVE  worker[w].next \in Batch /\ worker[w].next + 1 \in 1..(MaxBatches + 1)
  <1>1. audience[c] \in 0..MaxBatches
    BY DEF Shapes
  <1>2. worker[w].next \in 1..(MaxBatches + 1)
    BY WorkerFields
  <1> QED
    BY <1>1, <1>2, BatchFacts DEF Batch

LEMMA ShapesStep ==
    ASSUME Shapes, \A w \in Workers : Pipeline(w), [Next]_vars
    PROVE  Shapes'
  <1> USE DEF Busy
  <1>1. ASSUME NEW w \in Workers, runOnce(w) PROVE Shapes'
    <2>1. PICK c \in Campaigns :
             worker' = [worker EXCEPT ![w] = At("claiming", c, 1, {}, {})]
      BY <1>1 DEF runOnce
    <2>2. At("claiming", c, 1, {}, {}) \in Worker
      BY BatchFacts, WorkerRecord
    <2>3. worker' \in [Workers -> Worker]
      BY <2>1, <2>2, SetWorker
    <2> QED
      BY <1>1, <2>3 DEF runOnce, Shapes
  <1>2. ASSUME NEW w \in Workers, MoveCampaignToRunning(w) PROVE Shapes'
    BY <1>2, WorkerStep DEF MoveCampaignToRunning, Transition, Shapes
  <1>3. ASSUME NEW w \in Workers, FirstHeartbeat(w) PROVE Shapes'
    BY <1>3, WorkerStep DEF FirstHeartbeat, TouchRunningCampaign, Shapes
  <1>4. ASSUME NEW w \in Workers, SaveCheckpoint(w) PROVE Shapes'
    BY <1>4, WorkerStep DEF SaveCheckpoint, Shapes
  <1>5. ASSUME NEW w \in Workers, prepareSMSProviderBatch(w) PROVE Shapes'
    <2> DEFINE c == worker[w].campaign
    <2>1. c \in Campaigns /\ worker[w].next =< audience[c]
      BY <1>5 DEF prepareSMSProviderBatch, MoreBatches, Pipeline
    <2>2. worker[w].next \in Batch
      BY <2>1, NextBatch
    <2>3. rows' \in [Campaigns -> SUBSET (Batch \cup {AuditRows})]
      BY <1>5, <2>2 DEF prepareSMSProviderBatch, SavedRows, Shapes
    <2> QED
      BY <1>5, <2>3, WorkerStep DEF prepareSMSProviderBatch, Shapes
  <1>6. ASSUME NEW w \in Workers, LaunchBatch(w) PROVE Shapes'
    <2>1. worker[w].campaign \in Campaigns /\ worker[w].next =< audience[worker[w].campaign]
      BY <1>6 DEF LaunchBatch, Pipeline
    <2>2. worker[w].next \in Batch /\ worker[w].next + 1 \in 1..(MaxBatches + 1)
      BY <2>1, NextBatch
    <2>3. At("sending", worker[w].campaign, worker[w].next + 1,
             worker[w].launched \cup {worker[w].next}, worker[w].waiting) \in Worker
      BY <2>2, WorkerFields, WorkerRecord
    <2>4. worker' \in [Workers -> Worker]
      BY <1>6, <2>3, SetWorker DEF LaunchBatch
    <2> QED
      BY <1>6, <2>4 DEF LaunchBatch, TouchRunningCampaign, Shapes
  <1>7. ASSUME NEW w \in Workers, SendBatch(w) PROVE Shapes'
    <2>1. PICK b \in worker[w].launched :
             /\ calls' = [calls EXCEPT ![worker[w].campaign][b] = @ + 1]
             /\ worker' = [worker EXCEPT ![w] = At(@.pc, @.campaign, @.next,
                                @.launched \ {b}, @.waiting \cup {b})]
      BY <1>7 DEF SendBatch
    <2>2. At(worker[w].pc, worker[w].campaign, worker[w].next,
             worker[w].launched \ {b}, worker[w].waiting \cup {b}) \in Worker
      BY WorkerFields, WorkerRecord
    <2>3. worker' \in [Workers -> Worker]
      BY <2>1, <2>2, SetWorker
    <2>4. worker[w].campaign \in Campaigns
      BY <2>1 DEF Pipeline
    <2>5. calls[worker[w].campaign] \in [Batch -> Nat] /\ b \in Batch
      BY <2>4, WorkerFields DEF Shapes
    <2>6. calls' \in [Campaigns -> [Batch -> Nat]]
      BY <2>1, <2>4, <2>5 DEF Shapes
    <2> QED
      BY <1>7, <2>3, <2>6 DEF SendBatch, Shapes
  <1>8. ASSUME NEW w \in Workers, ProcessResult(w) PROVE Shapes'
    <2>1. PICK b \in worker[w].waiting :
             worker' = [worker EXCEPT ![w] = At(@.pc, @.campaign, @.next,
                                @.launched, @.waiting \ {b})]
      BY <1>8 DEF ProcessResult
    <2>2. At(worker[w].pc, worker[w].campaign, worker[w].next,
             worker[w].launched, worker[w].waiting \ {b}) \in Worker
      BY WorkerFields, WorkerRecord
    <2>3. worker' \in [Workers -> Worker]
      BY <2>1, <2>2, SetWorker
    <2> QED
      BY <1>8, <2>3 DEF ProcessResult, Shapes
  <1>9. ASSUME NEW w \in Workers, AllBatchesSent(w) PROVE Shapes'
    BY <1>9, WorkerStep DEF AllBatchesSent, Shapes
  <1>10. ASSUME NEW w \in Workers, MoveCampaignToExecuted(w) PROVE Shapes'
    BY <1>10, WorkerStep DEF MoveCampaignToExecuted, Transition, Shapes
  <1>11. ASSUME NEW w \in Workers, Fails(w) PROVE Shapes'
    BY <1>11, WorkerStep DEF Fails, Shapes
  <1>12. ASSUME NEW w \in Workers, GiveUp(w) PROVE Shapes'
    BY <1>12, WorkerStep, RequestType DEF GiveUp, Shapes
  <1>13. ASSUME NEW w \in Workers, ReleaseUnpreparedCampaign(w) PROVE Shapes'
    <2>1. {worker[w].campaign} \in SUBSET Campaigns
      BY <1>13 DEF ReleaseUnpreparedCampaign, Pipeline
    <2>2. /\ status' \in [Campaigns -> {"approved", "running", "executed", "interrupted"}]
          /\ checkpoint' \in [Campaigns -> {"none", "current", "retired"}]
          /\ stale' \in [Campaigns -> BOOLEAN]
      BY <1>13, <2>1, RecoverShapes DEF ReleaseUnpreparedCampaign, Shapes
    <2> QED
      BY <1>13, <2>2, WorkerStep DEF ReleaseUnpreparedCampaign, Shapes
  <1>14. ASSUME NEW w \in Workers, Crash(w) PROVE Shapes'
    BY <1>14, WorkerStep, RequestType DEF Crash, Shapes
  <1>15. ASSUME recoverStaleCampaignRuns PROVE Shapes'
    BY <1>15, RecoverShapes DEF recoverStaleCampaignRuns, StaleRuns, Shapes
  <1>16. ASSUME NEW c \in Campaigns, ServedLate(c) PROVE Shapes'
    BY <1>16 DEF ServedLate, Transition, Shapes
  <1>17. ASSUME NEW c \in Campaigns, HeartbeatLapses(c) PROVE Shapes'
    BY <1>17 DEF HeartbeatLapses, Shapes
  <1>18. ASSUME NEW c \in Campaigns, ScheduleHourEnds(c) PROVE Shapes'
    BY <1>18 DEF ScheduleHourEnds, Shapes
  <1>19. CASE UNCHANGED vars
    BY <1>19 DEF vars, Shapes
  <1> QED
    BY <1>1, <1>2, <1>3, <1>4, <1>5, <1>6, <1>7, <1>8, <1>9, <1>10, <1>11, <1>12,
       <1>13, <1>14, <1>15, <1>16, <1>17, <1>18, <1>19
       DEF Next, processSMSCampaign

-----------------------------------------------------------------------------
(* What a step of one worker leaves alone *)

LEMMA WorkerAfter ==
    ASSUME Shapes, NEW w \in Workers, NEW r, worker' = [worker EXCEPT ![w] = r]
    PROVE  worker'[w] = r /\ \A v \in Workers \ {w} : worker'[v] = worker[v]
  BY DEF Shapes

LEMMA GotoAfter ==
    ASSUME Shapes, NEW w \in Workers, NEW pc, Goto(w, pc)
    PROVE  /\ worker'[w].pc = pc
           /\ worker'[w].campaign = worker[w].campaign
           /\ worker'[w].next = worker[w].next
           /\ worker'[w].launched = worker[w].launched
           /\ worker'[w].waiting = worker[w].waiting
           /\ \A v \in Workers \ {w} : worker'[v] = worker[v]
  <1> DEFINE r == At(pc, worker[w].campaign, worker[w].next, worker[w].launched,
                     worker[w].waiting)
  <1>1. worker' = [worker EXCEPT ![w] = r]
    BY DEF Goto
  <1> HIDE DEF r
  <1>2. worker'[w] = r /\ \A v \in Workers \ {w} : worker'[v] = worker[v]
    BY <1>1, WorkerAfter
  <1> QED
    BY <1>2 DEF r, At

LEMMA RestAfter ==
    ASSUME Shapes, NEW w \in Workers, Rest(w)
    PROVE  /\ worker'[w].pc = "idle"
           /\ worker'[w].campaign = NoCampaign
           /\ worker'[w].next = 1
           /\ worker'[w].launched = {}
           /\ worker'[w].waiting = {}
           /\ \A v \in Workers \ {w} : worker'[v] = worker[v]
  <1>1. worker'[w] = Idle /\ \A v \in Workers \ {w} : worker'[v] = worker[v]
    BY WorkerAfter DEF Rest
  <1> QED
    BY <1>1 DEF Idle, At

\* A worker whose campaign nobody touches stays where it is.
LEMMA PipelineFrame ==
    ASSUME NEW v \in Workers, Pipeline(v), worker'[v] = worker[v],
           audience' = audience,
           worker[v].pc \in Busy =>
              /\ rows'[worker[v].campaign] = rows[worker[v].campaign]
              /\ calls'[worker[v].campaign] = calls[worker[v].campaign]
              /\ checkpoint'[worker[v].campaign] = checkpoint[worker[v].campaign]
    PROVE  Pipeline(v)'
  BY DEF Pipeline, Busy

\* A worker that rests is in no campaign.
LEMMA PipelineIdle ==
    ASSUME NEW v \in Workers, worker'[v].pc = "idle", worker'[v].next = 1,
           worker'[v].launched = {}, worker'[v].waiting = {}
    PROVE  Pipeline(v)'
  BY DEF Pipeline, Busy

\* Nobody becomes a holder, and what is held stays out of the queue and fresh.
LEMMA ExclusiveFrame ==
    ASSUME Exclusive,
           \A v \in Workers, c \in Campaigns :
              Holds(v, c)' => Holds(v, c) /\ status'[c] # "approved" /\ ~stale'[c]
    PROVE  Exclusive'
  BY DEF Exclusive

LEMMA DoneFrame ==
    ASSUME NEW c \in Campaigns, Done(c), audience' = audience, calls'[c] = calls[c],
           \A v \in Workers :
              \/ worker'[v] = worker[v]
              \/ worker'[v].launched = {} /\ worker'[v].waiting = {}
    PROVE  Done(c)'
  BY DEF Done

LEMMA RecordedFrame ==
    ASSUME NEW c \in Campaigns, Recorded(c), Done(c) => Done(c)',
           rows'[c] = rows[c], calls'[c] = calls[c], checkpoint'[c] = checkpoint[c],
           status'[c] \in {status[c], "running"},
           <<c, "executed">> \in orphans' => <<c, "executed">> \in orphans \/ Done(c)
    PROVE  Recorded(c)'
  BY DEF Recorded

\* A worker that is about to report its campaign executed has sent all of it.
LEMMA CompletingIsDone ==
    ASSUME Shapes, ExecutionInv, NEW w \in Workers, worker[w].pc = "completing"
    PROVE  worker[w].campaign \in Campaigns /\ Done(worker[w].campaign)
  <1> DEFINE c == worker[w].campaign
  <1>1. Pipeline(w) /\ c \in Campaigns /\ Holds(w, c)
    BY DEF ExecutionInv, Pipeline, Holds, Busy
  <1>2. audience[c] \in 0..MaxBatches /\ worker[w].next \in Nat
    BY <1>1, WorkerFields, BatchFacts DEF Shapes
  <1>3. ASSUME NEW b \in 1..audience[c] PROVE calls[c][b] = 1
    <2>1. b \in Batch /\ b < worker[w].next
      BY <1>1, <1>2, BatchFacts DEF Pipeline, Batch
    <2> QED
      BY <1>1, <2>1 DEF Pipeline, Busy
  <1>4. ASSUME NEW v \in Workers, worker[v].campaign = c
        PROVE  worker[v].launched = {} /\ worker[v].waiting = {}
    <2>1. CASE worker[v].pc \in Busy
      <3>1. v = w
        BY <1>1, <1>4, <2>1 DEF ExecutionInv, Exclusive, Holds
      <3> QED
        BY <1>1, <3>1 DEF Pipeline
    <2>2. CASE worker[v].pc \notin Busy
      <3>1. Pipeline(v) /\ worker[v].pc \in {"idle", "claiming"}
        BY <2>2, WorkerFields DEF ExecutionInv
      <3> QED
        BY <3>1 DEF Pipeline
    <2> QED
      BY <2>1, <2>2
  <1> QED
    BY <1>1, <1>3, <1>4 DEF Done

-----------------------------------------------------------------------------
(* The invariant, one action at a time *)

LEMMA RunOnceInv ==
    ASSUME Shapes, ExecutionInv, NEW w \in Workers, runOnce(w)
    PROVE  ExecutionInv'
  <1>1. PICK c \in Campaigns : worker' = [worker EXCEPT ![w] = At("claiming", c, 1, {}, {})]
    BY DEF runOnce
  <1>2. /\ worker'[w] = At("claiming", c, 1, {}, {})
        /\ \A v \in Workers \ {w} : worker'[v] = worker[v]
    BY <1>1, WorkerAfter
  <1>3. Exclusive'
    BY <1>2, ExclusiveFrame DEF runOnce, ExecutionInv, Exclusive, Holds, At, Busy
  <1>4. ASSUME NEW v \in Workers PROVE Pipeline(v)'
    <2>1. CASE v = w
      BY <1>2, <2>1 DEF Pipeline, At, Busy
    <2>2. CASE v # w
      BY <1>2, <2>2, PipelineFrame DEF runOnce, ExecutionInv
    <2> QED
      BY <2>1, <2>2
  <1>5. ASSUME NEW d \in Campaigns PROVE Recorded(d)'
    <2>1. Done(d) => Done(d)'
      BY <1>2, DoneFrame DEF runOnce, At
    <2> QED
      BY <2>1, RecordedFrame DEF runOnce, ExecutionInv
  <1> QED
    BY <1>3, <1>4, <1>5 DEF ExecutionInv

\* A step that takes a worker to another place in its run and touches none of
\* its batches, checkpoint or rows.
LEMMA ControlInv ==
    ASSUME Shapes, ExecutionInv, NEW w \in Workers, NEW pc, Goto(w, pc),
           worker[w].pc \in Busy,
           \/ pc = "draining"
           \/ pc = "fetching" /\ worker[w].pc = "claimed"
           \/ /\ pc = "completing"
              /\ worker[w].next > audience[worker[w].campaign]
              /\ worker[w].launched = {} /\ worker[w].waiting = {},
           UNCHANGED <<status, audience, checkpoint, rows, calls>>,
           \A c \in Campaigns : stale'[c] => stale[c],
           \A c \in Campaigns : <<c, "executed">> \in orphans' =>
              <<c, "executed">> \in orphans \/ Done(c)
    PROVE  ExecutionInv'
  <1>1. /\ worker'[w].pc = pc
        /\ worker'[w].campaign = worker[w].campaign
        /\ worker'[w].next = worker[w].next
        /\ worker'[w].launched = worker[w].launched
        /\ worker'[w].waiting = worker[w].waiting
        /\ \A v \in Workers \ {w} : worker'[v] = worker[v]
    BY GotoAfter
  <1>2. Exclusive'
    <2>1. ASSUME NEW v \in Workers, NEW c \in Campaigns, Holds(v, c)'
          PROVE  Holds(v, c)
      BY <1>1, <2>1 DEF Holds
    <2> QED
      BY <2>1, ExclusiveFrame DEF ExecutionInv, Exclusive
  <1>3. ASSUME NEW v \in Workers PROVE Pipeline(v)'
    <2>1. CASE v = w
      <3>1. Pipeline(w)
        BY DEF ExecutionInv
      <3> QED
        BY <1>1, <2>1, <3>1 DEF Pipeline, Busy
    <2>2. CASE v # w
      BY <1>1, <2>2, PipelineFrame DEF ExecutionInv
    <2> QED
      BY <2>1, <2>2
  <1>4. ASSUME NEW d \in Campaigns PROVE Recorded(d)'
    <2>1. Done(d) => Done(d)'
      BY <1>1 DEF Done
    <2> QED
      BY <2>1, RecordedFrame DEF ExecutionInv
  <1> QED
    BY <1>2, <1>3, <1>4 DEF ExecutionInv

\* A step that ends a worker.
LEMMA RestInv ==
    ASSUME Shapes, ExecutionInv, NEW w \in Workers, Rest(w),
           UNCHANGED <<status, stale, audience, checkpoint, rows, calls>>,
           \A c \in Campaigns : <<c, "executed">> \in orphans' =>
              <<c, "executed">> \in orphans \/ Done(c)
    PROVE  ExecutionInv'
  <1>1. /\ worker'[w].pc = "idle" /\ worker'[w].next = 1
        /\ worker'[w].launched = {} /\ worker'[w].waiting = {}
        /\ \A v \in Workers \ {w} : worker'[v] = worker[v]
    BY RestAfter
  <1>2. Exclusive'
    BY <1>1, ExclusiveFrame DEF ExecutionInv, Exclusive, Holds, Busy
  <1>3. ASSUME NEW v \in Workers PROVE Pipeline(v)'
    <2>1. CASE v = w
      BY <1>1, <2>1, PipelineIdle
    <2>2. CASE v # w
      BY <1>1, <2>2, PipelineFrame DEF ExecutionInv
    <2> QED
      BY <2>1, <2>2
  <1>4. ASSUME NEW d \in Campaigns PROVE Recorded(d)'
    <2>1. Done(d) => Done(d)'
      BY <1>1, DoneFrame
    <2> QED
      BY <2>1, RecordedFrame DEF ExecutionInv
  <1> QED
    BY <1>2, <1>3, <1>4 DEF ExecutionInv

\* The claim: what was in the queue is now held by this worker alone.
LEMMA ClaimInv ==
    ASSUME Shapes, ExecutionInv, NEW w \in Workers, worker[w].pc = "claiming",
           Transition(worker[w].campaign, "approved", "running"), Goto(w, "claimed"),
           UNCHANGED <<due, audience, checkpoint, rows, calls, orphans>>
    PROVE  ExecutionInv'
  <1> DEFINE c == worker[w].campaign
  <1>0. /\ c \in Campaigns /\ worker[w].next = 1
        /\ worker[w].launched = {} /\ worker[w].waiting = {}
    BY DEF ExecutionInv, Pipeline
  <1>1. /\ worker'[w].pc = "claimed" /\ worker'[w].campaign = c
        /\ worker'[w].next = 1
        /\ worker'[w].launched = {} /\ worker'[w].waiting = {}
        /\ \A v \in Workers \ {w} : worker'[v] = worker[v]
    BY <1>0, GotoAfter
  <1>2. /\ status[c] = "approved" /\ status' = [status EXCEPT ![c] = "running"]
        /\ stale' = [stale EXCEPT ![c] = FALSE]
    BY DEF Transition
  <1>3. \A v \in Workers : ~Holds(v, c)
    BY <1>0, <1>2 DEF ExecutionInv, Exclusive
  <1>4. /\ status'[c] = "running" /\ ~stale'[c]
        /\ \A d \in Campaigns \ {c} : status'[d] = status[d] /\ stale'[d] = stale[d]
    BY <1>0, <1>2 DEF Shapes
  <1>5. Exclusive'
    <2>1. \A v \in Workers, d \in Campaigns :
             Holds(v, d)' => (v = w /\ d = c) \/ (v # w /\ d # c /\ Holds(v, d))
      BY <1>1, <1>3 DEF Holds
    <2> QED
      BY <1>4, <2>1 DEF ExecutionInv, Exclusive
  <1>6. rows[c] \subseteq {AuditRows} /\ checkpoint[c] # "current"
    BY <1>0, <1>2 DEF ExecutionInv, Recorded
  <1>7. \A b \in Batch : calls[c][b] = 0
    <2> TAKE b \in Batch
    <2>1. calls[c][b] \in Nat
      BY <1>0 DEF Shapes
    <2>2. calls[c][b] > 0 => b \in rows[c]
      BY <1>0 DEF ExecutionInv, Recorded
    <2>3. b # AuditRows
      BY BatchFacts DEF Batch, AuditRows
    <2> QED
      BY <1>6, <2>1, <2>2, <2>3
  <1>8. ASSUME NEW v \in Workers PROVE Pipeline(v)'
    <2>1. CASE v = w
      <3>1. audience[c] \in Nat /\ \A b \in Batch : b \in Nat /\ ~(b < 1)
        BY <1>0, BatchFacts DEF Shapes, Batch
      <3> QED
        BY <1>0, <1>1, <1>6, <1>7, <2>1, <3>1 DEF Pipeline, Busy
    <2>2. CASE v # w
      BY <1>1, <2>2, PipelineFrame DEF ExecutionInv
    <2> QED
      BY <2>1, <2>2
  <1>9. ASSUME NEW d \in Campaigns PROVE Recorded(d)'
    <2>1. Done(d) => Done(d)'
      BY <1>1, DoneFrame
    <2>2. status'[d] \in {status[d], "running"}
      BY <1>4
    <2> QED
      BY <2>1, <2>2, RecordedFrame DEF ExecutionInv
  <1> QED
    BY <1>5, <1>8, <1>9 DEF ExecutionInv

LEMMA MoveCampaignToRunningInv ==
    ASSUME Shapes, ExecutionInv, NEW w \in Workers, MoveCampaignToRunning(w)
    PROVE  ExecutionInv'
  <1>1. CASE Transition(worker[w].campaign, "approved", "running") /\ Goto(w, "claimed")
    BY <1>1, ClaimInv DEF MoveCampaignToRunning
  <1>2. CASE Rest(w) /\ UNCHANGED <<status, stale>>
    BY <1>2, RestInv DEF MoveCampaignToRunning
  <1> QED
    BY <1>1, <1>2 DEF MoveCampaignToRunning

LEMMA FirstHeartbeatInv ==
    ASSUME Shapes, ExecutionInv, NEW w \in Workers, FirstHeartbeat(w)
    PROVE  ExecutionInv'
  <1>1. \A c \in Campaigns : stale'[c] => stale[c]
    BY DEF FirstHeartbeat, TouchRunningCampaign, Shapes
  <1> QED
    BY <1>1, ControlInv DEF FirstHeartbeat, Busy

\* The checkpoint is saved by the only holder of the campaign.
LEMMA SaveCheckpointInv ==
    ASSUME Shapes, ExecutionInv, NEW w \in Workers, SaveCheckpoint(w)
    PROVE  ExecutionInv'
  <1> DEFINE c == worker[w].campaign
  <1>0. c \in Campaigns /\ Holds(w, c) /\ Pipeline(w)
    BY DEF SaveCheckpoint, ExecutionInv, Pipeline, Holds, Busy
  <1>1. /\ worker'[w].pc = "sending" /\ worker'[w].campaign = c
        /\ worker'[w].next = worker[w].next
        /\ worker'[w].launched = worker[w].launched
        /\ worker'[w].waiting = worker[w].waiting
        /\ \A v \in Workers \ {w} : worker'[v] = worker[v]
    BY GotoAfter DEF SaveCheckpoint
  <1>2. /\ rows[c] \subseteq rows'[c]
        /\ \A d \in Campaigns \ {c} : rows'[d] = rows[d] /\ checkpoint'[d] = checkpoint[d]
    BY <1>0 DEF SaveCheckpoint, Shapes
  <1>3. Exclusive'
    <2>1. ASSUME NEW v \in Workers, NEW d \in Campaigns, Holds(v, d)' PROVE Holds(v, d)
      BY <1>0, <1>1, <2>1 DEF Holds
    <2> QED
      BY <2>1, ExclusiveFrame DEF SaveCheckpoint, ExecutionInv, Exclusive
  <1>4. ASSUME NEW v \in Workers PROVE Pipeline(v)'
    <2>1. CASE v = w
      BY <1>0, <1>1, <1>2, <2>1 DEF SaveCheckpoint, Pipeline, Busy
    <2>2. CASE v # w
      <3>1. worker[v].pc \in Busy => worker[v].campaign \in Campaigns \ {c}
        BY <1>0, <2>2 DEF ExecutionInv, Exclusive, Pipeline, Holds, Busy
      <3> QED
        BY <1>1, <1>2, <2>2, <3>1, PipelineFrame DEF SaveCheckpoint, ExecutionInv
    <2> QED
      BY <2>1, <2>2
  <1>5. ASSUME NEW d \in Campaigns PROVE Recorded(d)'
    <2>1. Done(d) => Done(d)'
      BY <1>1 DEF SaveCheckpoint, Done
    <2>2. CASE d = c
      <3>1. status[c] # "approved"
        BY <1>0 DEF ExecutionInv, Exclusive
      <3> QED
        BY <1>2, <2>1, <2>2, <3>1 DEF SaveCheckpoint, ExecutionInv, Recorded
    <2>3. CASE d # c
      BY <1>2, <2>1, <2>3, RecordedFrame DEF SaveCheckpoint, ExecutionInv
    <2> QED
      BY <2>2, <2>3
  <1> QED
    BY <1>3, <1>4, <1>5 DEF ExecutionInv

\* A batch is written before it is launched.
LEMMA PrepareInv ==
    ASSUME Shapes, ExecutionInv, NEW w \in Workers, prepareSMSProviderBatch(w)
    PROVE  ExecutionInv'
  <1> DEFINE c == worker[w].campaign
  <1>0. c \in Campaigns /\ Holds(w, c) /\ Pipeline(w)
    BY DEF prepareSMSProviderBatch, ExecutionInv, Pipeline, Holds, Busy
  <1>1. /\ worker'[w].pc = "prepared" /\ worker'[w].campaign = c
        /\ worker'[w].next = worker[w].next
        /\ worker'[w].launched = worker[w].launched
        /\ worker'[w].waiting = worker[w].waiting
        /\ \A v \in Workers \ {w} : worker'[v] = worker[v]
    BY GotoAfter DEF prepareSMSProviderBatch
  <1>2. /\ rows'[c] = rows[c] \cup {worker[w].next}
        /\ \A d \in Campaigns \ {c} : rows'[d] = rows[d]
    BY <1>0 DEF prepareSMSProviderBatch, SavedRows, Shapes
  <1>3. Exclusive'
    <2>1. ASSUME NEW v \in Workers, NEW d \in Campaigns, Holds(v, d)' PROVE Holds(v, d)
      BY <1>0, <1>1, <2>1 DEF Holds
    <2> QED
      BY <2>1, ExclusiveFrame DEF prepareSMSProviderBatch, ExecutionInv, Exclusive
  <1>4. ASSUME NEW v \in Workers PROVE Pipeline(v)'
    <2>1. CASE v = w
      BY <1>0, <1>1, <1>2, <2>1 DEF prepareSMSProviderBatch, MoreBatches, Pipeline, Busy
    <2>2. CASE v # w
      <3>1. worker[v].pc \in Busy => worker[v].campaign \in Campaigns \ {c}
        BY <1>0, <2>2 DEF ExecutionInv, Exclusive, Pipeline, Holds, Busy
      <3> QED
        BY <1>1, <1>2, <2>2, <3>1, PipelineFrame DEF prepareSMSProviderBatch, ExecutionInv
    <2> QED
      BY <2>1, <2>2
  <1>5. ASSUME NEW d \in Campaigns PROVE Recorded(d)'
    <2>1. Done(d) => Done(d)'
      BY <1>1 DEF prepareSMSProviderBatch, Done
    <2>2. CASE d = c
      <3>1. status[c] # "approved"
        BY <1>0 DEF ExecutionInv, Exclusive
      <3> QED
        BY <1>2, <2>1, <2>2, <3>1 DEF prepareSMSProviderBatch, ExecutionInv, Recorded
    <2>3. CASE d # c
      BY <1>2, <2>1, <2>3, RecordedFrame DEF prepareSMSProviderBatch, ExecutionInv
    <2> QED
      BY <2>2, <2>3
  <1> QED
    BY <1>3, <1>4, <1>5 DEF ExecutionInv

\* The next batch cannot have been called: the campaign is not done.
LEMMA LaunchBatchInv ==
    ASSUME Shapes, ExecutionInv, NEW w \in Workers, LaunchBatch(w)
    PROVE  ExecutionInv'
  <1> DEFINE c == worker[w].campaign
             n == worker[w].next
  <1>0. c \in Campaigns /\ Holds(w, c) /\ Pipeline(w) /\ worker[w].pc = "prepared"
    BY DEF LaunchBatch, ExecutionInv, Pipeline, Holds, Busy
  <1>1. /\ worker'[w].pc = "sending" /\ worker'[w].campaign = c
        /\ worker'[w].next = n + 1
        /\ worker'[w].launched = worker[w].launched \cup {n}
        /\ worker'[w].waiting = worker[w].waiting
        /\ \A v \in Workers \ {w} : worker'[v] = worker[v]
    <2> DEFINE r == At("sending", c, n + 1, worker[w].launched \cup {n}, worker[w].waiting)
    <2>1. worker' = [worker EXCEPT ![w] = r]
      BY DEF LaunchBatch
    <2> HIDE DEF r
    <2>2. worker'[w] = r /\ \A v \in Workers \ {w} : worker'[v] = worker[v]
      BY <2>1, WorkerAfter
    <2> QED
      BY <2>2 DEF r, At
  <1>2. \A d \in Campaigns : stale'[d] => stale[d]
    BY DEF LaunchBatch, TouchRunningCampaign, Shapes
  <1>3. n \in Batch /\ n =< audience[c] /\ n \in 1..audience[c] /\ calls[c][n] = 0
    <2>1. n =< audience[c] /\ n \in Batch
      BY <1>0, NextBatch DEF Pipeline
    <2>2. n \in 1..audience[c]
      BY <1>0, <2>1, BatchFacts DEF Batch, Shapes
    <2>3. ~(n < n)
      BY <2>1, BatchFacts DEF Batch
    <2> QED
      BY <1>0, <2>1, <2>2, <2>3 DEF Pipeline, Busy
  <1>4. Exclusive'
    <2>1. ASSUME NEW v \in Workers, NEW d \in Campaigns, Holds(v, d)' PROVE Holds(v, d)
      BY <1>0, <1>1, <2>1 DEF Holds
    <2> QED
      BY <1>2, <2>1, ExclusiveFrame DEF LaunchBatch, ExecutionInv, Exclusive
  <1>5. ASSUME NEW v \in Workers PROVE Pipeline(v)'
    <2>1. CASE v = w
      <3>1. n \in Nat /\ audience[c] \in Nat /\ \A b \in Batch : b \in Nat
        BY <1>0, <1>3, BatchFacts DEF Shapes, Batch
      <3>2. worker[w].launched \subseteq Batch /\ worker[w].waiting \subseteq Batch
        BY WorkerFields
      <3>3. \A b \in Batch : b < n + 1 <=> b < n \/ b = n
        BY <3>1
      <3>4. n \notin worker[w].waiting /\ n \notin worker[w].launched
        BY <1>0, <3>1 DEF Pipeline, Busy
      <3>5. \A b \in Batch : calls[c][b] =
               IF b < n + 1 /\ b \notin worker[w].launched \cup {n} THEN 1 ELSE 0
        BY <1>0, <1>3, <3>3 DEF Pipeline, Busy
      <3>6. \A b \in worker[w].launched \cup {n} \cup worker[w].waiting : b < n + 1
        BY <1>0, <1>3, <3>2, <3>3 DEF Pipeline, Busy
      <3>7. \A b \in Batch : b < n + 1 => b \in rows[c]
        BY <1>0, <3>3 DEF Pipeline, Busy
      <3>8. (worker[w].launched \cup {n}) \cap worker[w].waiting = {}
        BY <1>0, <3>4 DEF Pipeline, Busy
      <3>9. n + 1 =< audience[c] + 1
        BY <1>3, <3>1
      <3>10. rows' = rows /\ calls' = calls /\ audience' = audience
        BY DEF LaunchBatch
      <3> HIDE DEF c, n
      <3> QED
        BY ONLY <1>0, <1>1, <2>1, <3>5, <3>6, <3>7, <3>8, <3>9, <3>10 DEF Pipeline, Busy
    <2>2. CASE v # w
      BY <1>1, <2>2, PipelineFrame DEF LaunchBatch, ExecutionInv
    <2> QED
      BY <2>1, <2>2
  <1>6. ASSUME NEW d \in Campaigns PROVE Recorded(d)'
    <2>1. ~Done(c)
      BY <1>3 DEF Done
    <2>2. d # c /\ Done(d) => Done(d)'
      BY <1>1 DEF LaunchBatch, Done
    <2> QED
      BY <2>1, <2>2, RecordedFrame DEF LaunchBatch, ExecutionInv
  <1> QED
    BY <1>4, <1>5, <1>6 DEF ExecutionInv

\* A launched batch was not called before, and its rows were saved.
LEMMA SendBatchInv ==
    ASSUME Shapes, ExecutionInv, NEW w \in Workers, SendBatch(w)
    PROVE  ExecutionInv'
  <1> DEFINE c == worker[w].campaign
             me == worker[w]
  <1>0. PICK b \in worker[w].launched :
           /\ calls' = [calls EXCEPT ![worker[w].campaign][b] = @ + 1]
           /\ worker' = [worker EXCEPT ![w] = At(@.pc, @.campaign, @.next,
                              @.launched \ {b}, @.waiting \cup {b})]
           /\ UNCHANGED <<status, due, stale, audience, checkpoint, rows, orphans>>
    BY DEF SendBatch
  <1>1. c \in Campaigns /\ Holds(w, c) /\ Pipeline(w)
    <2>1. Pipeline(w) /\ me.pc \notin {"idle", "claiming"}
      BY <1>0 DEF ExecutionInv, Pipeline
    <2> QED
      BY <2>1, WorkerFields DEF Pipeline, Holds, Busy
  <1>2. /\ worker'[w].pc = me.pc /\ worker'[w].campaign = c
        /\ worker'[w].next = me.next
        /\ worker'[w].launched = me.launched \ {b}
        /\ worker'[w].waiting = me.waiting \cup {b}
        /\ \A v \in Workers \ {w} : worker'[v] = worker[v]
    <2> DEFINE r == At(me.pc, c, me.next, me.launched \ {b}, me.waiting \cup {b})
    <2>1. worker' = [worker EXCEPT ![w] = r]
      BY <1>0
    <2> HIDE DEF r
    <2>2. worker'[w] = r /\ \A v \in Workers \ {w} : worker'[v] = worker[v]
      BY <2>1, WorkerAfter
    <2> QED
      BY <2>2 DEF r, At
  <1>3. b \in Batch /\ calls[c][b] = 0 /\ b < me.next /\ b \in rows[c]
    BY <1>0, <1>1, WorkerFields DEF Pipeline, Holds
  <1>4. /\ calls'[c][b] = 1
        /\ \A k \in Batch \ {b} : calls'[c][k] = calls[c][k]
        /\ \A d \in Campaigns \ {c} : calls'[d] = calls[d]
    <2>1. calls[c] \in [Batch -> Nat]
      BY <1>1 DEF Shapes
    <2> QED
      BY <1>0, <1>1, <1>3, <2>1 DEF Shapes
  <1>5. Exclusive'
    <2>1. ASSUME NEW v \in Workers, NEW d \in Campaigns, Holds(v, d)' PROVE Holds(v, d)
      BY <1>1, <1>2, <2>1 DEF Holds
    <2> QED
      BY <1>0, <2>1, ExclusiveFrame DEF ExecutionInv, Exclusive
  <1>6. ASSUME NEW v \in Workers PROVE Pipeline(v)'
    <2>1. CASE v = w
      <3>1. \A k \in Batch : calls'[c][k] =
               IF k < me.next /\ k \notin me.launched \ {b} THEN 1 ELSE 0
        BY <1>1, <1>3, <1>4 DEF Pipeline, Holds
      <3>2. me.pc \notin {"idle", "claiming", "completing"}
        BY <1>0, <1>1 DEF Pipeline
      <3>3. (me.launched \ {b}) \cap (me.waiting \cup {b}) = {}
        BY <1>1 DEF Pipeline, Holds
      <3>4. (me.launched \ {b}) \cup (me.waiting \cup {b}) = me.launched \cup me.waiting
        BY <1>0
      <3>5. rows' = rows /\ audience' = audience /\ checkpoint' = checkpoint
        BY <1>0
      <3> HIDE DEF c, me
      <3> QED
        BY ONLY <1>1, <1>2, <2>1, <3>1, <3>2, <3>3, <3>4, <3>5 DEF Pipeline, Holds, Busy, c, me
    <2>2. CASE v # w
      <3>1. worker[v].pc \in Busy => worker[v].campaign \in Campaigns \ {c}
        BY <1>1, <2>2 DEF ExecutionInv, Exclusive, Pipeline, Holds, Busy
      <3> QED
        BY <1>0, <1>2, <1>4, <2>2, <3>1, PipelineFrame DEF ExecutionInv
    <2> QED
      BY <2>1, <2>2
  <1>7. ASSUME NEW d \in Campaigns PROVE Recorded(d)'
    <2>1. ~Done(c)
      BY <1>0 DEF Done
    <2>2. CASE d = c
      <3>0. /\ \A k \in Batch : calls[c][k] =< 1
            /\ \A k \in Batch : calls[c][k] > 0 => k \in rows[c]
        BY <1>1 DEF ExecutionInv, Recorded
      <3> HIDE DEF c, me
      <3>1. \A k \in Batch : calls'[c][k] =< 1
        BY ONLY <3>0, <1>4
      <3>2. \A k \in Batch : calls'[c][k] > 0 => k \in rows[c]
        BY ONLY <3>0, <1>3, <1>4
      <3> QED
        BY <1>0, <2>1, <2>2, <3>1, <3>2 DEF ExecutionInv, Recorded
    <2>3. CASE d # c
      <3>1. Done(d) => Done(d)'
        <4>1. audience' = audience /\ calls'[d] = calls[d]
          BY <1>0, <1>4, <2>3
        <4> HIDE DEF c, me
        <4> QED
          BY ONLY <1>2, <2>3, <4>1 DEF Done
      <3> QED
        BY <1>0, <1>4, <2>3, <3>1, RecordedFrame DEF ExecutionInv
    <2> QED
      BY <2>2, <2>3
  <1> QED
    BY <1>5, <1>6, <1>7 DEF ExecutionInv

LEMMA ProcessResultInv ==
    ASSUME Shapes, ExecutionInv, NEW w \in Workers, ProcessResult(w)
    PROVE  ExecutionInv'
  <1> DEFINE me == worker[w]
  <1>0. PICK b \in worker[w].waiting :
           /\ worker' = [worker EXCEPT ![w] = At(@.pc, @.campaign, @.next,
                              @.launched, @.waiting \ {b})]
           /\ UNCHANGED <<status, due, stale, audience, checkpoint, rows, calls, orphans>>
    BY DEF ProcessResult
  <1>1. /\ worker'[w].pc = me.pc /\ worker'[w].campaign = me.campaign
        /\ worker'[w].next = me.next
        /\ worker'[w].launched = me.launched
        /\ worker'[w].waiting = me.waiting \ {b}
        /\ \A v \in Workers \ {w} : worker'[v] = worker[v]
    <2> DEFINE r == At(me.pc, me.campaign, me.next, me.launched, me.waiting \ {b})
    <2>1. worker' = [worker EXCEPT ![w] = r]
      BY <1>0
    <2> HIDE DEF r
    <2>2. worker'[w] = r /\ \A v \in Workers \ {w} : worker'[v] = worker[v]
      BY <2>1, WorkerAfter
    <2> QED
      BY <2>2 DEF r, At
  <1>2. Exclusive'
    <2>1. ASSUME NEW v \in Workers, NEW d \in Campaigns, Holds(v, d)' PROVE Holds(v, d)
      BY <1>1, <2>1 DEF Holds
    <2> QED
      BY <1>0, <2>1, ExclusiveFrame DEF ExecutionInv, Exclusive
  <1>3. ASSUME NEW v \in Workers PROVE Pipeline(v)'
    <2>1. CASE v = w
      <3>1. Pipeline(w)
        BY DEF ExecutionInv
      <3>2. rows' = rows /\ calls' = calls /\ audience' = audience /\ checkpoint' = checkpoint
        BY <1>0
      <3> HIDE DEF me
      <3> QED
        BY ONLY <1>1, <2>1, <3>1, <3>2 DEF Pipeline, Busy, me
    <2>2. CASE v # w
      BY <1>0, <1>1, <2>2, PipelineFrame DEF ExecutionInv
    <2> QED
      BY <2>1, <2>2
  <1>4. ASSUME NEW d \in Campaigns PROVE Recorded(d)'
    <2>1. Done(d) => Done(d)'
      BY <1>0, <1>1 DEF Done
    <2> QED
      BY <1>0, <2>1, RecordedFrame DEF ExecutionInv
  <1> QED
    BY <1>2, <1>3, <1>4 DEF ExecutionInv

LEMMA AllBatchesSentInv ==
    ASSUME Shapes, ExecutionInv, NEW w \in Workers, AllBatchesSent(w)
    PROVE  ExecutionInv'
  <1>1. worker[w].campaign \in Campaigns
    BY DEF AllBatchesSent, ExecutionInv, Pipeline
  <1>2. worker[w].next \in Nat /\ audience[worker[w].campaign] \in Nat
    BY <1>1, WorkerFields, BatchFacts DEF Shapes
  <1>3. worker[w].next > audience[worker[w].campaign]
    BY <1>2 DEF AllBatchesSent, MoreBatches
  <1>4. worker[w].launched = {} /\ worker[w].waiting = {}
    BY DEF AllBatchesSent, InFlight
  <1> QED
    BY <1>3, <1>4, ControlInv DEF AllBatchesSent, Busy

LEMMA MoveCampaignToExecutedInv ==
    ASSUME Shapes, ExecutionInv, NEW w \in Workers, MoveCampaignToExecuted(w)
    PROVE  ExecutionInv'
  <1> DEFINE c == worker[w].campaign
  <1>1. CASE Transition(c, "running", "executed") /\ Rest(w)
    <2>1. c \in Campaigns /\ Done(c)
      BY CompletingIsDone DEF MoveCampaignToExecuted
    <2>2. /\ worker'[w].pc = "idle" /\ worker'[w].next = 1
          /\ worker'[w].launched = {} /\ worker'[w].waiting = {}
          /\ \A v \in Workers \ {w} : worker'[v] = worker[v]
      BY <1>1, RestAfter
    <2>3. /\ status'[c] = "executed" /\ ~stale'[c]
          /\ \A d \in Campaigns \ {c} : status'[d] = status[d] /\ stale'[d] = stale[d]
      BY <1>1, <2>1 DEF Transition, Shapes
    <2>4. Exclusive'
      <3>1. ASSUME NEW v \in Workers, NEW d \in Campaigns, Holds(v, d)' PROVE Holds(v, d)
        BY <2>2, <3>1 DEF Holds, Busy
      <3> QED
        BY <2>3, <3>1, ExclusiveFrame DEF ExecutionInv, Exclusive
    <2>5. ASSUME NEW v \in Workers PROVE Pipeline(v)'
      <3>1. CASE v = w
        BY <2>2, <3>1, PipelineIdle
      <3>2. CASE v # w
        BY <2>2, <3>2, PipelineFrame DEF MoveCampaignToExecuted, ExecutionInv
      <3> QED
        BY <3>1, <3>2
    <2>6. ASSUME NEW d \in Campaigns PROVE Recorded(d)'
      <3>1. Done(d) => Done(d)'
        BY <2>2, DoneFrame DEF MoveCampaignToExecuted
      <3>2. CASE d = c
        BY <2>1, <2>3, <3>1, <3>2 DEF MoveCampaignToExecuted, ExecutionInv, Recorded
      <3>3. CASE d # c
        BY <2>3, <3>1, <3>3, RecordedFrame DEF MoveCampaignToExecuted, ExecutionInv
      <3> QED
        BY <3>2, <3>3
    <2> QED
      BY <2>4, <2>5, <2>6 DEF ExecutionInv
  <1>2. CASE Goto(w, "draining") /\ UNCHANGED <<status, stale>>
    BY <1>2, ControlInv DEF MoveCampaignToExecuted, Busy
  <1> QED
    BY <1>1, <1>2 DEF MoveCampaignToExecuted

LEMMA FailsInv ==
    ASSUME Shapes, ExecutionInv, NEW w \in Workers, Fails(w)
    PROVE  ExecutionInv'
  BY ControlInv DEF Fails, Busy

\* A request left behind by a worker is one that may be served at any time.
LEMMA RequestDone ==
    ASSUME Shapes, ExecutionInv, NEW w \in Workers,
           orphans' = orphans \cup Request(w)
    PROVE  \A c \in Campaigns : <<c, "executed">> \in orphans' =>
              <<c, "executed">> \in orphans \/ Done(c)
  <1> SUFFICES ASSUME NEW c \in Campaigns, <<c, "executed">> \in Request(w)
               PROVE  Done(c)
    OBVIOUS
  <1>1. worker[w].pc = "completing" /\ worker[w].campaign = c
    BY DEF Request
  <1> QED
    BY <1>1, CompletingIsDone

LEMMA GiveUpInv ==
    ASSUME Shapes, ExecutionInv, NEW w \in Workers, GiveUp(w)
    PROVE  ExecutionInv'
  <1>1. \A c \in Campaigns : <<c, "executed">> \in orphans' =>
           <<c, "executed">> \in orphans \/ Done(c)
    BY RequestDone DEF GiveUp
  <1>2. worker[w].pc \in {"claiming", "completing"}
    BY DEF GiveUp, Request
  <1>3. CASE worker[w].pc = "claiming"
    BY <1>1, <1>3, RestInv DEF GiveUp
  <1>4. CASE worker[w].pc = "completing"
    BY <1>1, <1>4, ControlInv DEF GiveUp, Busy
  <1> QED
    BY <1>2, <1>3, <1>4

LEMMA CrashInv ==
    ASSUME Shapes, ExecutionInv, NEW w \in Workers, Crash(w)
    PROVE  ExecutionInv'
  BY RequestDone, RestInv DEF Crash

\* Settling campaigns that nobody holds any more.
LEMMA RecoverInv ==
    ASSUME Shapes, ExecutionInv, NEW selected \in SUBSET Campaigns,
           recoverUndeliveredCampaigns(selected),
           UNCHANGED <<audience, rows, calls, orphans>>,
           \A v \in Workers :
              \/ worker'[v] = worker[v]
              \/ /\ worker'[v].pc = "idle" /\ worker'[v].next = 1
                 /\ worker'[v].launched = {} /\ worker'[v].waiting = {},
           \A v \in Workers, d \in selected : ~Holds(v, d)'
    PROVE  ExecutionInv'
  <1>1. ASSUME NEW c \in Campaigns, c \notin selected \/ status[c] # "running"
        PROVE  status'[c] = status[c] /\ checkpoint'[c] = checkpoint[c]
               /\ stale'[c] = stale[c]
    BY <1>1 DEF recoverUndeliveredCampaigns, Shapes
  <1>2. ASSUME NEW c \in selected, status[c] = "running"
        PROVE  /\ ~stale'[c]
               /\ rows[c] \ {AuditRows} # {} => status'[c] = "interrupted"
               /\ rows[c] \ {AuditRows} = {} =>
                     status'[c] = "approved" /\ checkpoint'[c] # "current"
    BY <1>2 DEF recoverUndeliveredCampaigns, Settled, HasDeliveryRecord
  <1>3. \A v \in Workers, c \in Campaigns : Holds(v, c)' => Holds(v, c) /\ c \notin selected
    BY DEF Holds, Busy
  <1>4. Exclusive'
    BY <1>1, <1>3, ExclusiveFrame DEF ExecutionInv, Exclusive
  <1>5. ASSUME NEW v \in Workers PROVE Pipeline(v)'
    <2>1. CASE worker'[v] = worker[v]
      <3>1. worker[v].pc \in Busy => worker[v].campaign \in Campaigns \ selected
        BY <1>3, <2>1 DEF ExecutionInv, Pipeline, Holds, Busy
      <3>2. worker[v].pc \in Busy =>
               checkpoint'[worker[v].campaign] = checkpoint[worker[v].campaign]
        BY <1>1, <3>1
      <3> QED
        BY <2>1, <3>2, PipelineFrame DEF ExecutionInv
    <2>2. CASE worker'[v] # worker[v]
      BY <2>2, PipelineIdle
    <2> QED
      BY <2>1, <2>2
  <1>6. ASSUME NEW c \in Campaigns PROVE Recorded(c)'
    <2>1. Done(c) => Done(c)'
      BY DoneFrame
    <2>2. Recorded(c) /\ rows[c] \subseteq Batch \cup {AuditRows}
      BY DEF ExecutionInv, Shapes
    <2>3. CASE c \notin selected \/ status[c] # "running"
      BY <1>1, <2>1, <2>2, <2>3, RecordedFrame
    <2>4. CASE c \in selected /\ status[c] = "running"
      BY <1>2, <2>1, <2>2, <2>4 DEF Recorded
    <2> QED
      BY <2>3, <2>4
  <1> QED
    BY <1>4, <1>5, <1>6 DEF ExecutionInv

LEMMA ReleaseInv ==
    ASSUME Shapes, ExecutionInv, NEW w \in Workers, ReleaseUnpreparedCampaign(w)
    PROVE  ExecutionInv'
  <1>1. PICK c \in Campaigns : c = worker[w].campaign /\ Holds(w, c)
    BY DEF ReleaseUnpreparedCampaign, ExecutionInv, Pipeline, Holds, Busy
  <1>2. /\ worker'[w].pc = "idle" /\ worker'[w].next = 1
        /\ worker'[w].launched = {} /\ worker'[w].waiting = {}
        /\ \A v \in Workers \ {w} : worker'[v] = worker[v]
    BY RestAfter DEF ReleaseUnpreparedCampaign
  <1>3. \A v \in Workers : ~Holds(v, c)'
    BY <1>1, <1>2 DEF ExecutionInv, Exclusive, Holds, Busy
  <1>4. /\ UNCHANGED <<audience, rows, calls, orphans>>
        /\ Rest(w)
        /\ \/ recoverUndeliveredCampaigns({c})
           \/ UNCHANGED <<status, checkpoint, stale>>
    BY <1>1 DEF ReleaseUnpreparedCampaign
  <1>5. CASE recoverUndeliveredCampaigns({c})
    <2>1. {c} \in SUBSET Campaigns
      BY <1>1
    <2>2. \A v \in Workers, d \in {c} : ~Holds(v, d)'
      BY <1>3
    <2>3. \A v \in Workers :
             \/ worker'[v] = worker[v]
             \/ /\ worker'[v].pc = "idle" /\ worker'[v].next = 1
                /\ worker'[v].launched = {} /\ worker'[v].waiting = {}
      BY <1>2
    <2> QED
      BY ONLY Shapes, ExecutionInv, <1>4, <1>5, <2>1, <2>2, <2>3, RecoverInv
  <1>6. CASE UNCHANGED <<status, checkpoint, stale>>
    <2>1. \A d \in Campaigns : <<d, "executed">> \in orphans' =>
             <<d, "executed">> \in orphans \/ Done(d)
      BY <1>4
    <2> QED
      BY ONLY Shapes, ExecutionInv, w \in Workers, <1>4, <1>6, <2>1, RestInv
  <1> QED
    BY <1>4, <1>5, <1>6

\* A stale campaign has no holder left to disturb its recovery.
LEMMA RecoverStaleInv ==
    ASSUME Shapes, ExecutionInv, recoverStaleCampaignRuns
    PROVE  ExecutionInv'
  <1>1. /\ UNCHANGED <<audience, rows, calls, worker, orphans>>
        /\ recoverUndeliveredCampaigns(StaleRuns)
    BY DEF recoverStaleCampaignRuns
  <1>2. StaleRuns \in SUBSET Campaigns
    BY DEF StaleRuns
  <1>3. \A v \in Workers, d \in StaleRuns : ~Holds(v, d)'
    BY <1>1 DEF ExecutionInv, Exclusive, Holds, StaleRuns
  <1> QED
    BY ONLY Shapes, ExecutionInv, <1>1, <1>2, <1>3, RecoverInv

\* A step that moves no worker, checkpoint, row or call.
LEMMA ServerInv ==
    ASSUME Shapes, ExecutionInv,
           UNCHANGED <<audience, checkpoint, rows, calls, worker>>,
           \A v \in Workers, c \in Campaigns :
              Holds(v, c) => status'[c] # "approved" /\ ~stale'[c],
           \A c \in Campaigns :
              \/ status'[c] \in {status[c], "running"}
              \/ status'[c] = "executed" /\ Done(c),
           orphans' \subseteq orphans
    PROVE  ExecutionInv'
  <1>1. Exclusive'
    BY ExclusiveFrame DEF ExecutionInv, Holds
  <1>2. ASSUME NEW v \in Workers PROVE Pipeline(v)'
    BY PipelineFrame DEF ExecutionInv
  <1>3. ASSUME NEW c \in Campaigns PROVE Recorded(c)'
    <2>1. Done(c) => Done(c)'
      BY DEF Done
    <2>2. Recorded(c)
      BY DEF ExecutionInv
    <2>3. CASE status'[c] \in {status[c], "running"}
      BY <2>1, <2>2, <2>3, RecordedFrame
    <2>4. CASE status'[c] = "executed" /\ Done(c)
      BY <2>1, <2>2, <2>4 DEF Recorded
    <2> QED
      BY <2>3, <2>4
  <1> QED
    BY <1>1, <1>2, <1>3 DEF ExecutionInv

LEMMA ServedLateInv ==
    ASSUME Shapes, ExecutionInv, NEW c \in Campaigns, ServedLate(c)
    PROVE  ExecutionInv'
  <1>1. UNCHANGED <<audience, checkpoint, rows, calls, worker>> /\ orphans' \subseteq orphans
    BY DEF ServedLate
  <1>2. PICK to \in {"running", "executed"} :
           /\ status' = [status EXCEPT ![c] = to]
           /\ stale' = [stale EXCEPT ![c] = FALSE]
           /\ to = "executed" => <<c, "executed">> \in orphans
    BY DEF ServedLate, Transition
  <1>3. /\ \A d \in Campaigns \ {c} : status'[d] = status[d] /\ stale'[d] = stale[d]
        /\ ~stale'[c]
        /\ status'[c] = to
    BY <1>2 DEF Shapes
  <1>4. <<c, "executed">> \in orphans => Done(c)
    BY DEF ExecutionInv, Recorded
  <1>5. \A v \in Workers, d \in Campaigns :
           Holds(v, d) => status'[d] # "approved" /\ ~stale'[d]
    BY <1>3 DEF ExecutionInv, Exclusive
  <1>6. ASSUME NEW d \in Campaigns
        PROVE  \/ status'[d] \in {status[d], "running"}
               \/ status'[d] = "executed" /\ Done(d)
    <2>1. to = "running" \/ (to = "executed" /\ <<c, "executed">> \in orphans)
      BY <1>2
    <2>2. CASE d = c
      BY <1>3, <1>4, <2>1, <2>2
    <2>3. CASE d # c
      BY <1>3, <2>3
    <2> QED
      BY <2>2, <2>3
  <1> QED
    BY ONLY Shapes, ExecutionInv, <1>1, <1>5, <1>6, ServerInv

LEMMA HeartbeatLapsesInv ==
    ASSUME Shapes, ExecutionInv, NEW c \in Campaigns, HeartbeatLapses(c)
    PROVE  ExecutionInv'
  <1>1. \A v \in Workers : ~Holds(v, c)
    BY DEF HeartbeatLapses, Held, Holds, Busy
  <1>2. /\ UNCHANGED <<status, audience, checkpoint, rows, calls, worker, orphans>>
        /\ \A d \in Campaigns \ {c} : stale'[d] = stale[d]
    BY DEF HeartbeatLapses, Shapes
  <1>3. \A v \in Workers, d \in Campaigns :
           Holds(v, d) => status'[d] # "approved" /\ ~stale'[d]
    BY <1>1, <1>2 DEF ExecutionInv, Exclusive
  <1> QED
    BY ONLY Shapes, ExecutionInv, <1>2, <1>3, ServerInv

LEMMA QuietInv ==
    ASSUME Shapes, ExecutionInv,
           UNCHANGED <<status, stale, audience, checkpoint, rows, calls, worker, orphans>>
    PROVE  ExecutionInv'
  <1>1. \A v \in Workers, d \in Campaigns :
           Holds(v, d) => status'[d] # "approved" /\ ~stale'[d]
    BY DEF ExecutionInv, Exclusive
  <1> QED
    BY ONLY Shapes, ExecutionInv, <1>1, ServerInv,
       UNCHANGED <<status, stale, audience, checkpoint, rows, calls, worker, orphans>>

-----------------------------------------------------------------------------
(* The bound on the pipeline *)

LEMMA InFlightFinite ==
    ASSUME Shapes, NEW w \in Workers
    PROVE  IsFiniteSet(InFlight(w)) /\ Cardinality(InFlight(w)) \in Nat
  <1>1. InFlight(w) \subseteq Batch
    BY WorkerFields DEF InFlight
  <1>2. IsFiniteSet(Batch)
    BY BatchFacts, FS_Interval DEF Batch
  <1> QED
    BY <1>1, <1>2, FS_Subset, FS_CardinalityType

\* A step after which one worker has no more in flight than before and has not
\* just prepared a batch.
LEMMA BoundFrame ==
    ASSUME Shapes, PipelineBound, NEW w \in Workers,
           \A v \in Workers \ {w} : worker'[v] = worker[v],
           InFlight(w)' \subseteq InFlight(w),
           worker'[w].pc = "prepared" => worker[w].pc = "prepared"
    PROVE  PipelineBound'
  <1>1. Cardinality(InFlight(w)') \in Nat
        /\ Cardinality(InFlight(w)') =< Cardinality(InFlight(w))
    BY InFlightFinite, FS_Subset, FS_CardinalityType
  <1>2. Cardinality(InFlight(w)) \in Nat /\ Concurrency \in Nat
    BY InFlightFinite, ExecutionAssumption
  <1>3. ASSUME NEW v \in Workers, v # w
        PROVE  InFlight(v)' = InFlight(v) /\ worker'[v].pc = worker[v].pc
    BY <1>3 DEF InFlight
  <1> SUFFICES ASSUME NEW v \in Workers
               PROVE  /\ Cardinality(InFlight(v)') =< Concurrency
                      /\ worker'[v].pc = "prepared" => Cardinality(InFlight(v)') < Concurrency
    BY DEF PipelineBound
  <1>4. CASE v = w
    BY <1>1, <1>2, <1>4 DEF PipelineBound
  <1>5. CASE v # w
    BY <1>3, <1>5 DEF PipelineBound
  <1> QED
    BY <1>4, <1>5

LEMMA GotoBound ==
    ASSUME Shapes, PipelineBound, NEW w \in Workers, NEW pc, Goto(w, pc),
           pc # "prepared"
    PROVE  PipelineBound'
  BY GotoAfter, BoundFrame DEF InFlight

LEMMA RestBound ==
    ASSUME Shapes, PipelineBound, NEW w \in Workers, Rest(w)
    PROVE  PipelineBound'
  BY RestAfter, BoundFrame DEF InFlight

LEMMA PrepareBound ==
    ASSUME Shapes, PipelineBound, NEW w \in Workers, prepareSMSProviderBatch(w)
    PROVE  PipelineBound'
  <1>1. Cardinality(InFlight(w)) < Concurrency /\ Goto(w, "prepared")
    BY DEF prepareSMSProviderBatch
  <1>2. /\ \A v \in Workers : InFlight(v)' = InFlight(v)
        /\ \A v \in Workers \ {w} : worker'[v] = worker[v]
    BY <1>1, GotoAfter DEF InFlight
  <1> SUFFICES ASSUME NEW v \in Workers
               PROVE  /\ Cardinality(InFlight(v)') =< Concurrency
                      /\ worker'[v].pc = "prepared" => Cardinality(InFlight(v)') < Concurrency
    BY DEF PipelineBound
  <1> QED
    BY <1>1, <1>2 DEF PipelineBound

LEMMA LaunchBound ==
    ASSUME Shapes, PipelineBound, NEW w \in Workers, LaunchBatch(w)
    PROVE  PipelineBound'
  <1> DEFINE r == At("sending", worker[w].campaign, worker[w].next + 1,
                     worker[w].launched \cup {worker[w].next}, worker[w].waiting)
  <1>1. worker' = [worker EXCEPT ![w] = r] /\ worker[w].pc = "prepared"
    BY DEF LaunchBatch
  <1> HIDE DEF r
  <1>2. worker'[w] = r /\ \A v \in Workers \ {w} : worker'[v] = worker[v]
    BY <1>1, WorkerAfter
  <1>3. InFlight(w)' = InFlight(w) \cup {worker[w].next} /\ worker'[w].pc = "sending"
    BY <1>2 DEF InFlight, r, At
  <1>4. Cardinality(InFlight(w)) < Concurrency
    BY <1>1 DEF PipelineBound
  <1>5. IsFiniteSet(InFlight(w)) /\ Cardinality(InFlight(w)) \in Nat
    BY InFlightFinite
  <1>6. Cardinality(InFlight(w) \cup {worker[w].next})
           \in {Cardinality(InFlight(w)), Cardinality(InFlight(w)) + 1}
    BY <1>5, FS_AddElement
  <1>7. Cardinality(InFlight(w)') =< Concurrency
    BY <1>3, <1>4, <1>5, <1>6, ExecutionAssumption
  <1>8. \A v \in Workers \ {w} : InFlight(v)' = InFlight(v)
    BY <1>2 DEF InFlight
  <1> SUFFICES ASSUME NEW v \in Workers
               PROVE  /\ Cardinality(InFlight(v)') =< Concurrency
                      /\ worker'[v].pc = "prepared" => Cardinality(InFlight(v)') < Concurrency
    BY DEF PipelineBound
  <1>9. CASE v = w
    BY <1>3, <1>7, <1>9
  <1>10. CASE v # w
    BY <1>2, <1>8, <1>10 DEF PipelineBound
  <1> QED
    BY <1>9, <1>10

LEMMA SendBound ==
    ASSUME Shapes, PipelineBound, NEW w \in Workers, SendBatch(w) \/ ProcessResult(w)
    PROVE  PipelineBound'
  <1>1. PICK launched \in SUBSET InFlight(w), waiting \in SUBSET InFlight(w) :
           worker' = [worker EXCEPT ![w] = At(worker[w].pc, worker[w].campaign,
                                             worker[w].next, launched, waiting)]
    BY DEF SendBatch, ProcessResult, InFlight
  <1> DEFINE r == At(worker[w].pc, worker[w].campaign, worker[w].next, launched, waiting)
  <1> HIDE DEF r
  <1>2. worker'[w] = r /\ \A v \in Workers \ {w} : worker'[v] = worker[v]
    BY <1>1, WorkerAfter DEF r
  <1>3. InFlight(w)' \subseteq InFlight(w) /\ worker'[w].pc = worker[w].pc
    BY <1>2 DEF InFlight, r, At
  <1> QED
    BY <1>2, <1>3, BoundFrame

LEMMA PipelineBoundStep ==
    ASSUME Shapes, PipelineBound, [Next]_vars
    PROVE  PipelineBound'
  <1>1. ASSUME NEW w \in Workers, runOnce(w) PROVE PipelineBound'
    <2>1. PICK c \in Campaigns : worker' = [worker EXCEPT ![w] = At("claiming", c, 1, {}, {})]
      BY <1>1 DEF runOnce
    <2>2. /\ worker'[w] = At("claiming", c, 1, {}, {})
          /\ \A v \in Workers \ {w} : worker'[v] = worker[v]
      BY <2>1, WorkerAfter
    <2>3. InFlight(w)' = {} /\ worker'[w].pc = "claiming"
      BY <2>2 DEF InFlight, At
    <2> QED
      BY <2>2, <2>3, BoundFrame
  <1>2. ASSUME NEW w \in Workers,
               \/ MoveCampaignToRunning(w) \/ FirstHeartbeat(w) \/ SaveCheckpoint(w)
               \/ AllBatchesSent(w) \/ MoveCampaignToExecuted(w) \/ Fails(w)
               \/ GiveUp(w) \/ ReleaseUnpreparedCampaign(w) \/ Crash(w)
        PROVE  PipelineBound'
    <2>1. Rest(w) \/ \E pc \in Busy \ {"prepared"} : Goto(w, pc)
      BY <1>2 DEF MoveCampaignToRunning, FirstHeartbeat, SaveCheckpoint, AllBatchesSent,
                  MoveCampaignToExecuted, Fails, GiveUp, ReleaseUnpreparedCampaign, Crash,
                  Busy
    <2> QED
      BY <2>1, RestBound, GotoBound
  <1>3. ASSUME worker' = worker PROVE PipelineBound'
    BY <1>3 DEF PipelineBound, InFlight
  <1> QED
    BY <1>1, <1>2, <1>3, PrepareBound, LaunchBound, SendBound
       DEF Next, processSMSCampaign, recoverStaleCampaignRuns, ServedLate,
           HeartbeatLapses, ScheduleHourEnds, vars

-----------------------------------------------------------------------------
(* The theorems *)

LEMMA InitInv == Init => ExecutionInv
  <1> SUFFICES ASSUME Init PROVE ExecutionInv
    OBVIOUS
  <1>1. \A w \in Workers : worker[w] = Idle
    BY DEF Init
  <1>2. Exclusive
    BY <1>1 DEF Exclusive, Holds, Idle, At, Busy
  <1>3. \A w \in Workers : Pipeline(w)
    BY <1>1 DEF Pipeline, Idle, At, Busy
  <1>4. \A c \in Campaigns : Recorded(c)
    BY DEF Init, Recorded
  <1> QED
    BY <1>2, <1>3, <1>4 DEF ExecutionInv

LEMMA ExecutionInvStep ==
    ASSUME Shapes, ExecutionInv, [Next]_vars
    PROVE  ExecutionInv'
  <1>1. ASSUME NEW w \in Workers, processSMSCampaign(w) PROVE ExecutionInv'
    BY <1>1, MoveCampaignToRunningInv, FirstHeartbeatInv, SaveCheckpointInv, PrepareInv,
       LaunchBatchInv, SendBatchInv, ProcessResultInv, AllBatchesSentInv,
       MoveCampaignToExecutedInv, FailsInv, GiveUpInv, ReleaseInv
       DEF processSMSCampaign
  <1>2. ASSUME NEW c \in Campaigns, ScheduleHourEnds(c) PROVE ExecutionInv'
    BY <1>2, QuietInv DEF ScheduleHourEnds
  <1>3. CASE UNCHANGED vars
    BY <1>3, QuietInv DEF vars
  <1> QED
    BY <1>1, <1>2, <1>3, RunOnceInv, CrashInv, RecoverStaleInv, ServedLateInv,
       HeartbeatLapsesInv DEF Next

LEMMA SafetyFromInv ==
    ASSUME Shapes, ExecutionInv
    PROVE  AtMostOneCall /\ CallsAreRecorded /\ StatusMatchesDelivery
  <1>1. \A c \in Campaigns : Recorded(c)
    BY DEF ExecutionInv
  <1> QED
    BY <1>1 DEF Recorded, Done, AtMostOneCall, CallsAreRecorded, StatusMatchesDelivery,
                InFlight

\* No recipient is handed to the provider twice, what it is handed is on record
\* first, and the status of a campaign tells what was sent of it: for every
\* number of campaigns, replicas, batches and calls in flight, whatever fails.
THEOREM ExecutionSafe ==
    Spec => [](AtMostOneCall /\ CallsAreRecorded /\ StatusMatchesDelivery)
  <1>1. Init => Shapes /\ ExecutionInv
    BY InitShapes, InitInv
  <1>2. Shapes /\ ExecutionInv /\ [Next]_vars => (Shapes /\ ExecutionInv)'
    <2>1. ExecutionInv => \A w \in Workers : Pipeline(w)
      BY DEF ExecutionInv
    <2> QED
      BY <2>1, ShapesStep, ExecutionInvStep
  <1>3. Shapes /\ ExecutionInv =>
           AtMostOneCall /\ CallsAreRecorded /\ StatusMatchesDelivery
    BY SafetyFromInv
  <1> QED
    BY <1>1, <1>2, <1>3, PTL DEF Spec

\* What the provider was given is on record: the recovery of a dead worker
\* sees every batch that may have been sent.
THEOREM RecordsPrecedeCalls == Spec => []CallsAreRecorded
  BY ExecutionSafe, PTL

\* The status of a campaign never claims more, or less, than was sent.
THEOREM StatusIsTrue == Spec => []StatusMatchesDelivery
  BY ExecutionSafe, PTL

\* The column types hold, and no campaign ever has more batches in flight than
\* batchSendConcurrency.
THEOREM PipelineBounded == Spec => []TypeOK
  <1> DEFINE Inv == Shapes /\ ExecutionInv /\ PipelineBound
  <1>1. Init => Inv
    <2>1. ASSUME Init PROVE PipelineBound
      <3>1. \A w \in Workers : InFlight(w) = {} /\ worker[w].pc = "idle"
        BY <2>1 DEF Init, InFlight, Idle, At
      <3> QED
        BY <3>1, FS_EmptySet, ExecutionAssumption DEF PipelineBound
    <2> QED
      BY <2>1, InitShapes, InitInv
  <1>2. Inv /\ [Next]_vars => Inv'
    <2>1. ExecutionInv => \A w \in Workers : Pipeline(w)
      BY DEF ExecutionInv
    <2> QED
      BY <2>1, ShapesStep, ExecutionInvStep, PipelineBoundStep
  <1>3. Inv => TypeOK
    BY DEF Shapes, PipelineBound, InFlight, TypeOK
  <1> QED
    BY <1>1, <1>2, <1>3, PTL DEF Spec

-----------------------------------------------------------------------------
(* CampaignExecution implements DeliveryContract *)

\* What the invariant does not say yet and the contract needs: an interrupted
\* campaign has no worker left that could send, and nothing is sent past the
\* end of an audience.
DeliveryInv ==
    /\ \A w \in Workers, c \in Campaigns : Holds(w, c) => status[c] # "interrupted"
    /\ \A c \in Campaigns, b \in Batch : b > audience[c] => calls[c][b] = 0

\* A worker holds what it held before, or what it just moved to running.
LEMMA NewHolder ==
    ASSUME Shapes, ExecutionInv, [Next]_vars,
           NEW v \in Workers, NEW c \in Campaigns, Holds(v, c)'
    PROVE  Holds(v, c) \/ status'[c] = "running"
  <1>1. ASSUME NEW w \in Workers, NEW pc, Goto(w, pc), worker[w].pc \in Busy
        PROVE  Holds(v, c)
    BY <1>1, GotoAfter DEF Holds
  <1>2. ASSUME NEW w \in Workers, Rest(w) PROVE Holds(v, c)
    BY <1>2, RestAfter DEF Holds, Busy
  <1>3. ASSUME worker' = worker PROVE Holds(v, c)
    BY <1>3 DEF Holds
  <1>4. ASSUME NEW w \in Workers, NEW pc, NEW n, NEW launched, NEW waiting,
               worker' = [worker EXCEPT ![w] = At(pc, worker[w].campaign, n, launched, waiting)],
               worker[w].pc \in Busy
        PROVE  Holds(v, c)
    <2> DEFINE r == At(pc, worker[w].campaign, n, launched, waiting)
    <2> HIDE DEF r
    <2>1. worker'[w] = r /\ \A u \in Workers \ {w} : worker'[u] = worker[u]
      BY <1>4, WorkerAfter DEF r
    <2>2. r.campaign = worker[w].campaign
      BY DEF r, At
    <2> QED
      BY <1>4, <2>1, <2>2 DEF Holds
  <1>5. ASSUME NEW w \in Workers, runOnce(w) PROVE Holds(v, c)
    <2>1. PICK d \in Campaigns : worker' = [worker EXCEPT ![w] = At("claiming", d, 1, {}, {})]
      BY <1>5 DEF runOnce
    <2>2. /\ worker'[w] = At("claiming", d, 1, {}, {})
          /\ \A u \in Workers \ {w} : worker'[u] = worker[u]
      BY <2>1, WorkerAfter
    <2> QED
      BY <2>2 DEF Holds, At, Busy
  <1>6. ASSUME NEW w \in Workers, MoveCampaignToRunning(w)
        PROVE  Holds(v, c) \/ status'[c] = "running"
    <2>1. CASE Transition(worker[w].campaign, "approved", "running") /\ Goto(w, "claimed")
      <3>1. c = worker[w].campaign \/ Holds(v, c)
        BY <2>1, GotoAfter DEF Holds
      <3> QED
        BY <2>1, <3>1 DEF Transition, Shapes
    <2> QED
      BY <1>2, <1>6, <2>1 DEF MoveCampaignToRunning
  <1>7. ASSUME NEW w \in Workers, LaunchBatch(w) PROVE Holds(v, c)
    BY <1>4, <1>7 DEF LaunchBatch, Busy
  <1>8. ASSUME NEW w \in Workers, SendBatch(w) \/ ProcessResult(w) PROVE Holds(v, c)
    <2>1. PICK launched, waiting :
             worker' = [worker EXCEPT ![w] = At(worker[w].pc, worker[w].campaign,
                                               worker[w].next, launched, waiting)]
      BY <1>8 DEF SendBatch, ProcessResult
    <2>2. InFlight(w) # {} /\ Pipeline(w)
      BY <1>8 DEF SendBatch, ProcessResult, InFlight, ExecutionInv
    <2>3. worker[w].pc \in Busy
      BY <2>2, WorkerFields DEF Pipeline, InFlight
    <2> QED
      BY <1>4, <2>1, <2>3
  <1>9. ASSUME NEW w \in Workers,
               \/ FirstHeartbeat(w) \/ SaveCheckpoint(w) \/ prepareSMSProviderBatch(w)
               \/ AllBatchesSent(w) \/ MoveCampaignToExecuted(w) \/ Fails(w)
               \/ GiveUp(w) \/ ReleaseUnpreparedCampaign(w) \/ Crash(w)
        PROVE  Holds(v, c)
    <2>1. Rest(w) \/ (worker[w].pc \in Busy /\ \E pc \in Busy : Goto(w, pc))
      BY <1>9 DEF FirstHeartbeat, SaveCheckpoint, prepareSMSProviderBatch, AllBatchesSent,
                  MoveCampaignToExecuted, Fails, GiveUp, Request,
                  ReleaseUnpreparedCampaign, Crash, Busy
    <2> QED
      BY <1>1, <1>2, <2>1
  <1> QED
    BY <1>3, <1>5, <1>6, <1>7, <1>8, <1>9
       DEF Next, processSMSCampaign, recoverStaleCampaignRuns, ServedLate,
           HeartbeatLapses, ScheduleHourEnds, vars

\* The call of a launched batch is the first one for it, and the campaign is
\* one that may still be sent.
LEMMA SendImplements ==
    ASSUME Shapes, ExecutionInv, DeliveryInv, NEW w \in Workers, SendBatch(w)
    PROVE  \E b \in Batch : Delivery!Send(worker[w].campaign, b)
  <1> DEFINE c == worker[w].campaign
             me == worker[w]
  <1>1. PICK b \in me.launched : calls' = [calls EXCEPT ![c][b] = @ + 1]
    BY DEF SendBatch
  <1>2. c \in Campaigns /\ Holds(w, c) /\ Pipeline(w)
    <2>1. Pipeline(w) /\ me.pc \notin {"idle", "claiming"}
      BY <1>1 DEF ExecutionInv, Pipeline
    <2> QED
      BY <2>1, WorkerFields DEF Pipeline, Holds, Busy
  <1>3. b \in Batch /\ calls[c][b] = 0 /\ b < me.next /\ me.next =< audience[c] + 1
    BY <1>1, <1>2, WorkerFields DEF Pipeline, Holds
  <1>4. me.next \in Nat /\ audience[c] \in Nat /\ b \in Nat \ {0}
    BY <1>2, <1>3, WorkerFields, BatchFacts DEF Shapes, Batch
  <1>5. b \in 1..audience[c]
    BY <1>3, <1>4
  <1>6. calls' = [calls EXCEPT ![c] = [calls[c] EXCEPT ![b] = 1]]
    BY <1>1, <1>3
  <1>7. status[c] = "running"
    <2>1. status[c] \in {"approved", "running", "executed", "interrupted"}
      BY <1>2 DEF Shapes
    <2>2. status[c] # "approved" /\ status[c] # "interrupted"
      BY <1>2 DEF ExecutionInv, Exclusive, DeliveryInv
    <2>3. ~Done(c)
      BY <1>1 DEF Done
    <2>4. status[c] # "executed"
      BY <1>2, <2>3 DEF ExecutionInv, Recorded
    <2> QED
      BY <2>1, <2>2, <2>4
  <1>8. UNCHANGED <<status, audience>>
    BY DEF SendBatch
  <1>9. Delivery!Send(c, b)
    BY <1>3, <1>5, <1>6, <1>7, <1>8 DEF Delivery!Send
  <1> QED
    BY <1>3, <1>9

\* A campaign is completed when nothing of it is left to send, by the worker
\* that sent it or by a request that this worker left behind.
LEMMA FinishImplements ==
    ASSUME Shapes, ExecutionInv, DeliveryInv, NEW c \in Campaigns, Done(c),
           Transition(c, "running", "executed"), UNCHANGED <<audience, calls>>
    PROVE  Delivery!Finish(c)
  <1>1. audience[c] \in 0..MaxBatches
    BY DEF Shapes
  <1>2. \A b \in 1..audience[c] : b \in Batch /\ calls[c][b] = 1
    BY <1>1, BatchFacts DEF Done, Batch
  <1>3. \A b \in Batch : b \notin 1..audience[c] => calls[c][b] = 0
    <2> TAKE b \in Batch
    <2> HAVE b \notin 1..audience[c]
    <2>1. b > audience[c]
      BY <1>1, BatchFacts DEF Batch
    <2> QED
      BY <2>1 DEF DeliveryInv
  <1>4. Delivery!Sent(c) = 1..audience[c]
    BY <1>2, <1>3 DEF Delivery!Sent
  <1> QED
    BY <1>4 DEF Delivery!Finish, Transition

\* A run that came to nothing goes back to the queue only if nothing was sent.
LEMMA AbandonImplements ==
    ASSUME Shapes, ExecutionInv, NEW selected \in SUBSET Campaigns,
           recoverUndeliveredCampaigns(selected), UNCHANGED <<audience, calls>>
    PROVE  \E requeued, interrupted \in SUBSET Campaigns :
              Delivery!Abandon(requeued, interrupted)
  <1> DEFINE found == {c \in selected : status[c] = "running"}
             requeued == {c \in found : ~HasDeliveryRecord(c)}
             interrupted == {c \in found : HasDeliveryRecord(c)}
  <1>1. \A c \in requeued : Delivery!Sent(c) = {}
    <2> SUFFICES ASSUME NEW c \in requeued, NEW b \in Batch PROVE calls[c][b] = 0
      BY DEF Delivery!Sent
    <2>1. c \in Campaigns /\ rows[c] \ {AuditRows} = {}
      BY DEF HasDeliveryRecord
    <2>2. b # AuditRows
      BY BatchFacts DEF Batch, AuditRows
    <2>3. calls[c][b] \in Nat /\ (calls[c][b] > 0 => b \in rows[c])
      BY <2>1 DEF Shapes, ExecutionInv, Recorded
    <2> QED
      BY <2>1, <2>2, <2>3
  <1>2. status' = [c \in Campaigns |-> IF c \in requeued THEN "approved"
                                       ELSE IF c \in interrupted THEN "interrupted"
                                       ELSE status[c]]
    BY DEF recoverUndeliveredCampaigns, Settled
  <1>3. \A c \in requeued \cup interrupted : status[c] = "running"
    OBVIOUS
  <1>4. requeued \in SUBSET Campaigns /\ interrupted \in SUBSET Campaigns
    OBVIOUS
  <1>5. Delivery!Abandon(requeued, interrupted)
    BY <1>1, <1>2, <1>3 DEF Delivery!Abandon
  <1> QED
    BY <1>4, <1>5

\* Every step of the execution is a step of the contract or none of its business.
LEMMA StepImplements ==
    ASSUME Shapes, ExecutionInv, DeliveryInv, [Next]_vars
    PROVE  [Delivery!Next]_(Delivery!vars)
  <1>1. ASSUME NEW w \in Workers, MoveCampaignToRunning(w)
        PROVE  [Delivery!Next]_(Delivery!vars)
    <2>1. CASE Transition(worker[w].campaign, "approved", "running")
      <3>1. worker[w].campaign \in Campaigns
        BY <1>1 DEF MoveCampaignToRunning, ExecutionInv, Pipeline
      <3>2. Delivery!Start(worker[w].campaign)
        BY <1>1, <2>1 DEF MoveCampaignToRunning, Transition, Delivery!Start
      <3> QED
        BY <3>1, <3>2 DEF Delivery!Next
    <2> QED
      BY <1>1, <2>1 DEF MoveCampaignToRunning, Delivery!vars
  <1>2. ASSUME NEW w \in Workers, SendBatch(w)
        PROVE  [Delivery!Next]_(Delivery!vars)
    <2>1. worker[w].campaign \in Campaigns
      BY <1>2 DEF SendBatch, ExecutionInv, Pipeline
    <2> QED
      BY <1>2, <2>1, SendImplements DEF Delivery!Next
  <1>3. ASSUME NEW w \in Workers, MoveCampaignToExecuted(w)
        PROVE  [Delivery!Next]_(Delivery!vars)
    <2>1. CASE Transition(worker[w].campaign, "running", "executed")
      <3>1. worker[w].campaign \in Campaigns /\ Done(worker[w].campaign)
        BY <1>3, CompletingIsDone DEF MoveCampaignToExecuted
      <3>2. Delivery!Finish(worker[w].campaign)
        BY <1>3, <2>1, <3>1, FinishImplements DEF MoveCampaignToExecuted
      <3> QED
        BY <3>1, <3>2 DEF Delivery!Next
    <2> QED
      BY <1>3, <2>1 DEF MoveCampaignToExecuted, Delivery!vars
  <1>4. ASSUME NEW w \in Workers, ReleaseUnpreparedCampaign(w)
        PROVE  [Delivery!Next]_(Delivery!vars)
    <2>1. {worker[w].campaign} \in SUBSET Campaigns
      BY <1>4 DEF ReleaseUnpreparedCampaign, ExecutionInv, Pipeline
    <2>2. UNCHANGED <<audience, calls>>
      BY <1>4 DEF ReleaseUnpreparedCampaign
    <2>3. CASE recoverUndeliveredCampaigns({worker[w].campaign})
      <3>1. \E requeued, interrupted \in SUBSET Campaigns :
               Delivery!Abandon(requeued, interrupted)
        BY ONLY Shapes, ExecutionInv, <2>1, <2>2, <2>3, AbandonImplements
      <3> QED
        BY <3>1 DEF Delivery!Next
    <2> QED
      BY <1>4, <2>2, <2>3 DEF ReleaseUnpreparedCampaign, Delivery!vars
  <1>5. ASSUME recoverStaleCampaignRuns PROVE [Delivery!Next]_(Delivery!vars)
    <2>1. StaleRuns \in SUBSET Campaigns
      BY DEF StaleRuns
    <2>2. recoverUndeliveredCampaigns(StaleRuns) /\ UNCHANGED <<audience, calls>>
      BY <1>5 DEF recoverStaleCampaignRuns
    <2>3. \E requeued, interrupted \in SUBSET Campaigns :
             Delivery!Abandon(requeued, interrupted)
      BY ONLY Shapes, ExecutionInv, <2>1, <2>2, AbandonImplements
    <2> QED
      BY <2>3 DEF Delivery!Next
  <1>6. ASSUME NEW c \in Campaigns, ServedLate(c)
        PROVE  [Delivery!Next]_(Delivery!vars)
    <2>1. UNCHANGED <<audience, calls>>
      BY <1>6 DEF ServedLate
    <2>2. CASE Transition(c, "approved", "running")
      BY <2>1, <2>2 DEF Transition, Delivery!Start, Delivery!Next
    <2>3. CASE <<c, "executed">> \in orphans /\ Transition(c, "running", "executed")
      <3>1. Done(c)
        BY <2>3 DEF ExecutionInv, Recorded
      <3>2. Delivery!Finish(c)
        BY <2>1, <2>3, <3>1, FinishImplements
      <3> QED
        BY <3>2 DEF Delivery!Next
    <2> QED
      BY <1>6, <2>2, <2>3 DEF ServedLate
  <1>7. ASSUME UNCHANGED <<status, audience, calls>> PROVE [Delivery!Next]_(Delivery!vars)
    BY <1>7 DEF Delivery!vars
  <1>8. ASSUME NEW w \in Workers,
               \/ runOnce(w) \/ FirstHeartbeat(w) \/ SaveCheckpoint(w)
               \/ prepareSMSProviderBatch(w) \/ LaunchBatch(w) \/ ProcessResult(w)
               \/ AllBatchesSent(w) \/ Fails(w) \/ GiveUp(w) \/ Crash(w)
        PROVE  UNCHANGED <<status, audience, calls>>
    BY <1>8 DEF runOnce, FirstHeartbeat, SaveCheckpoint, prepareSMSProviderBatch,
                LaunchBatch, ProcessResult, AllBatchesSent, Fails, GiveUp, Crash
  <1>9. ASSUME NEW c \in Campaigns, HeartbeatLapses(c) \/ ScheduleHourEnds(c)
        PROVE  UNCHANGED <<status, audience, calls>>
    BY <1>9 DEF HeartbeatLapses, ScheduleHourEnds
  <1>10. UNCHANGED vars => UNCHANGED <<status, audience, calls>>
    BY DEF vars
  <1> QED
    BY <1>1, <1>2, <1>3, <1>4, <1>5, <1>6, <1>7, <1>8, <1>9, <1>10
       DEF Next, processSMSCampaign

\* A step interrupts a campaign only when its last worker is gone.
LEMMA NewInterruption ==
    ASSUME Shapes, ExecutionInv, [Next]_vars,
           NEW v \in Workers, NEW c \in Campaigns, Holds(v, c)', status'[c] = "interrupted"
    PROVE  status[c] = "interrupted"
  <1>1. ASSUME NEW selected \in SUBSET Campaigns, recoverUndeliveredCampaigns(selected),
               c \notin selected
        PROVE  status'[c] = status[c]
    BY <1>1 DEF recoverUndeliveredCampaigns, Shapes
  <1>2. ASSUME NEW d \in Campaigns, NEW from, NEW to, to # "interrupted",
               Transition(d, from, to)
        PROVE  status[c] = "interrupted"
    BY <1>2 DEF Transition, Shapes
  <1>3. ASSUME NEW w \in Workers, ReleaseUnpreparedCampaign(w)
        PROVE  status[c] = "interrupted"
    <2>1. worker[w].campaign \in Campaigns /\ Holds(w, worker[w].campaign)
      BY <1>3 DEF ReleaseUnpreparedCampaign, ExecutionInv, Pipeline, Holds, Busy
    <2>2. v # w /\ Holds(v, c)
      BY <1>3, RestAfter DEF ReleaseUnpreparedCampaign, Holds, Busy
    <2>3. c # worker[w].campaign
      BY <2>1, <2>2 DEF ExecutionInv, Exclusive
    <2>4. CASE recoverUndeliveredCampaigns({worker[w].campaign})
      <3>1. {worker[w].campaign} \in SUBSET Campaigns /\ c \notin {worker[w].campaign}
        BY <2>1, <2>3
      <3> QED
        BY <1>1, <2>4, <3>1
    <2> QED
      BY <1>3, <2>4 DEF ReleaseUnpreparedCampaign
  <1>4. ASSUME recoverStaleCampaignRuns PROVE status[c] = "interrupted"
    <2>1. Holds(v, c)
      BY <1>4 DEF recoverStaleCampaignRuns, Holds
    <2>2. c \notin StaleRuns /\ StaleRuns \in SUBSET Campaigns
      BY <2>1 DEF ExecutionInv, Exclusive, StaleRuns
    <2> QED
      BY <1>1, <1>4, <2>2 DEF recoverStaleCampaignRuns
  <1>5. ASSUME NEW w \in Workers, MoveCampaignToRunning(w) \/ MoveCampaignToExecuted(w)
        PROVE  status[c] = "interrupted"
    <2>1. worker[w].campaign \in Campaigns
      BY <1>5 DEF MoveCampaignToRunning, MoveCampaignToExecuted, ExecutionInv, Pipeline
    <2> QED
      BY <1>2, <1>5, <2>1 DEF MoveCampaignToRunning, MoveCampaignToExecuted
  <1>6. ASSUME NEW d \in Campaigns, ServedLate(d) PROVE status[c] = "interrupted"
    BY <1>2, <1>6 DEF ServedLate
  <1>7. ASSUME status' = status PROVE status[c] = "interrupted"
    BY <1>7
  <1>8. ASSUME NEW w \in Workers,
               \/ runOnce(w) \/ FirstHeartbeat(w) \/ SaveCheckpoint(w)
               \/ prepareSMSProviderBatch(w) \/ LaunchBatch(w) \/ SendBatch(w)
               \/ ProcessResult(w) \/ AllBatchesSent(w) \/ Fails(w) \/ GiveUp(w) \/ Crash(w)
        PROVE  status' = status
    BY <1>8 DEF runOnce, FirstHeartbeat, SaveCheckpoint, prepareSMSProviderBatch, SendBatch,
                LaunchBatch, ProcessResult, AllBatchesSent, Fails, GiveUp, Crash
  <1>9. ASSUME NEW d \in Campaigns, HeartbeatLapses(d) \/ ScheduleHourEnds(d)
        PROVE  status' = status
    BY <1>9 DEF HeartbeatLapses, ScheduleHourEnds
  <1>10. UNCHANGED vars => status' = status
    BY DEF vars
  <1> QED
    BY <1>3, <1>4, <1>5, <1>6, <1>7, <1>8, <1>9, <1>10 DEF Next, processSMSCampaign

LEMMA DeliveryInvStep ==
    ASSUME Shapes, ExecutionInv, DeliveryInv, [Next]_vars
    PROVE  DeliveryInv'
  <1>1. ASSUME NEW v \in Workers, NEW c \in Campaigns, Holds(v, c)'
        PROVE  status'[c] # "interrupted"
    BY <1>1, NewHolder, NewInterruption DEF DeliveryInv
  <1>2. ASSUME NEW c \in Campaigns, NEW b \in Batch, b > audience'[c]
        PROVE  calls'[c][b] = 0
    <2>1. [Delivery!Next]_(Delivery!vars)
      BY StepImplements
    <2>2. audience' = audience
      BY <2>1 DEF Delivery!Next, Delivery!Start, Delivery!Send, Delivery!Finish,
                  Delivery!Abandon, Delivery!vars
    <2>3. CASE calls' = calls
      BY <1>2, <2>2, <2>3 DEF DeliveryInv
    <2>4. ASSUME NEW d \in Campaigns, NEW k \in Batch, Delivery!Send(d, k)
          PROVE  calls'[c][b] = 0
      <3>1. calls[c] \in [Batch -> Nat] /\ audience[d] \in Nat /\ audience[c] \in Nat
        BY BatchFacts DEF Shapes
      <3>2. c # d \/ b # k
        BY <1>2, <2>2, <2>4, <3>1 DEF Delivery!Send, Batch
      <3>3. calls'[c][b] = calls[c][b]
        BY <2>4, <3>1, <3>2 DEF Delivery!Send, Shapes
      <3> QED
        BY <1>2, <2>2, <3>3 DEF DeliveryInv
    <2> QED
      BY <2>1, <2>3, <2>4 DEF Delivery!Next, Delivery!Start, Delivery!Finish,
                              Delivery!Abandon, Delivery!vars
  <1> QED
    BY <1>1, <1>2 DEF DeliveryInv

LEMMA InitImplements ==
    ASSUME Init
    PROVE  Delivery!Init /\ DeliveryInv
  <1>1. 0..MaxBatches \subseteq Nat
    BY ExecutionAssumption
  <1>2. Delivery!Init
    BY <1>1 DEF Init, Delivery!Init
  <1> QED
    BY <1>2 DEF Init, DeliveryInv, Holds, Busy, Idle, At

\* The execution implements its contract for every number of campaigns,
\* replicas, batches and calls in flight: whatever fails or comes late, a
\* message is sent once, for a running campaign, and a campaign's end is the
\* one its messages allow.
THEOREM ExecutionImplementsDelivery == Spec => ImplementsDelivery
  <1> DEFINE Inv == Shapes /\ ExecutionInv /\ DeliveryInv
  <1>1. Init => Inv /\ Delivery!Init
    BY InitShapes, InitInv, InitImplements
  <1>2. Inv /\ [Next]_vars => Inv'
    <2>1. ExecutionInv => \A w \in Workers : Pipeline(w)
      BY DEF ExecutionInv
    <2> QED
      BY <2>1, ShapesStep, ExecutionInvStep, DeliveryInvStep
  <1>3. Inv /\ [Next]_vars => [Delivery!Next]_(Delivery!vars)
    BY StepImplements
  <1> QED
    BY <1>1, <1>2, <1>3, PTL DEF Spec, ImplementsDelivery, Delivery!Spec

=============================================================================
