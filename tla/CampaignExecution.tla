------------------------- MODULE CampaignExecution -------------------------
(***************************************************************************)
(* The execution of approved campaigns: every replica of the scheduler     *)
(* lists the campaigns that are due, claims one by moving it to running,   *)
(* persists a checkpoint and the send intent of each batch, heartbeats and *)
(* only then calls the provider.  Calls to the API server are HTTP         *)
(* requests: a client may give up on one that is still served later.  A    *)
(* worker may fail at any step or crash; its claim is settled by its own   *)
(* release or, when it went stale, by the recovery of any replica.         *)
(*                                                                         *)
(* The four platform schedulers share this protocol; the batch pipeline is *)
(* the SMS one, of which the sequential loops of Bale, Rubika and Splus    *)
(* are the case Concurrency = 1.  A batch of recipients is a number.       *)
(***************************************************************************)
EXTENDS Naturals, FiniteSets

CONSTANTS
    Campaigns,      \* campaigns of the platform, all approved at the start
    Workers,        \* goroutines that process campaigns, over all replicas
    NoCampaign,     \* the campaign of an idle worker
    MaxBatches,     \* bound on the batches of a campaign's audience
    Concurrency     \* batches in flight at once (batchSendConcurrency)

ASSUME ExecutionAssumption ==
    /\ NoCampaign \notin Campaigns
    /\ MaxBatches \in Nat
    /\ Concurrency \in Nat \ {0}

VARIABLES
    status,         \* campaigns.status
    due,            \* schedule_at lies within the last hour
    stale,          \* updated_at is older than campaignExecutionStaleAfter
    audience,       \* number of batches the reserved audience makes
    checkpoint,     \* processed_campaigns: none, a current one, only retired ones
    rows,           \* batches with sent rows; 0 stands for Excel audit rows
    calls,          \* provider calls made for each batch
    worker,         \* what each worker is doing
    orphans         \* requests still to be served whose client gave up

vars == <<status, due, stale, audience, checkpoint, rows, calls, worker, orphans>>

Batch == 1..MaxBatches
AuditRows == 0

Worker ==
    [pc : {"idle", "claiming", "claimed", "fetching", "sending", "prepared",
           "completing", "draining"},
     campaign : Campaigns \cup {NoCampaign},
     next : 1..(MaxBatches + 1),
     launched : SUBSET Batch,
     waiting : SUBSET Batch]

At(pc, c, next, launched, waiting) ==
    [pc |-> pc, campaign |-> c, next |-> next, launched |-> launched,
     waiting |-> waiting]
Idle == At("idle", NoCampaign, 1, {}, {})

\* The column types, and no more batches in flight than the pipeline admits.
TypeOK ==
    /\ status \in [Campaigns -> {"approved", "running", "executed", "interrupted"}]
    /\ due \in [Campaigns -> BOOLEAN]
    /\ stale \in [Campaigns -> BOOLEAN]
    /\ audience \in [Campaigns -> 0..MaxBatches]
    /\ checkpoint \in [Campaigns -> {"none", "current", "retired"}]
    /\ rows \in [Campaigns -> SUBSET (Batch \cup {AuditRows})]
    /\ calls \in [Campaigns -> [Batch -> Nat]]
    /\ worker \in [Workers -> Worker]
    /\ \A w \in Workers :
          Cardinality(worker[w].launched \cup worker[w].waiting) =< Concurrency
    /\ orphans \subseteq Campaigns \X {"running", "executed"}

Init ==
    /\ status = [c \in Campaigns |-> "approved"]
    /\ due = [c \in Campaigns |-> TRUE]
    /\ stale = [c \in Campaigns |-> FALSE]
    /\ audience \in [Campaigns -> 0..MaxBatches]
    /\ checkpoint = [c \in Campaigns |-> "none"]
    /\ rows = [c \in Campaigns |-> {}]
    /\ calls = [c \in Campaigns |-> [b \in Batch |-> 0]]
    /\ worker = [w \in Workers |-> Idle]
    /\ orphans = {}

-----------------------------------------------------------------------------
(* Steps of a worker                                                       *)

Goto(w, pc) ==
    worker' = [worker EXCEPT ![w] = At(pc, @.campaign, @.next, @.launched, @.waiting)]

Rest(w) == worker' = [worker EXCEPT ![w] = Idle]

InFlight(w) == worker[w].launched \cup worker[w].waiting

\* ListReadyCampaigns and the checkpoint test of runOnce.
Ready(c) == status[c] = "approved" /\ due[c] /\ checkpoint[c] # "current"

\* A tick lists a campaign; its worker will ask the server to move it to
\* running, however much later its group gets to it.
runOnce(w) ==
    /\ worker[w].pc = "idle"
    /\ \E c \in Campaigns :
          /\ Ready(c)
          /\ worker' = [worker EXCEPT ![w] = At("claiming", c, 1, {}, {})]
    /\ UNCHANGED <<status, due, stale, audience, checkpoint, rows, calls, orphans>>

\* The server's transaction for a request to move c from one status to another.
Transition(c, from, to) ==
    /\ status[c] = from
    /\ status' = [status EXCEPT ![c] = to]
    /\ stale' = [stale EXCEPT ![c] = FALSE]

\* The claim is granted, or refused because the campaign is not approved.
MoveCampaignToRunning(w) ==
    /\ worker[w].pc = "claiming"
    /\ \/ /\ Transition(worker[w].campaign, "approved", "running")
          /\ Goto(w, "claimed")
       \/ /\ status[worker[w].campaign] # "approved"
          /\ Rest(w)
          /\ UNCHANGED <<status, stale>>
    /\ UNCHANGED <<due, audience, checkpoint, rows, calls, orphans>>

\* Heartbeat: it renews updated_at only while the campaign is running.
TouchRunningCampaign(c) ==
    /\ status[c] = "running"
    /\ stale' = [stale EXCEPT ![c] = FALSE]

FirstHeartbeat(w) ==
    /\ worker[w].pc = "claimed"
    /\ TouchRunningCampaign(worker[w].campaign)
    /\ Goto(w, "fetching")
    /\ UNCHANGED <<status, due, audience, checkpoint, rows, calls, orphans>>

\* The audience is fetched and its checkpoint saved; the index on current
\* checkpoints admits one per campaign.  Unmatched Excel rows leave audit rows.
SaveCheckpoint(w) ==
    LET c == worker[w].campaign IN
    /\ worker[w].pc = "fetching"
    /\ checkpoint[c] # "current"
    /\ checkpoint' = [checkpoint EXCEPT ![c] = "current"]
    /\ \E unmatched \in SUBSET {AuditRows} :
          rows' = [rows EXCEPT ![c] = @ \cup unmatched]
    /\ Goto(w, "sending")
    /\ UNCHANGED <<status, due, stale, audience, calls, orphans>>

\* Mutant of MoreBatches: one batch past the end of the audience.
MoreBatchesOffByOne(w) == worker[w].next - 1 =< audience[worker[w].campaign]

MoreBatches(w) == worker[w].next =< audience[worker[w].campaign]

\* Mutant of SavedRows: they are not persisted before the provider is called.
RowsNotSaved(c, b) == rows[c]

\* The sent rows of a batch, persisted before the provider is called.
SavedRows(c, b) == rows[c] \cup {b}

prepareSMSProviderBatch(w) ==
    LET c == worker[w].campaign IN
    /\ worker[w].pc = "sending"
    /\ MoreBatches(w)
    /\ Cardinality(InFlight(w)) < Concurrency
    /\ rows' = [rows EXCEPT ![c] = SavedRows(c, worker[w].next)]
    /\ Goto(w, "prepared")
    /\ UNCHANGED <<status, due, stale, audience, checkpoint, calls, orphans>>

\* The claim is checked once more and the batch handed to a goroutine.
LaunchBatch(w) ==
    /\ worker[w].pc = "prepared"
    /\ TouchRunningCampaign(worker[w].campaign)
    /\ worker' = [worker EXCEPT ![w] = At("sending", @.campaign, @.next + 1,
                                          @.launched \cup {@.next}, @.waiting)]
    /\ UNCHANGED <<status, due, audience, checkpoint, rows, calls, orphans>>

SendBatch(w) ==
    \E b \in worker[w].launched :
       /\ calls' = [calls EXCEPT ![worker[w].campaign][b] = @ + 1]
       /\ worker' = [worker EXCEPT ![w] = At(@.pc, @.campaign, @.next,
                                             @.launched \ {b}, @.waiting \cup {b})]
       /\ UNCHANGED <<status, due, stale, audience, checkpoint, rows, orphans>>

\* A call ends; an error is recorded like a result and does not end the run.
ProcessResult(w) ==
    \E b \in worker[w].waiting :
       /\ worker' = [worker EXCEPT ![w] = At(@.pc, @.campaign, @.next,
                                             @.launched, @.waiting \ {b})]
       /\ UNCHANGED <<status, due, stale, audience, checkpoint, rows, calls, orphans>>

AllBatchesSent(w) ==
    /\ worker[w].pc = "sending"
    /\ ~MoreBatches(w)
    /\ InFlight(w) = {}
    /\ Goto(w, "completing")
    /\ UNCHANGED <<status, due, stale, audience, checkpoint, rows, calls, orphans>>

MoveCampaignToExecuted(w) ==
    /\ worker[w].pc = "completing"
    /\ \/ /\ Transition(worker[w].campaign, "running", "executed")
          /\ Rest(w)
       \/ /\ status[worker[w].campaign] # "running"
          /\ Goto(w, "draining")
          /\ UNCHANGED <<status, stale>>
    /\ UNCHANGED <<due, audience, checkpoint, rows, calls, orphans>>

-----------------------------------------------------------------------------
(* Failures                                                                *)

\* An error of any step, a lost claim or the end of the worker's context: no
\* further batch is admitted, those in flight are waited for.
Fails(w) ==
    /\ worker[w].pc \in {"claimed", "fetching", "sending", "prepared"}
    /\ Goto(w, "draining")
    /\ UNCHANGED <<status, due, stale, audience, checkpoint, rows, calls, orphans>>

\* The request a worker is waiting on, if any.
Request(w) ==
    CASE worker[w].pc = "claiming"   -> {<<worker[w].campaign, "running">>}
      [] worker[w].pc = "completing" -> {<<worker[w].campaign, "executed">>}
      [] OTHER                       -> {}

\* The client gives up on a request that may never be served, or be served
\* later.  A worker without a claim has nothing to release.
GiveUp(w) ==
    /\ Request(w) # {}
    /\ orphans' = orphans \cup Request(w)
    /\ IF worker[w].pc = "claiming" THEN Rest(w) ELSE Goto(w, "draining")
    /\ UNCHANGED <<status, due, stale, audience, checkpoint, rows, calls>>

ServedLate(c) ==
    /\ \/ /\ <<c, "running">> \in orphans
          /\ Transition(c, "approved", "running")
          /\ orphans' = orphans \ {<<c, "running">>}
       \/ /\ <<c, "executed">> \in orphans
          /\ Transition(c, "running", "executed")
          /\ orphans' = orphans \ {<<c, "executed">>}
    /\ UNCHANGED <<due, audience, checkpoint, rows, calls, worker>>

\* The process dies with whatever it had not yet persisted or sent.
Crash(w) ==
    /\ worker[w].pc # "idle"
    /\ orphans' = orphans \cup Request(w)
    /\ Rest(w)
    /\ UNCHANGED <<status, due, stale, audience, checkpoint, rows, calls>>

\* Mutant of HasDeliveryRecord: audit rows count as delivery records.
AnySentRow(c) == rows[c] # {}

\* campaignHasDeliveryRecordSQL: a sent row with a phone number, of any attempt.
HasDeliveryRecord(c) == rows[c] \ {AuditRows} # {}

Settled(c) == IF HasDeliveryRecord(c) THEN "interrupted" ELSE "approved"

\* One transaction: retire the checkpoints of the undelivered campaigns among
\* those selected and running, requeue these, interrupt the others.
recoverUndeliveredCampaigns(selected) ==
    LET found == {c \in selected : status[c] = "running"} IN
    /\ status' = [c \in Campaigns |-> IF c \in found THEN Settled(c) ELSE status[c]]
    /\ checkpoint' = [c \in Campaigns |->
          IF c \in found /\ Settled(c) = "approved" /\ checkpoint[c] = "current"
          THEN "retired" ELSE checkpoint[c]]
    /\ stale' = [c \in Campaigns |-> stale[c] /\ c \notin found]

\* The deferred release of a failed run.  It settles the campaign, whoever
\* holds its claim, or fails and leaves the claim to go stale.
ReleaseUnpreparedCampaign(w) ==
    /\ worker[w].pc = "draining"
    /\ InFlight(w) = {}
    /\ Rest(w)
    /\ \/ recoverUndeliveredCampaigns({worker[w].campaign})
       \/ UNCHANGED <<status, checkpoint, stale>>
    /\ UNCHANGED <<due, audience, rows, calls, orphans>>

\* Mutant of StaleRuns: only runs that reached their checkpoint are recovered.
StaleCheckpoints == {c \in Campaigns : stale[c] /\ checkpoint[c] = "current"}

StaleRuns == {c \in Campaigns : stale[c]}

\* The first thing every tick of every replica does.
recoverStaleCampaignRuns ==
    /\ {c \in StaleRuns : status[c] = "running"} # {}
    /\ recoverUndeliveredCampaigns(StaleRuns)
    /\ UNCHANGED <<due, audience, rows, calls, worker, orphans>>

-----------------------------------------------------------------------------
(* Time                                                                    *)

\* A worker's context ends after campaignExecutionTimeout = 8 h, so a claim
\* that has gone 10 h without a heartbeat has no worker left.
Held(c) == \E w \in Workers :
              worker[w].campaign = c /\ worker[w].pc \notin {"idle", "claiming"}

\* Ten hours pass without a heartbeat; the hour of the schedule is long over.
HeartbeatLapses(c) ==
    /\ status[c] = "running"
    /\ ~stale[c]
    /\ ~Held(c)
    /\ stale' = [stale EXCEPT ![c] = TRUE]
    /\ due' = [due EXCEPT ![c] = FALSE]
    /\ UNCHANGED <<status, audience, checkpoint, rows, calls, worker, orphans>>

\* The hour in which ListReadyCampaigns returns the campaign ends.
ScheduleHourEnds(c) ==
    /\ due[c]
    /\ due' = [due EXCEPT ![c] = FALSE]
    /\ UNCHANGED <<status, stale, audience, checkpoint, rows, calls, worker, orphans>>

-----------------------------------------------------------------------------

\* processSMSCampaign, from the claim to its end.
processSMSCampaign(w) ==
    \/ MoveCampaignToRunning(w) \/ FirstHeartbeat(w) \/ SaveCheckpoint(w)
    \/ prepareSMSProviderBatch(w) \/ LaunchBatch(w) \/ SendBatch(w)
    \/ ProcessResult(w) \/ AllBatchesSent(w) \/ MoveCampaignToExecuted(w)
    \/ Fails(w) \/ GiveUp(w) \/ ReleaseUnpreparedCampaign(w)

Next ==
    \/ \E w \in Workers : runOnce(w) \/ processSMSCampaign(w) \/ Crash(w)
    \/ recoverStaleCampaignRuns
    \/ \E c \in Campaigns : ServedLate(c) \/ HeartbeatLapses(c) \/ ScheduleHourEnds(c)

Spec == Init /\ [][Next]_vars

\* Ticks keep coming and list what is ready, no call outlives its context,
\* time passes.  Nothing makes a late request arrive or a worker succeed.
Fairness ==
    /\ \A w \in Workers : WF_vars(runOnce(w)) /\ WF_vars(processSMSCampaign(w))
    /\ WF_vars(recoverStaleCampaignRuns)
    /\ \A c \in Campaigns : WF_vars(HeartbeatLapses(c))

FairSpec == Spec /\ Fairness

-----------------------------------------------------------------------------
(* Properties                                                              *)

\* No recipient is handed to the provider twice, whatever fails or crashes
\* and however often the campaign is requeued.
AtMostOneCall ==
    \A c \in Campaigns, b \in Batch : calls[c][b] =< 1

\* Whatever the provider was given is on record before it is given, so the
\* recovery of a dead worker can see it.
CallsAreRecorded ==
    \A c \in Campaigns, b \in Batch : calls[c][b] > 0 => b \in rows[c]

\* The status tells what the provider was asked to do: a campaign in the queue
\* was never sent in part, an interrupted one has a delivery record, an
\* executed one was sent in full with no call left in flight.
StatusMatchesDelivery ==
    \A c \in Campaigns :
       /\ status[c] = "approved" =>
             rows[c] \subseteq {AuditRows} /\ checkpoint[c] # "current"
       /\ status[c] = "interrupted" => rows[c] \cap Batch # {}
       /\ status[c] = "executed" =>
             /\ \A b \in 1..audience[c] : calls[c][b] = 1
             /\ \A w \in Workers : worker[w].campaign = c => InFlight(w) = {}

Delivery == INSTANCE DeliveryContract

\* The execution implements DeliveryContract, whatever fails, crashes or comes
\* late: the status a campaign has at any time is the one that its history of
\* messages allows, and no message is sent for a campaign that is not running.
ImplementsDelivery == Delivery!Spec

\* No claim lasts for ever: a running campaign ends, is interrupted or goes
\* back to the queue even if its worker, its release or a reply is lost.
EveryClaimEnds ==
    \A c \in Campaigns : status[c] = "running" ~> status[c] # "running"

\* What the comment on the recovery says of a stale run that sent nothing: it is
\* requeued and can be retried, so in the end it runs again.
RecoveredIsRetried ==
    \A c \in Campaigns :
       status[c] = "running" /\ stale[c] /\ ~HasDeliveryRecord(c)
          ~> status[c] = "running" /\ ~stale[c]

=============================================================================
