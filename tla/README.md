# A formal model of the Yamata no Orochi backend

This directory holds TLA+ models of the parts of the backend (Go module
`github.com/amirphl/Yamata-no-Orochi`) where money, messages and concurrency meet: TLC
configurations that check them on small instances, and theorems about them checked by TLAPS. Paths
below are relative to the repository root, `src/` in `PROJECT.json`.

    tlc -workers 2 -config RefundQueue.cfg RefundQueue.tla
    tlc -workers 2 -config MCClickSync.cfg MCClickSync.tla
    tlapm ClickSyncProofs.tla

Every run names its module and its cfg in `PROJECT.json`; every module `<M>Proofs` holds the theorems
about `<M>`.

Sections: [the system](#the-system) · [plan](#plan) · [CampaignFunds](#campaignfunds-and-escrowcontract) ·
[RefundQueue](#refundqueue-and-refundcontract) · [CampaignExecution](#campaignexecution-and-deliverycontract) ·
[AudienceReservations](#audiencereservations) · [Recharges](#recharges) ·
[ShortLinks](#shortlinks) · [ClickSync](#clicksync) · [TagEvaluation](#tagevaluation) ·
[runs](#runs) · [findings](#what-the-violation-runs-found) ·
[what else the models show](#what-else-the-models-show) · [proofs](#proofs) ·
[limits](#what-is-not-modelled-and-what-stays-with-tlc)

## The system

A customer plans message campaigns (SMS, Bale, Rubika, Splus), pays for them out of a wallet, an
administrator approves them, a scheduler sends them through external providers, and undelivered
messages are refunded. Several replicas of one process serve the API and run the schedulers; they
share one PostgreSQL database and nothing else. There is no message broker: queues are tables.

| Component | State | Operations | What is hard | What makes it correct |
| --- | --- | --- | --- | --- |
| Campaign life cycle (`business_flow/campaign_flow.go`, `campaign_admin_flow.go`, `campaign_bot_flow.go`) | `campaigns` rows | create, update, finalize, approve, reject, two kinds of cancellation, reschedule, move to running and executed, statistics | handlers of customer, administrator and bot on one row; some read before they lock | the status tells what was reserved, paid and returned; transitions are serialized |
| Wallet and ledger (`payment_flow.go`, `models/balance_snapshot.go`, `models/transaction.go`) | immutable balance snapshots, transactions | freeze, consume, refund, recharge | each snapshot is derived from the latest one | money is neither created nor lost, the ledger explains the balances |
| Refund queue (`repository/campaign_refund_reconciliation_repository.go`, `app/scheduler/campaign_refund_reconciliation_scheduler.go`, migration 0153) | job rows with leases, cursor, goroutines in flight | trigger, discovery, claim, reconcile, complete, retry, manual review | crashes, lapsed leases, lost acknowledgements, replicas | at most one refund, every executed campaign settled |
| Campaign execution (`app/scheduler/sms_campaign_scheduler.go` and three siblings, `app/scheduler/shared.go`, `repository/campaign_execution_repository.go`) | campaign claim and heartbeat, checkpoint, sent rows | list, claim, checkpoint, send intent, provider call, release, stale recovery | crash around the provider call, late HTTP requests, no owner in the claim | no recipient is sent twice, the status matches what was sent, claims end |
| Card payments (`payment_flow.go`) | payment requests | request, callback, verification | repeated and late callbacks | one credit per request |
| Crypto payments (`crypto_payment_flow.go`) | crypto requests and deposits | webhook, status poll, manual verification | three paths credit one deposit | one credit per request |
| Deposit receipts (`payment_admin_flow.go`) | receipts | upload, accept, reject | two administrators | one credit per receipt |
| Bundles and reservations (`bundle_flow.go`, `repository/campaign_targeting_test_sample_selection_repository.go`, `repository/bundle_audience_selection_repository.go`) | claims of finalized campaigns, permanent selections of executed ones | reserve, release, materialize | claims made and given back at six places, two phases, drafts saved late | an audience hears from one campaign of its bundle; a claim lasts as long as the money |
| Smart targeting (`smart_targeting_execution_calculation_flow.go`, `smart_targeting_sampling_flow.go` and two schedulers) | calculations and samplings with leases, members and fingerprints | request, claim, scan, publish, commit | a scan of minutes without a lock, superseded and overtaken workers | only results that are still current are used |
| Tag evaluation (`bundle_tag_evaluation_flow.go`, `app/scheduler/bundle_tag_evaluation_scheduler.go`) | runs, batches, attempts, scores and events, only ever inserted | request, list, lock, analyse the persona, score the batches, complete | unclaimed lists, several batches at a time, paid calls, resumption after an hour or a crash | an evaluated run has its scores and stays; paid answers are used; runs end |
| Tag performance, reports, action files | job tables | list, lease, compute, store | replicas | one result per job |
| Short links (`bot_short_link_flow.go`, `admin_short_link_flow.go`, `repository/short_link_repository.go`, `repository/admin_short_link_upload_job_repository.go`) | allocator row, links, publication markers, upload jobs with leases | allocate, publish, mark, claim, complete, publish in the background | two callers of one allocation key, crashes and lost answers between storing, uploading and marking, lapsed leases | a campaign gets all its links, each live; no code has two owners |
| External short-link service (Rust, `external-shortlink/`; `app/scheduler/external_short_link_scheduler.go`) | destinations, clicks, durable spool, acknowledgement; cursor and imported clicks in production | upload, redirect, spool, replay, fetch, import, acknowledge, purge | two databases without a common transaction, inserts whose outcome is unknown, several importers | no click lost, none counted twice, nothing holds up the import for good |
| Access control (`access_control_flow.go`) | change requests | request, approve, reject | read and two saves without transaction | one verdict per request, applied or not |
| Accounts (`signup_flow.go`, `login_flow.go`, `token_service.go`) | OTPs, sessions | sign up, log in, refresh | attempts, expiry | one use per code |
| Agencies, tickets, media, line numbers, prices, settings | single rows | create, read, update | little | - |
| Balance monitor | back-off in memory | alert | - | - |
| HTTP layer, provider clients | none | parsing, routing, calls | - | - |

How they interact: the customer and administrator handlers call the database directly. The
schedulers reach campaigns in two ways, over HTTP as a client of the bot API (list, move to running,
move to executed, statistics) and through the database (heartbeat, checkpoint, recovery). Moving a
campaign to executed fires a database trigger that enqueues its refund job. Every wallet writer reads
the latest snapshot and saves a new one in one transaction.

The hazards of this code, each at its line with the properties that cover it, are the `hazards` of
`PROJECT.json`; a hazard that no property covers says there why.

## Plan

In the order of what a fault would cost:

1. `CampaignFunds` over `EscrowContract`: campaigns and the money that follows them. Written, checked, proved.
2. `RefundQueue` over `RefundContract`: the queue implements an abstract contract. Written, checked,
   proved.
3. `CampaignExecution` over `DeliveryContract`: claims, send intents, recovery. Written, checked, proved but for liveness.
4. Proofs for `RefundQueue`: its limits and the step simulation of `RefundContract`. Written.
5. `Recharges`: card callback, crypto webhook, poll and manual verification, deposit receipts and
   direct charges; how often each row is credited. Written, checked, proved.
6. `ShortLinks` and, over it, `ClickSync`: publication of links and import of clicks between the
   backend and the Rust service. Written, checked, safety proved.
7. `AudienceReservations`: calculations, claims and permanent selections of the campaigns of a bundle.
   Written, checked, proved.
8. Not yet: `CampaignLocks`: the row locks of the handlers and the order in which they are taken.
9. `TagEvaluation`: the runs that a language model scores. Written, checked, proved.
10. Not yet: access-control requests; then accounts.

`CampaignFunds` composes with the others through three narrow steps: `Run` of `CampaignFunds` is what
`CampaignExecution` does to the row, `ReconcileUndeliveredCampaignRefund` is one attempt of
`RefundQueue`, and `RechargeWallet` is the last step of every payment channel, which `Recharges` counts
as a credit. `AudienceReservations` has the same campaign handlers and follows the audience where
`CampaignFunds` follows the money; `freezes` is what the two have in common. `ClickSync` composes with `ShortLinks` in one specification: it extends that module, adds the
clicks to its state, and its steps interleave with all of its steps.

No module declares a RECURSIVE operator, since the prover cannot reason about one. Where a sum is needed, of the
amounts in the ledger, it is the cardinality of a finite set (`Booked` of `CampaignFunds`).

## CampaignFunds and EscrowContract

One customer, her campaigns and her wallet. `row` holds of each campaign what the handlers read:
status, how far ahead the schedule lies (`lead`, six classes that are exactly the comparisons of the
handlers: absent, long past, past, future, two minutes and ten minutes ahead), audience, reported sent
count and the refund marker in the statistics. `wallet` is the latest balance snapshot. `freezes`,
`fees`, `refunds` and `partials` are the transactions that handlers look up again. `edit`, `resched` and
`recharge` are the requests between their read and their write.

A handler that holds the campaign row lock from its first read to its commit is one action:
`ApproveCampaign`, `RejectCampaign`, `CancelWaiting` and `CancelApproved` (the customer's
`CancelCampaign`), `AdminCancelMissed` and `AdminCancelApproved` (the administrator's),
`MoveCampaignToRunning`, `MoveCampaignToExecuted`, `recoverUndeliveredCampaigns`,
`UpdateCampaignStatistics`, `ReconcileUndeliveredCampaignRefund`. Those that do not are two or more:

- `UpdateCampaign` tests the status on an unlocked row (`UpdateCheck`), saves the draft in one
  transaction (`UpdateSave`), prices it without one (`FinalizeQuote`) and freezes the budget in a
  second (`FinalizeCommit`), which refuses a row whose `updated_at` moved (`fresh`).
- `RescheduleCampaign` reads the row and later saves all of it, without lock.
- A recharge derives a snapshot from the latest one without the wallet lock.

The constant `Unlocked` says for which of the three others may come between. With all three in it the
model is the code; without them it is the code as its comments describe it, and a property that holds
then but not otherwise locates the missing lock. `NoMoneyCreated` and `PartialRefundOnce` hold in both.

`EscrowContract` is what a paying customer may rely on: each campaign has an escrow of its own, `open`, `reserved`,
`paid`, `under way`, `used` or `closed`, with the money set aside or spent in it. Money goes back once, all of it
until the campaign is under way, at most a part after it was carried out. `ImplementsEscrow` states that `CampaignFunds`
refines it, without unlocked requests: the phase is read off the status (`Phase`), the money off the ledger
(`HeldBack`, `PaidFor`), and what is available off the wallet, so the refinement also says that
the three always agree step by step.

## RefundQueue and RefundContract

`job` is the queue row (state, attempt, whether it is due, whether its lease lapsed), `cursor` the
backfill cursor, `worker` the goroutine each replica runs per campaign, `claim` what an attempt would
find in the ledger. A claim is identified by `started_at` in the code, by its attempt number here.
`runOnce` is a tick: discovery, then a claim of as many due jobs as the replica has free slots.
`ReconcileUndeliveredCampaignRefund(i, c, acknowledged)` commits the refund; when the acknowledgement
is lost the worker takes it for a failure. `FinishJob` updates the row only under the `WHERE` of the
code, `FinishFails` is that update failing, `Crash` loses the goroutines of a replica.

`RefundContract` is what a customer may rely on: at most one refund, a verdict that is never revised,
`completed` only when nothing is owed. `ImplementsContract` states that `RefundQueue` refines it, the
verdict being `open` while the job is not closed. The contract allows a refund after the case went to
manual review, because the code does: an attempt that lost its lease may still commit.

## CampaignExecution and DeliveryContract

`worker` is one goroutine per replica and campaign. Its `pc` follows `processSMSCampaign`: `claiming`
(listed, its group not yet reached, or the HTTP request under way), `claimed`, `fetching`, `sending`,
`prepared` (sent rows committed, batch not yet handed to a goroutine), `completing`, `draining` (failed:
waits for the batches in flight, then releases). `rows` is what `sent_sms` and its siblings hold;
batch 0 stands for the audit rows of an Excel list, which recovery does not count. `calls` is history:
how often the provider was called for a batch. `orphans` are HTTP requests whose client gave up; the
server may serve them at any later time or never.

Why stale recovery is safe is an argument about time. A worker's context ends after eight hours
(`campaignExecutionTimeout`); a claim is stale ten hours after its last heartbeat
(`campaignExecutionStaleAfter`); so the worker of a stale claim is gone, provided clocks agree within
two hours and no process is suspended longer. The model takes exactly that as guard of
`HeartbeatLapses` (`Held`). The claim itself carries no owner: `ReleaseUnpreparedCampaign` settles
whatever run of the campaign is current, which the model keeps. For the same reason the three
statements of `recoverUndeliveredCampaigns` may be one action: no worker of the run is left to come
between them. The listing returns campaigns for one hour after their schedule, so a claim that went
stale is past it (`due`).

The Bale, Rubika and Splus schedulers run the same protocol with one batch in flight, the case
`Concurrency = 1`.

`DeliveryContract` is what an advertiser sees of all this: a campaign that runs is sent batch by batch, each batch
once; it is executed when all of its audience was messaged, it may run again if nobody was, and otherwise it is
interrupted; from `executed` and `interrupted` nothing leads away. It has no workers, rows, checkpoints or requests.
`ImplementsDelivery` states that `CampaignExecution` refines it with `status`, `audience` and `calls` as they are. That
is more than `StatusMatchesDelivery`: a batch is sent only while the status says running, so never by a worker whose
campaign was completed or released under it.

## AudienceReservations

The campaigns of one bundle compete for its audience. `status`, `input` (phase, audience asked for and how
many), `sample` (the active Test selection), `freezes` and `due` (the schedule has passed) are what the
handlers read of a campaign; `taken` is its permanent selection. `calc` holds the rows of both calculation
tables, told apart by the kind of their input, with their members, the fingerprint they were computed under
and their lease; `committed` is the status of an accepted Execution calculation in the code, and stands
for the active reservation rows of a Test selection. `job` is what a worker of either scheduler is doing,
`editing` and `finalizing` are `UpdateCampaign` requests before and after their save.

`StartCalculation` is a customer's request, which may reuse or supersede a calculation. A worker does
`ClaimPending`, `ReadCampaign`, `ReadReservations`, `SelectCandidates` (one query, hence one step) and
`Complete`, or ends in `InsufficientCapacity`, `AllocationChanged` or `WorkerFails`. The fingerprint is read in
two steps, since the code reads allocations and reservations with separate statements outside a transaction;
when it is compared, the bundle row is locked. `UpdateCheck`, `UpdateSave`, `FinalizeExecution`,
`FinalizeTest` and `FinalizeStandard` are the two transactions of `UpdateCampaign` after its unlocked
test. `ApproveCampaign`, `RejectCampaign`, `CancelCampaign` (the customer's and the administrator's) and the
bot's moves follow; `Materialize` is the selection of the audience when a campaign is executed.

`Fingerprint(c)` keeps exactly what the code hashes: of the other campaigns that are approved or beyond, the
number asked for, the status and whether there is a permanent selection; and which reservations are active.
It names no member. That this is enough is what `FreshMeansFree` says and the proof explains.

`RescheduleCampaign`, whose unlocked save of the whole row `CampaignFunds` shows, is left out here, and a
request that read a campaign before it fell due is taken to have saved by then (`Fall`).

## Recharges

Money enters a wallet in four ways; all of them read their row without a lock, decide, and later save
the whole row. `card`, `charge`, `receipt`, `request` and `deposit` are the rows; `gateway`, `chain` and
`invoice` are what Atipay, the block chains and Oxapay know; `call` is what each handler read and what it
will do. A handler is two steps, `Begins` and one of `Finishes`, with anything in between. The second half is
one step because it begins with the `UPDATE` of the row and holds it until it commits. Exceptions are
modelled as such: the receipt repository ignores the transaction it is handed, so `ApproveReceipt` (the
status, visible at once) and `ApprovalCommits` or `ApprovalFails` (the money) are two steps; a poll whose
provider does not answer goes on with the deposits it has (`PollUnanswered`, then `SweepDeposits`).

| Code | Actions |
| --- | --- |
| `ChargeWallet`, `PaymentCallback` (`payment_flow.go`) | `ChargeWallet`, `PaymentCallback`, then `NotPaid`, `VerifyAndCredit`, `VerifyRefused` or `VerifyFails` |
| `AdminChargeWallet` (`payment_admin_flow.go`) | `AdminChargeWallet`, `ChargeCommits` |
| deposit receipts (`payment_admin_flow.go`, `payment_flow.go`) | `SubmitDepositReceipt`, `ReadReceipt`, then `ChangeReceiptFile`, `RejectReceipt` or `ApproveReceipt` |
| `CreateRequest`, `HandleOxapayWebhook`, `GetStatus`, `ManualVerify`, `CancelRequest` (`crypto_payment_flow.go`) | `CreateRequest`, `ReadRequest`, then the action of that name; `GetStatus` is `PollInvoice` at Oxapay and `PollAddress` at Bithide |

A transaction on a chain is seen, then confirmed or failed. What the handlers test is another thing, the
`ConfirmedAt` of its row (`ConfirmedAt(d)`): for Oxapay the code sets it from the status; the Bithide client
sets it from `NodeTime` whatever the status is (`bithide_client.go:182-186`, 229-233), and the model lets a
`NodeTime` appear at any time once a transaction is on the chain (`NodeTime`, `dated`). An invoice is paid, also
by hand (`manual_accept`), expires, or is refunded after it was paid; a webhook may tell of an earlier status
(`Told`). A credit that `GetStatus` finds impossible (wallet, snapshot or discount missing) fails the request and
keeps what the poll has stored (`CreditOrFail`).

`credits` counts the credits of a row and, for crypto, of a transaction. Two history variables limit what
is claimed: `overlapped` holds the rows on which two handlers worked at a time, `unlucky` those that a
lost answer or a failed commit hit. Amounts are not modelled here; how a credit changes the balance is
`CampaignFunds`.

## ShortLinks

`nextValue` is the allocator row, `owner` says which allocation key holds a code (a row of
`short_links`), `published` are the codes with an `external_published_at`, `mapping` is the table of the
redirect service, `job` the upload jobs with attempts, lease token and whether the lease lapsed. `caller`
is a goroutine: it serves an allocation request (`ServeRequest`, `GenerateAndCreateShortLinks`) or
works on a job it claimed (`ClaimJob`, `InspectJob`), and both go through `Reserve` or `ReserveFails` (the
allocation transaction), `Publish` (upload), `MarkPublished` and, for a job, `CompleteJob`. `publisher` is the
background publisher (`ListPending`, `PublishPending`). Crashes and failures come between any two of
these, and an upload that fails may have stored any part of its batch. A write of a job row tests its lease
token (`UpdateClaimed`), which `Holds` models.

Codes are counted from the start of the allocator: code 0 is `next_value = 60466176`
(`migrations/0163_create_short_link_uid_allocator.sql:19`). `Legacy` are codes that rows older than the
allocator hold. A mapping is named by the owner whose destination it has, since a row is written once with code and
destination; older rows have one of their own (`LongLink`). A destination is described by what the two normalizations of the system look
at: the scheme, whether there is a host for a strict parser or only for a browser's, whether its percent signs
begin escapes, and whether it is within the limits of the service. `normalize_long_url` says what the service
stores, or that it refuses it; one refused destination refuses its whole batch (`Refuses`), after the rows are
stored, which is the order of the code. The rows are taken to have the order of their ids: legacy rows first,
then in the order of codes, as they are inserted under the lock of the allocator (`Before`). A job is claimed by an update and a read in the code, one step here: the update decides. The
background publisher's upload and mark are one step, as nothing reads the marker in between but the
publisher of another replica, which would upload the same mapping again.

## ClickSync

`visit` is the request that made a click, from `inserting` to `done` (answered for) or `dropped`; `inserts` are
the transactions PostgreSQL has not decided yet, with the ids they drew from the sequence; `row` is the
stored click; `spool` and `replay` the durable spool and its worker; `acked` the acknowledgement; `cursor` and
`imported` what production has committed; `importer` the scheduler of each instance. The redirect is
`Redirect`, then `InsertCommits`, or `InsertFails` (aborted, or only given up by its client, in which case
it may commit later) and `SpoolClick`. `ReplayInserts` and `ReplayRemoves` are `spool_replay_loop`. An importer
does `ReadCursor`, `FetchClicks`, `ImportPage` (rows and cursor in one transaction), `Acknowledge`, and
starts again at the page's end while more follows. `Purge` removes what is acknowledged and old.

An id is drawn when an insert runs and its row appears when that transaction commits, in any order: this
is what a sequence does, and the model keeps it. `late` holds the events whose row appeared behind a page
already read. The retention of clicks (days) is taken to outlast the replay of a spooled click
(seconds), in `Settled`; without that an event could be purged and then replayed as a new one. The limit
on the pages of one tick (`maxPagesPerRun`) is covered by `ImporterStops`.

`Acceptable` is the test of a page. Production finds the row of each code and compares what its own
`externalStoredLongURL` makes of the long link with what the service stored (`Agree`). The two are different parsers:
the service takes `https://x.com/50%off` and `https:example.com` as they are, `net/url` refuses the first for its
percent sign and finds no host in the second. A page with a click on such a link fails at every attempt
(`ImportFails`), and no later click is fetched. Nothing before refuses such links: allocation stores any
destination (`bot_short_link_flow.go:82-99`), its validation is a TODO (`campaign_flow.go:445-448`), and the upload
of an administrator lets the percent sign of `https://x.com/?a#50%` through (`admin_short_link_flow.go:343-349`).
`OnlyDestinationsBlock` says that nothing but this makes a page fail. `EveryClickArrives` has the case as an exception,
which `Blocking` names. That no page fails (`ImportNeverBlocked`) is not what the code ensures, and no run claims it;
the theorem `ImportsGoOn` has it under the hypothesis that both normalizations agree on every destination.

## TagEvaluation

A customer has the tag catalog scored for a bundle's persona. `run` holds of each run what the code reads
of it again: the status of its latest event (a view computes it), which items were started and completed,
the batches with their tags, the number of attempts and the latest answer of each item (item 0 is the persona
analysis), the stored scores. `listed` is the rest of the page a scheduler works through, `job` the execution
of a run in a process: its step, where each batch is, whether a batch has failed (`cancelled`).

`Request` is the transaction under the locks of customer and bundle. `List` and `Launch` are `runOnce` of the
scheduler with its map of runs in flight. `AcquireLock`, `CheckStatus`, `BeginPersona`, `PersonaAnswered`,
`EnsureBatches`, `Finish` and `Fail` are `ExecuteBundleTagEvaluationRun` in its order, `BeginBatch`, `CallProvider`,
`BatchAnswered`, `StoreScores` and `CompleteBatch` are `processBatch`, of which several run at a time, and
`StopBatch` is a goroutine that notices the cancellation. Writes that others could see between are steps
of their own. `Interrupt` is the end of the hour or a statement whose failure leaves no event; `Crash` takes
the process and with it the session that holds the lock; `StatementFails` is an error that fails the run.

An attempt's answer is `usable` (it validates, with up to `MaxMissing` tags missing), `retry` (an error or an
answer after which the call is repeated) or `fatal` (a status that forbids that). The number of attempts is
forgotten once one of them settles its item, as nothing reads it any more. The pages of the catalog are read in
one step, and events are ordered by their commit, where the code sorts by `created_at`. Pacing, prompts
and the contents of scores are left out. All requests fall in one UTC day. The row of an attempt and the
events about it are separate writes (lines 761-797 for the persona, 1013-1041 for a batch) and one step here: a
later execution reads the attempt only. An execution that loses the session of its advisory lock while it lives
(lines 1620-1649) would go on without the lock; the model has a session end with its process only.

## Runs

| Run | Instance | Shows |
| --- | --- | --- |
| `serial` | 2 campaigns, 1 editor, prices 1 and 2, deposits up to 3, `Unlocked = {}` | the wallet, the ledger and the statuses tell one story when the handlers are serialized, that of `EscrowContract` |
| `races` | 1 campaign, audience 2, deposits up to 6, everything in `Unlocked` | what survives the real interleavings: no money created, one partial refund |
| `refund_queue` | 2 campaigns, 2 replicas, 1 slot each, 2 attempts, 2 faults | the queue implements the contract, keeps its limits and settles every case |
| `execution` | 1 campaign, 3 workers, up to 3 batches, 2 in flight | `DeliveryContract` is implemented, so there is no double send; statuses match deliveries, claims end |
| `short_links` | 2 requests for 1 link each, one of them refused by the service, an upload for 2, one with a bad CSV; 2 replicas, 3 codes of which 1 is a legacy row, 2 attempts, batches of 2, 1 fault (116 747 states) | what a campaign is answered with is complete and live, markers and jobs tell the truth, codes keep their owners, every upload ends, stored links go live unless a refused one is stored |
| `click_sync` | 2 links of older rows, one of them with a destination that the two sides normalize differently; 2 visits, 2 importers, 3 ids, spool and replay batches of 2, pages of 1, 1 fault (177 168 states) | no click lost but the late ones, none counted twice, only such a destination makes a page fail, clicks arrive unless one on it is in the way |
| `recharges` | 1 row of one kind at a time: card, key with 2 payloads, receipt, invoice with 2 transactions, address with 1; 2 handlers, 5 calls, 2 faults (619 118 states, up to symmetry) | each row is credited as often as its status says, whatever repeats, comes late or fails |
| `audience_claims` | 2 campaigns that ask for 1 of the same 2 audiences as an Execution, a Test or a standard campaign, 1 worker, 2 calculations, 3 updates (1 457 556 states, up to symmetry) | no audience in two campaigns, current results are free, claims follow the money, ended results stay |
| `tag_evaluation` | 1 run of 3 tags in batches of 2 and of 1, 2 replicas, 2 attempts, 1 missing tag per batch, 1 fault, 1 tag that may be deactivated (185 462 states) | an evaluated run has its scores and stays, paid answers are used, every run ends |
| `late_reschedule`, `late_recharge`, `requeue` | smaller | see the findings |

Bounds. Two campaigns suffice for `serial` because campaigns share only the wallet, and an invariant
that one breaks for another needs two. Deposits of up to 3 with a cost of 1 or 2 let a finalization be
refused for lack of money and let free and credit money mix; two prices make the quoted price differ
from the recorded one. `MaxTxs = 2` allows a second freeze of one campaign, which would be the fault.
In `refund_queue` a batch of one makes discovery need two passes, one slot makes a replica full, two
attempts reach the last one, and two faults let a replica crash and its successor be late. In
`execution` three workers are a failing one, a late one and the next one; three batches with two in
flight let one be prepared while others are open; two campaigns share nothing there but workers, and
that instance is too large. In `short_links` the legacy code lies inside the range, so a reservation must
step over it; three codes cannot hold all that is asked, so the capacity runs out; two attempts reach the
last one. In `click_sync` a page of one with two clicks makes an importer continue, two importers
overtake each other, and three ids leave one for a second insert of a replayed event. The links there are
those of older rows, which the background publisher brings live, because `short_links` covers allocation and the steps of
the two modules touch each other in `Mapped` only; that clicks are on links with a row, whoever allocated it, is
`OnlyDestinationsMatter` in general. One fault is a lost answer, a crash, a lapsed lease or a failed marker, each at any step. In `recharges` rows of different kinds share nothing, so
one row at a time (`MaxRows`) loses no interleaving, and permuting handlers, payloads and the two
transactions of the invoice is sound, as the run checks invariants only; five calls let a handler repeat, follow another one
and overlap with it. In `audience_claims` two campaigns and two audiences are enough for a collision, three
updates let a campaign change its phase or be saved late after it was finalized, and two calculations let one supersede
or compete with the other. A second worker makes the instance too large; it would add only a lease that is taken
over while its worker lives, which the theorems cover. Permuting campaigns, audiences and workers is sound
there, as the run checks no liveness. In `tag_evaluation`
the catalog starts in any state, so there are none, one or two batches; two replicas that list the same run
compete for its lock, and one fault suffices for an execution that another one resumes. A second run of the
bundle could not overlap the first but through the case told below. `MaxFaults`, `MaxDeposited`, `MaxTxs`, `MaxBatches`, `MaxId`, `MaxRows`, `MaxCalls`,
`MaxCalcs`, `MaxUpdates`, `MaxRun` and `MaxEdits` are the only bounds that are not in the code. Deadlock is not checked: every one of these systems may come to
rest, all campaigns settled, all links live, all payments made, all audiences taken.

Fairness. `RefundQueue`: the ticker of every replica (`WF` of `runOnce`), an attempt ends by its timeout
(`WF` of `Work`), time passes. Faults are bounded, so the code's premise is that crashes end.
`CampaignExecution`: a worker does something while it has something to do, because each of its calls
carries a context (`WF` of `processSMSCampaign` as a whole, which failing satisfies), ticks list and
recover, time passes. Nothing makes a late request arrive or a worker succeed. `ShortLinks`
(`LinkFairness`): the background publisher lists, and its upload ends, in success or not, a caller that began does something, leases
lapse with time; that some replica claims a due job is strong fairness, since the job loop has its own
goroutine in the code while a replica of the model serves requests with the same slot. Failing counts as
doing something; only the number of faults is bounded. `ClickSync` (`ClickFairness`): PostgreSQL
decides each transaction, the spool takes or drops a click, the replay worker and the importers run.
`TagEvaluation` (`Fairness`): every process ticks and works through its list, and an execution takes a step while
it can, as its calls and statements return, with an error if need be.
`CampaignFunds`, `Recharges` and `AudienceReservations` have no fairness: they are driven by people.

## What the violation runs found

Each is a property that a comment of the code states and TLC refutes.

- `late_reschedule`: `LockCampaignForUpdate` "serializes status transitions"
  (`repository/campaign_execution_repository.go:13`). `RescheduleCampaign` does not call it and saves the
  status it read. `UpdateCampaign` has the same defect: "Only campaigns with 'initiated' or 'in-progress' status
  can be updated" (`business_flow/business_flow.go:315`), but the test is on an unlocked row, and phase 1 writes
  in-progress over the row as it is. That both must be undisturbed is what `EscrowSafe` assumes.
- `late_recharge`: `LockWalletForUpdate` "serializes balance-snapshot mutations for a wallet" (line 40).
  Recharges do not call it; one of two concurrent snapshots is lost. The run has two recharges; a
  recharge and any campaign handler lose money in the same way.
- `requeue`: "Requeued campaigns contain no persisted send intent and can be retried"
  (`campaign_execution_repository.go:71`). After ten hours the listing, which looks back one hour, does
  not return them; rescheduling and both cancellations refuse an approved campaign whose schedule has
  passed, so its money stays spent.

## What else the models show

Behaviour of the code that the properties exempt by name, because a property without the exemption
does not hold:

- Production and the redirect service do not agree on what a destination is. "externalStoredLongURL derives the external
  service's persisted destination for comparison only" (`external_short_link_sync_repository.go:195`), but it returns an
  error for the destinations named under [ClickSync](#clicksync). One click on such a link stops the import of all
  clicks, at lines 102-105, until somebody intervenes. `EveryClickArrives` exempts it (`Blocking`).
- "If this local marker write fails, the background publisher repeats the idempotent upload"
  (`external_short_link_publication.go:47`), unless links are in front that the service refuses: the publisher
  takes the links with the lowest ids that carry no marker (`short_link_repository.go:243`) and gives up when their upload
  fails (`external_short_link_scheduler.go:97`). A refused link was stored before it was refused and keeps its place, and a
  batch fails as a whole, so nothing behind it in its batch goes live by the publisher, and nothing
  at all once such links fill a batch. `EveryLinkGoesLive` exempts it.
- "ManualVerify verifies a deposit by tx hash and credits wallet if confirmed"
  (`app/handlers/crypto_payment_handler.go:97`), and `GetStatus` says "finalize on confirmed not yet credited"
  (`crypto_payment_flow.go:470`). Both test `ConfirmedAt` only (lines 476, 608), which at Bithide is set from
  `NodeTime` whatever the status says: a transaction that is pending, or that fails, is credited if it is
  listed with a `NodeTime`. The repository does not say when Bithide fills that field; the model lets it be any time.
  `CryptoPaidOnce` speaks of `ConfirmedAt` for that reason.

- Two callbacks of one card payment, two charges with one key, two approvals of one receipt, or two
  crypto handlers on one request that overlap may credit twice: the tests are on unlocked rows
  (`payment_flow.go:509`). The advisory lock of `AdminChargeWallet` is taken outside the transaction it
  should protect (`payment_admin_flow.go:97` uses the pool, not the transaction). Exempt: `overlapped`.
- When the answer of the gateway's verification is lost the customer has paid and the request has
  failed; when a receipt's balances fail to commit it stays approved without money. Exempt: `unlucky`.
- A paid invoice with two confirmed transactions is credited in full for each of them by `GetStatus`
  (`crypto_payment_flow.go:404`), while the webhook credits once per request (line 788). Hence
  `CryptoPaidOnce` counts per transaction at Oxapay and per request at Bithide.
- `GetStatus` at Bithide inserts the deposits it is told of (line 460); one that is stored already
  violates the unique index and aborts the transaction, so a deposit that was first seen unconfirmed is
  not credited by polling any more, only by manual verification.
- `ManualVerify` overwrites `CreditedAt` of a deposit that another request stored (line 601), so one
  transaction may be credited for two requests. `CryptoPaidOnce` is therefore about
  requests at Bithide, not about transactions.
- Every refund goes to the credit balance (`campaign_flow.go:1210`, 1324, 4222), though a comment says
  "A refund must reverse that exact split" (line 4464): the calls that would split it are commented out.
  `LedgerExplainsWallet` is therefore about frozen and spent money, not about how much of the rest is credit.
- A campaign that a late save put back to draft can be finalized a second time. It then has
  two freezes, which approval, rejection and both cancellations refuse: it keeps its claims, and
  its audience is lost to the bundle. `ClaimFollowsMoney` exempts it (`Undisturbed`).
- Claims stay disjoint under all of this, although the triggers of migrations 0144 and 0149 guard Test
  reservations and permanent selections only and know nothing of committed calculations: the fingerprint and the
  lock of the bundle do the work. Finalizing a Test campaign compares no fingerprint, it looks at its members again.
- A click whose transaction commits after a click with a higher id was fetched lies behind the cursor:
  it is never fetched (`external-shortlink/src/database.rs:333` selects `click_id` above the cursor) and
  later purged unseen. `NoClickLost`, `NothingSkipped` and `EveryClickArrives` exempt `late`.

- A scheduler works through a list that may be old, and the test under the lock lets a run alone only if it is
  evaluated (`bundle_tag_evaluation_flow.go:503`): a run that has failed since it was listed is executed
  again and becomes active. If a new run was requested in the meantime the bundle has two, though the request
  "enforces one active run per bundle" (`BUNDLE_LIFECYCLE_AND_ENRICHMENT_README.md:112`). `EveryRunEnds` therefore
  says that a run always comes to an end, not that it ends once.
- A batch whose answer lacks a tag it may lack is stored, and an interruption before its `batch_completed`
  makes the next execution store the same scores again, since it counts fewer scores than tags (line 913).
  The unique index refuses them, and the run fails for good, though interruptions "are resumable" (line 1350).
  `EvaluatedIsScored` is about completed runs, so it holds.

## Proofs

`CampaignFundsProofs` proves, for any sets of campaigns, requests, audiences, prices and deposits (only
`FundsAssumption` is assumed of the constants):

- `TypeCorrect`: `Spec => []TypeOK`. The part that matters is that no balance, a `uint64` in the code,
  is ever reduced below zero: it rests on `MoneyMoves`, which says of each move what it needs.
- `MoneySafe`: no interleaving creates money; without unlocked recharges none is lost either. The
  invariant `TypeOK /\ NoMoneyCreated` is not inductive: a recharge that has read a snapshot writes it
  back later. `MoneyInv` adds that no snapshot in the hands of a recharge is worth more than what had
  been deposited, and that there is none when recharges are undisturbed.
- `PartialRefundSafe`: at most one partial refund per campaign, and never above a fee charged
  (`PartialRefundOnce`). This pair is inductive given the types: fees are only ever appended, and the refund is compared with the last
  fee in the transaction that records it.
- `EscrowSafe`: `EscrowMatchesStatus`, assuming `Unlocked` contains neither `update` nor `reschedule`
  (`Serial`), while recharges may still interleave. The invariant is inductive together with `Quiet`: no
  request is between its unlocked read and its write. A request between the two transactions of
  `UpdateCampaign` needs no clause: phase 2 tests the locked row again, which is `IsEditable`.

- `LedgerSafe`: `LedgerExplainsWallet`, whatever updates and reschedules race with, as long as recharges do
  not. A sum over a log would need an induction over sequences, which the provers do not do. The ledger is
  therefore counted: `Tomans` has one element for each Toman of each entry,
  and `Booked` is its cardinality. That an entry adds its amount (`EntryAdds`) is then a fact about finite
  sets, for which `LedgerInv` keeps the sets finite (`Countable`). Five steps move money between wallet and
  ledger (`LedgerMoves`): in each, what the snapshot gains is what the log gains. A recharge leaves frozen and spent money alone because
  the snapshot it extends is the latest one, which is where the exclusion of racing recharges is used.
- `TransitionsSafe`: the action property `StatusTransitionsSerialized` under `Serial`. A handler that holds
  the row lock follows an edge by its guard. `UpdateCampaign` does not: the save and the finalization of a request
  are two transactions. Besides `Quiet` the invariant has `Saved`, that the campaign of a request past its save has left
  "initiated", to which no transition leads back, so that finalizing takes it along an edge of the graph.
- `EscrowsAreKept`: `CampaignFunds` implements `EscrowContract` when `Unlocked` is empty, the hypothesis under which
  the contract is meant; a lost update of the wallet (`late_recharge`) would otherwise diminish what is available.
  The proof needs `EscrowInv` before and after a step: what an escrow holds follows from
  the status of its campaign (`EscrowOf`), so it is enough to know which campaign a step is about (`EscrowAt`) and how
  far the available money moves (`AvailableMoves`).

What a lost lock breaks (`late_reschedule`) is what the assumption `Serial` of `EscrowSafe` and
`TransitionsSafe` excludes.

`CampaignExecutionProofs` proves, from `ExecutionAssumption` alone (the run has one campaign and three
workers, the theorems have any number):

- `ExecutionSafe`: `AtMostOneCall`, `CallsAreRecorded` and `StatusMatchesDelivery` always hold. None is
  inductive, and the proof shows what they rest on. `ExecutionInv` has three parts. `Exclusive`: one
  worker at most holds a campaign, and what is held is neither approved nor stale, so no second claim
  and no recovery can touch it; this is where the model uses that a worker's context (8 h) ends before
  its claim is stale (10 h). `Pipeline`: of the holder's campaign, exactly the batches below `next`, less
  those launched and not yet called, were given to the provider once and the others never; all below
  `next` have sent rows; and up to the checkpoint there are none. `Recorded`: the properties of each
  campaign, and that a completion request nobody waits for any more may be served at any time because
  nothing of the campaign is left in flight. A campaign whose holder ends therefore has a delivery record
  as soon as one call was made, and `Settled` does not put it back in the queue.
- `ExecutionImplementsDelivery`: `ImplementsDelivery`. Sending, completing and settling map to `Send`, `Finish` and
  `Abandon`, a claim to `Start`, the rest to stutters. Two facts more are needed (`DeliveryInv`): an interrupted
  campaign has no holder, since a release ends the only one and recovery finds none, and nothing is sent past the end
  of an audience. The status of a campaign with a launched batch is then running: it is held, so not approved; not
  interrupted; and not executed, because `Recorded` lets nothing be in flight then. Whoever serves a completion
  request, `Done` holds, so all was sent; and what goes back to the queue has no sent row, so no call was made.
- `PipelineBounded`: `TypeOK`, whose hard part is `Concurrency`. A worker that has prepared a batch has
  room for it, which makes the bound inductive.

`CampaignFundsProofs` and `CampaignExecutionProofs` also state single properties as theorems of their own:
`NothingIsLost` (`MoneyConserved`), `RecordsPrecedeCalls`, `StatusIsTrue`.

`RefundQueueProofs`, from `QueueAssumption`:

- `QueueImplementsContract`: `RefundQueue` implements `RefundContract` for any number of campaigns,
  replicas, slots and attempts. Initial states map to initial states, and each action to a step of the
  contract or a stutter: discovery is no step, or the immediate closing of an unscheduled case. That
  needs an invariant (`QueueInv`): a worker that will report success has found nothing left to pay
  (`Working`), and a completed job is paid (`Justified`); without them closing a case would not be allowed.
- `DiscoveryIsComplete`: `NothingBehindCursor`, inductive given the types.
- `LimitsKept`: `WithinLimits`. The slots are kept because a claim takes no more jobs than are free, at
  most one worker holds the current attempt because a claim raises the attempt above every token, and the
  attempts stay within the limit because a job that reached it is not claimable.

`RechargesProofs`, from `RechargesAssumption`: `CardsAreSettled`, `KeysChargeOnce`, `ReceiptsAreSettled`,
`CryptoIsPaidOnce`, for any number of rows, transactions, handlers and calls. None of the properties is
inductive: they speak of rows, and what a row becomes depends on what a handler read earlier. The
invariant ties the two: `Kind` says what a handler works on, `Alone` that a row that was never overlapped
has one handler at most, and `CardOK`, `KeyOK`, `ReceiptOK`, `RequestOK` and `DepositOK` that such a
handler still finds the row as it read it, so that the credit it is about to make is the first.
`CryptoIsPaidOnce` does not say that credited money was confirmed: it says that a credited transaction has a `ConfirmedAt`
(`DepositOK`), which at Bithide is less.

`ShortLinksProofs`, from `ShortLinksAssumption`: `AnswersAreSafe`, `MarkersAreTrue`, `CompletionIsTrue`,
`AllocatorIsTight` and the action properties `CodesNeverReused` and `FinishedUploadsStay`. The invariant is
`StoreInv` (a code leads nowhere or to its owner, the rows of a key come all at once, markers are true,
the allocator leaves no hole) with `Progress` (how much a goroutine may rely on at each step: rows exist
from `publishing` on, they are live from `marking` on), `Leased` (a row with a token is being processed, a
completed one is live) and `Answered`. It is inductive because `owner` and `mapping` only grow, the lemma
behind `CodesNeverReused`: what a worker found stays true while it is away, even if its lease passes on.

`ClickSyncProofs`, from the assumptions of both modules, by composition: a step of the links keeps the
invariant of the clicks and the other way round, as `LinkInv` speaks of variables that clicks leave
alone. The invariant of the clicks (`ClickInv`) has five parts. `IdInv`: an id names one event, in open
transactions, rows, pages and imports alike. `OneId`: an event that production may see has one id, and
none of its transactions is left to give it another once its row is purged. `Kept`: a click that was
answered for is in the spool or has a row, and what the replay worker is about to remove from the spool
has been stored. `OnLiveLink`: clicks are made on live links. `CursorInv`: an importer starts at or before
the cursor, everything between its start and its page's end is on the page or late, and the ids in its hands
are known to the service. Theorems: `ClicksAreKept`, `CursorIsTrue`, `AcksAreBehind`, `ClicksCountOnce`,
`AcksAreAccepted`, and two that join `OnLiveLink` with the invariant of the links (lemma `OnPage`: a click on a page is on
a code whose row and mapping agree). `OnlyDestinationsMatter` says that no page is refused but for a
destination that the two normalizations disagree about; `ImportsGoOn` that no page is refused if they agree on all,
which is a hypothesis of the theorem and not a fact about the code.

`AudienceReservationsProofs`, from `ReservationsAssumption`: `ClaimsAreDisjoint`, `CurrentResultsAreFree`,
`EndedResultsStay` and `TypesCorrect`, for any campaigns, audiences, inputs, calculations and workers, and for
workers that share a lease. `ClaimsDisjoint` is not inductive: it speaks of claims, and a claim is made of
members that were chosen long before. The invariant says what a fingerprint taken earlier still
guarantees. `Known(fp, c)`: each reservation that `fp` names is a claim of another campaign that was once
committed, and each campaign it lists as materialized has a selection; since a claim that was released never
begins again and a selection never vanishes, such a fingerprint can go out of date only in ways that show.
`Free(fp, S)`: of what `fp` names, nothing that still counts meets `S`; it is established by the scan, which
reads all claims at once, also where the reservations were read after the allocations. When the present
fingerprint equals `fp`, the claims `fp` names are all the claims there are, and `Free` gives freedom from each of
them (`FreeOfClaims`). `KnownJob` and `KnownCalc` carry the two through the steps of a worker and the rows it
publishes, up to publication and finalization, where the code compares the fingerprints. `RowStep` says how a
calculation may change in one step, from which `EndedStays` follows, and `Chosen` and `Sampled` what a
campaign's own row says of its claims. `ClaimsFollowMoney` proves `ClaimFollowsMoney`. The property says what an
undisturbed campaign holds after it was finalized, which rests on what it held before: `Unsold`, a campaign
that never was finalized has no claim and no selection, and `Full`, a result that was published has as many
members as were asked for, or none. `Backed` says of a finalized campaign which claim it has. Two lemmas say what any step of
the system is to one campaign: it is finalized, rejected, cancelled, saved or materialized, or its row stays as it is
but for the way from waiting to executed (`StepOf`, `Same`); and a claim outlives every step but those
(`ClaimStays`). The
assumption that a bundle has finitely many audiences is used here, as only then a result of the size that was asked
for is known not to be empty.

`TagEvaluationProofs`, from `EvaluationAssumption`: `EvaluatedScores`, `PaidAnswersReused`, the action property
`EvaluatedRunsStay`, and beside them `OneExecutionPerBundle` and `TypesCorrect`, for any number of bundles,
replicas, tags, batches, attempts and faults. `EvaluatedIsScored` speaks of a run after its completion, while its
scores were stored long before, perhaps by an execution that died. `RowOK` therefore says what the rows of a
run alone guarantee: a completed batch has its scores, stored scores and a usable answer are `Valid` for the
batch's tags, a batch that is not planned has no rows, and the latest event is `evaluated` just when all planned
batches are done. `JobOK` says what an execution, and in it each goroutine, may rely on between two of its
statements (`Knows`): the item it asks for has no usable answer and attempts left, a batch at `stored` has its
scores, one at `ended` is completed, and a failed one has set `cancelled`, so that `Finish` finds all batches
ended. Both survive the steps of others because of `Exclusive`: a step that changes a run holds the lock of
its bundle (`StepKeeps`). `Fresh` says that no list and no job names a run that is not requested yet.

Each proof has a lemma for the initial state, one lemma or step per action of `Next`, with lemmas for
what the actions have in common (a worker that moves on, ends, or is left alone), and a last step by PTL.

## What is not modelled, and what stays with TLC

Every safety property of the passing runs is a theorem. Liveness (`EverySettled`, `EveryClaimEnds`,
`RecoveredIsRetried`, `EveryLinkGoesLive`, `EveryUploadEnds`, `EveryClickArrives`, `EveryRunEnds`) is checked and not
proved, and stays with TLC for good: fairness is out of the prover's reach.

Abstracted in what is modelled: a message, a recipient, a price formula and the contents of metadata
are numbers; the clock is a class of distances to the schedule, and moves only forward; the agency,
tax and system wallets, the locked balance and the agency share, which no campaign handler changes, are
left out, as are audit logs, notifications and metrics. A database transaction that fails is one that
did not happen. `OwnerIsAdmin` (campaigns of administrators cost nothing) is a constant that the runs keep
FALSE and the proofs leave open. `expireCustomerCampaigns` is dead code (its call at
`campaign_flow.go:2763` is commented out), so no campaign expires here. The delivery-status jobs that
poll providers after a run are only seen through `UpdateCampaignStatistics`. CSV contents and
chunk sizes of short links are left out, and of a destination all but what the normalizations test, as are caches, rate limits and metrics of the redirect service.

Some definitions are narrower than the code. `UpdateCampaignStatistics` takes a report from the bot after the fee was
charged and of no more messages than there are recipients; the handler (`campaign_bot_flow.go:445-473`) tests neither.
`audience` of `CampaignExecution` is one number per campaign, while each attempt fetches it again
(`sms_campaign_scheduler.go:341-397`): the selection is permanent once made. `SelectStandard` needs as many
members as were asked for; `app/scheduler/shared.go:331-348` goes on with fewer. `ReadReservations` is two of the three
statements of a fingerprint in one step, so that a change between these two is not covered. The first restricts what is
reported to what the bot sends; the second and the third touch no property.

Hazards without a property: statistics that arrive after the last attempt of a refund, which is manual by design; a
refund job that kills its process at every attempt, which is outside the bound on crashes; a click that commits
behind a page (`late`), a receipt whose approval outlives its money (`unlucky`), two overlapping charges with one key
(`overlapped`) and a campaign finalized twice (not `Undisturbed`), four cases in which the code goes wrong and the
properties say so by an exception; skewed clocks; lock order; and access control. Two live workers that share a lease
of a calculation are covered by the theorem `EndedResultsStay`, not by a run.

Left out of components that are modelled in part: the visits that the backend itself redirects
(`short_link_visit_flow.go`; one inserted row each), proforma and invoice documents
(`AddInvoiceToTransaction`; no money moves), creation, cloning and hiding of campaigns.

Left out of the reservations: capacity calculations, which only inform the customer and are compared by the same
fingerprint; several tags in one sampling; exclusion lists of a bundle; changes of an audience's profile, color
or score; the reservation rows of campaigns from before migration 0155; campaigns that change their
bundle; Excel campaigns, whose recipients are outside the ledger.

Not modelled: the components marked so in `PROJECT.json`, each with its reason; one of them, access control, has a
hazard that a model would reach. The others are single-row reads and writes, aggregation in SQL, parsing
or rendering, where what can go wrong is in the computation and not in an order of steps. Generated API documentation and provider clients are the larger part of the source by
lines.
