---------------------------- MODULE CampaignFunds ----------------------------
(***************************************************************************)
(* The life of one customer's campaigns and the money that follows it.     *)
(*                                                                         *)
(* A campaign row moves through the statuses of models/campaign.go under   *)
(* the handlers of the customer (business_flow/campaign_flow.go), the      *)
(* administrator (campaign_admin_flow.go), the bot that runs campaigns     *)
(* (campaign_bot_flow.go), the recovery job of the scheduler and the       *)
(* refund job.  Every handler that moves money reads the latest            *)
(* BalanceSnapshot of the customer's wallet, saves a new one and saves a   *)
(* Transaction, all inside one database transaction.                       *)
(*                                                                         *)
(* A handler that holds the campaign row lock from its first read to its   *)
(* commit is one action.  Three handlers read before they lock, or do not  *)
(* lock at all: UpdateCampaign checks the status on an unlocked row,       *)
(* RescheduleCampaign saves the whole row it read without a lock, and the  *)
(* payment flow derives a snapshot without locking the wallet.  Unlocked   *)
(* names those of the three whose read and write other requests may come   *)
(* between; a kind that is not in Unlocked is taken to run undisturbed.    *)
(***************************************************************************)
EXTENDS Integers, Sequences, FiniteSets

CONSTANTS Campaigns,      \* the campaigns of one customer
          Editors,        \* concurrent UpdateCampaign requests
          Admins,         \* concurrent RescheduleCampaign requests
          Gateways,       \* concurrent wallet recharges
          Audiences,      \* possible values of cost.NumTargetAudience
          Prices,         \* possible prices of one message
          Deposits,       \* recharges, [free |-> real, credit |-> customerCredit]
          OwnerIsAdmin,   \* the customer's mobile is an administrator's: cost 0
          Unlocked,       \* request kinds that others may interleave with
          MaxDeposited,   \* bound: money that is ever recharged
          MaxTxs          \* bound: freeze transactions of one campaign

ASSUME FundsAssumption ==
    /\ Campaigns # {}
    /\ Audiences \subseteq Nat
    /\ Prices \subseteq Nat \ {0}
    /\ Deposits \subseteq [free : Nat, credit : Nat]
    /\ OwnerIsAdmin \in BOOLEAN
    /\ Unlocked \subseteq {"update", "reschedule", "deposit"}
    /\ MaxDeposited \in Nat
    /\ MaxTxs \in Nat

VARIABLES row,        \* campaigns: the row of each campaign
          wallet,     \* the latest balance snapshot
          freezes,    \* completed freeze transactions, oldest first
          fees,       \* completed fee transactions, oldest first
          refunds,    \* completed refunds of a whole campaign
          partials,   \* completed refunds of undelivered messages
          deposited,  \* sum of the completed deposit transactions
          edit,       \* where each UpdateCampaign request is
          resched,    \* the row each RescheduleCampaign request has read
          recharge    \* the snapshot each wallet recharge has read

ledger == <<freezes, fees, refunds, partials>>
vars == <<row, wallet, ledger, deposited, edit, resched, recharge>>

-----------------------------------------------------------------------------
(* The campaign row *)

Draft == {"initiated", "in-progress"}
Refunded == {"rejected", "cancelled", "cancelled-by-admin"}
Statuses == Draft \cup Refunded \cup
            {"waiting-for-approval", "approved", "running", "interrupted",
             "executed"}

\* How far ahead ScheduleAt is: absent; past the one hour in which a
\* campaign is picked up, and past the refund delay; past; in the future; at
\* least the administrator's two minutes ahead; at least ten minutes ahead.
NoSchedule == -1
Elapsed == 0
Due == 1
Soon == 2
AdminLead == 3
CustomerLead == 4

\* No delivery statistics have been reported yet.
NoReport == -1

Rows == [status : Statuses, lead : NoSchedule .. CustomerLead, num : Nat,
         sent : Nat \cup {NoReport}, mark : BOOLEAN]

Row(status, lead, num, sent, mark) ==
    [status |-> status, lead |-> lead, num |-> num, sent |-> sent, mark |-> mark]
WithStatus(r, status) == Row(status, r.lead, r.num, r.sent, r.mark)
WithLead(r, lead) == Row(r.status, lead, r.num, r.sent, r.mark)

IsEditable(r) == r.status \in Draft

\* Mutant: an update is still allowed while the campaign waits.
canUpdateWhileWaiting(r) == r.status \in Draft \cup {"waiting-for-approval"}
canUpdateCampaign(r) == r.status \in Draft
isAdminReschedulable(r) ==
    r.status \in Draft \cup {"waiting-for-approval", "approved"}
isAdminMissedPendingApproval(r) ==
    r.status = "waiting-for-approval" /\ r.lead \in {Elapsed, Due}

-----------------------------------------------------------------------------
(* The wallet *)

Wallets == [free : Nat, credit : Nat, frozen : Nat, spent : Nat]
Balance(free, credit, frozen, spent) ==
    [free |-> free, credit |-> credit, frozen |-> frozen, spent |-> spent]
Total(w) == w.free + w.credit + w.frozen + w.spent
Least(a, b) == IF a <= b THEN a ELSE b

\* Free money is taken first, credit pays for the rest.
Freeze(w, amount) ==
    LET fromFree == Least(amount, w.free)
    IN  Balance(w.free - fromFree, w.credit - (amount - fromFree),
                w.frozen + amount, w.spent)

\* Mutant: the approval releases the reservation instead of spending it.
ConsumeToCredit(w, amount) ==
    Balance(w.free, w.credit + amount, w.frozen - amount, w.spent)
Consume(w, amount) ==
    Balance(w.free, w.credit, w.frozen - amount, w.spent + amount)
RefundFrozen(w, amount) ==
    Balance(w.free, w.credit + amount, w.frozen - amount, w.spent)

\* Mutant: the refund forgets to reduce what was spent.
RefundKeepsSpent(w, amount) ==
    Balance(w.free, w.credit + amount, w.frozen, w.spent)
RefundSpent(w, amount) ==
    Balance(w.free, w.credit + amount, w.frozen, w.spent - amount)

\* Mutant: frozen money counts as available.
AffordableWithFrozen(w, cost) == cost <= w.free + w.credit + w.frozen
Affordable(w, cost) == cost <= w.free + w.credit

-----------------------------------------------------------------------------
(* Writing a row *)

\* An UpdateCampaign request: what it has done, to which campaign, and
\* whether the row is still the revision it will finalize.
Edits == [pc : {"idle", "checked", "saved", "quoted"}, c : Campaigns,
          fresh : BOOLEAN]
Edit(pc, c, fresh) == [pc |-> pc, c |-> c, fresh |-> fresh]
NoEdit == Edit("idle", CHOOSE c \in Campaigns : TRUE, FALSE)

\* Every write sets updated_at, so a finalization priced before it is stale.
Outdate(c) ==
    [e \in Editors |-> IF edit[e].c = c THEN Edit(edit[e].pc, c, FALSE)
                                        ELSE edit[e]]

SaveRow(c, r) ==
    /\ row' = [row EXCEPT ![c] = r]
    /\ edit' = Outdate(c)

SetStatus(c, status) == SaveRow(c, WithStatus(row[c], status))

Record(log, c, tx) == [log EXCEPT ![c] = Append(@, tx)]

-----------------------------------------------------------------------------
(* UpdateCampaign *)

\* Phase 1 forces the status and replaces the schedule by the request's,
\* which may be absent; whatever the status has become since it was checked.
SaveDraft(e, c, lead) ==
    /\ row' = [row EXCEPT ![c] = WithLead(WithStatus(@, "in-progress"), lead)]
    /\ edit' = [Outdate(c) EXCEPT ![e] = Edit("saved", c, FALSE)]
    /\ UNCHANGED <<wallet, ledger, deposited, resched, recharge>>

NewLeads == {NoSchedule, Soon, AdminLead, CustomerLead}

UpdateCampaign(e, c, lead) ==
    /\ "update" \notin Unlocked
    /\ edit[e].pc = "idle"
    /\ canUpdateCampaign(row[c])
    /\ SaveDraft(e, c, lead)

UpdateCheck(e, c) ==
    /\ "update" \in Unlocked
    /\ edit[e].pc = "idle"
    /\ canUpdateCampaign(row[c])
    /\ edit' = [edit EXCEPT ![e] = Edit("checked", c, FALSE)]
    /\ UNCHANGED <<row, wallet, ledger, deposited, resched, recharge>>

UpdateSave(e, lead) ==
    /\ edit[e].pc = "checked"
    /\ SaveDraft(e, edit[e].c, lead)

\* The committed row is read again, its updated_at is the revision that
\* phase 2 must find, and canFinalizeCampaign wants ten minutes of lead (it
\* fills in an absent schedule, but only in this copy of the row).
FinalizeQuote(e) ==
    /\ edit[e].pc = "saved"
    /\ row[edit[e].c].lead \in {NoSchedule, CustomerLead}
    /\ edit' = [edit EXCEPT ![e] = Edit("quoted", @.c, TRUE)]
    /\ UNCHANGED <<row, wallet, ledger, deposited, resched, recharge>>

\* Phase 2.  The price in the metadata and the price behind the cost come
\* from separate reads, so an administrator may change prices between them.
FinalizeCommit(e, num, price, quoted) ==
    LET c == edit[e].c
        cost == IF OwnerIsAdmin THEN 0 ELSE num * quoted
    IN  /\ edit[e].pc = "quoted"
        /\ IsEditable(row[c])
        /\ edit[e].fresh
        /\ Len(freezes[c]) < MaxTxs
        /\ Affordable(wallet, cost)
        /\ row' = [row EXCEPT ![c] =
                     Row("waiting-for-approval", @.lead, num, @.sent, @.mark)]
        /\ edit' = [Outdate(c) EXCEPT ![e] = NoEdit]
        /\ wallet' = Freeze(wallet, cost)
        /\ freezes' = Record(freezes, c, [amount |-> cost, price |-> price])
        /\ UNCHANGED <<fees, refunds, partials, deposited, resched, recharge>>

\* The request ends without finalizing: a draft save, or any refusal.
UpdateEnd(e) ==
    /\ edit[e].pc # "idle"
    /\ edit' = [edit EXCEPT ![e] = NoEdit]
    /\ UNCHANGED <<row, wallet, ledger, deposited, resched, recharge>>

-----------------------------------------------------------------------------
(* Handlers that hold the campaign row lock and the wallet lock *)

\* Exactly one reservation must be on record, and the snapshot must hold it.
TheFreeze(c) == freezes[c][1].amount
HasOneFreeze(c) == Len(freezes[c]) = 1 /\ wallet.frozen >= TheFreeze(c)
TheFee(c) == fees[c][1]
HasOneFee(c) == Len(fees[c]) = 1 /\ wallet.spent >= TheFee(c)

ApproveCampaign(c) ==
    /\ row[c].status = "waiting-for-approval"
    /\ row[c].lead >= Soon
    /\ HasOneFreeze(c)
    /\ wallet' = Consume(wallet, TheFreeze(c))
    /\ fees' = Record(fees, c, TheFreeze(c))
    /\ SetStatus(c, "approved")
    /\ UNCHANGED <<freezes, refunds, partials, deposited, resched, recharge>>

\* The reservation goes back to the credit balance.
ReturnFrozen(c, status) ==
    /\ HasOneFreeze(c)
    /\ wallet' = RefundFrozen(wallet, TheFreeze(c))
    /\ refunds' = Record(refunds, c, [from |-> "frozen", amount |-> TheFreeze(c)])
    /\ SetStatus(c, status)
    /\ UNCHANGED <<freezes, fees, partials, deposited, resched, recharge>>

\* What the approval spent goes back to the credit balance.
ReturnSpent(c, status) ==
    /\ HasOneFee(c)
    /\ wallet' = RefundSpent(wallet, TheFee(c))
    /\ refunds' = Record(refunds, c, [from |-> "spent", amount |-> TheFee(c)])
    /\ SetStatus(c, status)
    /\ UNCHANGED <<freezes, fees, partials, deposited, resched, recharge>>

RejectCampaign(c) ==
    /\ row[c].status = "waiting-for-approval"
    /\ ReturnFrozen(c, "rejected")

CancelWaiting(c) ==
    /\ row[c].status = "waiting-for-approval"
    /\ ReturnFrozen(c, "cancelled")

\* Mutant: a campaign that is being sent can still be cancelled.
CancelStarted(c) ==
    /\ row[c].status \in {"approved", "running"}
    /\ row[c].lead >= CustomerLead
    /\ ReturnSpent(c, "cancelled")

CancelApproved(c) ==
    /\ row[c].status = "approved"
    /\ row[c].lead >= CustomerLead
    /\ ReturnSpent(c, "cancelled")

AdminCancelMissed(c) ==
    /\ isAdminMissedPendingApproval(row[c])
    /\ ReturnFrozen(c, "cancelled-by-admin")

AdminCancelApproved(c) ==
    /\ row[c].status = "approved"
    /\ row[c].lead >= AdminLead
    /\ ReturnSpent(c, "cancelled-by-admin")

-----------------------------------------------------------------------------
(* RescheduleCampaign *)

NoRow == Row("initiated", NoSchedule, 0, NoReport, FALSE)
NoResched == [pc |-> "idle", c |-> NoEdit.c, row |-> NoRow]

\* A schedule that is too close may not be moved, except one that was missed
\* while the campaign waited for approval.
MayReschedule(r) ==
    /\ isAdminReschedulable(r)
    /\ \/ r.lead = NoSchedule
       \/ r.lead >= AdminLead
       \/ isAdminMissedPendingApproval(r)

RescheduleCampaign(c, lead) ==
    /\ "reschedule" \notin Unlocked
    /\ MayReschedule(row[c])
    /\ SaveRow(c, WithLead(row[c], lead))
    /\ UNCHANGED <<wallet, ledger, deposited, resched, recharge>>

RescheduleRead(a, c) ==
    /\ "reschedule" \in Unlocked
    /\ resched[a].pc = "idle"
    /\ MayReschedule(row[c])
    /\ resched' = [resched EXCEPT ![a] = [pc |-> "read", c |-> c, row |-> row[c]]]
    /\ UNCHANGED <<row, wallet, ledger, deposited, edit, recharge>>

\* The whole row is saved as it was read.
RescheduleSave(a, lead) ==
    /\ resched[a].pc = "read"
    /\ SaveRow(resched[a].c, WithLead(resched[a].row, lead))
    /\ resched' = [resched EXCEPT ![a] = NoResched]
    /\ UNCHANGED <<wallet, ledger, deposited, recharge>>

-----------------------------------------------------------------------------
(* Running a campaign *)

MoveCampaignToRunning(c) ==
    /\ row[c].status = "approved"
    /\ SetStatus(c, "running")
    /\ UNCHANGED <<wallet, ledger, deposited, resched, recharge>>

\* Mutant: a finished run is taken for a running one.
IsRunningOrDone(r) == r.status \in {"running", "executed"}
IsRunning(r) == r.status = "running"

MoveCampaignToExecuted(c) ==
    /\ IsRunning(row[c])
    /\ SetStatus(c, "executed")
    /\ UNCHANGED <<wallet, ledger, deposited, resched, recharge>>

\* A run that failed, or whose heartbeat stopped: back to approved when
\* nothing was handed to a provider, interrupted otherwise.
recoverUndeliveredCampaigns(c, delivered) ==
    /\ IsRunning(row[c])
    /\ SetStatus(c, IF delivered THEN "interrupted" ELSE "approved")
    /\ UNCHANGED <<wallet, ledger, deposited, resched, recharge>>

\* The bot reports how many messages of a campaign that was once approved
\* were sent; the status is not looked at, other keys of statistics are kept.
UpdateCampaignStatistics(c, sent) ==
    /\ fees[c] # <<>>
    /\ row[c].sent # sent
    /\ SaveRow(c, Row(row[c].status, row[c].lead, row[c].num, sent, row[c].mark))
    /\ UNCHANGED <<wallet, ledger, deposited, resched, recharge>>

-----------------------------------------------------------------------------
(* Refund of undelivered messages *)

LastFee(c) == fees[c][Len(fees[c])]
PricePaid(c) == freezes[c][Len(freezes[c])].price
Undelivered(c) == (row[c].num - row[c].sent) * PricePaid(c)

\* Mutant: only the marker in the campaign's statistics is looked at.
MarkedRefund(c) == row[c].mark
HasCompletedCampaignPartialRefund(c) == partials[c] # <<>>

FeeCovers(c) == LastFee(c) >= Undelivered(c) /\ wallet.spent >= Undelivered(c)

\* What one attempt ends with, in the order of the code's checks.
ReconcileOutcome(c) ==
    IF row[c].status # "executed" THEN "noop"
    ELSE IF row[c].lead = NoSchedule THEN "manual"
    ELSE IF row[c].lead # Elapsed THEN "retry"
    ELSE IF row[c].num = 0 \/ HasCompletedCampaignPartialRefund(c) THEN "noop"
    ELSE IF row[c].mark THEN "manual"
    ELSE IF row[c].sent = NoReport THEN "retry"
    ELSE IF row[c].sent >= row[c].num THEN "noop"
    ELSE IF freezes[c] = <<>> \/ fees[c] = <<>> THEN "manual"
    ELSE IF FeeCovers(c) THEN "refund"
    ELSE "manual"

ReconcileUndeliveredCampaignRefund(c) ==
    /\ ReconcileOutcome(c) = "refund"
    /\ wallet' = RefundSpent(wallet, Undelivered(c))
    /\ partials' = Record(partials, c, Undelivered(c))
    /\ SaveRow(c, Row(row[c].status, row[c].lead, row[c].num, row[c].sent, TRUE))
    /\ UNCHANGED <<freezes, fees, refunds, deposited, resched, recharge>>

-----------------------------------------------------------------------------
(* Wallet recharge: the last step of every payment channel *)

NoRecharge == [pc |-> "idle", snap |-> Balance(0, 0, 0, 0)]

IncreaseBalance(snap, d) ==
    /\ deposited + d.free + d.credit <= MaxDeposited
    /\ wallet' = Balance(snap.free + d.free, snap.credit + d.credit,
                         snap.frozen, snap.spent)
    /\ deposited' = deposited + d.free + d.credit
    /\ UNCHANGED <<row, ledger, edit, resched>>

RechargeWallet(d) ==
    /\ "deposit" \notin Unlocked
    /\ IncreaseBalance(wallet, d)
    /\ UNCHANGED recharge

RechargeRead(g) ==
    /\ "deposit" \in Unlocked
    /\ recharge[g].pc = "idle"
    /\ recharge' = [recharge EXCEPT ![g] = [pc |-> "read", snap |-> wallet]]
    /\ UNCHANGED <<row, wallet, ledger, deposited, edit, resched>>

RechargeSave(g, d) ==
    /\ recharge[g].pc = "read"
    /\ IncreaseBalance(recharge[g].snap, d)
    /\ recharge' = [recharge EXCEPT ![g] = NoRecharge]

-----------------------------------------------------------------------------
(* Time: a schedule comes closer and passes *)

PassTime(c) ==
    /\ row[c].lead > Elapsed
    /\ row' = [row EXCEPT ![c] = WithLead(@, @.lead - 1)]
    /\ UNCHANGED <<wallet, ledger, deposited, edit, resched, recharge>>

Init ==
    /\ row = [c \in Campaigns |-> NoRow]
    /\ wallet = NoRecharge.snap
    /\ freezes = [c \in Campaigns |-> <<>>]
    /\ fees = [c \in Campaigns |-> <<>>]
    /\ refunds = [c \in Campaigns |-> <<>>]
    /\ partials = [c \in Campaigns |-> <<>>]
    /\ deposited = 0
    /\ edit = [e \in Editors |-> NoEdit]
    /\ resched = [a \in Admins |-> NoResched]
    /\ recharge = [g \in Gateways |-> NoRecharge]

Update(e) ==
    \/ \E c \in Campaigns : UpdateCheck(e, c)
    \/ \E c \in Campaigns, lead \in NewLeads : UpdateCampaign(e, c, lead)
    \/ \E lead \in NewLeads : UpdateSave(e, lead)
    \/ FinalizeQuote(e)
    \/ \E num \in Audiences, price, quoted \in Prices :
          FinalizeCommit(e, num, price, quoted)
    \/ UpdateEnd(e)

Decide(c) ==
    \/ ApproveCampaign(c)
    \/ RejectCampaign(c)
    \/ CancelWaiting(c)
    \/ CancelApproved(c)
    \/ AdminCancelMissed(c)
    \/ AdminCancelApproved(c)

Run(c) ==
    \/ MoveCampaignToRunning(c)
    \/ MoveCampaignToExecuted(c)
    \/ \E delivered \in BOOLEAN : recoverUndeliveredCampaigns(c, delivered)
    \/ \E sent \in 0 .. row[c].num : UpdateCampaignStatistics(c, sent)
    \/ ReconcileUndeliveredCampaignRefund(c)

NewSchedules == {AdminLead, CustomerLead}

Next ==
    \/ \E e \in Editors : Update(e)
    \/ \E c \in Campaigns : Decide(c)
    \/ \E c \in Campaigns, lead \in NewSchedules : RescheduleCampaign(c, lead)
    \/ \E a \in Admins, c \in Campaigns : RescheduleRead(a, c)
    \/ \E a \in Admins, lead \in NewSchedules : RescheduleSave(a, lead)
    \/ \E c \in Campaigns : Run(c)
    \/ \E d \in Deposits : RechargeWallet(d)
    \/ \E g \in Gateways : RechargeRead(g)
    \/ \E g \in Gateways, d \in Deposits : RechargeSave(g, d)
    \/ \E c \in Campaigns : PassTime(c)

Spec == Init /\ [][Next]_vars

-----------------------------------------------------------------------------
(* Properties *)

\* Every variable has the shape its table or struct gives it; in particular
\* no balance, a uint64 in the code, ever goes below zero.
TypeOK ==
    /\ row \in [Campaigns -> Rows]
    /\ wallet \in Wallets
    /\ freezes \in [Campaigns -> Seq([amount : Nat, price : Nat])]
    /\ fees \in [Campaigns -> Seq(Nat)]
    /\ refunds \in [Campaigns -> Seq([from : {"frozen", "spent"}, amount : Nat])]
    /\ partials \in [Campaigns -> Seq(Nat)]
    /\ deposited \in Nat
    /\ edit \in [Editors -> Edits]
    /\ resched \in [Admins -> [pc : {"idle", "read"}, c : Campaigns, row : Rows]]
    /\ recharge \in [Gateways -> [pc : {"idle", "read"}, snap : Wallets]]

\* However requests interleave, the balances never add up to more than was
\* recharged: freeze, approval and every refund only move money.
NoMoneyCreated == Total(wallet) <= deposited

\* When recharges do not race with other wallet writers, not a single Toman
\* is lost either, whatever UpdateCampaign and RescheduleCampaign race with.
MoneyConserved == "deposit" \notin Unlocked => Total(wallet) = deposited

\* The sum of all amounts in the logs of the campaigns, counted Toman by
\* Toman: each has a number within its entry of the log.
Tomans(log) == UNION {UNION {{<<c, i>>} \X (1 .. log[c][i]) :
                                 i \in DOMAIN log[c]} : c \in Campaigns}
Booked(log) == Cardinality(Tomans(log))

FreezeAmounts == [c \in Campaigns |->
                     [i \in DOMAIN freezes[c] |-> freezes[c][i].amount]]
RefundAmounts(from) ==
    [c \in Campaigns |->
        [i \in DOMAIN refunds[c] |->
            IF refunds[c][i].from = from THEN refunds[c][i].amount ELSE 0]]

\* The ledger explains the wallet, whatever UpdateCampaign and
\* RescheduleCampaign race with: what is frozen is what the campaigns reserved
\* and neither spent nor got back, what is spent is what approvals consumed
\* and no refund returned.
LedgerExplainsWallet ==
    "deposit" \notin Unlocked =>
        /\ wallet.frozen = Booked(FreezeAmounts) - Booked(fees)
                               - Booked(RefundAmounts("frozen"))
        /\ wallet.spent = Booked(fees) - Booked(RefundAmounts("spent"))
                              - Booked(partials)

RefundedOnce == \A c \in Campaigns : Len(partials[c]) <= 1
PartialRefundWithinFee ==
    \A c \in Campaigns : \A i \in 1 .. Len(partials[c]) :
        \E j \in 1 .. Len(fees[c]) : partials[c][i] <= fees[c][j]

\* Undelivered messages of a campaign are refunded at most once, even when a
\* stale RescheduleCampaign wipes the marker the refund left in statistics,
\* and never for more than an approval fee that was charged for it.
PartialRefundOnce == RefundedOnce /\ PartialRefundWithinFee

Agrees(status, frozen, paid, returned, partly) ==
    /\ status \in Draft => frozen = <<>> /\ paid = <<>> /\ returned = <<>>
    /\ status = "waiting-for-approval" =>
         Len(frozen) = 1 /\ paid = <<>> /\ returned = <<>>
    /\ status \in {"approved", "running", "interrupted", "executed"} =>
         /\ Len(frozen) = 1 /\ paid = <<frozen[1].amount>>
         /\ returned = <<>>
    /\ status \in Refunded =>
         /\ Len(frozen) = 1
         /\ paid \in {<<>>, <<frozen[1].amount>>}
         /\ returned = <<[from |-> IF paid = <<>> THEN "frozen" ELSE "spent",
                         amount |-> frozen[1].amount]>>
    /\ status # "executed" => partly = <<>>

\* Status and ledger of a campaign agree: a draft has reserved nothing, a
\* waiting campaign has one open reservation, an approved, running or
\* finished one has consumed exactly it, and a cancelled or rejected one got
\* back exactly what it had paid, from the balance that held it.
EscrowMatchesStatus ==
    \A c \in Campaigns :
        Agrees(row[c].status, freezes[c], fees[c], refunds[c], partials[c])

\* The status graph that the handlers describe.
Transitions ==
    {<<"initiated", "in-progress">>, <<"in-progress", "waiting-for-approval">>,
     <<"waiting-for-approval", "approved">>, <<"approved", "running">>,
     <<"running", "approved">>, <<"running", "interrupted">>,
     <<"running", "executed">>}
    \cup {"waiting-for-approval"} \X Refunded
    \cup {"approved"} \X (Refunded \ {"rejected"})

\* Status transitions of one campaign are serialized: a step never takes a
\* campaign along an edge that no handler describes, such as back from
\* cancelled to approved.
StatusTransitionsSerialized ==
    [][\A c \in Campaigns :
          \/ row'[c].status = row[c].status
          \/ <<row[c].status, row'[c].status>> \in Transitions]_vars

\* How the escrow of a campaign stands, by its status, and what it holds, by
\* the ledger.
Phase(status, partly) ==
    CASE status \in Draft -> "open"
      [] status = "waiting-for-approval" -> "reserved"
      [] status = "approved" -> "paid"
      [] status \in {"running", "interrupted"} -> "under way"
      [] status = "executed" /\ partly = <<>> -> "used"
      [] OTHER -> "closed"
HeldBack(frozen, paid, returned) ==
    IF Len(frozen) = 1 /\ paid = <<>> /\ returned = <<>> THEN frozen[1].amount ELSE 0
PaidFor(paid, returned, partly) ==
    IF paid = <<>> \/ returned # <<>> THEN 0
    ELSE IF partly = <<>> THEN paid[1] ELSE paid[1] - partly[1]

AvailableMoney == wallet.free + wallet.credit
HeldMoney == [c \in Campaigns |-> HeldBack(freezes[c], fees[c], refunds[c])]
PaidMoney == [c \in Campaigns |-> PaidFor(fees[c], refunds[c], partials[c])]
Phases == [c \in Campaigns |-> Phase(row[c].status, partials[c])]

Escrow == INSTANCE EscrowContract WITH available <- AvailableMoney,
             held <- HeldMoney, paid <- PaidMoney, phase <- Phases

\* While the handlers run undisturbed, a customer with any number of campaigns
\* finds each of them in an escrow of its own: what she can still plan with
\* changes only by what is set aside for a campaign or given back for it, once,
\* and never while it is under way.
ImplementsEscrow == Escrow!Spec

=============================================================================
