------------------------- MODULE CampaignFundsProofs -------------------------
(* Theorems about CampaignFunds, for every value of its constants. *)
EXTENDS CampaignFunds, FiniteSetTheorems, TLAPS

\* Products of naturals are naturals: a cost and a refund amount are amounts.
LEMMA ProductNat ==
    ASSUME NEW m \in Nat, NEW n \in Nat
    PROVE  m * n \in Nat
  OBVIOUS

\* The placeholders of idle requests have the shape of the real ones.
LEMMA IdleTypes ==
    /\ NoEdit \in Edits
    /\ NoRow \in Rows
    /\ NoResched \in [pc : {"idle", "read"}, c : Campaigns, row : Rows]
    /\ NoRecharge \in [pc : {"idle", "read"}, snap : Wallets]
    /\ NoRecharge.snap \in Wallets
  <1>1. (CHOOSE c \in Campaigns : TRUE) \in Campaigns
    BY FundsAssumption
  <1>2. NoEdit \in Edits
    BY <1>1 DEF NoEdit, Edit, Edits
  <1>3. NoRow \in Rows
    BY DEF NoRow, Row, Rows, Statuses, Draft, NoSchedule, NoReport, CustomerLead
  <1>4. NoEdit.c \in Campaigns
    BY <1>1 DEF NoEdit, Edit
  <1> QED
    BY <1>2, <1>3, <1>4 DEF NoResched, NoRecharge, Balance, Wallets

\* Moving money keeps every balance a natural number when the balance it is
\* taken from covers it, and keeps the total.
LEMMA MoneyMoves ==
    ASSUME NEW w \in Wallets, NEW n \in Nat
    PROVE  /\ Total(w) \in Nat
           /\ Affordable(w, n) =>
                Freeze(w, n) \in Wallets /\ Total(Freeze(w, n)) = Total(w)
           /\ n <= w.frozen =>
                /\ Consume(w, n) \in Wallets /\ Total(Consume(w, n)) = Total(w)
                /\ RefundFrozen(w, n) \in Wallets
                /\ Total(RefundFrozen(w, n)) = Total(w)
           /\ n <= w.spent =>
                /\ RefundSpent(w, n) \in Wallets
                /\ Total(RefundSpent(w, n)) = Total(w)
  <1>0. /\ w.free \in Nat /\ w.credit \in Nat /\ w.frozen \in Nat
        /\ w.spent \in Nat
    BY DEF Wallets
  <1>1. Total(w) \in Nat
    BY <1>0 DEF Total
  <1>2. ASSUME Affordable(w, n)
        PROVE  Freeze(w, n) \in Wallets /\ Total(Freeze(w, n)) = Total(w)
    <2>1. PICK f \in Nat : f = Least(n, w.free)
      BY <1>0 DEF Least
    <2>2. f <= n /\ f <= w.free /\ (n - f) <= w.credit
      BY <1>0, <1>2, <2>1 DEF Least, Affordable
    <2> QED
      BY <1>0, <2>1, <2>2 DEF Freeze, Balance, Wallets, Total
  <1>3. ASSUME n <= w.frozen
        PROVE  /\ Consume(w, n) \in Wallets
               /\ Total(Consume(w, n)) = Total(w)
               /\ RefundFrozen(w, n) \in Wallets
               /\ Total(RefundFrozen(w, n)) = Total(w)
    BY <1>0, <1>3 DEF Consume, RefundFrozen, Balance, Wallets, Total
  <1>4. ASSUME n <= w.spent
        PROVE  /\ RefundSpent(w, n) \in Wallets
               /\ Total(RefundSpent(w, n)) = Total(w)
    BY <1>0, <1>4 DEF RefundSpent, Balance, Wallets, Total
  <1> QED
    BY <1>1, <1>2, <1>3, <1>4

\* A write to a campaign leaves every request well-formed.
LEMMA OutdateTypes ==
    ASSUME TypeOK, NEW c \in Campaigns
    PROVE  Outdate(c) \in [Editors -> Edits]
  BY DEF TypeOK, Outdate, Edit, Edits

\* Saving a well-formed row leaves rows and requests well-formed.
LEMMA SaveRowTypes ==
    ASSUME TypeOK, NEW c \in Campaigns, NEW r \in Rows, SaveRow(c, r)
    PROVE  row' \in [Campaigns -> Rows] /\ edit' \in [Editors -> Edits]
  BY OutdateTypes DEF TypeOK, SaveRow

\* So does setting a status or a schedule.
LEMMA RowTypes ==
    ASSUME NEW r \in Rows
    PROVE  /\ \A s \in Statuses : WithStatus(r, s) \in Rows
           /\ \A l \in NoSchedule .. CustomerLead : WithLead(r, l) \in Rows
  BY DEF Rows, Row, WithStatus, WithLead

LEMMA SetStatusTypes ==
    ASSUME TypeOK, NEW c \in Campaigns, NEW s \in Statuses, SetStatus(c, s)
    PROVE  row' \in [Campaigns -> Rows] /\ edit' \in [Editors -> Edits]
  <1>1. row[c] \in Rows
    BY DEF TypeOK
  <1> QED
    BY <1>1, RowTypes, SaveRowTypes DEF SetStatus

\* Phase 1 of UpdateCampaign writes a well-formed draft.
LEMMA SaveDraftTypes ==
    ASSUME TypeOK, NEW e \in Editors, NEW c \in Campaigns,
           NEW lead \in NewLeads, SaveDraft(e, c, lead)
    PROVE  row' \in [Campaigns -> Rows] /\ edit' \in [Editors -> Edits]
  <1>1. row[c] \in Rows
    BY DEF TypeOK
  <1>2. lead \in NoSchedule .. CustomerLead
    BY DEF NewLeads, NoSchedule, Soon, AdminLead, CustomerLead
  <1>3. "in-progress" \in Statuses
    BY DEF Statuses, Draft
  <1>4. WithLead(WithStatus(row[c], "in-progress"), lead) \in Rows
    BY <1>1, <1>2, <1>3, RowTypes
  <1>5. row' \in [Campaigns -> Rows]
    BY <1>4 DEF TypeOK, SaveDraft
  <1>6. edit' \in [Editors -> Edits]
    BY OutdateTypes DEF SaveDraft, Edit, Edits
  <1> QED
    BY <1>5, <1>6

\* Sequences of amounts stay sequences of amounts when one is recorded.
LEMMA RecordTypes ==
    ASSUME NEW S, NEW log \in [Campaigns -> Seq(S)], NEW c \in Campaigns,
           NEW x \in S
    PROVE  Record(log, c, x) \in [Campaigns -> Seq(S)]
  BY DEF Record

\* An element of a sequence is an element of the set it is a sequence over.
LEMMA ElementOf ==
    ASSUME NEW S, NEW s \in Seq(S), NEW i \in 1 .. Len(s)
    PROVE  s[i] \in S
  OBVIOUS

\* An append keeps what was there.
LEMMA AppendKeeps ==
    ASSUME NEW S, NEW s \in Seq(S), NEW x \in S, NEW j \in 1 .. Len(s)
    PROVE  j \in 1 .. Len(Append(s, x)) /\ Append(s, x)[j] = s[j]
  OBVIOUS

\* A record appended to an empty log is its only one.
LEMMA FirstRecord ==
    ASSUME NEW S, NEW log \in [Campaigns -> Seq(S)], NEW c \in Campaigns,
           NEW x \in S, log[c] = <<>>
    PROVE  /\ Record(log, c, x)[c] = <<x>>
           /\ Len(Record(log, c, x)[c]) = 1
           /\ Record(log, c, x)[c][1] = x
           /\ \A d \in Campaigns \ {c} : Record(log, c, x)[d] = log[d]
  <1>1. Record(log, c, x)[c] = Append(<<>>, x)
    BY DEF Record
  <1>2. Append(<<>>, x) = <<x>>
    OBVIOUS
  <1> QED
    BY <1>1, <1>2 DEF Record

\* Facts about the single reservation and the single fee that the guards
\* of the handlers have established.
LEMMA GuardFacts ==
    ASSUME TypeOK, NEW c \in Campaigns
    PROVE  /\ HasOneFreeze(c) => /\ TheFreeze(c) \in Nat
                                 /\ TheFreeze(c) <= wallet.frozen
           /\ HasOneFee(c) => TheFee(c) \in Nat /\ TheFee(c) <= wallet.spent
  <1>1. ASSUME HasOneFreeze(c)
        PROVE  TheFreeze(c) \in Nat /\ TheFreeze(c) <= wallet.frozen
    <2>1. freezes[c] \in Seq([amount : Nat, price : Nat]) /\ Len(freezes[c]) = 1
      BY <1>1 DEF TypeOK, HasOneFreeze
    <2>2. freezes[c][1] \in [amount : Nat, price : Nat]
      <3>1. 1 \in 1 .. Len(freezes[c])
        BY <2>1
      <3> QED
        BY ONLY <2>1, <3>1, ElementOf
    <2>3. TheFreeze(c) \in Nat
      BY <2>2 DEF TheFreeze
    <2>4. wallet.frozen \in Nat
      BY DEF TypeOK, Wallets
    <2> QED
      BY <1>1, <2>3, <2>4 DEF HasOneFreeze
  <1>2. ASSUME HasOneFee(c)
        PROVE  TheFee(c) \in Nat /\ TheFee(c) <= wallet.spent
    <2>1. fees[c] \in Seq(Nat) /\ Len(fees[c]) = 1
      BY <1>2 DEF TypeOK, HasOneFee
    <2>2. TheFee(c) \in Nat
      BY <2>1 DEF TheFee
    <2>3. wallet.spent \in Nat
      BY DEF TypeOK, Wallets
    <2> QED
      BY <1>2, <2>2, <2>3 DEF HasOneFee
  <1> QED
    BY <1>1, <1>2

\* A refund of undelivered messages is an amount that the fee and the spent
\* balance cover.
LEMMA ReconcileFacts ==
    ASSUME TypeOK, NEW c \in Campaigns, ReconcileOutcome(c) = "refund"
    PROVE  /\ Undelivered(c) \in Nat
           /\ Undelivered(c) <= wallet.spent
           /\ fees[c] # <<>>
           /\ LastFee(c) \in Nat
           /\ Undelivered(c) <= LastFee(c)
           /\ partials[c] = <<>>
           /\ row[c].status = "executed"
  <1>1. /\ row[c].status = "executed"
        /\ row[c].sent # NoReport
        /\ ~(row[c].sent >= row[c].num)
        /\ ~HasCompletedCampaignPartialRefund(c)
        /\ freezes[c] # <<>> /\ fees[c] # <<>>
        /\ FeeCovers(c)
    BY DEF ReconcileOutcome
  <1>2. row[c].num \in Nat /\ row[c].sent \in Nat
    BY <1>1 DEF TypeOK, Rows
  <1>3. row[c].num - row[c].sent \in Nat
    BY <1>1, <1>2
  <1>4. PricePaid(c) \in Nat
    <2>1. freezes[c] \in Seq([amount : Nat, price : Nat])
      BY DEF TypeOK
    <2>2. Len(freezes[c]) \in 1 .. Len(freezes[c])
      BY <2>1, <1>1
    <2>3. freezes[c][Len(freezes[c])] \in [amount : Nat, price : Nat]
      BY ONLY <2>1, <2>2, ElementOf
    <2> QED
      BY <2>3 DEF PricePaid
  <1>5. Undelivered(c) \in Nat
    BY <1>3, <1>4, ProductNat DEF Undelivered
  <1>6. LastFee(c) \in Nat
    <2>1. fees[c] \in Seq(Nat)
      BY DEF TypeOK
    <2>2. Len(fees[c]) \in 1 .. Len(fees[c])
      BY <2>1, <1>1
    <2> QED
      BY <2>1, <2>2 DEF LastFee
  <1>7. wallet.spent \in Nat
    BY DEF TypeOK, Wallets
  <1> QED
    BY <1>1, <1>5, <1>6, <1>7 DEF FeeCovers, HasCompletedCampaignPartialRefund

\* Every step keeps the types.
LEMMA TypeStep ==
    ASSUME TypeOK, [Next]_vars
    PROVE  TypeOK'
  <1> USE DEF ledger
  <1>0. ASSUME NEW c \in Campaigns
        PROVE  row[c] \in Rows
    BY DEF TypeOK
  <1>1. ASSUME NEW e \in Editors, NEW c \in Campaigns, NEW lead \in NewLeads,
               UpdateCampaign(e, c, lead)
        PROVE  TypeOK'
    <2>1. SaveDraft(e, c, lead)
      BY <1>1 DEF UpdateCampaign
    <2> QED
      BY <2>1, SaveDraftTypes DEF SaveDraft, TypeOK
  <1>2. ASSUME NEW e \in Editors, NEW c \in Campaigns, UpdateCheck(e, c)
        PROVE  TypeOK'
    BY <1>2 DEF UpdateCheck, TypeOK, Edit, Edits
  <1>3. ASSUME NEW e \in Editors, NEW lead \in NewLeads, UpdateSave(e, lead)
        PROVE  TypeOK'
    <2>1. edit[e].c \in Campaigns
      BY DEF TypeOK, Edits
    <2>2. SaveDraft(e, edit[e].c, lead)
      BY <1>3 DEF UpdateSave
    <2> QED
      BY <2>1, <2>2, SaveDraftTypes DEF SaveDraft, TypeOK
  <1>4. ASSUME NEW e \in Editors, FinalizeQuote(e)
        PROVE  TypeOK'
    BY <1>4 DEF FinalizeQuote, TypeOK, Edit, Edits
  <1>5. ASSUME NEW e \in Editors, NEW num \in Audiences, NEW price \in Prices,
               NEW quoted \in Prices, FinalizeCommit(e, num, price, quoted)
        PROVE  TypeOK'
    <2> DEFINE c == edit[e].c
               cost == IF OwnerIsAdmin THEN 0 ELSE num * quoted
               tx == [amount |-> cost, price |-> price]
    <2>1. c \in Campaigns
      BY DEF TypeOK, Edits
    <2>2. num \in Nat /\ price \in Nat /\ quoted \in Nat
      BY FundsAssumption
    <2>3. cost \in Nat
      BY <2>2, ProductNat
    <2>4. Row("waiting-for-approval", row[c].lead, num, row[c].sent, row[c].mark)
            \in Rows
      BY <2>1, <2>2, <1>0 DEF Row, Rows, Statuses
    <2>5. row' \in [Campaigns -> Rows]
      BY <1>5, <2>4 DEF FinalizeCommit, TypeOK
    <2>6. edit' \in [Editors -> Edits]
      BY <1>5, <2>1, OutdateTypes, IdleTypes DEF FinalizeCommit
    <2>7. wallet' \in Wallets
      <3>1. Affordable(wallet, cost) /\ wallet' = Freeze(wallet, cost)
        BY <1>5 DEF FinalizeCommit
      <3>2. wallet \in Wallets
        BY DEF TypeOK
      <3> QED
        BY <3>1, <3>2, <2>3, MoneyMoves
    <2>8. freezes' \in [Campaigns -> Seq([amount : Nat, price : Nat])]
      <3>1. freezes' = Record(freezes, c, tx)
        BY <1>5 DEF FinalizeCommit
      <3>2. tx \in [amount : Nat, price : Nat]
        BY <2>2, <2>3
      <3>3. freezes \in [Campaigns -> Seq([amount : Nat, price : Nat])]
        BY DEF TypeOK
      <3> QED
        BY ONLY <3>1, <3>2, <3>3, <2>1, RecordTypes
    <2> HIDE DEF c, cost, tx
    <2> QED
      BY <1>5, <2>5, <2>6, <2>7, <2>8 DEF FinalizeCommit, TypeOK
  <1>6. ASSUME NEW e \in Editors, UpdateEnd(e)
        PROVE  TypeOK'
    BY <1>6, IdleTypes DEF UpdateEnd, TypeOK
  <1>7. ASSUME NEW c \in Campaigns, ApproveCampaign(c)
        PROVE  TypeOK'
    <2>1. "approved" \in Statuses /\ SetStatus(c, "approved") /\ HasOneFreeze(c)
      BY <1>7 DEF Statuses, ApproveCampaign
    <2>2. TheFreeze(c) \in Nat /\ TheFreeze(c) <= wallet.frozen
      BY <2>1, GuardFacts
    <2>3. wallet' \in Wallets
      BY <1>7, <2>2, MoneyMoves DEF ApproveCampaign, TypeOK
    <2>4. fees' \in [Campaigns -> Seq(Nat)]
      BY <1>7, <2>2, RecordTypes DEF ApproveCampaign, TypeOK
    <2>5. row' \in [Campaigns -> Rows] /\ edit' \in [Editors -> Edits]
      BY <2>1, SetStatusTypes
    <2> QED
      BY <1>7, <2>3, <2>4, <2>5 DEF ApproveCampaign, TypeOK
  <1>8. ASSUME NEW c \in Campaigns, NEW s \in Statuses, ReturnFrozen(c, s)
        PROVE  TypeOK'
    <2>1. SetStatus(c, s) /\ HasOneFreeze(c)
      BY <1>8 DEF ReturnFrozen
    <2>2. TheFreeze(c) \in Nat /\ TheFreeze(c) <= wallet.frozen
      BY <2>1, GuardFacts
    <2>3. wallet' \in Wallets
      BY <1>8, <2>2, MoneyMoves DEF ReturnFrozen, TypeOK
    <2>4. refunds' \in [Campaigns -> Seq([from : {"frozen", "spent"}, amount : Nat])]
      <3>1. [from |-> "frozen", amount |-> TheFreeze(c)]
              \in [from : {"frozen", "spent"}, amount : Nat]
        BY <2>2
      <3> QED
        BY <1>8, <3>1, RecordTypes DEF ReturnFrozen, TypeOK
    <2>5. row' \in [Campaigns -> Rows] /\ edit' \in [Editors -> Edits]
      BY <2>1, SetStatusTypes
    <2> QED
      BY <1>8, <2>3, <2>4, <2>5 DEF ReturnFrozen, TypeOK
  <1>9. ASSUME NEW c \in Campaigns, NEW s \in Statuses, ReturnSpent(c, s)
        PROVE  TypeOK'
    <2>1. SetStatus(c, s) /\ HasOneFee(c)
      BY <1>9 DEF ReturnSpent
    <2>2. TheFee(c) \in Nat /\ TheFee(c) <= wallet.spent
      BY <2>1, GuardFacts
    <2>3. wallet' \in Wallets
      BY <1>9, <2>2, MoneyMoves DEF ReturnSpent, TypeOK
    <2>4. refunds' \in [Campaigns -> Seq([from : {"frozen", "spent"}, amount : Nat])]
      <3>1. [from |-> "spent", amount |-> TheFee(c)]
              \in [from : {"frozen", "spent"}, amount : Nat]
        BY <2>2
      <3> QED
        BY <1>9, <3>1, RecordTypes DEF ReturnSpent, TypeOK
    <2>5. row' \in [Campaigns -> Rows] /\ edit' \in [Editors -> Edits]
      BY <2>1, SetStatusTypes
    <2> QED
      BY <1>9, <2>3, <2>4, <2>5 DEF ReturnSpent, TypeOK
  <1>10. ASSUME NEW c \in Campaigns, Decide(c)
         PROVE  TypeOK'
    <2>1. {"rejected", "cancelled", "cancelled-by-admin"} \subseteq Statuses
      BY DEF Statuses, Refunded
    <2> QED
      BY <1>7, <1>8, <1>9, <1>10, <2>1 DEF Decide, RejectCampaign,
         CancelWaiting, CancelApproved, AdminCancelMissed, AdminCancelApproved
  <1>11. ASSUME NEW c \in Campaigns, NEW lead \in NewSchedules,
                RescheduleCampaign(c, lead)
         PROVE  TypeOK'
    <2>1. lead \in NoSchedule .. CustomerLead
      BY DEF NewSchedules, NoSchedule, AdminLead, CustomerLead
    <2>2. WithLead(row[c], lead) \in Rows
      BY <1>0, <2>1, RowTypes
    <2>3. SaveRow(c, WithLead(row[c], lead))
      BY <1>11 DEF RescheduleCampaign
    <2> QED
      BY <1>11, <2>2, <2>3, SaveRowTypes DEF RescheduleCampaign, TypeOK
  <1>12. ASSUME NEW a \in Admins, NEW c \in Campaigns, RescheduleRead(a, c)
         PROVE  TypeOK'
    BY <1>0, <1>12 DEF RescheduleRead, TypeOK
  <1>13. ASSUME NEW a \in Admins, NEW lead \in NewSchedules,
                RescheduleSave(a, lead)
         PROVE  TypeOK'
    <2>1. lead \in NoSchedule .. CustomerLead
      BY DEF NewSchedules, NoSchedule, AdminLead, CustomerLead
    <2>2. resched[a].row \in Rows /\ resched[a].c \in Campaigns
      BY DEF TypeOK
    <2>3. WithLead(resched[a].row, lead) \in Rows
      BY <2>1, <2>2, RowTypes
    <2>4. SaveRow(resched[a].c, WithLead(resched[a].row, lead))
      BY <1>13 DEF RescheduleSave
    <2>5. row' \in [Campaigns -> Rows] /\ edit' \in [Editors -> Edits]
      BY <2>2, <2>3, <2>4, SaveRowTypes
    <2> QED
      BY <1>13, <2>5, IdleTypes DEF RescheduleSave, TypeOK
  <1>14. ASSUME NEW c \in Campaigns, Run(c)
         PROVE  TypeOK'
    <2>1. {"running", "executed", "interrupted", "approved"} \subseteq Statuses
      BY DEF Statuses
    <2>2. CASE \/ MoveCampaignToRunning(c)
               \/ MoveCampaignToExecuted(c)
               \/ \E delivered \in BOOLEAN : recoverUndeliveredCampaigns(c, delivered)
      <3>1. PICK s \in Statuses : SetStatus(c, s)
        BY <2>1, <2>2 DEF MoveCampaignToRunning, MoveCampaignToExecuted,
           recoverUndeliveredCampaigns
      <3>2. row' \in [Campaigns -> Rows] /\ edit' \in [Editors -> Edits]
        BY <3>1, SetStatusTypes
      <3>3. UNCHANGED <<wallet, ledger, deposited, resched, recharge>>
        BY <2>2 DEF MoveCampaignToRunning, MoveCampaignToExecuted,
           recoverUndeliveredCampaigns
      <3> QED
        BY <3>2, <3>3 DEF TypeOK
    <2>3. ASSUME NEW sent \in 0 .. row[c].num, UpdateCampaignStatistics(c, sent)
          PROVE  TypeOK'
      <3>1. row[c].num \in Nat
        BY <1>0 DEF Rows
      <3>2. Row(row[c].status, row[c].lead, row[c].num, sent, row[c].mark) \in Rows
        BY <1>0, <3>1 DEF Row, Rows
      <3>3. row' \in [Campaigns -> Rows] /\ edit' \in [Editors -> Edits]
        BY <2>3, <3>2, SaveRowTypes DEF UpdateCampaignStatistics
      <3> QED
        BY <2>3, <3>3 DEF UpdateCampaignStatistics, TypeOK
    <2>4. CASE ReconcileUndeliveredCampaignRefund(c)
      <3>1. Undelivered(c) \in Nat /\ Undelivered(c) <= wallet.spent
        BY <2>4, ReconcileFacts DEF ReconcileUndeliveredCampaignRefund
      <3>2. wallet' \in Wallets
        BY <2>4, <3>1, MoneyMoves DEF ReconcileUndeliveredCampaignRefund, TypeOK
      <3>3. partials' \in [Campaigns -> Seq(Nat)]
        BY <2>4, <3>1, RecordTypes DEF ReconcileUndeliveredCampaignRefund, TypeOK
      <3>4. Row(row[c].status, row[c].lead, row[c].num, row[c].sent, TRUE) \in Rows
        BY <1>0 DEF Row, Rows
      <3>5. row' \in [Campaigns -> Rows] /\ edit' \in [Editors -> Edits]
        BY <2>4, <3>4, SaveRowTypes DEF ReconcileUndeliveredCampaignRefund
      <3> QED
        BY <2>4, <3>2, <3>3, <3>5 DEF ReconcileUndeliveredCampaignRefund, TypeOK
    <2> QED
      BY <1>14, <2>2, <2>3, <2>4 DEF Run
  <1>15. ASSUME NEW d \in Deposits, NEW snap \in Wallets, IncreaseBalance(snap, d)
         PROVE  /\ wallet' \in Wallets
                /\ deposited' \in Nat
                /\ UNCHANGED <<row, ledger, edit, resched>>
    <2>1. d.free \in Nat /\ d.credit \in Nat
      BY FundsAssumption
    <2>2. /\ snap.free \in Nat /\ snap.credit \in Nat
          /\ snap.frozen \in Nat /\ snap.spent \in Nat
      BY DEF Wallets
    <2>3. wallet' \in Wallets
      BY <1>15, <2>1, <2>2 DEF IncreaseBalance, Balance, Wallets
    <2>4. deposited' \in Nat
      BY <1>15, <2>1 DEF IncreaseBalance, TypeOK
    <2> QED
      BY <1>15, <2>3, <2>4 DEF IncreaseBalance
  <1>16. ASSUME NEW d \in Deposits, RechargeWallet(d)
         PROVE  TypeOK'
    <2>1. wallet \in Wallets
      BY DEF TypeOK
    <2> QED
      BY <1>15, <1>16, <2>1 DEF RechargeWallet, TypeOK
  <1>17. ASSUME NEW g \in Gateways, RechargeRead(g)
         PROVE  TypeOK'
    BY <1>17 DEF RechargeRead, TypeOK
  <1>18. ASSUME NEW g \in Gateways, NEW d \in Deposits, RechargeSave(g, d)
         PROVE  TypeOK'
    <2>1. recharge[g].snap \in Wallets
      BY DEF TypeOK
    <2> QED
      BY <1>15, <1>18, <2>1, IdleTypes DEF RechargeSave, TypeOK
  <1>19. ASSUME NEW c \in Campaigns, PassTime(c)
         PROVE  TypeOK'
    <2>1. row[c].lead - 1 \in NoSchedule .. CustomerLead
      BY <1>0, <1>19 DEF PassTime, Rows, NoSchedule, Elapsed, CustomerLead
    <2>2. WithLead(row[c], row[c].lead - 1) \in Rows
      BY <1>0, <2>1, RowTypes
    <2> QED
      BY <1>19, <2>2 DEF PassTime, TypeOK
  <1>20. CASE UNCHANGED vars
    BY <1>20 DEF vars, TypeOK
  <1> QED
    BY <1>1, <1>2, <1>3, <1>4, <1>5, <1>6, <1>10, <1>11, <1>12, <1>13, <1>14,
       <1>16, <1>17, <1>18, <1>19, <1>20 DEF Next, Update

\* The rows start as NoRow, the wallet and the ledger start empty.
LEMMA InitTypes == Init => TypeOK
  <1>1. ASSUME NEW S
        PROVE  <<>> \in Seq(S)
    OBVIOUS
  <1> QED
    BY <1>1, IdleTypes DEF Init, TypeOK

\* Type correctness: every row, balance and transaction keeps its shape, and
\* no balance is ever negative.
THEOREM TypeCorrect == Spec => []TypeOK
  <1>1. TypeOK /\ [Next]_vars => TypeOK'
    BY TypeStep
  <1> QED
    BY InitTypes, <1>1, PTL DEF Spec

-----------------------------------------------------------------------------
(* Money *)

\* A step that moves money within the wallet, if it touches it at all.
Moves == Total(wallet') = Total(wallet) /\ UNCHANGED <<deposited, recharge>>
Recharges ==
    \/ \E d \in Deposits : RechargeWallet(d)
    \/ \E g \in Gateways : RechargeRead(g)
    \/ \E g \in Gateways, d \in Deposits : RechargeSave(g, d)

\* A step of a campaign handler only moves money; the other steps that touch
\* the wallet are the recharges.
LEMMA MoneyStep ==
    ASSUME TypeOK, [Next]_vars
    PROVE  Moves \/ Recharges
  <1>1. ASSUME NEW e \in Editors, NEW num \in Audiences, NEW price \in Prices,
               NEW quoted \in Prices, FinalizeCommit(e, num, price, quoted)
        PROVE  Moves
    <2> DEFINE cost == IF OwnerIsAdmin THEN 0 ELSE num * quoted
    <2>1. num \in Nat /\ quoted \in Nat
      BY FundsAssumption
    <2>2. cost \in Nat
      BY <2>1, ProductNat
    <2>3. Affordable(wallet, cost) /\ wallet' = Freeze(wallet, cost)
      BY <1>1 DEF FinalizeCommit
    <2>4. Total(wallet') = Total(wallet)
      BY <2>2, <2>3, MoneyMoves DEF TypeOK
    <2> QED
      BY <1>1, <2>4 DEF FinalizeCommit, Moves
  <1>2. ASSUME NEW e \in Editors, Update(e)
        PROVE  Moves
    BY <1>1, <1>2 DEF Update, UpdateCheck, UpdateCampaign, UpdateSave, SaveDraft,
       FinalizeQuote, UpdateEnd, Moves
  <1>3. ASSUME NEW c \in Campaigns, ApproveCampaign(c)
        PROVE  Moves
    BY <1>3, GuardFacts, MoneyMoves DEF ApproveCampaign, TypeOK, Moves
  <1>4. ASSUME NEW c \in Campaigns, NEW s, ReturnFrozen(c, s)
        PROVE  Moves
    BY <1>4, GuardFacts, MoneyMoves DEF ReturnFrozen, TypeOK, Moves
  <1>5. ASSUME NEW c \in Campaigns, NEW s, ReturnSpent(c, s)
        PROVE  Moves
    BY <1>5, GuardFacts, MoneyMoves DEF ReturnSpent, TypeOK, Moves
  <1>6. ASSUME NEW c \in Campaigns, Decide(c)
        PROVE  Moves
    BY <1>3, <1>4, <1>5, <1>6 DEF Decide, RejectCampaign, CancelWaiting,
       CancelApproved, AdminCancelMissed, AdminCancelApproved
  <1>7. ASSUME NEW c \in Campaigns, ReconcileUndeliveredCampaignRefund(c)
        PROVE  Moves
    BY <1>7, ReconcileFacts, MoneyMoves DEF ReconcileUndeliveredCampaignRefund,
       TypeOK, Moves
  <1>8. ASSUME NEW c \in Campaigns, Run(c)
        PROVE  Moves
    BY <1>7, <1>8 DEF Run, MoveCampaignToRunning, MoveCampaignToExecuted,
       recoverUndeliveredCampaigns, UpdateCampaignStatistics, Moves
  <1>9. ASSUME NEW c \in Campaigns, NEW lead \in NewSchedules,
               RescheduleCampaign(c, lead)
        PROVE  Moves
    BY <1>9 DEF RescheduleCampaign, Moves
  <1>10. ASSUME NEW a \in Admins, NEW c \in Campaigns, RescheduleRead(a, c)
         PROVE  Moves
    BY <1>10 DEF RescheduleRead, Moves
  <1>11. ASSUME NEW a \in Admins, NEW lead \in NewSchedules,
                RescheduleSave(a, lead)
         PROVE  Moves
    BY <1>11 DEF RescheduleSave, Moves
  <1>12. ASSUME NEW c \in Campaigns, PassTime(c)
         PROVE  Moves
    BY <1>12 DEF PassTime, Moves
  <1>13. CASE UNCHANGED vars
    BY <1>13 DEF vars, Moves
  <1>14. CASE Next
    BY <1>14, <1>2, <1>6, <1>8, <1>9, <1>10, <1>11, <1>12 DEF Next, Recharges
  <1> QED
    BY <1>13, <1>14

\* The invariant behind the two money properties: snapshots in the hands of a
\* recharge are as old as their read, and never worth more than what had been
\* deposited; without interleaving no recharge holds one.
MoneyInv ==
    /\ NoMoneyCreated
    /\ MoneyConserved
    /\ \A g \in Gateways : Total(recharge[g].snap) <= deposited
    /\ "deposit" \notin Unlocked => \A g \in Gateways : recharge[g].pc = "idle"

\* A recharge adds what it deposits to the snapshot it read.
LEMMA RechargeAdds ==
    ASSUME TypeOK, NEW d \in Deposits, NEW snap \in Wallets,
           IncreaseBalance(snap, d)
    PROVE  /\ Total(wallet') = Total(snap) + d.free + d.credit
           /\ deposited' = deposited + d.free + d.credit
           /\ d.free \in Nat /\ d.credit \in Nat
           /\ Total(snap) \in Nat
  <1>1. d.free \in Nat /\ d.credit \in Nat
    BY FundsAssumption
  <1>2. /\ snap.free \in Nat /\ snap.credit \in Nat
        /\ snap.frozen \in Nat /\ snap.spent \in Nat
    BY DEF Wallets
  <1> QED
    BY <1>1, <1>2 DEF IncreaseBalance, Balance, Total

LEMMA MoneyInvStep ==
    ASSUME TypeOK, MoneyInv, [Next]_vars
    PROVE  MoneyInv'
  <1> USE DEF MoneyInv, NoMoneyCreated, MoneyConserved
  <1>0. /\ deposited \in Nat /\ wallet \in Wallets /\ Total(wallet) \in Nat
        /\ \A g \in Gateways : recharge[g].snap \in Wallets
                               /\ Total(recharge[g].snap) \in Nat
    BY MoneyMoves DEF TypeOK
  <1>1. CASE Moves
    BY <1>1 DEF Moves, Total
  <1>2. ASSUME NEW d \in Deposits, RechargeWallet(d)
        PROVE  MoneyInv'
    <2>1. IncreaseBalance(wallet, d) /\ UNCHANGED recharge
      BY <1>2 DEF RechargeWallet
    <2>2. /\ Total(wallet') = Total(wallet) + d.free + d.credit
          /\ deposited' = deposited + d.free + d.credit
          /\ d.free \in Nat /\ d.credit \in Nat
      BY <1>0, <2>1, RechargeAdds
    <2>3. \A g \in Gateways : Total(recharge'[g].snap) <= deposited'
      BY <1>0, <2>1, <2>2
    <2>4. Total(wallet)' <= deposited' /\ ("deposit" \notin Unlocked => Total(wallet)' = deposited')
      BY <1>0, <2>2 DEF Total
    <2> QED
      BY <2>1, <2>3, <2>4 DEF Total
  <1>3. ASSUME NEW g \in Gateways, RechargeRead(g)
        PROVE  MoneyInv'
    <2>1. /\ "deposit" \in Unlocked
          /\ recharge' = [recharge EXCEPT ![g] = [pc |-> "read", snap |-> wallet]]
          /\ UNCHANGED <<wallet, deposited>>
      BY <1>3 DEF RechargeRead
    <2>2. \A h \in Gateways : Total(recharge'[h].snap) <= deposited'
      BY <1>0, <2>1 DEF TypeOK
    <2> QED
      BY <2>1, <2>2 DEF Total
  <1>4. ASSUME NEW g \in Gateways, NEW d \in Deposits, RechargeSave(g, d)
        PROVE  MoneyInv'
    <2>1. /\ recharge[g].pc = "read"
          /\ IncreaseBalance(recharge[g].snap, d)
          /\ recharge' = [recharge EXCEPT ![g] = NoRecharge]
      BY <1>4 DEF RechargeSave
    <2>2. "deposit" \in Unlocked
      BY <2>1
    <2>3. /\ Total(wallet') = Total(recharge[g].snap) + d.free + d.credit
          /\ deposited' = deposited + d.free + d.credit
          /\ d.free \in Nat /\ d.credit \in Nat
      BY <1>0, <2>1, RechargeAdds
    <2>4. Total(NoRecharge.snap) = 0
      BY DEF NoRecharge, Balance, Total
    <2>5. \A h \in Gateways : Total(recharge'[h].snap) <= deposited'
      BY <1>0, <2>1, <2>3, <2>4 DEF TypeOK
    <2>6. Total(wallet)' <= deposited'
      BY <1>0, <2>3 DEF Total
    <2> QED
      BY <2>2, <2>5, <2>6 DEF Total
  <1> QED
    BY <1>1, <1>2, <1>3, <1>4, MoneyStep DEF Recharges

\* However requests interleave, money is only moved or, in a lost update,
\* lost; it is conserved when recharges do not interleave with other writers
\* of the wallet.
THEOREM MoneySafe == Spec => [](NoMoneyCreated /\ MoneyConserved)
  <1>1. Init => MoneyInv
    BY DEF Init, MoneyInv, NoMoneyCreated, MoneyConserved, NoRecharge, Balance,
           Total
  <1>2. TypeOK /\ MoneyInv /\ [Next]_vars => MoneyInv'
    BY MoneyInvStep
  <1>3. MoneyInv => NoMoneyCreated /\ MoneyConserved
    BY DEF MoneyInv
  <1> QED
    BY <1>1, <1>2, <1>3, TypeCorrect, PTL DEF Spec

\* As long as recharges hold the wallet lock, the wallet adds up to what was
\* deposited after any number of freezes, approvals and refunds, however many
\* of the other handlers read it without the lock.
THEOREM NothingIsLost == Spec => []MoneyConserved
  BY MoneySafe, PTL

-----------------------------------------------------------------------------
(* Refunds of undelivered messages *)

\* The fee log of a campaign only grows, and only by an approval.
LEMMA LedgerStep ==
    ASSUME [Next]_vars
    PROVE  \/ UNCHANGED <<fees, partials>>
           \/ \E c \in Campaigns : ApproveCampaign(c)
           \/ \E c \in Campaigns : ReconcileUndeliveredCampaignRefund(c)
  <1> USE DEF ledger
  <1>1. ASSUME NEW e \in Editors, Update(e)
        PROVE  UNCHANGED <<fees, partials>>
    BY <1>1 DEF Update, UpdateCheck, UpdateCampaign, UpdateSave, SaveDraft,
       FinalizeQuote, FinalizeCommit, UpdateEnd
  <1>2. ASSUME NEW c \in Campaigns, Decide(c)
        PROVE  UNCHANGED <<fees, partials>> \/ ApproveCampaign(c)
    BY <1>2 DEF Decide, RejectCampaign, CancelWaiting, CancelApproved,
       AdminCancelMissed, AdminCancelApproved, ReturnFrozen, ReturnSpent
  <1>3. ASSUME NEW c \in Campaigns, Run(c)
        PROVE  \/ UNCHANGED <<fees, partials>>
               \/ ReconcileUndeliveredCampaignRefund(c)
    BY <1>3 DEF Run, MoveCampaignToRunning, MoveCampaignToExecuted,
       recoverUndeliveredCampaigns, UpdateCampaignStatistics
  <1>4. ASSUME NEW c \in Campaigns, NEW lead \in NewSchedules,
               RescheduleCampaign(c, lead)
        PROVE  UNCHANGED <<fees, partials>>
    BY <1>4 DEF RescheduleCampaign
  <1>5. ASSUME NEW a \in Admins, NEW c \in Campaigns, RescheduleRead(a, c)
        PROVE  UNCHANGED <<fees, partials>>
    BY <1>5 DEF RescheduleRead
  <1>6. ASSUME NEW a \in Admins, NEW lead \in NewSchedules,
               RescheduleSave(a, lead)
        PROVE  UNCHANGED <<fees, partials>>
    BY <1>6 DEF RescheduleSave
  <1>7. ASSUME Recharges
        PROVE  UNCHANGED <<fees, partials>>
    BY <1>7 DEF Recharges, RechargeWallet, RechargeRead, RechargeSave,
       IncreaseBalance
  <1>8. ASSUME NEW c \in Campaigns, PassTime(c)
        PROVE  UNCHANGED <<fees, partials>>
    BY <1>8 DEF PassTime
  <1>9. CASE UNCHANGED vars
    BY <1>9 DEF vars
  <1>10. CASE Next
    BY <1>10, <1>1, <1>2, <1>3, <1>4, <1>5, <1>6, <1>7, <1>8
       DEF Next, Recharges
  <1> QED
    BY <1>9, <1>10

LEMMA PartialRefundStep ==
    ASSUME TypeOK, PartialRefundOnce, [Next]_vars
    PROVE  PartialRefundOnce'
  <1> USE DEF PartialRefundOnce, RefundedOnce, PartialRefundWithinFee
  <1>0. /\ fees \in [Campaigns -> Seq(Nat)]
        /\ partials \in [Campaigns -> Seq(Nat)]
    BY DEF TypeOK
  <1>1. CASE UNCHANGED <<fees, partials>>
    BY <1>1 DEF TypeOK
  <1>2. ASSUME NEW c \in Campaigns, ApproveCampaign(c)
        PROVE  PartialRefundOnce'
    <2>1. fees' = Record(fees, c, TheFreeze(c)) /\ UNCHANGED partials
      BY <1>2 DEF ApproveCampaign
    <2>2. TheFreeze(c) \in Nat
      BY <1>2, GuardFacts DEF ApproveCampaign
    <2>3. ASSUME NEW d \in Campaigns, NEW j \in 1 .. Len(fees[d])
          PROVE  j \in 1 .. Len(fees'[d]) /\ fees'[d][j] = fees[d][j]
      <3>1. fees[d] \in Seq(Nat)
        BY <1>0
      <3>2. fees'[d] \in {fees[d], Append(fees[d], TheFreeze(c))}
        BY <1>0, <2>1 DEF Record
      <3>3. QED
        <4>1. Append(fees[d], TheFreeze(c))[j] = fees[d][j]
              /\ j \in 1 .. Len(Append(fees[d], TheFreeze(c)))
          BY ONLY <2>2, <2>3, <3>1, AppendKeeps
        <4> QED
          BY ONLY <3>2, <4>1, <2>3
    <2>4. ASSUME NEW d \in Campaigns, NEW i \in 1 .. Len(partials'[d])
          PROVE  \E j \in 1 .. Len(fees'[d]) : partials'[d][i] <= fees'[d][j]
      <3>1. PICK j \in 1 .. Len(fees[d]) : partials[d][i] <= fees[d][j]
        BY <2>1, <2>4
      <3> QED
        BY <2>1, <2>3, <3>1
    <2> QED
      BY <2>1, <2>4
  <1>3. ASSUME NEW c \in Campaigns, ReconcileUndeliveredCampaignRefund(c)
        PROVE  PartialRefundOnce'
    <2>1. /\ partials' = Record(partials, c, Undelivered(c))
          /\ UNCHANGED fees
          /\ ReconcileOutcome(c) = "refund"
      BY <1>3 DEF ReconcileUndeliveredCampaignRefund
    <2>2. /\ partials[c] = <<>> /\ fees[c] # <<>>
          /\ Undelivered(c) \in Nat /\ Undelivered(c) <= LastFee(c)
      BY <2>1, ReconcileFacts
    <2>3. Len(partials'[c]) = 1 /\ partials'[c][1] = Undelivered(c)
      BY <1>0, <2>1, <2>2, FirstRecord
    <2>4. Len(fees[c]) \in 1 .. Len(fees[c])
      BY <1>0, <2>2
    <2>5. \A d \in Campaigns \ {c} : partials'[d] = partials[d]
      BY <1>0, <2>1 DEF Record
    <2>6. ASSUME NEW d \in Campaigns, NEW i \in 1 .. Len(partials'[d])
          PROVE  \E j \in 1 .. Len(fees'[d]) : partials'[d][i] <= fees'[d][j]
      <3>1. CASE d = c
        <4>0. i \in 1 .. Len(partials'[c])
          BY <2>6, <3>1
        <4>1. i = 1
          BY ONLY <2>3, <4>0
        <4>2. partials'[d][i] = Undelivered(c)
          BY <2>3, <3>1, <4>1
        <4> QED
          BY <2>1, <2>2, <2>4, <3>1, <4>2 DEF LastFee
      <3>2. CASE d # c
        BY <2>1, <2>5, <2>6, <3>2
      <3> QED
        BY <3>1, <3>2
    <2>7. ASSUME NEW d \in Campaigns
          PROVE  Len(partials'[d]) <= 1
      <3>1. CASE d = c
        <4>1. Len(partials'[d]) = 1
          BY <2>3, <3>1
        <4> QED
          BY ONLY <4>1
      <3>2. CASE d # c
        <4>1. partials'[d] = partials[d]
          BY <2>5, <3>2
        <4> QED
          BY <4>1
      <3> QED
        BY <3>1, <3>2
    <2> QED
      BY <2>6, <2>7
  <1> QED
    BY <1>1, <1>2, <1>3, LedgerStep

\* A campaign's undelivered messages are refunded at most once and never for
\* more than an approval fee, however UpdateCampaign, RescheduleCampaign and
\* the recharges interleave with the rest.
THEOREM PartialRefundSafe == Spec => []PartialRefundOnce
  <1>1. Init => PartialRefundOnce
    BY DEF Init, PartialRefundOnce, RefundedOnce, PartialRefundWithinFee
  <1>2. TypeOK /\ PartialRefundOnce /\ [Next]_vars => PartialRefundOnce'
    BY PartialRefundStep
  <1> QED
    BY <1>1, <1>2, TypeCorrect, PTL DEF Spec

-----------------------------------------------------------------------------
(* Status and ledger *)

Freezes == [amount : Nat, price : Nat]
Returns == [from : {"frozen", "spent"}, amount : Nat]

\* What each kind of handler does to one campaign keeps status and ledger in
\* agreement: reserving, ...
LEMMA AgreesFreeze ==
    ASSUME NEW s \in Draft, NEW fr, NEW fe, NEW re, NEW pa, NEW x \in Freezes,
           Agrees(s, fr, fe, re, pa)
    PROVE  Agrees("waiting-for-approval", Append(fr, x), fe, re, pa)
  <1>1. fr = <<>> /\ fe = <<>> /\ re = <<>> /\ pa = <<>>
    BY DEF Agrees, Draft
  <1>2. Append(<<>>, x) = <<x>> /\ Len(<<x>>) = 1
    OBVIOUS
  <1> QED
    BY <1>1, <1>2 DEF Agrees, Draft, Refunded

\* ... approving, ...
LEMMA AgreesApprove ==
    ASSUME NEW fr, NEW fe, NEW re, NEW pa, fr[1].amount \in Nat,
           Agrees("waiting-for-approval", fr, fe, re, pa)
    PROVE  Agrees("approved", fr, Append(fe, fr[1].amount), re, pa)
  <1>1. Len(fr) = 1 /\ fe = <<>> /\ re = <<>> /\ pa = <<>>
    BY DEF Agrees
  <1>2. Append(<<>>, fr[1].amount) = <<fr[1].amount>>
    OBVIOUS
  <1> QED
    BY <1>1, <1>2 DEF Agrees, Draft, Refunded

\* ... returning a reservation, ...
LEMMA AgreesReturnFrozen ==
    ASSUME NEW s \in Refunded, NEW fr, NEW fe, NEW re, NEW pa,
           fr[1].amount \in Nat,
           Agrees("waiting-for-approval", fr, fe, re, pa)
    PROVE  Agrees(s, fr, fe,
                  Append(re, [from |-> "frozen", amount |-> fr[1].amount]), pa)
  <1> DEFINE r == [from |-> "frozen", amount |-> fr[1].amount]
  <1>1. Len(fr) = 1 /\ fe = <<>> /\ re = <<>> /\ pa = <<>>
    BY DEF Agrees
  <1>2. Append(<<>>, r) = <<r>>
    OBVIOUS
  <1> QED
    BY <1>1, <1>2 DEF Agrees, Draft, Refunded

\* ... returning a fee, ...
LEMMA AgreesReturnSpent ==
    ASSUME NEW s \in Refunded, NEW fr, NEW fe, NEW re, NEW pa,
           fr[1].amount \in Nat, Agrees("approved", fr, fe, re, pa)
    PROVE  Agrees(s, fr, fe, Append(re, [from |-> "spent", amount |-> fe[1]]), pa)
  <1> DEFINE r == [from |-> "spent", amount |-> fr[1].amount]
  <1>1. Len(fr) = 1 /\ fe = <<fr[1].amount>> /\ re = <<>> /\ pa = <<>>
    BY DEF Agrees
  <1>2. fe # <<>> /\ fe[1] = fr[1].amount
    BY <1>1
  <1>3. Append(<<>>, r) = <<r>>
    OBVIOUS
  <1> QED
    BY <1>1, <1>2, <1>3 DEF Agrees, Draft, Refunded

\* ... saving a draft, running, and refunding what was not delivered.
LEMMA AgreesStatus ==
    ASSUME NEW s, NEW fr, NEW fe, NEW re, NEW pa, Agrees(s, fr, fe, re, pa)
    PROVE  /\ s \in Draft => Agrees("in-progress", fr, fe, re, pa)
           /\ s \in {"approved", "running"} =>
                \A t \in {"approved", "running", "interrupted", "executed"} :
                    Agrees(t, fr, fe, re, pa)
           /\ s = "executed" => \A q : Agrees(s, fr, fe, re, q)
  BY DEF Agrees, Draft, Refunded

\* The requests whose read and write others may come between are idle when
\* UpdateCampaign and RescheduleCampaign run undisturbed.
Serial == Unlocked \cap {"update", "reschedule"} = {}
Quiet == /\ \A e \in Editors : edit[e].pc # "checked"
         /\ \A a \in Admins : resched[a].pc = "idle"

LEMMA QuietStep ==
    ASSUME Serial, TypeOK, Quiet, [Next]_vars
    PROVE  Quiet'
  <1>0. "update" \notin Unlocked /\ "reschedule" \notin Unlocked
    BY DEF Serial
  <1>1. ASSUME NEW c \in Campaigns
        PROVE  \A e \in Editors : Outdate(c)[e].pc # "checked"
    BY DEF Quiet, Outdate, Edit
  <1>2. ASSUME NEW c \in Campaigns, NEW r, SaveRow(c, r), UNCHANGED resched
        PROVE  Quiet'
    BY <1>1, <1>2 DEF Quiet, SaveRow
  <1>3. ASSUME UNCHANGED <<edit, resched>>
        PROVE  Quiet'
    BY <1>3 DEF Quiet
  <1>4. ASSUME NEW e \in Editors, Update(e)
        PROVE  Quiet'
    <2>1. UNCHANGED resched
      BY <1>4 DEF Update, UpdateCheck, UpdateCampaign, UpdateSave, SaveDraft,
         FinalizeQuote, FinalizeCommit, UpdateEnd
    <2>2. ASSUME NEW c \in Campaigns, NEW lead, SaveDraft(e, c, lead)
          PROVE  \A f \in Editors : edit'[f].pc # "checked"
      BY <2>2, <1>1 DEF SaveDraft, Edit, Outdate
    <2>3. ASSUME FinalizeQuote(e)
          PROVE  \A f \in Editors : edit'[f].pc # "checked"
      BY <2>3 DEF FinalizeQuote, Edit, Quiet, TypeOK
    <2>4. ASSUME NEW num, NEW price, NEW quoted,
                 FinalizeCommit(e, num, price, quoted)
          PROVE  \A f \in Editors : edit'[f].pc # "checked"
      <3>1. edit[e].c \in Campaigns
        BY DEF TypeOK, Edits
      <3>2. edit' = [Outdate(edit[e].c) EXCEPT ![e] = NoEdit]
        BY <2>4 DEF FinalizeCommit
      <3> QED
        BY <1>1, <3>1, <3>2 DEF NoEdit, Edit, Outdate
    <2>5. ASSUME UpdateEnd(e)
          PROVE  \A f \in Editors : edit'[f].pc # "checked"
      BY <2>5 DEF UpdateEnd, NoEdit, Edit, Quiet, TypeOK
    <2>6. \A f \in Editors : edit'[f].pc # "checked"
      BY <1>0, <1>4, <2>2, <2>3, <2>4, <2>5
         DEF Update, UpdateCheck, UpdateCampaign, UpdateSave, Quiet
    <2> QED
      BY <2>1, <2>6 DEF Quiet
  <1>5. ASSUME NEW c \in Campaigns, Decide(c)
        PROVE  Quiet'
    BY <1>2, <1>5 DEF Decide, ApproveCampaign, RejectCampaign, CancelWaiting,
       CancelApproved, AdminCancelMissed, AdminCancelApproved, ReturnFrozen,
       ReturnSpent, SetStatus
  <1>6. ASSUME NEW c \in Campaigns, Run(c)
        PROVE  Quiet'
    BY <1>2, <1>6 DEF Run, MoveCampaignToRunning, MoveCampaignToExecuted,
       recoverUndeliveredCampaigns, UpdateCampaignStatistics,
       ReconcileUndeliveredCampaignRefund, SetStatus
  <1>7. ASSUME NEW c \in Campaigns, NEW lead, RescheduleCampaign(c, lead)
        PROVE  Quiet'
    BY <1>2, <1>7 DEF RescheduleCampaign
  <1>8. ASSUME NEW a \in Admins, NEW c \in Campaigns, RescheduleRead(a, c)
        PROVE  Quiet'
    BY <1>0, <1>8 DEF RescheduleRead
  <1>9. ASSUME NEW a \in Admins, NEW lead, RescheduleSave(a, lead)
        PROVE  Quiet'
    BY <1>9 DEF RescheduleSave, Quiet
  <1>10. ASSUME Recharges
         PROVE  Quiet'
    BY <1>3, <1>10 DEF Recharges, RechargeWallet, RechargeRead, RechargeSave,
       IncreaseBalance
  <1>11. ASSUME NEW c \in Campaigns, PassTime(c)
         PROVE  Quiet'
    BY <1>3, <1>11 DEF PassTime
  <1>12. CASE UNCHANGED vars
    BY <1>3, <1>12 DEF vars
  <1>13. CASE Next
    BY <1>13, <1>4, <1>5, <1>6, <1>7, <1>8, <1>9, <1>10, <1>11
       DEF Next, Recharges
  <1> QED
    BY <1>12, <1>13

\* A step that touches one campaign need only be looked at there.
LEMMA OneCampaign ==
    ASSUME EscrowMatchesStatus, NEW c \in Campaigns,
           \A d \in Campaigns \ {c} :
              /\ row'[d].status = row[d].status /\ freezes'[d] = freezes[d]
              /\ fees'[d] = fees[d] /\ refunds'[d] = refunds[d]
              /\ partials'[d] = partials[d],
           Agrees(row'[c].status, freezes'[c], fees'[c], refunds'[c], partials'[c])
    PROVE  EscrowMatchesStatus'
  <1>1. ASSUME NEW d \in Campaigns \ {c}
        PROVE  Agrees(row'[d].status, freezes'[d], fees'[d], refunds'[d],
                      partials'[d])
    BY <1>1 DEF EscrowMatchesStatus
  <1> QED
    BY <1>1 DEF EscrowMatchesStatus

\* What saving a row and recording a transaction do, campaign by campaign.
LEMMA SaveAt ==
    ASSUME TypeOK, NEW c \in Campaigns, NEW r, SaveRow(c, r)
    PROVE  row'[c] = r /\ \A d \in Campaigns \ {c} : row'[d] = row[d]
  BY DEF TypeOK, SaveRow

LEMMA StatusAt ==
    ASSUME TypeOK, NEW c \in Campaigns, NEW s, SetStatus(c, s)
    PROVE  /\ row'[c].status = s
           /\ \A d \in Campaigns \ {c} : row'[d] = row[d]
  <1>1. SaveRow(c, WithStatus(row[c], s))
    BY DEF SetStatus
  <1>2. WithStatus(row[c], s).status = s
    BY DEF WithStatus, Row
  <1> QED
    BY <1>1, <1>2, SaveAt

LEMMA RecordAt ==
    ASSUME NEW log, DOMAIN log = Campaigns, NEW c \in Campaigns, NEW x
    PROVE  /\ Record(log, c, x)[c] = Append(log[c], x)
           /\ \A d \in Campaigns \ {c} : Record(log, c, x)[d] = log[d]
  BY DEF Record

\* The single reservation of a campaign is an amount.
LEMMA FreezeAmount ==
    ASSUME TypeOK, NEW c \in Campaigns, Len(freezes[c]) = 1
    PROVE  freezes[c][1].amount \in Nat
  <1>1. freezes[c] \in Seq(Freezes) /\ 1 \in 1 .. Len(freezes[c])
    BY DEF TypeOK, Freezes
  <1>2. freezes[c][1] \in Freezes
    BY ONLY <1>1, ElementOf
  <1> QED
    BY <1>2 DEF Freezes

EscrowInv == EscrowMatchesStatus /\ Quiet

LEMMA EscrowStep ==
    ASSUME Serial, TypeOK, EscrowInv, [Next]_vars
    PROVE  EscrowMatchesStatus'
  <1>0. /\ row \in [Campaigns -> Rows]
        /\ freezes \in [Campaigns -> Seq(Freezes)]
        /\ fees \in [Campaigns -> Seq(Nat)]
        /\ refunds \in [Campaigns -> Seq(Returns)]
        /\ partials \in [Campaigns -> Seq(Nat)]
        /\ DOMAIN freezes = Campaigns /\ DOMAIN fees = Campaigns
        /\ DOMAIN refunds = Campaigns /\ DOMAIN partials = Campaigns
    BY DEF TypeOK, Freezes, Returns
  <1>1. ASSUME NEW c \in Campaigns
        PROVE  Agrees(row[c].status, freezes[c], fees[c], refunds[c], partials[c])
    BY DEF EscrowInv, EscrowMatchesStatus
  <1>2. ASSUME UNCHANGED ledger,
               \A d \in Campaigns : row'[d].status = row[d].status
        PROVE  EscrowMatchesStatus'
    BY <1>1, <1>2 DEF ledger, EscrowMatchesStatus
  <1>3. ASSUME UNCHANGED ledger, NEW c \in Campaigns,
               \A d \in Campaigns \ {c} : row'[d] = row[d],
               Agrees(row'[c].status, freezes[c], fees[c], refunds[c], partials[c])
        PROVE  EscrowMatchesStatus'
    BY <1>3, OneCampaign DEF ledger, EscrowInv
  <1>4. ASSUME NEW c \in Campaigns, NEW r, SaveRow(c, r),
               r.status = row[c].status, UNCHANGED ledger
        PROVE  EscrowMatchesStatus'
    BY <1>2, <1>4, SaveAt
  <1>5. ASSUME NEW e \in Editors, NEW c \in Campaigns, NEW lead,
               UpdateCampaign(e, c, lead)
        PROVE  EscrowMatchesStatus'
    <2>1. /\ row[c].status \in Draft
          /\ UNCHANGED ledger
          /\ row' = [row EXCEPT ![c] = WithLead(WithStatus(row[c], "in-progress"), lead)]
      BY <1>5 DEF UpdateCampaign, canUpdateCampaign, SaveDraft
    <2>2. row'[c].status = "in-progress"
      BY <1>0, <2>1 DEF WithLead, WithStatus, Row
    <2>3. Agrees(row'[c].status, freezes[c], fees[c], refunds[c], partials[c])
      BY <1>1, <2>1, <2>2, AgreesStatus
    <2> QED
      BY <1>0, <1>3, <2>1, <2>3
  <1>6. ASSUME NEW e \in Editors, NEW num \in Audiences, NEW price \in Prices,
               NEW quoted \in Prices, FinalizeCommit(e, num, price, quoted)
        PROVE  EscrowMatchesStatus'
    <2> DEFINE c == edit[e].c
               cost == IF OwnerIsAdmin THEN 0 ELSE num * quoted
               x == [amount |-> cost, price |-> price]
    <2>1. c \in Campaigns
      BY DEF TypeOK, Edits
    <2>2. num \in Nat /\ quoted \in Nat /\ price \in Nat
      BY FundsAssumption
    <2>3. cost \in Nat
      BY <2>2, ProductNat
    <2>4. x \in Freezes
      BY <2>2, <2>3 DEF Freezes
    <2>5. /\ row[c].status \in Draft
          /\ freezes' = Record(freezes, c, x)
          /\ UNCHANGED <<fees, refunds, partials>>
          /\ row' = [row EXCEPT ![c] =
                Row("waiting-for-approval", @.lead, num, @.sent, @.mark)]
      BY <1>6 DEF FinalizeCommit, IsEditable
    <2>6. /\ row'[c].status = "waiting-for-approval"
          /\ \A d \in Campaigns \ {c} : row'[d] = row[d]
      BY <1>0, <2>1, <2>5 DEF Row
    <2>7. /\ freezes'[c] = Append(freezes[c], x)
          /\ \A d \in Campaigns \ {c} : freezes'[d] = freezes[d]
      BY <1>0, <2>1, <2>5, RecordAt
    <2>8. Agrees("waiting-for-approval", freezes'[c], fees[c], refunds[c],
                 partials[c])
      <3> HIDE DEF x, cost, c
      <3>1. Agrees(row[c].status, freezes[c], fees[c], refunds[c], partials[c])
        BY <1>1, <2>1
      <3>2. Agrees("waiting-for-approval", Append(freezes[c], x), fees[c],
                   refunds[c], partials[c])
        BY <2>4, <2>5, <3>1, AgreesFreeze
      <3> QED
        BY <2>7, <3>2
    <2> QED
      BY <2>1, <2>5, <2>6, <2>7, <2>8, OneCampaign DEF EscrowInv
  <1>7. ASSUME NEW e \in Editors, Update(e)
        PROVE  EscrowMatchesStatus'
    <2>1. ASSUME UNCHANGED <<row, ledger>>
          PROVE  EscrowMatchesStatus'
      BY <1>2, <2>1
    <2>2. ~\E lead \in NewLeads : UpdateSave(e, lead)
      BY DEF UpdateSave, EscrowInv, Quiet
    <2> QED
      BY <1>5, <1>6, <1>7, <2>1, <2>2 DEF Update, UpdateCheck, FinalizeQuote, UpdateEnd
  <1>8. ASSUME NEW c \in Campaigns, ApproveCampaign(c)
        PROVE  EscrowMatchesStatus'
    <2>1. /\ row[c].status = "waiting-for-approval"
          /\ Len(freezes[c]) = 1
          /\ fees' = Record(fees, c, freezes[c][1].amount)
          /\ SetStatus(c, "approved")
          /\ UNCHANGED <<freezes, refunds, partials>>
      BY <1>8 DEF ApproveCampaign, HasOneFreeze, TheFreeze
    <2>2. fees'[c] = Append(fees[c], freezes[c][1].amount)
          /\ \A d \in Campaigns \ {c} : fees'[d] = fees[d]
      BY <1>0, <2>1, RecordAt
    <2>3. Agrees("approved", freezes[c], fees'[c], refunds[c], partials[c])
      BY <1>1, <2>1, <2>2, FreezeAmount, AgreesApprove
    <2> QED
      BY <2>1, <2>2, <2>3, StatusAt, OneCampaign DEF EscrowInv
  <1>9. ASSUME NEW c \in Campaigns, NEW s \in Refunded, ReturnFrozen(c, s),
               row[c].status = "waiting-for-approval"
        PROVE  EscrowMatchesStatus'
    <2> DEFINE x == [from |-> "frozen", amount |-> freezes[c][1].amount]
    <2>1. /\ Len(freezes[c]) = 1
          /\ refunds' = Record(refunds, c, x)
          /\ SetStatus(c, s)
          /\ UNCHANGED <<freezes, fees, partials>>
      BY <1>9 DEF ReturnFrozen, HasOneFreeze, TheFreeze
    <2>2. refunds'[c] = Append(refunds[c], x)
          /\ \A d \in Campaigns \ {c} : refunds'[d] = refunds[d]
      BY <1>0, <2>1, RecordAt
    <2>3. Agrees(s, freezes[c], fees[c], refunds'[c], partials[c])
      BY <1>1, <1>9, <2>1, <2>2, FreezeAmount, AgreesReturnFrozen
    <2> QED
      BY <2>1, <2>2, <2>3, StatusAt, OneCampaign DEF EscrowInv
  <1>10. ASSUME NEW c \in Campaigns, NEW s \in Refunded, ReturnSpent(c, s),
                row[c].status = "approved"
         PROVE  EscrowMatchesStatus'
    <2> DEFINE x == [from |-> "spent", amount |-> fees[c][1]]
    <2>1. /\ refunds' = Record(refunds, c, x)
          /\ SetStatus(c, s)
          /\ UNCHANGED <<freezes, fees, partials>>
      BY <1>10 DEF ReturnSpent, TheFee
    <2>2. refunds'[c] = Append(refunds[c], x)
          /\ \A d \in Campaigns \ {c} : refunds'[d] = refunds[d]
      BY <1>0, <2>1, RecordAt
    <2>3. Len(freezes[c]) = 1
      BY <1>1, <1>10 DEF Agrees
    <2>4. Agrees(s, freezes[c], fees[c], refunds'[c], partials[c])
      BY <1>1, <1>10, <2>2, <2>3, FreezeAmount, AgreesReturnSpent
    <2> QED
      BY <2>1, <2>2, <2>4, StatusAt, OneCampaign DEF EscrowInv
  <1>11. ASSUME NEW c \in Campaigns, Decide(c)
         PROVE  EscrowMatchesStatus'
    <2>1. /\ "rejected" \in Refunded /\ "cancelled" \in Refunded
          /\ "cancelled-by-admin" \in Refunded
      BY DEF Refunded
    <2> QED
      BY <1>8, <1>9, <1>10, <1>11, <2>1 DEF Decide, RejectCampaign, CancelWaiting,
         CancelApproved, AdminCancelMissed, AdminCancelApproved,
         isAdminMissedPendingApproval
  <1>12. ASSUME NEW c \in Campaigns, row[c].status \in {"approved", "running"},
                NEW s \in {"approved", "running", "interrupted", "executed"},
                SetStatus(c, s), UNCHANGED ledger
         PROVE  EscrowMatchesStatus'
    <2>1. Agrees(s, freezes[c], fees[c], refunds[c], partials[c])
      BY <1>1, <1>12, AgreesStatus
    <2> QED
      BY <1>3, <1>12, <2>1, StatusAt
  <1>13. ASSUME NEW c \in Campaigns, ReconcileUndeliveredCampaignRefund(c)
         PROVE  EscrowMatchesStatus'
    <2> DEFINE r == Row(row[c].status, row[c].lead, row[c].num, row[c].sent, TRUE)
    <2>1. /\ row[c].status = "executed"
          /\ partials' = Record(partials, c, Undelivered(c))
          /\ SaveRow(c, r)
          /\ UNCHANGED <<freezes, fees, refunds>>
      BY <1>13, ReconcileFacts DEF ReconcileUndeliveredCampaignRefund
    <2>2. r.status = row[c].status
      BY DEF Row
    <2>3. \A d \in Campaigns \ {c} : partials'[d] = partials[d]
      BY <1>0, <2>1, RecordAt
    <2>4. row'[c].status = "executed" /\ \A d \in Campaigns \ {c} : row'[d] = row[d]
      BY <2>1, <2>2, SaveAt
    <2>5. Agrees("executed", freezes[c], fees[c], refunds[c], partials'[c])
      BY <1>1, <2>1, AgreesStatus
    <2> QED
      BY <2>1, <2>3, <2>4, <2>5, OneCampaign DEF EscrowInv
  <1>14. ASSUME NEW c \in Campaigns, NEW sent, UpdateCampaignStatistics(c, sent)
         PROVE  EscrowMatchesStatus'
    <2> DEFINE r == Row(row[c].status, row[c].lead, row[c].num, sent, row[c].mark)
    <2>1. SaveRow(c, r) /\ UNCHANGED ledger
      BY <1>14 DEF UpdateCampaignStatistics
    <2>2. r.status = row[c].status
      BY DEF Row
    <2> QED
      BY <1>4, <2>1, <2>2
  <1>15. ASSUME NEW c \in Campaigns, Run(c)
         PROVE  EscrowMatchesStatus'
    BY <1>12, <1>13, <1>14, <1>15 DEF Run, MoveCampaignToRunning,
       MoveCampaignToExecuted, recoverUndeliveredCampaigns, IsRunning
  <1>16. ASSUME NEW c \in Campaigns, NEW lead, RescheduleCampaign(c, lead)
         PROVE  EscrowMatchesStatus'
    <2>1. SaveRow(c, WithLead(row[c], lead)) /\ UNCHANGED ledger
      BY <1>16 DEF RescheduleCampaign
    <2>2. WithLead(row[c], lead).status = row[c].status
      BY DEF WithLead, Row
    <2> QED
      BY <1>4, <2>1, <2>2
  <1>17. ASSUME NEW a \in Admins, NEW c \in Campaigns, RescheduleRead(a, c)
         PROVE  EscrowMatchesStatus'
    BY <1>2, <1>17 DEF RescheduleRead
  <1>18. ASSUME NEW a \in Admins, NEW lead
         PROVE  ~RescheduleSave(a, lead)
    BY DEF RescheduleSave, EscrowInv, Quiet
  <1>19. ASSUME Recharges
         PROVE  EscrowMatchesStatus'
    BY <1>2, <1>19 DEF Recharges, RechargeWallet, RechargeRead, RechargeSave,
       IncreaseBalance
  <1>20. ASSUME NEW c \in Campaigns, PassTime(c)
         PROVE  EscrowMatchesStatus'
    <2>1. /\ row' = [row EXCEPT ![c] = WithLead(row[c], row[c].lead - 1)]
          /\ UNCHANGED ledger
      BY <1>20 DEF PassTime
    <2>2. \A d \in Campaigns : row'[d].status = row[d].status
      BY <1>0, <2>1 DEF WithLead, Row
    <2> QED
      BY <1>2, <2>1, <2>2
  <1>21. CASE UNCHANGED vars
    BY <1>2, <1>21 DEF vars
  <1>22. CASE Next
    BY <1>22, <1>7, <1>11, <1>15, <1>16, <1>17, <1>18, <1>19, <1>20
       DEF Next, Recharges
  <1> QED
    BY <1>21, <1>22

\* Escrow: while UpdateCampaign and RescheduleCampaign run undisturbed, the
\* status of a campaign and its reservation, fee and refund always agree, for
\* any number of campaigns, however recharges interleave.
THEOREM EscrowSafe ==
    ASSUME Serial
    PROVE  Spec => []EscrowMatchesStatus
  <1>1. Init => EscrowInv
    <2>1. NoRow.status \in Draft /\ NoEdit.pc = "idle" /\ NoResched.pc = "idle"
      BY DEF NoRow, Row, NoEdit, Edit, NoResched, Draft
    <2>2. Agrees(NoRow.status, <<>>, <<>>, <<>>, <<>>)
      BY <2>1 DEF Agrees, Draft, Refunded
    <2> QED
      BY <2>1, <2>2 DEF Init, EscrowInv, EscrowMatchesStatus, Quiet
  <1>2. TypeOK /\ EscrowInv /\ [Next]_vars => EscrowInv'
    BY QuietStep, EscrowStep DEF EscrowInv
  <1>3. EscrowInv => EscrowMatchesStatus
    BY DEF EscrowInv
  <1> QED
    BY <1>1, <1>2, <1>3, TypeCorrect, PTL DEF Spec

-----------------------------------------------------------------------------
(* The ledger and the wallet *)

\* The Tomans of an entry of amount n are n.
LEMMA EntryCount ==
    ASSUME NEW e, NEW n \in Nat
    PROVE  IsFiniteSet({e} \X (1 .. n)) /\ Cardinality({e} \X (1 .. n)) = n
  <1>1. IsFiniteSet(1 .. n) /\ Cardinality(1 .. n) = n
    BY FS_Interval
  <1>2. IsFiniteSet({e}) /\ Cardinality({e}) = 1
    BY FS_Singleton
  <1> QED
    BY <1>1, <1>2, FS_Product

LEMMA TomansOf ==
    ASSUME NEW f, NEW t
    PROVE  t \in Tomans(f) <=>
              \E c \in Campaigns : \E i \in DOMAIN f[c] :
                  t \in {<<c, i>>} \X (1 .. f[c][i])
  BY DEF Tomans

\* One more entry in a log is its amount more.
LEMMA EntryAdds ==
    ASSUME NEW f, NEW g, NEW c \in Campaigns, NEW n \in Nat, NEW x \in Nat,
           DOMAIN f[c] = 1 .. n, DOMAIN g[c] = 1 .. (n + 1),
           \A i \in 1 .. n : g[c][i] = f[c][i],
           g[c][n + 1] = x,
           \A d \in Campaigns \ {c} : g[d] = f[d],
           IsFiniteSet(Tomans(f))
    PROVE  /\ IsFiniteSet(Tomans(g)) /\ Booked(f) \in Nat
           /\ Booked(g) = Booked(f) + x
  <1> DEFINE e == <<c, n + 1>>
             new == {e} \X (1 .. x)
  <1>1. Tomans(g) = Tomans(f) \cup new
    <2>1. ASSUME NEW t \in Tomans(g) PROVE t \in Tomans(f) \/ t \in new
      <3>1. PICK d \in Campaigns : \E i \in DOMAIN g[d] :
                t \in {<<d, i>>} \X (1 .. g[d][i])
        BY TomansOf
      <3>2. PICK i \in DOMAIN g[d] : t \in {<<d, i>>} \X (1 .. g[d][i])
        BY <3>1
      <3>3. CASE d # c
        BY <3>2, <3>3, TomansOf
      <3>4. CASE d = c /\ i = n + 1
        BY <3>2, <3>4
      <3>5. CASE d = c /\ i # n + 1
        <4>1. i \in 1 .. n
          BY <3>2, <3>5
        <4> QED
          BY <3>2, <3>5, <4>1, TomansOf
      <3> QED
        BY <3>3, <3>4, <3>5
    <2>2. ASSUME NEW t \in new PROVE t \in Tomans(g)
      BY TomansOf
    <2>3. ASSUME NEW t \in Tomans(f) PROVE t \in Tomans(g)
      <3>1. PICK d \in Campaigns : \E i \in DOMAIN f[d] :
                t \in {<<d, i>>} \X (1 .. f[d][i])
        BY TomansOf
      <3>2. PICK i \in DOMAIN f[d] : t \in {<<d, i>>} \X (1 .. f[d][i])
        BY <3>1
      <3>3. i \in DOMAIN g[d] /\ g[d][i] = f[d][i]
        BY <3>2
      <3> QED
        BY <3>2, <3>3, TomansOf
    <2> QED
      BY <2>1, <2>2, <2>3
  <1>2. Tomans(f) \cap new = {}
    <2>1. SUFFICES ASSUME NEW t \in Tomans(f), t \in new PROVE FALSE
      OBVIOUS
    <2>2. PICK d \in Campaigns : \E i \in DOMAIN f[d] :
              t \in {<<d, i>>} \X (1 .. f[d][i])
      BY TomansOf
    <2>3. PICK i \in DOMAIN f[d] : t \in {<<d, i>>} \X (1 .. f[d][i])
      BY <2>2
    <2>4. d = c /\ i = n + 1
      BY <2>1, <2>3
    <2> QED
      BY <2>3, <2>4
  <1> HIDE DEF e
  <1>3. IsFiniteSet(new) /\ Cardinality(new) = x
    BY EntryCount
  <1> HIDE DEF new
  <1>4. /\ IsFiniteSet(Tomans(f) \cup new)
        /\ Cardinality(Tomans(f) \cup new) =
               Cardinality(Tomans(f)) + Cardinality(new)
                   - Cardinality(Tomans(f) \cap new)
    BY <1>3, FS_Union
  <1>5. Cardinality(Tomans(f)) \in Nat /\ Cardinality(Tomans(f) \cap new) = 0
    BY <1>2, FS_EmptySet, FS_CardinalityType
  <1> QED
    BY <1>1, <1>3, <1>4, <1>5 DEF Booked

LEMMA RecordAdds ==
    ASSUME NEW log, log \in [Campaigns -> Seq(Nat)],
           NEW c \in Campaigns, NEW x \in Nat, IsFiniteSet(Tomans(log))
    PROVE  /\ IsFiniteSet(Tomans(Record(log, c, x))) /\ Booked(log) \in Nat
           /\ Booked(Record(log, c, x)) = Booked(log) + x
  <1> DEFINE n == Len(log[c])
             f == log
             g == Record(log, c, x)
  <1>1. log[c] \in Seq(Nat) /\ n \in Nat /\ DOMAIN log[c] = 1 .. n
    OBVIOUS
  <1>2. g[c] = Append(log[c], x) /\ \A d \in Campaigns \ {c} : g[d] = log[d]
    BY DEF Record
  <1>3. /\ DOMAIN f[c] = 1 .. n /\ DOMAIN g[c] = 1 .. (n + 1)
        /\ \A i \in 1 .. n : g[c][i] = f[c][i]
        /\ g[c][n + 1] = x
        /\ \A d \in Campaigns \ {c} : g[d] = f[d]
    BY <1>1, <1>2
  <1>4. n \in Nat
    BY <1>1
  <1>5. IsFiniteSet(Tomans(f))
    OBVIOUS
  <1> HIDE DEF f, g, n
  <1>6. IsFiniteSet(Tomans(g)) /\ Booked(f) \in Nat /\ Booked(g) = Booked(f) + x
    BY ONLY <1>3, <1>4, <1>5, c \in Campaigns, x \in Nat, EntryAdds
  <1> QED
    BY <1>6 DEF f, g

\* A further reservation, and a further refund.
LEMMA FreezeAdds ==
    ASSUME TypeOK, NEW c \in Campaigns, NEW x \in Freezes,
           freezes' = Record(freezes, c, x), IsFiniteSet(Tomans(FreezeAmounts))
    PROVE  /\ IsFiniteSet(Tomans(FreezeAmounts)') /\ Booked(FreezeAmounts) \in Nat
           /\ Booked(FreezeAmounts)' = Booked(FreezeAmounts) + x.amount
  <1> DEFINE n == Len(freezes[c])
             f == FreezeAmounts
             g == FreezeAmounts'
  <1>1. freezes[c] \in Seq(Freezes) /\ n \in Nat /\ DOMAIN freezes[c] = 1 .. n
        /\ x.amount \in Nat
    BY DEF TypeOK, Freezes
  <1>2. /\ freezes'[c] = Append(freezes[c], x)
        /\ \A d \in Campaigns \ {c} : freezes'[d] = freezes[d]
    BY DEF TypeOK, Record
  <1>3. /\ DOMAIN freezes'[c] = 1 .. (n + 1) /\ freezes'[c][n + 1] = x
        /\ \A i \in 1 .. n : freezes'[c][i] = freezes[c][i]
    BY <1>1, <1>2
  <1>4. /\ DOMAIN f[c] = 1 .. n /\ DOMAIN g[c] = 1 .. (n + 1)
        /\ \A i \in 1 .. n : g[c][i] = f[c][i]
        /\ g[c][n + 1] = x.amount
        /\ \A d \in Campaigns \ {c} : g[d] = f[d]
    <2>1. f[c] = [i \in DOMAIN freezes[c] |-> freezes[c][i].amount]
      BY DEF FreezeAmounts
    <2>2. g[c] = [i \in DOMAIN freezes'[c] |-> freezes'[c][i].amount]
      BY DEF FreezeAmounts
    <2>3. DOMAIN f[c] = 1 .. n /\ DOMAIN g[c] = 1 .. (n + 1)
      BY <1>1, <1>3, <2>1, <2>2
    <2>4. \A i \in 1 .. n : g[c][i] = f[c][i]
      BY <1>1, <1>3, <2>1, <2>2
    <2>5. g[c][n + 1] = x.amount
      BY <1>1, <1>3, <2>2
    <2>6. \A d \in Campaigns \ {c} : g[d] = f[d]
      BY <1>2 DEF FreezeAmounts
    <2> QED
      BY <2>3, <2>4, <2>5, <2>6
  <1> HIDE DEF f, g, n
  <1>5. IsFiniteSet(Tomans(f))
    BY DEF f
  <1>6. IsFiniteSet(Tomans(g)) /\ Booked(f) \in Nat /\ Booked(g) = Booked(f) + x.amount
    BY <1>1, <1>4, <1>5, EntryAdds
  <1> QED
    BY <1>6 DEF f, g, Booked, Tomans

LEMMA RefundAdds ==
    ASSUME TypeOK, NEW c \in Campaigns, NEW from \in {"frozen", "spent"},
           NEW s \in {"frozen", "spent"}, NEW x \in Nat,
           refunds' = Record(refunds, c, [from |-> s, amount |-> x]),
           IsFiniteSet(Tomans(RefundAmounts(from)))
    PROVE  /\ IsFiniteSet(Tomans(RefundAmounts(from))')
           /\ Booked(RefundAmounts(from)) \in Nat
           /\ Booked(RefundAmounts(from))' =
                  Booked(RefundAmounts(from)) + IF s = from THEN x ELSE 0
  <1> DEFINE n == Len(refunds[c])
             y == [from |-> s, amount |-> x]
             m == IF s = from THEN x ELSE 0
             f == RefundAmounts(from)
             g == RefundAmounts(from)'
  <1>1. refunds[c] \in Seq(Returns) /\ n \in Nat /\ DOMAIN refunds[c] = 1 .. n
        /\ m \in Nat /\ y \in Returns
    BY DEF TypeOK, Returns
  <1>2. /\ refunds'[c] = Append(refunds[c], y)
        /\ \A d \in Campaigns \ {c} : refunds'[d] = refunds[d]
    BY DEF TypeOK, Record
  <1>3. /\ DOMAIN refunds'[c] = 1 .. (n + 1) /\ refunds'[c][n + 1] = y
        /\ \A i \in 1 .. n : refunds'[c][i] = refunds[c][i]
    BY <1>1, <1>2
  <1>4. /\ DOMAIN f[c] = 1 .. n /\ DOMAIN g[c] = 1 .. (n + 1)
        /\ \A i \in 1 .. n : g[c][i] = f[c][i]
        /\ g[c][n + 1] = m
        /\ \A d \in Campaigns \ {c} : g[d] = f[d]
    BY <1>1, <1>2, <1>3 DEF RefundAmounts
  <1> HIDE DEF f, g, n, m
  <1>5. IsFiniteSet(Tomans(f))
    BY DEF f
  <1>7. n \in Nat /\ m \in Nat
    BY <1>1
  <1>6. IsFiniteSet(Tomans(g)) /\ Booked(f) \in Nat /\ Booked(g) = Booked(f) + m
    BY ONLY <1>4, <1>5, <1>7, c \in Campaigns, EntryAdds
  <1> QED
    BY <1>6 DEF f, g, m, Booked, Tomans

\* The logs are finite, so that they have a sum.
Countable ==
    /\ IsFiniteSet(Tomans(FreezeAmounts))
    /\ IsFiniteSet(Tomans(fees)) /\ IsFiniteSet(Tomans(partials))
    /\ IsFiniteSet(Tomans(RefundAmounts("frozen")))
    /\ IsFiniteSet(Tomans(RefundAmounts("spent")))

LedgerInv == Countable /\ LedgerExplainsWallet

\* A step that moves nothing into or out of the frozen and the spent balance.
Aside == UNCHANGED ledger /\ (\/ UNCHANGED <<wallet.frozen, wallet.spent>>
                              \/ "deposit" \in Unlocked)

\* Every step but five leaves the ledger and the two balances alone.
LEMMA LedgerMoves ==
    ASSUME TypeOK, MoneyInv, [Next]_vars
    PROVE  \/ Aside
           \/ \E e \in Editors, num \in Audiences, price \in Prices, quoted \in Prices :
                  FinalizeCommit(e, num, price, quoted)
           \/ \E c \in Campaigns : \/ ApproveCampaign(c)
                                   \/ \E s \in Refunded : ReturnFrozen(c, s)
                                   \/ \E s \in Refunded : ReturnSpent(c, s)
                                   \/ ReconcileUndeliveredCampaignRefund(c)
  <1> USE DEF ledger, Aside
  <1>1. ASSUME NEW e \in Editors, Update(e)
        PROVE  Aside \/ \E num \in Audiences, price \in Prices, quoted \in Prices :
                           FinalizeCommit(e, num, price, quoted)
    BY <1>1 DEF Update, UpdateCheck, UpdateCampaign, UpdateSave, SaveDraft,
       FinalizeQuote, UpdateEnd
  <1>2. ASSUME NEW c \in Campaigns, Decide(c)
        PROVE  \/ ApproveCampaign(c)
               \/ \E s \in Refunded : ReturnFrozen(c, s) \/ ReturnSpent(c, s)
    BY <1>2 DEF Decide, RejectCampaign, CancelWaiting, CancelApproved,
       AdminCancelMissed, AdminCancelApproved, Refunded
  <1>3. ASSUME NEW c \in Campaigns, Run(c)
        PROVE  Aside \/ ReconcileUndeliveredCampaignRefund(c)
    BY <1>3 DEF Run, MoveCampaignToRunning, MoveCampaignToExecuted,
       recoverUndeliveredCampaigns, UpdateCampaignStatistics
  <1>4. ASSUME NEW c \in Campaigns, NEW lead \in NewSchedules,
               RescheduleCampaign(c, lead)
        PROVE  Aside
    BY <1>4 DEF RescheduleCampaign
  <1>5. ASSUME NEW a \in Admins, NEW c \in Campaigns, RescheduleRead(a, c)
        PROVE  Aside
    BY <1>5 DEF RescheduleRead
  <1>6. ASSUME NEW a \in Admins, NEW lead \in NewSchedules,
               RescheduleSave(a, lead)
        PROVE  Aside
    BY <1>6 DEF RescheduleSave
  <1>7. ASSUME Recharges
        PROVE  Aside
    <2>1. ASSUME NEW d \in Deposits, RechargeWallet(d)
          PROVE  Aside
      BY <2>1 DEF RechargeWallet, IncreaseBalance, Balance
    <2>2. ASSUME NEW g \in Gateways, RechargeRead(g)
          PROVE  Aside
      BY <2>2 DEF RechargeRead
    <2>3. ASSUME NEW g \in Gateways, NEW d \in Deposits, RechargeSave(g, d)
          PROVE  Aside
      BY <2>3 DEF RechargeSave, IncreaseBalance, MoneyInv
    <2> QED
      BY <1>7, <2>1, <2>2, <2>3 DEF Recharges
  <1>8. ASSUME NEW c \in Campaigns, PassTime(c)
        PROVE  Aside
    BY <1>8 DEF PassTime
  <1>9. CASE UNCHANGED vars
    BY <1>9 DEF vars
  <1>10. CASE Next
    BY <1>10, <1>1, <1>2, <1>3, <1>4, <1>5, <1>6, <1>7, <1>8
       DEF Next, Recharges
  <1> QED
    BY <1>9, <1>10

\* What the five do to the two balances.
LEMMA Balances ==
    ASSUME NEW w \in Wallets, NEW n \in Nat
    PROVE  /\ Freeze(w, n).frozen = w.frozen + n /\ Freeze(w, n).spent = w.spent
           /\ Consume(w, n).frozen = w.frozen - n
           /\ Consume(w, n).spent = w.spent + n
           /\ RefundFrozen(w, n).frozen = w.frozen - n
           /\ RefundFrozen(w, n).spent = w.spent
           /\ RefundSpent(w, n).frozen = w.frozen
           /\ RefundSpent(w, n).spent = w.spent - n
  BY DEF Freeze, Consume, RefundFrozen, RefundSpent, Balance, Wallets

\* Logs that a step leaves alone keep their sum.
LEMMA SameSums ==
    /\ UNCHANGED freezes => Tomans(FreezeAmounts)' = Tomans(FreezeAmounts)
    /\ UNCHANGED fees => Tomans(fees)' = Tomans(fees)
    /\ UNCHANGED partials => Tomans(partials)' = Tomans(partials)
    /\ UNCHANGED refunds =>
           /\ Tomans(RefundAmounts("frozen"))' = Tomans(RefundAmounts("frozen"))
           /\ Tomans(RefundAmounts("spent"))' = Tomans(RefundAmounts("spent"))
  <1>1. /\ UNCHANGED freezes => FreezeAmounts' = FreezeAmounts
        /\ UNCHANGED refunds =>
               /\ RefundAmounts("frozen")' = RefundAmounts("frozen")
               /\ RefundAmounts("spent")' = RefundAmounts("spent")
    BY DEF FreezeAmounts, RefundAmounts
  <1>2. /\ Tomans(FreezeAmounts)' = Tomans(FreezeAmounts')
        /\ Tomans(RefundAmounts("frozen"))' = Tomans(RefundAmounts("frozen")')
        /\ Tomans(RefundAmounts("spent"))' = Tomans(RefundAmounts("spent")')
        /\ Tomans(fees)' = Tomans(fees') /\ Tomans(partials)' = Tomans(partials')
    BY DEF Tomans
  <1> QED
    BY <1>1, <1>2

LEMMA LedgerInvStep ==
    ASSUME TypeOK, MoneyInv, LedgerInv, [Next]_vars
    PROVE  LedgerInv'
  <1> DEFINE F == Booked(FreezeAmounts)
             P == Booked(fees)
             U == Booked(partials)
             R == Booked(RefundAmounts("frozen"))
             S == Booked(RefundAmounts("spent"))
  <1> USE DEF LedgerInv, Countable
  <1>1. /\ F \in Nat /\ P \in Nat /\ U \in Nat /\ R \in Nat /\ S \in Nat
    BY FS_CardinalityType DEF Booked
  <1>2. /\ UNCHANGED freezes => F' = F /\ IsFiniteSet(Tomans(FreezeAmounts)')
        /\ UNCHANGED fees => P' = P /\ IsFiniteSet(Tomans(fees)')
        /\ UNCHANGED partials => U' = U /\ IsFiniteSet(Tomans(partials)')
        /\ UNCHANGED refunds => /\ R' = R /\ S' = S
                                /\ IsFiniteSet(Tomans(RefundAmounts("frozen"))')
                                /\ IsFiniteSet(Tomans(RefundAmounts("spent"))')
    BY SameSums DEF Booked
  <1>3. /\ wallet \in Wallets /\ wallet.frozen \in Nat /\ wallet.spent \in Nat
        /\ fees \in [Campaigns -> Seq(Nat)] /\ partials \in [Campaigns -> Seq(Nat)]
    BY DEF TypeOK, Wallets
  <1>4. LedgerExplainsWallet <=>
            ("deposit" \notin Unlocked => /\ wallet.frozen = F - P - R
                                         /\ wallet.spent = P - S - U)
    BY DEF LedgerExplainsWallet
  <1>5. LedgerExplainsWallet' <=>
            ("deposit" \notin Unlocked => /\ wallet'.frozen = F' - P' - R'
                                         /\ wallet'.spent = P' - S' - U')
    BY DEF LedgerExplainsWallet
  <1> HIDE DEF F, P, U, R, S
  <1>6. CASE Aside
    BY <1>2, <1>4, <1>5, <1>6 DEF Aside, ledger
  <1>7. ASSUME NEW e \in Editors, NEW num \in Audiences, NEW price \in Prices,
               NEW quoted \in Prices, FinalizeCommit(e, num, price, quoted)
        PROVE  LedgerInv'
    <2> DEFINE c == edit[e].c
               cost == IF OwnerIsAdmin THEN 0 ELSE num * quoted
               x == [amount |-> cost, price |-> price]
    <2>1. c \in Campaigns /\ num \in Nat /\ quoted \in Nat /\ price \in Nat
      BY FundsAssumption DEF TypeOK, Edits
    <2>2. cost \in Nat
      BY <2>1, ProductNat
    <2>3. /\ freezes' = Record(freezes, c, x) /\ UNCHANGED <<fees, refunds, partials>>
          /\ wallet' = Freeze(wallet, cost)
      BY <1>7 DEF FinalizeCommit
    <2>4. x \in Freezes /\ x.amount = cost
      BY <2>1, <2>2 DEF Freezes
    <2> HIDE DEF c, cost, x
    <2>5. IsFiniteSet(Tomans(FreezeAmounts)') /\ F' = F + cost
      BY <2>1, <2>3, <2>4, FreezeAdds DEF F
    <2>6. wallet'.frozen = wallet.frozen + cost /\ wallet'.spent = wallet.spent
      BY <1>3, <2>2, <2>3, Balances
    <2> QED
      BY <1>1, <1>2, <1>3, <1>4, <1>5, <2>2, <2>3, <2>5, <2>6
  <1>8. ASSUME NEW c \in Campaigns, ApproveCampaign(c)
        PROVE  LedgerInv'
    <2> DEFINE n == TheFreeze(c)
    <2>1. /\ fees' = Record(fees, c, n) /\ UNCHANGED <<freezes, refunds, partials>>
          /\ wallet' = Consume(wallet, n) /\ n \in Nat
      BY <1>8, GuardFacts DEF ApproveCampaign
    <2> HIDE DEF n
    <2>4. Tomans(fees)' = Tomans(Record(fees, c, n))
      BY <2>1 DEF Tomans
    <2>5. IsFiniteSet(Tomans(fees))
      OBVIOUS
    <2>6. /\ IsFiniteSet(Tomans(Record(fees, c, n)))
          /\ Booked(Record(fees, c, n)) = Booked(fees) + n
      BY <1>3, <2>1, <2>5, RecordAdds
    <2>2. IsFiniteSet(Tomans(fees)') /\ P' = P + n
      BY <2>4, <2>6 DEF P, Booked
    <2>3. wallet'.frozen = wallet.frozen - n /\ wallet'.spent = wallet.spent + n
      BY <1>3, <2>1, Balances
    <2> QED
      BY <1>1, <1>2, <1>3, <1>4, <1>5, <2>1, <2>2, <2>3
  <1>9. ASSUME NEW c \in Campaigns, NEW s \in Refunded, ReturnFrozen(c, s)
        PROVE  LedgerInv'
    <2> DEFINE n == TheFreeze(c)
    <2>1. /\ refunds' = Record(refunds, c, [from |-> "frozen", amount |-> n])
          /\ UNCHANGED <<freezes, fees, partials>>
          /\ wallet' = RefundFrozen(wallet, n) /\ n \in Nat
      BY <1>9, GuardFacts DEF ReturnFrozen
    <2> HIDE DEF n
    <2>2. /\ IsFiniteSet(Tomans(RefundAmounts("frozen"))') /\ R' = R + n
          /\ IsFiniteSet(Tomans(RefundAmounts("spent"))') /\ S' = S
      BY <1>1, <2>1, RefundAdds DEF R, S
    <2>3. wallet'.frozen = wallet.frozen - n /\ wallet'.spent = wallet.spent
      BY <1>3, <2>1, Balances
    <2> QED
      BY <1>1, <1>2, <1>3, <1>4, <1>5, <2>1, <2>2, <2>3
  <1>10. ASSUME NEW c \in Campaigns, NEW s \in Refunded, ReturnSpent(c, s)
         PROVE  LedgerInv'
    <2> DEFINE n == TheFee(c)
    <2>1. /\ refunds' = Record(refunds, c, [from |-> "spent", amount |-> n])
          /\ UNCHANGED <<freezes, fees, partials>>
          /\ wallet' = RefundSpent(wallet, n) /\ n \in Nat
      BY <1>10, GuardFacts DEF ReturnSpent
    <2> HIDE DEF n
    <2>2. /\ IsFiniteSet(Tomans(RefundAmounts("frozen"))') /\ R' = R
          /\ IsFiniteSet(Tomans(RefundAmounts("spent"))') /\ S' = S + n
      BY <1>1, <2>1, RefundAdds DEF R, S
    <2>3. wallet'.frozen = wallet.frozen /\ wallet'.spent = wallet.spent - n
      BY <1>3, <2>1, Balances
    <2> QED
      BY <1>1, <1>2, <1>3, <1>4, <1>5, <2>1, <2>2, <2>3
  <1>11. ASSUME NEW c \in Campaigns, ReconcileUndeliveredCampaignRefund(c)
         PROVE  LedgerInv'
    <2> DEFINE n == Undelivered(c)
    <2>1. /\ partials' = Record(partials, c, n) /\ UNCHANGED <<freezes, fees, refunds>>
          /\ wallet' = RefundSpent(wallet, n) /\ n \in Nat
      BY <1>11, ReconcileFacts DEF ReconcileUndeliveredCampaignRefund
    <2> HIDE DEF n
    <2>4. Tomans(partials)' = Tomans(Record(partials, c, n))
      BY <2>1 DEF Tomans
    <2>5. IsFiniteSet(Tomans(partials))
      OBVIOUS
    <2>6. /\ IsFiniteSet(Tomans(Record(partials, c, n)))
          /\ Booked(Record(partials, c, n)) = Booked(partials) + n
      BY <1>3, <2>1, <2>5, RecordAdds
    <2>2. IsFiniteSet(Tomans(partials)') /\ U' = U + n
      BY <2>4, <2>6 DEF U, Booked
    <2>3. wallet'.frozen = wallet.frozen /\ wallet'.spent = wallet.spent - n
      BY <1>3, <2>1, Balances
    <2> QED
      BY <1>1, <1>2, <1>3, <1>4, <1>5, <2>1, <2>2, <2>3
  <1> QED
    BY <1>6, <1>7, <1>8, <1>9, <1>10, <1>11, LedgerMoves

\* While recharges take turns with the other writers of the wallet, the frozen
\* and the spent balance are explained by the ledger to the last Toman, for any
\* number of campaigns and whatever UpdateCampaign and RescheduleCampaign race
\* with: freezes, fees and refunds are recorded in the transaction that moves
\* the money.
THEOREM LedgerSafe == Spec => []LedgerExplainsWallet
  <1>1. Init => LedgerInv
    <2> SUFFICES ASSUME Init PROVE LedgerInv
      OBVIOUS
    <2>1. /\ Tomans(FreezeAmounts) = {} /\ Tomans(fees) = {} /\ Tomans(partials) = {}
          /\ Tomans(RefundAmounts("frozen")) = {}
          /\ Tomans(RefundAmounts("spent")) = {}
      BY DEF Init, Tomans, FreezeAmounts, RefundAmounts
    <2>2. wallet.frozen = 0 /\ wallet.spent = 0
      BY DEF Init, NoRecharge, Balance
    <2> QED
      BY <2>1, <2>2, FS_EmptySet DEF LedgerInv, Countable, LedgerExplainsWallet, Booked
  <1>2. Init => MoneyInv
    BY DEF Init, MoneyInv, NoMoneyCreated, MoneyConserved, NoRecharge, Balance,
           Total
  <1>3. TypeOK /\ MoneyInv /\ LedgerInv /\ [Next]_vars => MoneyInv' /\ LedgerInv'
    BY MoneyInvStep, LedgerInvStep
  <1>4. LedgerInv => LedgerExplainsWallet
    BY DEF LedgerInv
  <1> QED
    BY <1>1, <1>2, <1>3, <1>4, TypeCorrect, PTL DEF Spec

-----------------------------------------------------------------------------
(* The status graph *)

\* What StatusTransitionsSerialized says of a step.
Edge(c) == \/ row'[c].status = row[c].status
           \/ <<row[c].status, row'[c].status>> \in Transitions
Edges == \A c \in Campaigns : Edge(c)

\* A request that has saved its draft finds the campaign past "initiated": no
\* handler takes a campaign back there.
Submitting(e) == edit[e].pc \in {"saved", "quoted"}
Saved == \A e \in Editors : Submitting(e) => row[edit[e].c].status # "initiated"

\* One handler changes the status of one campaign.
LEMMA EdgeOf ==
    ASSUME TypeOK, NEW c \in Campaigns, NEW s, SetStatus(c, s),
           <<row[c].status, s>> \in Transitions
    PROVE  Edges
  BY StatusAt DEF Edges, Edge

LEMMA NoEdge ==
    ASSUME TypeOK, NEW c \in Campaigns, NEW r, SaveRow(c, r),
           r.status = row[c].status
    PROVE  Edges
  BY SaveAt DEF Edges, Edge

LEMMA EdgesStep ==
    ASSUME Serial, TypeOK, Quiet, Saved, [Next]_vars
    PROVE  Edges
  <1>0. row \in [Campaigns -> Rows]
    BY DEF TypeOK
  <1>1. ASSUME UNCHANGED row
        PROVE  Edges
    BY <1>1 DEF Edges, Edge
  <1>2. ASSUME NEW e \in Editors, NEW c \in Campaigns, NEW lead,
               UpdateCampaign(e, c, lead)
        PROVE  Edges
    <2>1. /\ row[c].status \in {"initiated", "in-progress"}
          /\ row' = [row EXCEPT ![c] = WithLead(WithStatus(row[c], "in-progress"), lead)]
      BY <1>2 DEF UpdateCampaign, canUpdateCampaign, SaveDraft, Draft
    <2>2. row'[c].status = "in-progress" /\ \A d \in Campaigns \ {c} : row'[d] = row[d]
      BY <1>0, <2>1 DEF WithLead, WithStatus, Row
    <2>3. Edge(c)
      BY <2>1, <2>2 DEF Edge, Transitions
    <2> QED
      BY <2>2, <2>3 DEF Edges, Edge
  <1>3. ASSUME NEW e \in Editors, NEW num, NEW price, NEW quoted,
               FinalizeCommit(e, num, price, quoted)
        PROVE  Edges
    <2> DEFINE c == edit[e].c
    <2>1. c \in Campaigns
      BY DEF TypeOK, Edits
    <2>2. row[c].status = "in-progress"
      BY <1>3 DEF FinalizeCommit, IsEditable, Draft, Saved, Submitting
    <2>3. row' = [row EXCEPT ![c] =
              Row("waiting-for-approval", row[c].lead, num, row[c].sent, row[c].mark)]
      BY <1>3 DEF FinalizeCommit
    <2>4. /\ row'[c].status = "waiting-for-approval"
          /\ \A d \in Campaigns \ {c} : row'[d] = row[d]
      BY <1>0, <2>1, <2>3 DEF Row
    <2>5. Edge(c)
      BY <2>2, <2>4 DEF Edge, Transitions
    <2> QED
      BY <2>4, <2>5 DEF Edges, Edge
  <1>4. ASSUME NEW e \in Editors, Update(e)
        PROVE  Edges
    <2>1. ~\E lead \in NewLeads : UpdateSave(e, lead)
      BY DEF UpdateSave, Quiet
    <2> QED
      BY <1>1, <1>2, <1>3, <1>4, <2>1 DEF Update, UpdateCheck, FinalizeQuote, UpdateEnd
  <1>5. ASSUME NEW c \in Campaigns, Decide(c)
        PROVE  Edges
    <2>1. \/ row[c].status = "waiting-for-approval" /\ SetStatus(c, "approved")
          \/ /\ row[c].status = "waiting-for-approval"
             /\ \E s \in Refunded : SetStatus(c, s)
          \/ /\ row[c].status = "approved"
             /\ \E s \in Refunded \ {"rejected"} : SetStatus(c, s)
      BY <1>5 DEF Decide, ApproveCampaign, RejectCampaign, CancelWaiting,
         CancelApproved, AdminCancelMissed, isAdminMissedPendingApproval,
         AdminCancelApproved, ReturnFrozen, ReturnSpent, Refunded
    <2> QED
      BY <2>1, EdgeOf DEF Transitions
  <1>6. ASSUME NEW c \in Campaigns, Run(c)
        PROVE  Edges
    <2>1. CASE \/ MoveCampaignToRunning(c)
               \/ MoveCampaignToExecuted(c)
               \/ \E delivered \in BOOLEAN : recoverUndeliveredCampaigns(c, delivered)
      <3>1. \/ row[c].status = "approved" /\ SetStatus(c, "running")
            \/ /\ row[c].status = "running"
               /\ \E s \in {"executed", "interrupted", "approved"} : SetStatus(c, s)
        BY <2>1 DEF MoveCampaignToRunning, MoveCampaignToExecuted,
           recoverUndeliveredCampaigns, IsRunning
      <3> QED
        BY <3>1, EdgeOf DEF Transitions
    <2>2. CASE \/ \E sent \in 0 .. row[c].num : UpdateCampaignStatistics(c, sent)
               \/ ReconcileUndeliveredCampaignRefund(c)
      <3>1. PICK sent, mark :
                SaveRow(c, Row(row[c].status, row[c].lead, row[c].num, sent, mark))
        BY <2>2 DEF UpdateCampaignStatistics, ReconcileUndeliveredCampaignRefund
      <3>2. Row(row[c].status, row[c].lead, row[c].num, sent, mark).status = row[c].status
        BY DEF Row
      <3> QED
        BY <3>1, <3>2, NoEdge
    <2> QED
      BY <1>6, <2>1, <2>2 DEF Run
  <1>7. ASSUME NEW c \in Campaigns, NEW lead, RescheduleCampaign(c, lead)
        PROVE  Edges
    <2>1. SaveRow(c, WithLead(row[c], lead))
      BY <1>7 DEF RescheduleCampaign
    <2>2. WithLead(row[c], lead).status = row[c].status
      BY DEF WithLead, Row
    <2> QED
      BY <2>1, <2>2, NoEdge
  <1>8. ASSUME NEW a \in Admins, NEW lead
        PROVE  ~RescheduleSave(a, lead)
    BY DEF RescheduleSave, Quiet
  <1>9. ASSUME \/ \E a \in Admins, c \in Campaigns : RescheduleRead(a, c)
               \/ Recharges
               \/ UNCHANGED vars
        PROVE  Edges
    BY <1>1, <1>9 DEF RescheduleRead, Recharges, RechargeWallet, RechargeRead,
       RechargeSave, IncreaseBalance, vars
  <1>10. ASSUME NEW c \in Campaigns, PassTime(c)
         PROVE  Edges
    <2>1. row' = [row EXCEPT ![c] = WithLead(row[c], row[c].lead - 1)]
      BY <1>10 DEF PassTime
    <2>2. \A d \in Campaigns : row'[d].status = row[d].status
      BY <1>0, <2>1 DEF WithLead, Row
    <2> QED
      BY <2>2 DEF Edges, Edge
  <1> QED
    BY <1>4, <1>5, <1>6, <1>7, <1>8, <1>9, <1>10 DEF Next, Recharges

\* A request begins to submit by saving the draft, and keeps its campaign.
LEMMA SubmittingStep ==
    ASSUME TypeOK, Quiet, [Next]_vars, NEW e \in Editors, Submitting(e)'
    PROVE  \/ Submitting(e) /\ edit'[e].c = edit[e].c
           \/ row'[edit'[e].c].status = "in-progress"
  <1> DEFINE Goal == \/ Submitting(e) /\ edit'[e].c = edit[e].c
                     \/ row'[edit'[e].c].status = "in-progress"
  <1>0. edit \in [Editors -> Edits] /\ row \in [Campaigns -> Rows]
    BY DEF TypeOK
  <1>1. ASSUME NEW c \in Campaigns
        PROVE  Outdate(c)[e].pc = edit[e].pc /\ Outdate(c)[e].c = edit[e].c
    BY <1>0 DEF Outdate, Edit
  <1>2. ASSUME UNCHANGED edit
        PROVE  Goal
    BY <1>2 DEF Submitting
  <1>3. ASSUME NEW c \in Campaigns, NEW r, SaveRow(c, r)
        PROVE  Goal
    BY <1>1, <1>3 DEF SaveRow, Submitting
  <1>4. ASSUME NEW f \in Editors, NEW c \in Campaigns, NEW lead,
               SaveDraft(f, c, lead)
        PROVE  Goal
    <2>1. edit' = [Outdate(c) EXCEPT ![f] = Edit("saved", c, FALSE)]
      BY <1>4 DEF SaveDraft
    <2>2. CASE e = f
      <3>1. edit'[e].c = c
        BY <2>1, <2>2 DEF Edit, Outdate
      <3>2. row' = [row EXCEPT ![c] = WithLead(WithStatus(row[c], "in-progress"), lead)]
        BY <1>4 DEF SaveDraft
      <3>3. row'[c].status = "in-progress"
        BY <1>0, <3>2 DEF WithLead, WithStatus, Row
      <3> QED
        BY <3>1, <3>3
    <2>3. CASE e # f
      <3>1. edit'[e] = Outdate(c)[e]
        BY <2>1, <2>3 DEF Outdate
      <3> QED
        BY <1>1, <3>1 DEF Submitting
    <2> QED
      BY <2>2, <2>3
  <1>5. ASSUME NEW f \in Editors, FinalizeQuote(f)
        PROVE  Goal
    BY <1>0, <1>5 DEF FinalizeQuote, Edit, Submitting
  <1>6. ASSUME NEW f \in Editors, NEW num, NEW price, NEW quoted,
               FinalizeCommit(f, num, price, quoted)
        PROVE  Goal
    <2>1. edit[f].c \in Campaigns
      BY <1>0 DEF Edits
    <2>2. edit' = [Outdate(edit[f].c) EXCEPT ![f] = NoEdit]
      BY <1>6 DEF FinalizeCommit
    <2>3. NoEdit.pc = "idle"
      BY DEF NoEdit, Edit
    <2>4. e # f
      BY <2>2, <2>3 DEF Submitting, Outdate
    <2>5. edit'[e] = Outdate(edit[f].c)[e]
      BY <2>2, <2>4 DEF Outdate
    <2> QED
      BY <1>1, <2>1, <2>5 DEF Submitting
  <1>7. ASSUME NEW f \in Editors, UpdateEnd(f)
        PROVE  Goal
    <2>1. edit' = [edit EXCEPT ![f] = NoEdit]
      BY <1>7 DEF UpdateEnd
    <2>2. NoEdit.pc = "idle"
      BY DEF NoEdit, Edit
    <2> QED
      BY <1>0, <2>1, <2>2 DEF Submitting
  <1>8. ASSUME NEW f \in Editors, Update(f)
        PROVE  Goal
    <2>1. ~\E lead \in NewLeads : UpdateSave(f, lead)
      BY DEF UpdateSave, Quiet
    <2>2. ASSUME NEW c \in Campaigns, UpdateCheck(f, c)
          PROVE  Goal
      BY <1>0, <2>2 DEF UpdateCheck, Edit, Submitting
    <2> QED
      BY <1>4, <1>5, <1>6, <1>7, <1>8, <2>1, <2>2 DEF Update, UpdateCampaign
  <1>9. ASSUME NEW c \in Campaigns, Decide(c) \/ Run(c)
        PROVE  Goal
    BY <1>3, <1>9 DEF Decide, ApproveCampaign, RejectCampaign, CancelWaiting,
       CancelApproved, AdminCancelMissed, AdminCancelApproved, ReturnFrozen,
       ReturnSpent, Run, MoveCampaignToRunning, MoveCampaignToExecuted,
       recoverUndeliveredCampaigns, UpdateCampaignStatistics,
       ReconcileUndeliveredCampaignRefund, SetStatus
  <1>10. ASSUME NEW c \in Campaigns, NEW lead, RescheduleCampaign(c, lead)
         PROVE  Goal
    BY <1>3, <1>10 DEF RescheduleCampaign
  <1>11. ASSUME NEW a \in Admins, NEW lead
         PROVE  ~RescheduleSave(a, lead)
    BY DEF RescheduleSave, Quiet
  <1>12. ASSUME \/ \E a \in Admins, c \in Campaigns : RescheduleRead(a, c)
                \/ Recharges
                \/ \E c \in Campaigns : PassTime(c)
                \/ UNCHANGED vars
         PROVE  Goal
    BY <1>2, <1>12 DEF RescheduleRead, Recharges, RechargeWallet, RechargeRead,
       RechargeSave, IncreaseBalance, PassTime, vars
  <1> HIDE DEF Goal
  <1>13. Goal
    BY <1>8, <1>9, <1>10, <1>11, <1>12 DEF Next, Recharges
  <1> QED
    BY <1>13 DEF Goal

\* While UpdateCampaign and RescheduleCampaign run undisturbed, campaigns move
\* along the graph of the handlers only, whatever else interleaves.  The
\* request that finalizes has to know that its campaign is a saved draft.
THEOREM TransitionsSafe ==
    ASSUME Serial
    PROVE  Spec => StatusTransitionsSerialized
  <1>1. Init => Quiet /\ Saved
    <2>1. NoEdit.pc = "idle" /\ NoResched.pc = "idle"
      BY DEF NoEdit, Edit, NoResched
    <2> QED
      BY <2>1 DEF Init, Quiet, Saved, Submitting
  <1>2. TypeOK /\ Quiet /\ Saved /\ [Next]_vars => Quiet' /\ Saved' /\ Edges
    <2> SUFFICES ASSUME TypeOK, Quiet, Saved, [Next]_vars
                 PROVE  Quiet' /\ Saved' /\ Edges
      OBVIOUS
    <2>1. Quiet' /\ Edges
      BY QuietStep, EdgesStep
    <2>2. ASSUME NEW e \in Editors, Submitting(e)'
          PROVE  row'[edit'[e].c].status # "initiated"
      <3>1. CASE Submitting(e) /\ edit'[e].c = edit[e].c
        <4>1. edit[e].c \in Campaigns /\ row[edit[e].c].status # "initiated"
          BY <3>1 DEF Saved, TypeOK, Edits
        <4>2. \A s : <<s, "initiated">> \notin Transitions
          BY DEF Transitions, Refunded
        <4> QED
          BY <2>1, <3>1, <4>1, <4>2 DEF Edges, Edge
      <3> QED
        BY <2>2, <3>1, SubmittingStep
    <2> QED
      BY <2>1, <2>2 DEF Saved
  <1>3. TypeOK /\ Quiet /\ Saved /\ [Next]_vars
            => [\A c \in Campaigns :
                  \/ row'[c].status = row[c].status
                  \/ <<row[c].status, row'[c].status>> \in Transitions]_vars
    BY <1>2 DEF Edges, Edge
  <1> QED
    BY <1>1, <1>2, <1>3, TypeCorrect, PTL DEF Spec, StatusTransitionsSerialized

-----------------------------------------------------------------------------
(* The escrow of each campaign *)

\* What the escrow of a campaign holds follows from its status.
LEMMA EscrowOf ==
    ASSUME NEW s, NEW fr, NEW fe, NEW re, NEW pa, Agrees(s, fr, fe, re, pa)
    PROVE  /\ s \in Draft =>
                /\ Phase(s, pa) = "open"
                /\ HeldBack(fr, fe, re) = 0 /\ PaidFor(fe, re, pa) = 0
           /\ s = "waiting-for-approval" =>
                /\ Phase(s, pa) = "reserved"
                /\ HeldBack(fr, fe, re) = fr[1].amount /\ PaidFor(fe, re, pa) = 0
           /\ s \in {"approved", "running", "interrupted"} =>
                /\ HeldBack(fr, fe, re) = 0 /\ PaidFor(fe, re, pa) = fe[1]
                /\ fe[1] = fr[1].amount
           /\ s = "approved" => Phase(s, pa) = "paid"
           /\ s = "executed" =>
                /\ Phase(s, pa) = IF pa = <<>> THEN "used" ELSE "closed"
                /\ HeldBack(fr, fe, re) = 0
                /\ PaidFor(fe, re, pa) = IF pa = <<>> THEN fe[1] ELSE fe[1] - pa[1]
                /\ Len(fe) = 1
           /\ s \in Refunded =>
                /\ Phase(s, pa) = "closed"
                /\ HeldBack(fr, fe, re) = 0 /\ PaidFor(fe, re, pa) = 0
  <1>1. ASSUME s \in Draft
        PROVE  /\ Phase(s, pa) = "open"
               /\ HeldBack(fr, fe, re) = 0 /\ PaidFor(fe, re, pa) = 0
    BY <1>1 DEF Agrees, Draft, Phase, HeldBack, PaidFor
  <1>2. ASSUME s = "waiting-for-approval"
        PROVE  /\ Phase(s, pa) = "reserved"
               /\ HeldBack(fr, fe, re) = fr[1].amount /\ PaidFor(fe, re, pa) = 0
    BY <1>2 DEF Agrees, Draft, Phase, HeldBack, PaidFor
  <1>3. ASSUME s \in {"approved", "running", "interrupted", "executed"}
        PROVE  /\ fe = <<fr[1].amount>> /\ re = <<>> /\ fe # <<>>
               /\ fe[1] = fr[1].amount /\ Len(fe) = 1
               /\ s # "executed" => pa = <<>>
    BY <1>3 DEF Agrees
  <1>4. ASSUME s \in {"approved", "running", "interrupted"}
        PROVE  /\ HeldBack(fr, fe, re) = 0 /\ PaidFor(fe, re, pa) = fe[1]
               /\ s = "approved" => Phase(s, pa) = "paid"
    BY <1>3, <1>4 DEF Draft, Phase, HeldBack, PaidFor
  <1>5. ASSUME s = "executed"
        PROVE  /\ Phase(s, pa) = IF pa = <<>> THEN "used" ELSE "closed"
               /\ HeldBack(fr, fe, re) = 0
               /\ PaidFor(fe, re, pa) = IF pa = <<>> THEN fe[1] ELSE fe[1] - pa[1]
    BY <1>3, <1>5 DEF Draft, Phase, HeldBack, PaidFor
  <1>6. ASSUME s \in Refunded
        PROVE  /\ Phase(s, pa) = "closed"
               /\ HeldBack(fr, fe, re) = 0 /\ PaidFor(fe, re, pa) = 0
    <2>1. re # <<>>
      BY <1>6 DEF Agrees
    <2> QED
      BY <1>6, <2>1 DEF Refunded, Draft, Phase, HeldBack, PaidFor
  <1> QED
    BY <1>1, <1>2, <1>3, <1>4, <1>5, <1>6

\* A step at one campaign leaves the escrows of the others alone.
LEMMA EscrowAt ==
    ASSUME NEW c \in Campaigns,
           \A d \in Campaigns \ {c} :
              /\ row'[d].status = row[d].status /\ freezes'[d] = freezes[d]
              /\ fees'[d] = fees[d] /\ refunds'[d] = refunds[d]
              /\ partials'[d] = partials[d]
    PROVE  /\ HeldMoney' = [HeldMoney EXCEPT ![c] =
                               HeldBack(freezes'[c], fees'[c], refunds'[c])]
           /\ PaidMoney' = [PaidMoney EXCEPT ![c] =
                               PaidFor(fees'[c], refunds'[c], partials'[c])]
           /\ Phases' = [Phases EXCEPT ![c] = Phase(row'[c].status, partials'[c])]
  BY DEF HeldMoney, PaidMoney, Phases

EscrowVars == <<AvailableMoney, HeldMoney, PaidMoney, Phases>>

\* A step that moves no money and no campaign from one phase to another.
LEMMA EscrowRests ==
    ASSUME UNCHANGED <<wallet, ledger>>,
           \A d \in Campaigns : Phase(row'[d].status, partials[d]) =
                                Phase(row[d].status, partials[d])
    PROVE  UNCHANGED EscrowVars
  BY DEF EscrowVars, AvailableMoney, HeldMoney, PaidMoney, Phases, ledger

LEMMA AvailableMoves ==
    ASSUME NEW w \in Wallets, NEW n \in Nat
    PROVE  /\ w.free + w.credit \in Nat
           /\ Freeze(w, n).free + Freeze(w, n).credit = (w.free + w.credit) - n
           /\ Consume(w, n).free + Consume(w, n).credit = w.free + w.credit
           /\ RefundFrozen(w, n).free + RefundFrozen(w, n).credit
                = (w.free + w.credit) + n
           /\ RefundSpent(w, n).free + RefundSpent(w, n).credit
                = (w.free + w.credit) + n
  <1>0. w.free \in Nat /\ w.credit \in Nat
    BY DEF Wallets
  <1>1. PICK f \in Nat : f = Least(n, w.free)
    BY <1>0 DEF Least
  <1> QED
    BY <1>0, <1>1 DEF Freeze, Consume, RefundFrozen, RefundSpent, Balance

LEMMA EscrowStepRefines ==
    ASSUME Unlocked = {}, TypeOK, MoneyInv, EscrowInv, [Next]_vars
    PROVE  [Escrow!Next]_(Escrow!vars)
  <1> SUFFICES Escrow!Next \/ UNCHANGED EscrowVars
    BY DEF Escrow!vars, EscrowVars
  <1> DEFINE A(c) == Agrees(row[c].status, freezes[c], fees[c], refunds[c], partials[c])
             B(c) == Agrees(row'[c].status, freezes'[c], fees'[c], refunds'[c],
                            partials'[c])
  <1>0. /\ row \in [Campaigns -> Rows] /\ wallet \in Wallets
        /\ DOMAIN freezes = Campaigns /\ DOMAIN fees = Campaigns
        /\ DOMAIN refunds = Campaigns /\ DOMAIN partials = Campaigns
        /\ AvailableMoney \in Nat
    BY AvailableMoves DEF TypeOK, AvailableMoney
  <1>1. Serial
    BY DEF Serial
  <1>2. \A c \in Campaigns : A(c) /\ B(c)
    BY <1>1, EscrowStep DEF EscrowInv, EscrowMatchesStatus
  <1> HIDE DEF A, B
  <1>3. ASSUME NEW c \in Campaigns, NEW s, SetStatus(c, s),
               UNCHANGED <<wallet, ledger>>,
               Phase(s, partials[c]) = Phase(row[c].status, partials[c])
        PROVE  UNCHANGED EscrowVars
    BY <1>3, StatusAt, EscrowRests
  <1>4. ASSUME NEW c \in Campaigns, NEW r, SaveRow(c, r),
               r.status = row[c].status, UNCHANGED <<wallet, ledger>>
        PROVE  UNCHANGED EscrowVars
    BY <1>4, SaveAt, EscrowRests
  <1>5. ASSUME UNCHANGED <<row, wallet, ledger>>
        PROVE  UNCHANGED EscrowVars
    BY <1>5, EscrowRests
  <1>6. ASSUME NEW e \in Editors, NEW c \in Campaigns, NEW lead,
               UpdateCampaign(e, c, lead)
        PROVE  UNCHANGED EscrowVars
    <2>1. /\ row[c].status \in Draft
          /\ UNCHANGED <<wallet, ledger>>
          /\ row' = [row EXCEPT ![c] = WithLead(WithStatus(row[c], "in-progress"), lead)]
      BY <1>6 DEF UpdateCampaign, canUpdateCampaign, SaveDraft
    <2>2. row'[c].status = "in-progress" /\ \A d \in Campaigns \ {c} : row'[d] = row[d]
      BY <1>0, <2>1 DEF WithLead, WithStatus, Row
    <2>3. \A q : Phase("in-progress", q) = Phase(row[c].status, q)
      BY <2>1 DEF Phase, Draft
    <2> QED
      BY <2>1, <2>2, <2>3, EscrowRests
  <1>7. ASSUME NEW e \in Editors, NEW num \in Audiences, NEW price \in Prices,
               NEW quoted \in Prices, FinalizeCommit(e, num, price, quoted)
        PROVE  Escrow!Next
    <2> DEFINE c == edit[e].c
               cost == IF OwnerIsAdmin THEN 0 ELSE num * quoted
               x == [amount |-> cost, price |-> price]
    <2>1. c \in Campaigns
      BY DEF TypeOK, Edits
    <2>2. num \in Nat /\ quoted \in Nat
      BY FundsAssumption
    <2>3. cost \in Nat
      BY <2>2, ProductNat
    <2>4. /\ row[c].status \in Draft
          /\ cost <= wallet.free + wallet.credit
          /\ wallet' = Freeze(wallet, cost)
          /\ freezes' = Record(freezes, c, x)
          /\ UNCHANGED <<fees, refunds, partials>>
          /\ row' = [row EXCEPT ![c] =
                Row("waiting-for-approval", @.lead, num, @.sent, @.mark)]
      BY <1>7 DEF FinalizeCommit, IsEditable, Affordable
    <2>5. /\ row'[c].status = "waiting-for-approval"
          /\ \A d \in Campaigns \ {c} : row'[d] = row[d]
      BY <1>0, <2>1, <2>4 DEF Row
    <2>6. /\ freezes'[c] = Append(freezes[c], x)
          /\ \A d \in Campaigns \ {c} : freezes'[d] = freezes[d]
      BY <1>0, <2>1, <2>4, RecordAt
    <2>7. x.amount = cost
      OBVIOUS
    <2> HIDE DEF c, cost, x
    <2>8. freezes'[c][1].amount = cost
      <3>1. freezes[c] = <<>>
        BY <1>2, <2>1, <2>4 DEF A, Agrees
      <3>2. Append(<<>>, x)[1] = x
        OBVIOUS
      <3> QED
        BY <2>6, <2>7, <3>1, <3>2
    <2>9. /\ Phases[c] = "open" /\ PaidMoney[c] = 0
      BY <1>2, <2>1, <2>4, EscrowOf DEF A, Phases, PaidMoney
    <2>10. /\ HeldBack(freezes'[c], fees'[c], refunds'[c]) = cost
           /\ PaidFor(fees'[c], refunds'[c], partials'[c]) = 0
           /\ Phase(row'[c].status, partials'[c]) = "reserved"
      BY <1>2, <2>1, <2>5, <2>8, EscrowOf DEF B
    <2>11. /\ HeldMoney' = [HeldMoney EXCEPT ![c] = cost]
           /\ PaidMoney' = [PaidMoney EXCEPT ![c] = 0]
           /\ Phases' = [Phases EXCEPT ![c] = "reserved"]
      BY <2>1, <2>4, <2>5, <2>6, <2>10, EscrowAt
    <2>12. PaidMoney' = PaidMoney
      BY <2>1, <2>9, <2>11 DEF PaidMoney
    <2>13. /\ AvailableMoney' = AvailableMoney - cost
           /\ cost \in 0 .. AvailableMoney
      BY <1>0, <2>3, <2>4, AvailableMoves DEF AvailableMoney
    <2>14. Escrow!Reserve(c, cost)
      BY <2>9, <2>11, <2>12, <2>13 DEF Escrow!Reserve, Escrow!Advance
    <2> QED
      BY <2>1, <2>13, <2>14 DEF Escrow!Next
  <1>8. ASSUME NEW e \in Editors, Update(e)
        PROVE  Escrow!Next \/ UNCHANGED EscrowVars
    <2>1. ~\E lead \in NewLeads : UpdateSave(e, lead)
      BY DEF UpdateSave, EscrowInv, Quiet
    <2>2. CASE \E c \in Campaigns, lead \in NewLeads : UpdateCampaign(e, c, lead)
      BY <1>6, <2>2
    <2>3. CASE \E num \in Audiences, price \in Prices, quoted \in Prices :
                  FinalizeCommit(e, num, price, quoted)
      BY <1>7, <2>3
    <2>4. CASE \/ \E c \in Campaigns : UpdateCheck(e, c)
               \/ FinalizeQuote(e) \/ UpdateEnd(e)
      <3>1. UNCHANGED <<row, wallet, ledger>>
        BY <2>4 DEF UpdateCheck, FinalizeQuote, UpdateEnd
      <3> QED
        BY <1>5, <3>1
    <2> QED
      BY <1>8, <2>1, <2>2, <2>3, <2>4 DEF Update
  <1>9. ASSUME NEW c \in Campaigns, ApproveCampaign(c)
        PROVE  Escrow!Next
    <2>1. /\ row[c].status = "waiting-for-approval"
          /\ wallet' = Consume(wallet, TheFreeze(c)) /\ TheFreeze(c) \in Nat
          /\ fees' = Record(fees, c, TheFreeze(c))
          /\ SetStatus(c, "approved")
          /\ UNCHANGED <<freezes, refunds, partials>>
      BY <1>9, GuardFacts DEF ApproveCampaign
    <2>2. \A d \in Campaigns \ {c} : fees'[d] = fees[d]
      BY <1>0, <2>1, RecordAt
    <2>3. row'[c].status = "approved" /\ \A d \in Campaigns \ {c} : row'[d] = row[d]
      BY <2>1, StatusAt
    <2>4. Phases[c] = "reserved" /\ HeldMoney[c] = TheFreeze(c)
      BY <1>2, <2>1, EscrowOf DEF A, Phases, HeldMoney, TheFreeze
    <2>5. /\ HeldBack(freezes'[c], fees'[c], refunds'[c]) = 0
          /\ PaidFor(fees'[c], refunds'[c], partials'[c]) = TheFreeze(c)
          /\ Phase(row'[c].status, partials'[c]) = "paid"
      BY <1>2, <2>1, <2>3, EscrowOf DEF B, TheFreeze
    <2>6. /\ HeldMoney' = [HeldMoney EXCEPT ![c] = 0]
          /\ PaidMoney' = [PaidMoney EXCEPT ![c] = HeldMoney[c]]
          /\ Phases' = [Phases EXCEPT ![c] = "paid"]
      BY <2>1, <2>2, <2>3, <2>4, <2>5, EscrowAt
    <2>7. UNCHANGED AvailableMoney
      BY <1>0, <2>1, AvailableMoves DEF AvailableMoney
    <2>8. Escrow!Spend(c)
      BY <2>4, <2>6, <2>7 DEF Escrow!Spend, Escrow!Advance
    <2> QED
      BY <2>8 DEF Escrow!Next
  <1>10. ASSUME NEW c \in Campaigns, NEW s \in Refunded, ReturnFrozen(c, s),
                row[c].status = "waiting-for-approval"
         PROVE  Escrow!Next
    <2>1. /\ wallet' = RefundFrozen(wallet, TheFreeze(c)) /\ TheFreeze(c) \in Nat
          /\ \E x : refunds' = Record(refunds, c, x)
          /\ SetStatus(c, s)
          /\ UNCHANGED <<freezes, fees, partials>>
      BY <1>10, GuardFacts DEF ReturnFrozen
    <2>2. \A d \in Campaigns \ {c} : refunds'[d] = refunds[d]
      BY <1>0, <2>1, RecordAt
    <2>3. row'[c].status = s /\ \A d \in Campaigns \ {c} : row'[d] = row[d]
      BY <2>1, StatusAt
    <2>4. Phases[c] = "reserved" /\ HeldMoney[c] = TheFreeze(c) /\ PaidMoney[c] = 0
      BY <1>2, <1>10, EscrowOf DEF A, Phases, HeldMoney, PaidMoney, TheFreeze
    <2>5. /\ HeldBack(freezes'[c], fees'[c], refunds'[c]) = 0
          /\ PaidFor(fees'[c], refunds'[c], partials'[c]) = 0
          /\ Phase(row'[c].status, partials'[c]) = "closed"
      BY <1>2, <2>3, EscrowOf DEF B
    <2>6. /\ HeldMoney' = [HeldMoney EXCEPT ![c] = 0]
          /\ PaidMoney' = [PaidMoney EXCEPT ![c] = 0]
          /\ Phases' = [Phases EXCEPT ![c] = "closed"]
      BY <2>1, <2>2, <2>3, <2>5, EscrowAt
    <2>7. UNCHANGED PaidMoney
      BY <2>4, <2>6 DEF PaidMoney
    <2>8. AvailableMoney' = AvailableMoney + HeldMoney[c]
      BY <1>0, <2>1, <2>4, AvailableMoves DEF AvailableMoney
    <2>9. Escrow!Release(c)
      BY <2>4, <2>6, <2>7, <2>8 DEF Escrow!Release, Escrow!Advance
    <2> QED
      BY <2>9 DEF Escrow!Next
  <1>11. ASSUME NEW c \in Campaigns, NEW s \in Refunded, ReturnSpent(c, s),
                row[c].status = "approved"
         PROVE  Escrow!Next
    <2>1. /\ wallet' = RefundSpent(wallet, TheFee(c)) /\ TheFee(c) \in Nat
          /\ \E x : refunds' = Record(refunds, c, x)
          /\ SetStatus(c, s)
          /\ UNCHANGED <<freezes, fees, partials>>
      BY <1>11, GuardFacts DEF ReturnSpent
    <2>2. \A d \in Campaigns \ {c} : refunds'[d] = refunds[d]
      BY <1>0, <2>1, RecordAt
    <2>3. row'[c].status = s /\ \A d \in Campaigns \ {c} : row'[d] = row[d]
      BY <2>1, StatusAt
    <2>4. Phases[c] = "paid" /\ HeldMoney[c] = 0 /\ PaidMoney[c] = TheFee(c)
      BY <1>2, <1>11, EscrowOf DEF A, Phases, HeldMoney, PaidMoney, TheFee
    <2>5. /\ HeldBack(freezes'[c], fees'[c], refunds'[c]) = 0
          /\ PaidFor(fees'[c], refunds'[c], partials'[c]) = 0
          /\ Phase(row'[c].status, partials'[c]) = "closed"
      BY <1>2, <2>3, EscrowOf DEF B
    <2>6. /\ HeldMoney' = [HeldMoney EXCEPT ![c] = 0]
          /\ PaidMoney' = [PaidMoney EXCEPT ![c] = 0]
          /\ Phases' = [Phases EXCEPT ![c] = "closed"]
      BY <2>1, <2>2, <2>3, <2>5, EscrowAt
    <2>7. UNCHANGED HeldMoney
      BY <2>4, <2>6 DEF HeldMoney
    <2>8. AvailableMoney' = AvailableMoney + PaidMoney[c]
      BY <1>0, <2>1, <2>4, AvailableMoves DEF AvailableMoney
    <2>9. Escrow!GiveBack(c)
      BY <2>4, <2>6, <2>7, <2>8 DEF Escrow!GiveBack, Escrow!Advance
    <2> QED
      BY <2>9 DEF Escrow!Next
  <1>12. ASSUME NEW c \in Campaigns, Decide(c)
         PROVE  Escrow!Next
    <2>1. /\ "rejected" \in Refunded /\ "cancelled" \in Refunded
          /\ "cancelled-by-admin" \in Refunded
      BY DEF Refunded
    <2> QED
      BY <1>9, <1>10, <1>11, <1>12, <2>1 DEF Decide, RejectCampaign, CancelWaiting,
         CancelApproved, AdminCancelMissed, AdminCancelApproved,
         isAdminMissedPendingApproval
  <1>13. ASSUME NEW c \in Campaigns, NEW s, SetStatus(c, s),
                UNCHANGED <<wallet, ledger>>,
                \/ row[c].status = "approved" /\ s = "running"
                \/ row[c].status = "running"
                   /\ s \in {"approved", "interrupted", "executed"}
         PROVE  Escrow!Next \/ UNCHANGED EscrowVars
    <2>1. row'[c].status = s /\ \A d \in Campaigns \ {c} : row'[d] = row[d]
      BY <1>13, StatusAt
    <2>2. partials[c] = <<>>
      BY <1>2, <1>13 DEF A, Agrees
    <2>3. /\ Phase("approved", <<>>) = "paid" /\ Phase("running", <<>>) = "under way"
          /\ Phase("interrupted", <<>>) = "under way"
          /\ Phase("executed", <<>>) = "used"
      BY DEF Phase, Draft
    <2>4. Phases[c] = Phase(row[c].status, <<>>)
      BY <2>2 DEF Phases
    <2>5. Phases' = [Phases EXCEPT ![c] = Phase(s, <<>>)]
      BY <1>13, <2>1, <2>2, EscrowAt DEF ledger
    <2>6. UNCHANGED <<AvailableMoney, HeldMoney, PaidMoney>>
      BY <1>13 DEF ledger, AvailableMoney, HeldMoney, PaidMoney
    <2>7. CASE s = "interrupted"
      BY <1>3, <1>13, <2>2, <2>3, <2>7
    <2>8. CASE s # "interrupted"
      <3>1. Escrow!Progress(c)
        BY <1>13, <2>3, <2>4, <2>5, <2>6, <2>8 DEF Escrow!Progress, Escrow!Advance
      <3> QED
        BY <3>1 DEF Escrow!Next
    <2> QED
      BY <2>7, <2>8
  <1>14. ASSUME NEW c \in Campaigns, ReconcileUndeliveredCampaignRefund(c)
         PROVE  Escrow!Next
    <2> DEFINE u == Undelivered(c)
    <2>1. /\ row[c].status = "executed" /\ partials[c] = <<>>
          /\ u \in Nat /\ u <= LastFee(c) /\ LastFee(c) \in Nat
          /\ wallet' = RefundSpent(wallet, u)
          /\ partials' = Record(partials, c, u)
          /\ SaveRow(c, Row(row[c].status, row[c].lead, row[c].num, row[c].sent, TRUE))
          /\ UNCHANGED <<freezes, fees, refunds>>
      BY <1>14, ReconcileFacts DEF ReconcileUndeliveredCampaignRefund
    <2>2. Row(row[c].status, row[c].lead, row[c].num, row[c].sent, TRUE).status
            = "executed"
      BY <2>1 DEF Row
    <2> HIDE DEF u
    <2>3. row'[c].status = "executed" /\ \A d \in Campaigns \ {c} : row'[d] = row[d]
      BY <2>1, <2>2, SaveAt
    <2>4. /\ partials'[c] # <<>> /\ partials'[c][1] = u
          /\ \A d \in Campaigns \ {c} : partials'[d] = partials[d]
      <3>1. /\ partials'[c] = Append(<<>>, u)
            /\ \A d \in Campaigns \ {c} : partials'[d] = partials[d]
        BY <1>0, <2>1, RecordAt
      <3>2. Append(<<>>, u) # <<>> /\ Append(<<>>, u)[1] = u
        OBVIOUS
      <3> QED
        BY <3>1, <3>2
    <2>5. /\ Phases[c] = "used" /\ HeldMoney[c] = 0 /\ PaidMoney[c] = fees[c][1]
          /\ Len(fees[c]) = 1
      BY <1>2, <2>1, EscrowOf DEF A, Phases, HeldMoney, PaidMoney
    <2>6. u \in 0 .. PaidMoney[c]
      BY <2>1, <2>5 DEF LastFee
    <2>7. /\ HeldBack(freezes'[c], fees'[c], refunds'[c]) = 0
          /\ PaidFor(fees'[c], refunds'[c], partials'[c]) = PaidMoney[c] - u
          /\ Phase(row'[c].status, partials'[c]) = "closed"
      BY <1>2, <2>1, <2>3, <2>4, <2>5, EscrowOf DEF B
    <2>8. /\ HeldMoney' = [HeldMoney EXCEPT ![c] = 0]
          /\ PaidMoney' = [PaidMoney EXCEPT ![c] = PaidMoney[c] - u]
          /\ Phases' = [Phases EXCEPT ![c] = "closed"]
      BY <2>1, <2>3, <2>4, <2>7, EscrowAt
    <2>9. UNCHANGED HeldMoney
      BY <2>5, <2>8 DEF HeldMoney
    <2>10. AvailableMoney' = AvailableMoney + u
      BY <1>0, <2>1, AvailableMoves DEF AvailableMoney
    <2>11. Escrow!GiveBackPart(c, u)
      BY <2>5, <2>8, <2>9, <2>10 DEF Escrow!GiveBackPart, Escrow!Advance
    <2> QED
      BY <2>6, <2>11 DEF Escrow!Next
  <1>15. ASSUME NEW c \in Campaigns, Run(c)
         PROVE  Escrow!Next \/ UNCHANGED EscrowVars
    <2>1. ASSUME \/ MoveCampaignToRunning(c)
                 \/ MoveCampaignToExecuted(c)
                 \/ \E delivered \in BOOLEAN : recoverUndeliveredCampaigns(c, delivered)
          PROVE  Escrow!Next \/ UNCHANGED EscrowVars
      <3>1. /\ \E s : /\ SetStatus(c, s)
                      /\ \/ row[c].status = "approved" /\ s = "running"
                         \/ row[c].status = "running"
                            /\ s \in {"approved", "interrupted", "executed"}
            /\ UNCHANGED <<wallet, ledger>>
        BY <2>1 DEF MoveCampaignToRunning, MoveCampaignToExecuted,
           recoverUndeliveredCampaigns, IsRunning
      <3> QED
        BY <1>13, <3>1
    <2>2. ASSUME NEW sent, UpdateCampaignStatistics(c, sent)
          PROVE  UNCHANGED EscrowVars
      <3>1. /\ SaveRow(c, Row(row[c].status, row[c].lead, row[c].num, sent, row[c].mark))
            /\ UNCHANGED <<wallet, ledger>>
        BY <2>2 DEF UpdateCampaignStatistics
      <3>2. Row(row[c].status, row[c].lead, row[c].num, sent, row[c].mark).status
              = row[c].status
        BY DEF Row
      <3> QED
        BY <1>4, <3>1, <3>2
    <2> QED
      BY <1>14, <1>15, <2>1, <2>2 DEF Run
  <1>16. ASSUME NEW c \in Campaigns, NEW lead, RescheduleCampaign(c, lead)
         PROVE  UNCHANGED EscrowVars
    <2>1. SaveRow(c, WithLead(row[c], lead)) /\ UNCHANGED <<wallet, ledger>>
      BY <1>16 DEF RescheduleCampaign
    <2>2. WithLead(row[c], lead).status = row[c].status
      BY DEF WithLead, Row
    <2> QED
      BY <1>4, <2>1, <2>2
  <1>17. ASSUME NEW a \in Admins, NEW c \in Campaigns, RescheduleRead(a, c)
         PROVE  UNCHANGED EscrowVars
    BY <1>5, <1>17 DEF RescheduleRead
  <1>18. ASSUME NEW a \in Admins, NEW lead
         PROVE  ~RescheduleSave(a, lead)
    BY DEF RescheduleSave, EscrowInv, Quiet
  <1>19. ASSUME NEW d \in Deposits, RechargeWallet(d)
         PROVE  Escrow!Next \/ UNCHANGED EscrowVars
    <2>1. d.free \in Nat /\ d.credit \in Nat
      BY FundsAssumption
    <2>2. /\ wallet' = Balance(wallet.free + d.free, wallet.credit + d.credit,
                               wallet.frozen, wallet.spent)
          /\ UNCHANGED <<row, ledger>>
      BY <1>19 DEF RechargeWallet, IncreaseBalance
    <2>3. AvailableMoney' = AvailableMoney + (d.free + d.credit)
      BY <1>0, <2>1, <2>2 DEF AvailableMoney, Balance, Wallets
    <2>4. UNCHANGED <<HeldMoney, PaidMoney, Phases>>
      BY <2>2 DEF HeldMoney, PaidMoney, Phases, ledger
    <2>5. CASE d.free + d.credit = 0
      <3>1. AvailableMoney' = AvailableMoney
        BY <1>0, <2>3, <2>5
      <3> QED
        BY <2>4, <3>1 DEF EscrowVars
    <2>6. CASE d.free + d.credit # 0
      <3>1. AvailableMoney' \in Nat /\ AvailableMoney' > AvailableMoney
        BY <1>0, <2>1, <2>3, <2>6
      <3>2. Escrow!Deposit
        BY <2>4, <3>1 DEF Escrow!Deposit
      <3> QED
        BY <3>2 DEF Escrow!Next
    <2> QED
      BY <2>5, <2>6
  <1>20. ASSUME NEW g \in Gateways
         PROVE  ~RechargeRead(g) /\ \A d \in Deposits : ~RechargeSave(g, d)
    BY DEF RechargeRead, RechargeSave, MoneyInv
  <1>21. ASSUME NEW c \in Campaigns, PassTime(c)
         PROVE  UNCHANGED EscrowVars
    <2>1. /\ row' = [row EXCEPT ![c] = WithLead(row[c], row[c].lead - 1)]
          /\ UNCHANGED <<wallet, ledger>>
      BY <1>21 DEF PassTime
    <2>2. \A d \in Campaigns : row'[d].status = row[d].status
      BY <1>0, <2>1 DEF WithLead, Row
    <2> QED
      BY <2>1, <2>2, EscrowRests
  <1>22. CASE UNCHANGED vars
    BY <1>5, <1>22 DEF vars
  <1>23. CASE Next
    BY <1>23, <1>8, <1>12, <1>15, <1>16, <1>17, <1>18, <1>19, <1>20, <1>21 DEF Next
  <1> QED
    BY <1>22, <1>23

\* While handlers and recharges take turns, wallet, statuses and ledger together
\* implement one escrow per campaign, for any number of campaigns: money is set
\* aside, spent and given back once, and only for the campaign a handler is about.
THEOREM EscrowsAreKept ==
    ASSUME Unlocked = {}
    PROVE  Spec => ImplementsEscrow
  <1>1. Init => EscrowInv /\ MoneyInv /\ Escrow!Init
    <2>1. NoRow.status \in Draft /\ NoEdit.pc = "idle" /\ NoResched.pc = "idle"
      BY DEF NoRow, Row, NoEdit, Edit, NoResched, Draft
    <2>2. Agrees(NoRow.status, <<>>, <<>>, <<>>, <<>>)
      BY <2>1 DEF Agrees, Draft, Refunded
    <2>3. /\ Phase(NoRow.status, <<>>) = "open"
          /\ HeldBack(<<>>, <<>>, <<>>) = 0 /\ PaidFor(<<>>, <<>>, <<>>) = 0
      BY <2>1, <2>2, EscrowOf
    <2>4. Init => EscrowInv
      BY <2>1, <2>2 DEF Init, EscrowInv, EscrowMatchesStatus, Quiet
    <2>5. Init => MoneyInv
      BY DEF Init, MoneyInv, NoMoneyCreated, MoneyConserved, NoRecharge, Balance, Total
    <2>6. Init => AvailableMoney = 0
      BY DEF Init, AvailableMoney, NoRecharge, Balance
    <2>7. Init => /\ HeldMoney = [c \in Campaigns |-> 0]
                  /\ PaidMoney = [c \in Campaigns |-> 0]
                  /\ Phases = [c \in Campaigns |-> "open"]
      BY <2>3 DEF Init, HeldMoney, PaidMoney, Phases
    <2> QED
      BY <2>4, <2>5, <2>6, <2>7 DEF Escrow!Init
  <1>2. TypeOK /\ EscrowInv /\ MoneyInv /\ [Next]_vars => (EscrowInv /\ MoneyInv)'
    <2>1. Serial
      BY DEF Serial
    <2> QED
      BY <2>1, QuietStep, EscrowStep, MoneyInvStep DEF EscrowInv
  <1>3. TypeOK /\ EscrowInv /\ MoneyInv /\ [Next]_vars => [Escrow!Next]_(Escrow!vars)
    BY EscrowStepRefines
  <1> QED
    BY <1>1, <1>2, <1>3, TypeCorrect, PTL DEF Spec, ImplementsEscrow, Escrow!Spec

=============================================================================
