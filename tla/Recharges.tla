----------------------------- MODULE Recharges ------------------------------
(***************************************************************************)
(* The four ways money enters a wallet, up to the credit itself (which is  *)
(* CampaignFunds!IncreaseBalance): card payments through Atipay            *)
(* (business_flow/payment_flow.go), direct charges by administrators and   *)
(* deposit receipts (business_flow/payment_admin_flow.go), and crypto      *)
(* payments (business_flow/crypto_payment_flow.go).                        *)
(*                                                                         *)
(* Every handler first reads its row without a lock and decides; later it  *)
(* saves the whole row.  The two halves are steps of their own here, with  *)
(* any number of handlers in between.  The second half is one step: it     *)
(* begins with an UPDATE of the row and holds that row until it commits.   *)
(* What only handlers that overlap on one row can break is stated for the  *)
(* rows on which none did.                                                 *)
(***************************************************************************)
EXTENDS Integers, FiniteSets

CONSTANTS Cards,      \* payment requests of customers
          Keys,       \* idempotency keys of direct charges
          Payloads,   \* customer, amount, note and administrator of a charge
          Receipts,   \* deposit receipts
          Invoices,   \* crypto payment requests at Oxapay
          Addresses,  \* crypto payment requests at Bithide
          Deposits,   \* transactions on a chain
          PaidFor,    \* the request a transaction pays
          Handlers,   \* requests that are served at a time
          MaxRows,    \* bound: payments, charges and receipts made
          MaxCalls,   \* bound: requests served
          MaxFaults,  \* bound: lost answers, failed calls and commits
          None

Crypto == Invoices \cup Addresses
Subjects == Cards \cup Keys \cup Receipts \cup Crypto

ASSUME RechargesAssumption ==
    /\ PaidFor \in [Deposits -> Crypto]
    /\ MaxRows \in Nat /\ MaxCalls \in Nat /\ MaxFaults \in Nat
    /\ None \notin Subjects \cup Payloads
    /\ IsFiniteSet(Deposits)
    /\ LET kinds == <<Cards, Keys, Receipts, Invoices, Addresses, Deposits>>
       IN \A i, j \in 1 .. 6 : i # j => kinds[i] \cap kinds[j] = {}

VARIABLES card,       \* status of each payment request
          gateway,    \* what the gateway knows of it
          charge,     \* payload of the latest direct charge of each key
          answered,   \* payloads answered with success
          receipt,    \* status of each deposit receipt
          request,    \* crypto requests: status, and whether CreditedAt is set
          deposit,    \* rows of crypto deposits
          chain,      \* the transactions themselves
          dated,      \* transactions Bithide gives a NodeTime
          invoice,    \* status of the invoices at Oxapay
          lapsed,     \* requests whose expires_at has passed
          credits,    \* committed credits of a row
          call,       \* what each handler is doing
          overlapped, \* rows on which two handlers worked at a time
          unlucky,    \* rows a fault hit
          calls, faults

vars == <<card, gateway, charge, answered, receipt, request, deposit, chain,
          dated, invoice, lapsed, credits, call, overlapped, unlucky, calls, faults>>
cardVars == <<card, gateway>>
chargeVars == <<charge, answered>>
cryptoVars == <<request, deposit>>
worldVars == <<chain, dated, invoice>>
ghostVars == <<overlapped, calls>>

CardStatuses == {"none", "pending", "completed", "failed", "cancelled", "expired"}
CryptoStatuses == {"none", "pending", "confirmed", "credited", "failed",
                   "cancelled", "expired"}
Ops == {"idle", "callback", "charge", "reject", "approve", "approved", "file",
        "webhook", "poll", "sweep", "verify", "cancel"}

Call(op, on, as, rows) == [op |-> op, on |-> on, as |-> as, rows |-> rows]
Idle == Call("idle", None, None, {})
Request(status, credited) == [status |-> status, credited |-> credited]
CryptoRows == [status : CryptoStatuses, credited : BOOLEAN]
Row(for, confirmed, credited) ==
    [for |-> for, confirmed |-> confirmed, credited |-> credited]

TypeOK ==
    /\ card \in [Cards -> CardStatuses]
    /\ gateway \in [Cards -> {"open", "paid", "refused", "captured"}]
    /\ charge \in [Keys -> Payloads \cup {None}]
    /\ answered \in [Keys -> SUBSET Payloads]
    /\ receipt \in [Receipts -> {"none", "pending", "approved", "rejected"}]
    /\ request \in [Crypto -> CryptoRows]
    /\ deposit \in [Deposits -> [for : Crypto \cup {None}, confirmed : BOOLEAN,
                                 credited : BOOLEAN]]
    /\ chain \in [Deposits -> {"none", "seen", "confirmed", "failed"}]
    /\ dated \subseteq Deposits
    /\ invoice \in [Invoices -> {"waiting", "paid", "expired", "refunded"}]
    /\ lapsed \subseteq Cards \cup Crypto
    /\ credits \in [Subjects \cup Deposits -> Nat]
    /\ call \in [Handlers -> [op : Ops, on : Subjects \cup {None},
                              as : Payloads \cup CryptoRows \cup {None},
                              rows : SUBSET Deposits]]
    /\ overlapped \subseteq Subjects
    /\ unlucky \subseteq Subjects
    /\ calls \in 0 .. MaxCalls
    /\ faults \in 0 .. MaxFaults

Init ==
    /\ card = [p \in Cards |-> "none"]
    /\ gateway = [p \in Cards |-> "open"]
    /\ charge = [k \in Keys |-> None]
    /\ answered = [k \in Keys |-> {}]
    /\ receipt = [r \in Receipts |-> "none"]
    /\ request = [x \in Crypto |-> Request("none", FALSE)]
    /\ deposit = [d \in Deposits |-> Row(None, FALSE, FALSE)]
    /\ chain = [d \in Deposits |-> "none"]
    /\ dated = {}
    /\ invoice = [x \in Invoices |-> "waiting"]
    /\ lapsed = {}
    /\ credits = [s \in Subjects \cup Deposits |-> 0]
    /\ call = [h \in Handlers |-> Idle]
    /\ overlapped = {}
    /\ unlucky = {}
    /\ calls = 0
    /\ faults = 0

\* The bound on rows: room for one more.
Made == {p \in Cards : card[p] # "none"} \cup {r \in Receipts : receipt[r] # "none"}
        \cup {k \in Keys : charge[k] # None \/ \E h \in Handlers : call[h].on = k}
        \cup {x \in Crypto : request[x].status # "none"}
Room == Cardinality(Made) < MaxRows

\* A handler starts on a row and has made its unlocked read.
Begins(h, c) ==
    /\ call[h].op = "idle"
    /\ calls < MaxCalls
    /\ calls' = calls + 1
    /\ call' = [call EXCEPT ![h] = c]
    /\ overlapped' = IF \E g \in Handlers : call[g].on = c.on
                     THEN overlapped \cup {c.on} ELSE overlapped
    /\ UNCHANGED <<unlucky, faults>>
Ends(h) == call' = [call EXCEPT ![h] = Idle] /\ UNCHANGED ghostVars
Working(h, op) == call[h].op = op
Fine == UNCHANGED <<unlucky, faults>>
Fault(s) ==
    /\ faults < MaxFaults
    /\ faults' = faults + 1
    /\ unlucky' = unlucky \cup {s}
Credit(S) ==
    credits' = [s \in DOMAIN credits |->
                   IF s \in S THEN credits[s] + 1 ELSE credits[s]]

\* A handler fails before its first write, or its transaction rolls back.
HandlerFails(h) ==
    /\ ~Working(h, "idle") /\ ~Working(h, "approved")
    /\ Fault(call[h].on)
    /\ Ends(h)
    /\ UNCHANGED <<cardVars, chargeVars, receipt, cryptoVars, worldVars, lapsed,
                   credits>>

\* Time passes the expires_at of a request.
Lapse(s) ==
    /\ s \notin lapsed
    /\ s \in Cards => card[s] = "pending"
    /\ s \in Crypto => request[s].status # "none"
    /\ lapsed' = lapsed \cup {s}
    /\ UNCHANGED <<cardVars, chargeVars, receipt, cryptoVars, worldVars, credits,
                   call, ghostVars, unlucky, faults>>

-----------------------------------------------------------------------------
(* Card payments.                                                          *)

\* ChargeWallet: one transaction that includes the call for the token.
ChargeWallet(p) ==
    /\ card[p] = "none" /\ Room
    /\ card' = [card EXCEPT ![p] = "pending"]
    /\ UNCHANGED <<gateway, chargeVars, receipt, cryptoVars, worldVars, lapsed,
                   credits, call, ghostVars, unlucky, faults>>

\* The customer pays at the gateway or does not.
CustomerPays(p) ==
    /\ card[p] # "none" /\ gateway[p] = "open"
    /\ gateway' \in {[gateway EXCEPT ![p] = "paid"],
                     [gateway EXCEPT ![p] = "refused"]}
    /\ UNCHANGED <<card, chargeVars, receipt, cryptoVars, worldVars, lapsed,
                   credits, call, ghostVars, unlucky, faults>>

\* Mutant: only the expiry is tested.
CallbackAgain(h, p) ==
    /\ gateway[p] # "open"
    /\ card[p] # "none"
    /\ p \notin lapsed
    /\ Begins(h, Call("callback", p, None, {}))
    /\ UNCHANGED <<cardVars, chargeVars, receipt, cryptoVars, worldVars, lapsed,
                   credits>>

\* PaymentCallback, once or more: a processed request is refused, an expired
\* one too, which leaves it pending.
PaymentCallback(h, p) ==
    /\ gateway[p] # "open"
    /\ card[p] = "pending"
    /\ p \notin lapsed
    /\ Begins(h, Call("callback", p, None, {}))
    /\ UNCHANGED <<cardVars, chargeVars, receipt, cryptoVars, worldVars, lapsed,
                   credits>>

\* atipayStatusMappings of a payment that was not made.
NotPaid(h) ==
    LET p == call[h].on
    IN /\ Working(h, "callback")
       /\ gateway[p] = "refused"
       /\ \E status \in {"cancelled", "failed", "expired"} :
              card' = [card EXCEPT ![p] = status]
       /\ Ends(h) /\ Fine
       /\ UNCHANGED <<gateway, chargeVars, receipt, cryptoVars, worldVars, lapsed,
                      credits>>

\* The gateway confirms the payment, for the first time or again, and the
\* request is completed and credited in one transaction.
VerifyAndCredit(h) ==
    LET p == call[h].on
    IN /\ Working(h, "callback")
       /\ gateway[p] \in {"paid", "captured"}
       /\ gateway' = [gateway EXCEPT ![p] = "captured"]
       /\ card' = [card EXCEPT ![p] = "completed"]
       /\ Credit({p})
       /\ Ends(h) /\ Fine
       /\ UNCHANGED <<chargeVars, receipt, cryptoVars, worldVars, lapsed>>

\* The gateway refuses, for its own reasons or as it has confirmed before.
VerifyRefused(h) ==
    LET p == call[h].on
    IN /\ Working(h, "callback")
       /\ gateway[p] \in {"paid", "captured"}
       /\ card' = [card EXCEPT ![p] = "failed"]
       /\ Ends(h) /\ Fine
       /\ UNCHANGED <<gateway, chargeVars, receipt, cryptoVars, worldVars, lapsed,
                      credits>>

\* The gateway settles but its answer is lost, or the credit fails: the
\* request fails, or all of it rolls back and stays pending.
VerifyFails(h) ==
    LET p == call[h].on
    IN /\ Working(h, "callback")
       /\ gateway[p] \in {"paid", "captured"}
       /\ gateway' = [gateway EXCEPT ![p] = "captured"]
       /\ card' \in {card, [card EXCEPT ![p] = "failed"]}
       /\ Fault(p)
       /\ Ends(h)
       /\ UNCHANGED <<chargeVars, receipt, cryptoVars, worldVars, lapsed, credits>>

-----------------------------------------------------------------------------
(* Direct charges.                                                         *)

\* Mutant: the key is not looked up.
ChargeAgain(h, k, a) ==
    /\ k \in Made \/ Room
    /\ Begins(h, Call("charge", k, a, {}))
    /\ UNCHANGED <<charge, answered, cardVars, receipt, cryptoVars, worldVars,
                   lapsed, credits>>

\* AdminChargeWallet: the advisory lock is taken on a connection of its own
\* and is gone before the search.  A completed charge with the same payload
\* is answered again; another payload under the same key is refused.
AdminChargeWallet(h, k, a) ==
    /\ charge[k] \in {None, a}
    /\ k \in Made \/ Room
    /\ IF charge[k] = None
       THEN /\ Begins(h, Call("charge", k, a, {}))
            /\ UNCHANGED answered
       ELSE /\ a \notin answered[k]
            /\ answered' = [answered EXCEPT ![k] = @ \cup {a}]
            /\ UNCHANGED <<call, ghostVars, unlucky, faults>>
    /\ UNCHANGED <<charge, cardVars, receipt, cryptoVars, worldVars, lapsed,
                   credits>>

\* The transaction commits; its answer may be lost.
ChargeCommits(h) ==
    LET k == call[h].on  a == call[h].as
    IN /\ Working(h, "charge")
       /\ charge' = [charge EXCEPT ![k] = a]
       /\ Credit({k})
       /\ \/ answered' = [answered EXCEPT ![k] = @ \cup {a}] /\ Fine
          \/ UNCHANGED answered /\ Fault(k)
       /\ Ends(h)
       /\ UNCHANGED <<cardVars, receipt, cryptoVars, worldVars, lapsed>>

-----------------------------------------------------------------------------
(* Deposit receipts.  Their repository ignores the transaction it is given: *)
(* each save commits at once.                                              *)

SubmitDepositReceipt(r) ==
    /\ receipt[r] = "none" /\ Room
    /\ receipt' = [receipt EXCEPT ![r] = "pending"]
    /\ UNCHANGED <<cardVars, chargeVars, cryptoVars, worldVars, lapsed, credits,
                   call, ghostVars, unlucky, faults>>

\* Mutant: only a rejected receipt is final.
ReadUnrejected(h, r, op) ==
    /\ op \in {"file", "reject", "approve"}
    /\ receipt[r] \in {"pending", "approved"}
    /\ Begins(h, Call(op, r, None, {}))
    /\ UNCHANGED <<cardVars, chargeVars, receipt, cryptoVars, worldVars, lapsed,
                   credits>>

\* UpdateDepositReceiptFile, DeleteDepositReceiptFile and the two decisions of
\* AdminUpdateDepositReceiptStatus all find the receipt pending.
ReadReceipt(h, r, op) ==
    /\ op \in {"file", "reject", "approve"}
    /\ receipt[r] = "pending"
    /\ Begins(h, Call(op, r, None, {}))
    /\ UNCHANGED <<cardVars, chargeVars, receipt, cryptoVars, worldVars, lapsed,
                   credits>>

SaveReceipt(h, status) ==
    receipt' = [receipt EXCEPT ![call[h].on] = status]

ChangeReceiptFile(h) ==
    /\ Working(h, "file")
    /\ SaveReceipt(h, "pending")
    /\ Ends(h) /\ Fine
    /\ UNCHANGED <<cardVars, chargeVars, cryptoVars, worldVars, lapsed, credits>>

RejectReceipt(h) ==
    /\ Working(h, "reject")
    /\ SaveReceipt(h, "rejected")
    /\ Ends(h) /\ Fine
    /\ UNCHANGED <<cardVars, chargeVars, cryptoVars, worldVars, lapsed, credits>>

\* The balances are written, the receipt is saved and seen as approved, and
\* only then does the transaction with the balances commit, or fail.
ApproveReceipt(h) ==
    /\ Working(h, "approve")
    /\ SaveReceipt(h, "approved")
    /\ call' = [call EXCEPT ![h].op = "approved"]
    /\ Fine
    /\ UNCHANGED <<cardVars, chargeVars, cryptoVars, worldVars, lapsed, credits,
                   ghostVars>>

ApprovalCommits(h) ==
    /\ Working(h, "approved")
    /\ Credit({call[h].on}) /\ Fine
    /\ Ends(h)
    /\ UNCHANGED <<cardVars, chargeVars, receipt, cryptoVars, worldVars, lapsed>>

ApprovalFails(h) ==
    /\ Working(h, "approved")
    /\ Fault(call[h].on)
    /\ Ends(h)
    /\ UNCHANGED <<cardVars, chargeVars, receipt, cryptoVars, worldVars, lapsed,
                   credits>>

-----------------------------------------------------------------------------
(* Crypto payments: the chain and the providers.                           *)

OnChain(x) == {d \in Deposits : PaidFor[d] = x /\ chain[d] # "none"}

\* What gives a transaction a ConfirmedAt: its status at Oxapay, at Bithide a
\* NodeTime, whatever the status is.
ConfirmedAt(d) == IF PaidFor[d] \in Addresses THEN d \in dated
                  ELSE chain[d] = "confirmed"
Confirmed(S) == {d \in S : ConfirmedAt(d)}

ChainAdvances(d) ==
    /\ request[PaidFor[d]].status # "none"
    /\ \/ chain[d] = "none" /\ chain' = [chain EXCEPT ![d] = "seen"]
       \/ /\ chain[d] = "seen"
          /\ \E end \in {"confirmed", "failed"} : chain' = [chain EXCEPT ![d] = end]
    /\ UNCHANGED <<cardVars, chargeVars, receipt, cryptoVars, dated, invoice,
                   lapsed, credits, call, ghostVars, unlucky, faults>>

NodeTime(d) ==
    /\ PaidFor[d] \in Addresses /\ chain[d] # "none" /\ d \notin dated
    /\ dated' = dated \cup {d}
    /\ UNCHANGED <<cardVars, chargeVars, receipt, cryptoVars, chain, invoice,
                   lapsed, credits, call, ghostVars, unlucky, faults>>

\* An invoice is paid, or accepted by hand whatever its transactions are
\* (manual_accept); its money may be refunded.
InvoiceEnds(x) ==
    /\ request[x].status # "none"
    /\ \/ /\ invoice[x] = "waiting"
          /\ \E end \in {"paid", "expired"} : invoice' = [invoice EXCEPT ![x] = end]
       \/ invoice[x] = "paid" /\ invoice' = [invoice EXCEPT ![x] = "refunded"]
    /\ UNCHANGED <<cardVars, chargeVars, receipt, cryptoVars, chain, dated, lapsed,
                   credits, call, ghostVars, unlucky, faults>>

-----------------------------------------------------------------------------
(* Crypto payments: the handlers.                                          *)

CreateRequest(x) ==
    /\ request[x].status = "none" /\ Room
    /\ request' = [request EXCEPT ![x] = Request("pending", FALSE)]
    /\ UNCHANGED <<cardVars, chargeVars, receipt, deposit, worldVars, lapsed,
                   credits, call, ghostVars, unlucky, faults>>

IsFinal(x) == request[x].status \in {"credited", "failed", "cancelled", "expired"}
Stored(x) == {d \in Deposits : deposit[d].for = x}
mapOxapayInvoiceStatus == [waiting |-> "pending", paid |-> "confirmed",
                           expired |-> "expired", refunded |-> "failed"]

\* A handler reads the request and goes by what it has read.
ReadRequest(h, x, op) ==
    /\ request[x].status # "none"
    /\ \/ op = "poll"
       \/ op = "webhook" /\ x \in Invoices
       \/ op = "verify" /\ x \in Addresses
       \/ op = "cancel" /\ ~IsFinal(x) /\ Stored(x) = {}
    /\ Begins(h, Call(op, x, request[x], {}))
    /\ UNCHANGED <<cardVars, chargeVars, receipt, cryptoVars, worldVars, lapsed,
                   credits>>

\* The rows of S are inserted, or updated with what the provider tells of
\* them; ConfirmedAt stays once it is set.
Upsert(x, S, confirmed) ==
    [d \in Deposits |->
        IF d \in S
        THEN [deposit[d] EXCEPT !.for = IF @ = None THEN x ELSE @,
                                !.confirmed = @ \/ d \in confirmed]
        ELSE deposit[d]]
\* Mutant: CreditedAt is not tested.
UnpaidOrNot(rows, S) == {d \in S : rows[d].confirmed}

Unpaid(rows, S) == {d \in S : rows[d].confirmed /\ ~rows[d].credited}

\* creditOnConfirmed for each deposit of S: a credit of the whole amount of
\* the request.  The request is saved as the handler knows it.
creditOnConfirmed(h, rows, S, status) ==
    LET x == call[h].on
    IN /\ deposit' = [d \in Deposits |->
                         IF d \in S THEN [rows[d] EXCEPT !.credited = TRUE]
                         ELSE rows[d]]
       /\ request' = [request EXCEPT ![x] =
                         IF S # {} THEN Request("credited", TRUE)
                         ELSE Request(status, call[h].as.credited)]
       /\ credits' = [s \in DOMAIN credits |->
                         IF s \in S THEN credits[s] + 1
                         ELSE IF s = x THEN credits[s] + Cardinality(S)
                         ELSE credits[s]]

\* GetStatus goes on when a credit is refused before anything is written (a
\* wallet, a snapshot or the discount is not found): it fails the request and
\* commits what it has stored.
CreditOrFail(h, rows, S, status) ==
    \/ creditOnConfirmed(h, rows, S, status) /\ Fine
    \/ /\ S # {}
       /\ creditOnConfirmed(h, rows, {}, "failed")
       /\ Fault(call[h].on)

\* At most one deposit is credited by a handler that tests the request too.
OneOf(h, S) == IF call[h].as.credited \/ S = {} THEN {{}} ELSE {{d} : d \in S}

\* The status of an invoice, now or before.
Told(x) == {"waiting", invoice[x]} \cup
           {status \in {"paid"} : invoice[x] = "refunded"}

\* HandleOxapayWebhook: its payload tells of some transactions, as they are
\* or were, and a deposit is only credited when its row is there already:
\* "Credit on Paid once per request".
HandleOxapayWebhook(h) ==
    LET x == call[h].on
    IN /\ Working(h, "webhook")
       /\ \E status \in Told(x), S \in SUBSET OnChain(x) \ {{}} :
          \E confirmed \in SUBSET Confirmed(S) :
          LET rows == Upsert(x, S, confirmed)
          IN \E T \in OneOf(h, IF status = "paid" THEN Unpaid(rows, S \cap Stored(x))
                               ELSE {}) :
                 creditOnConfirmed(h, rows, T, mapOxapayInvoiceStatus[status])
       /\ Ends(h) /\ Fine
       /\ UNCHANGED <<cardVars, chargeVars, receipt, worldVars, lapsed>>

\* GetStatus at Oxapay: every transaction of the invoice is stored; each
\* confirmed one is credited when the invoice is paid, else the first one if
\* the request is not credited yet.
PollInvoice(h) ==
    LET x == call[h].on
        rows == Upsert(x, OnChain(x), Confirmed(OnChain(x)))
        unpaid == Unpaid(rows, Stored(x) \cup OnChain(x))
    IN /\ Working(h, "poll") /\ x \in Invoices
       /\ \E T \in IF invoice[x] = "paid" THEN {unpaid} ELSE OneOf(h, unpaid) :
              CreditOrFail(h, rows, T, mapOxapayInvoiceStatus[invoice[x]])
       /\ Ends(h)
       /\ UNCHANGED <<cardVars, chargeVars, receipt, worldVars, lapsed>>

\* The provider does not answer: GetStatus goes on with the rows it has.
Expires(h) == call[h].as.status = "pending" /\ call[h].on \in lapsed
StatusOf(h) == IF Expires(h) THEN "expired" ELSE call[h].as.status

PollUnanswered(h) ==
    /\ Working(h, "poll")
    /\ Fault(call[h].on)
    /\ call' = [call EXCEPT ![h].op = "sweep",
                            ![h].rows = Unpaid(deposit, Stored(call[h].on))]
    /\ UNCHANGED <<cardVars, chargeVars, receipt, cryptoVars, worldVars, lapsed,
                   credits, ghostVars>>

SweepDeposits(h) ==
    LET x == call[h].on
    IN /\ Working(h, "sweep")
       /\ \E T \in OneOf(h, call[h].rows) :
              IF T = {} /\ ~Expires(h)
              THEN UNCHANGED <<cryptoVars, credits>> /\ Fine
              ELSE CreditOrFail(h, deposit, T, StatusOf(h))
       /\ Ends(h)
       /\ UNCHANGED <<cardVars, chargeVars, receipt, worldVars, lapsed>>

\* GetStatus at Bithide inserts every transaction of the address: one that is
\* stored already aborts the transaction, and the poll with it.
PollAddress(h) ==
    LET x == call[h].on
        rows == Upsert(x, OnChain(x), Confirmed(OnChain(x)))
    IN /\ Working(h, "poll") /\ x \in Addresses
       /\ IF \E d \in OnChain(x) : deposit[d].for # None
          THEN UNCHANGED <<cryptoVars, credits>> /\ Fine
          ELSE \E T \in OneOf(h, Unpaid(rows, Stored(x) \cup OnChain(x))) :
                   IF T = {} /\ ~Expires(h)
                   THEN deposit' = rows /\ UNCHANGED <<request, credits>> /\ Fine
                   ELSE CreditOrFail(h, rows, T, StatusOf(h))
       /\ Ends(h)
       /\ UNCHANGED <<cardVars, chargeVars, receipt, worldVars, lapsed>>

\* ManualVerify stores the transaction for this request or overwrites its
\* row, CreditedAt included, with what Bithide tells, which never sets it.
ManualVerify(h, d) ==
    LET x == call[h].on
        known == deposit[d].for
        row == Row(IF known = None THEN x ELSE known, ConfirmedAt(d), FALSE)
        rows == [deposit EXCEPT ![d] = row]
    IN /\ Working(h, "verify")
       /\ chain[d] # "none" /\ PaidFor[d] \in Addresses
       /\ \E T \in OneOf(h, Unpaid(rows, {d})) :
              IF T = {} THEN deposit' = rows /\ UNCHANGED <<request, credits>>
              ELSE creditOnConfirmed(h, rows, T, "credited")
       /\ Ends(h) /\ Fine
       /\ UNCHANGED <<cardVars, chargeVars, receipt, worldVars, lapsed>>

CancelRequest(h) ==
    LET x == call[h].on
    IN /\ Working(h, "cancel")
       /\ request' = [request EXCEPT ![x] = Request("cancelled", call[h].as.credited)]
       /\ Ends(h) /\ Fine
       /\ UNCHANGED <<cardVars, chargeVars, receipt, deposit, worldVars, lapsed,
                      credits>>

-----------------------------------------------------------------------------
Starts(h) ==
    \/ \E p \in Cards : PaymentCallback(h, p)
    \/ \E k \in Keys, a \in Payloads : AdminChargeWallet(h, k, a)
    \/ \E r \in Receipts, op \in Ops : ReadReceipt(h, r, op)
    \/ \E x \in Crypto, op \in Ops : ReadRequest(h, x, op)

Finishes(h) ==
    \/ HandlerFails(h)
    \/ NotPaid(h) \/ VerifyAndCredit(h) \/ VerifyRefused(h) \/ VerifyFails(h)
    \/ ChargeCommits(h)
    \/ ChangeReceiptFile(h) \/ RejectReceipt(h)
    \/ ApproveReceipt(h) \/ ApprovalCommits(h) \/ ApprovalFails(h)
    \/ HandleOxapayWebhook(h) \/ PollInvoice(h) \/ PollUnanswered(h)
    \/ SweepDeposits(h) \/ PollAddress(h) \/ CancelRequest(h)
    \/ \E d \in Deposits : ManualVerify(h, d)

Next ==
    \/ \E h \in Handlers : Starts(h) \/ Finishes(h)
    \/ \E p \in Cards : ChargeWallet(p) \/ CustomerPays(p)
    \/ \E r \in Receipts : SubmitDepositReceipt(r)
    \/ \E x \in Crypto : CreateRequest(x)
    \/ \E x \in Invoices : InvoiceEnds(x)
    \/ \E d \in Deposits : ChainAdvances(d) \/ NodeTime(d)
    \/ \E s \in Cards \cup Crypto : Lapse(s)

Spec == Init /\ [][Next]_vars

-----------------------------------------------------------------------------
(* Properties.                                                             *)

\* A card payment is credited once if it is completed and never otherwise,
\* with callbacks repeated, late or after the expiry; and what the gateway
\* settled is credited unless an answer or a commit was lost on the way.
CardSettled ==
    \A p \in Cards :
        /\ p \notin overlapped =>
               credits[p] = IF card[p] = "completed" THEN 1 ELSE 0
        /\ gateway[p] = "captured" => credits[p] > 0 \/ p \in unlucky

\* An idempotency key charges once, whatever is retried under it, and every
\* answer with success is about that one charge and its payload.
ChargedOnce ==
    \A k \in Keys : k \notin overlapped =>
        /\ credits[k] = IF charge[k] = None THEN 0 ELSE 1
        /\ answered[k] \subseteq {charge[k]}

\* A receipt is credited once if it is approved and never if it is rejected
\* or pending, except that its approval is seen before the money, and stays
\* if the commit of the money fails.
ReceiptSettled ==
    \A r \in Receipts : r \notin overlapped =>
        /\ credits[r] = 1 => receipt[r] = "approved"
        /\ credits[r] <= 1
        /\ receipt[r] = "approved" =>
               \/ credits[r] = 1 \/ r \in unlucky
               \/ \E h \in Handlers : call[h].on = r /\ Working(h, "approved")

\* Webhooks, polls and verifications, repeated and out of order, credit a
\* transaction at Oxapay once and a request at Bithide once, and never one the
\* provider has not given a ConfirmedAt.
CryptoPaidOnce ==
    /\ \A d \in Deposits :
           /\ PaidFor[d] \in Invoices \ overlapped => credits[d] <= 1
           /\ credits[d] > 0 => ConfirmedAt(d)
    /\ \A x \in Addresses \ overlapped : credits[x] <= 1

=============================================================================
