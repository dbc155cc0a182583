-------------------------- MODULE RechargesProofs ---------------------------
(* Theorems about Recharges, for every value of its constants. *)
EXTENDS Recharges, FiniteSetTheorems, TLAPS

CallRows == [op : Ops, on : Subjects \cup {None},
             as : Payloads \cup CryptoRows \cup {None}, rows : SUBSET Deposits]
DepositRows == [for : Crypto \cup {None}, confirmed : BOOLEAN, credited : BOOLEAN]

CryptoOps == {"webhook", "poll", "sweep", "verify", "cancel"}
ReceiptOps == {"file", "reject", "approve", "approved"}

\* What kind of row each handler works on.
Kind(h) ==
    /\ call[h].op = "idle" => call[h].on = None
    /\ call[h].op # "idle" => call[h].on \in Subjects
    /\ call[h].op = "callback" => call[h].on \in Cards
    /\ call[h].op = "charge" => call[h].on \in Keys /\ call[h].as \in Payloads
    /\ call[h].op \in ReceiptOps => call[h].on \in Receipts
    /\ call[h].op \in CryptoOps =>
          /\ call[h].on \in Crypto
          /\ call[h].as \in CryptoRows /\ call[h].as.status # "none"
    /\ call[h].op = "webhook" => call[h].on \in Invoices
    /\ call[h].op = "verify" => call[h].on \in Addresses

\* Two handlers on one row have made it overlapped.
Alone ==
    \A s \in Subjects \ overlapped : \A g, h \in Handlers :
        call[g].on = s /\ call[h].on = s => g = h

\* Each row, and what its handler found it to be and will save.
CardOK(p) ==
    /\ p \notin overlapped =>
          /\ credits[p] = IF card[p] = "completed" THEN 1 ELSE 0
          /\ \A h \in Handlers : call[h].on = p => card[p] = "pending"
    /\ gateway[p] = "captured" => credits[p] > 0 \/ p \in unlucky

KeyOK(k) ==
    k \notin overlapped =>
        /\ credits[k] = IF charge[k] = None THEN 0 ELSE 1
        /\ answered[k] \subseteq {charge[k]}
        /\ \A h \in Handlers : call[h].on = k => charge[k] = None

ReceiptOK(r) ==
    r \notin overlapped =>
        /\ credits[r] \in {0, 1}
        /\ credits[r] = 1 => receipt[r] = "approved"
        /\ receipt[r] = "approved" =>
              \/ credits[r] = 1 \/ r \in unlucky
              \/ \E h \in Handlers : call[h].on = r /\ call[h].op = "approved"
        /\ \A h \in Handlers : call[h].on = r =>
              /\ credits[r] = 0
              /\ receipt[r] = IF call[h].op = "approved" THEN "approved" ELSE "pending"

RequestOK(x) ==
    /\ request[x].status = "none" => ~request[x].credited
    /\ \A h \in Handlers : call[h].on = x => request[x].status # "none"
    /\ x \in Addresses \ overlapped =>
          /\ credits[x] = IF request[x].credited THEN 1 ELSE 0
          /\ \A h \in Handlers : call[h].on = x =>
                call[h].as.credited = request[x].credited

RowOK(s) ==
    /\ s \in Cards => CardOK(s)
    /\ s \in Keys => KeyOK(s)
    /\ s \in Receipts => ReceiptOK(s)
    /\ s \in Crypto => RequestOK(s)

\* A transaction of an invoice is stored for its own request and credited as
\* often as its row says; what a sweep holds is confirmed and, if its request
\* has no other handler, still unpaid.
DepositOK(d) ==
    /\ deposit[d].confirmed => ConfirmedAt(d)
    /\ credits[d] > 0 => ConfirmedAt(d)
    /\ PaidFor[d] \in Invoices => deposit[d].for \in {None, PaidFor[d]}
    /\ PaidFor[d] \in Addresses => deposit[d].for \in Addresses \cup {None}
    /\ PaidFor[d] \in Invoices \ overlapped =>
          credits[d] = IF deposit[d].credited THEN 1 ELSE 0
    /\ \A h \in Handlers : d \in call[h].rows =>
          /\ ConfirmedAt(d)
          /\ PaidFor[d] \in Invoices => call[h].on = PaidFor[d]
          /\ PaidFor[d] \in Invoices \ overlapped => ~deposit[d].credited

Inv ==
    /\ Alone
    /\ \A s \in Subjects : RowOK(s)
    /\ \A d \in Deposits : DepositOK(d)

Kinds == \A h \in Handlers : Kind(h)
AllInv == Kinds /\ Inv

-----------------------------------------------------------------------------
(* Types *)

LEMMA Disjoint ==
    /\ Cards \cap Keys = {} /\ Cards \cap Receipts = {} /\ Cards \cap Crypto = {}
    /\ Keys \cap Receipts = {} /\ Keys \cap Crypto = {} /\ Receipts \cap Crypto = {}
    /\ Invoices \cap Addresses = {}
    /\ Deposits \cap Subjects = {}
    /\ None \notin Subjects /\ None \notin Payloads
  <1> DEFINE kinds == <<Cards, Keys, Receipts, Invoices, Addresses, Deposits>>
  <1>1. \A i, j \in 1 .. 6 : i # j => kinds[i] \cap kinds[j] = {}
    BY RechargesAssumption
  <1>2. /\ kinds[1] = Cards /\ kinds[2] = Keys /\ kinds[3] = Receipts
        /\ kinds[4] = Invoices /\ kinds[5] = Addresses /\ kinds[6] = Deposits
    OBVIOUS
  <1> HIDE DEF kinds
  <1>3. /\ kinds[1] \cap kinds[2] = {} /\ kinds[1] \cap kinds[3] = {}
        /\ kinds[1] \cap kinds[4] = {} /\ kinds[1] \cap kinds[5] = {}
        /\ kinds[1] \cap kinds[6] = {} /\ kinds[2] \cap kinds[3] = {}
        /\ kinds[2] \cap kinds[4] = {} /\ kinds[2] \cap kinds[5] = {}
        /\ kinds[2] \cap kinds[6] = {} /\ kinds[3] \cap kinds[4] = {}
        /\ kinds[3] \cap kinds[5] = {} /\ kinds[3] \cap kinds[6] = {}
        /\ kinds[4] \cap kinds[5] = {} /\ kinds[4] \cap kinds[6] = {}
        /\ kinds[5] \cap kinds[6] = {}
    BY <1>1
  <1> QED
    BY <1>2, <1>3, RechargesAssumption DEF Crypto, Subjects

LEMMA CallType ==
    ASSUME NEW op \in Ops, NEW on \in Subjects \cup {None},
           NEW as \in Payloads \cup CryptoRows \cup {None}, NEW rows \in SUBSET Deposits
    PROVE  /\ Call(op, on, as, rows) \in CallRows
           /\ Call(op, on, as, rows).op = op /\ Call(op, on, as, rows).on = on
           /\ Call(op, on, as, rows).as = as /\ Call(op, on, as, rows).rows = rows
  BY DEF Call, CallRows

LEMMA IdleType ==
    Idle \in CallRows /\ Idle.op = "idle" /\ Idle.on = None /\ Idle.rows = {}
  BY CallType DEF Idle, Ops

LEMMA CallFields ==
    ASSUME TypeOK, NEW h \in Handlers
    PROVE  /\ call[h] \in CallRows
           /\ call[h].op \in Ops /\ call[h].on \in Subjects \cup {None}
           /\ call[h].as \in Payloads \cup CryptoRows \cup {None}
           /\ call[h].rows \in SUBSET Deposits
  <1>1. call[h] \in CallRows
    BY DEF TypeOK, CallRows
  <1> QED
    BY <1>1 DEF CallRows

\* A handler that begins, and one that ends.
LEMMA BeginsAfter ==
    ASSUME TypeOK, NEW h \in Handlers, NEW c \in CallRows, c.on \in Subjects, Begins(h, c)
    PROVE  /\ call' \in [Handlers -> CallRows]
           /\ call'[h] = c /\ \A g \in Handlers \ {h} : call'[g] = call[g]
           /\ call[h].op = "idle"
           /\ overlapped' \in SUBSET Subjects /\ overlapped \subseteq overlapped'
           /\ calls' \in 0 .. MaxCalls
           /\ UNCHANGED <<unlucky, faults>>
  BY RechargesAssumption DEF Begins, TypeOK, CallRows

LEMMA EndsAfter ==
    ASSUME TypeOK, NEW h \in Handlers, Ends(h)
    PROVE  /\ call' \in [Handlers -> CallRows]
           /\ call'[h] = Idle /\ \A g \in Handlers \ {h} : call'[g] = call[g]
           /\ UNCHANGED ghostVars
  BY IdleType DEF Ends, TypeOK, CallRows

LEMMA FaultAfter ==
    ASSUME TypeOK, NEW s \in Subjects, Fine \/ Fault(s)
    PROVE  /\ unlucky' \in SUBSET Subjects /\ faults' \in 0 .. MaxFaults
           /\ unlucky \subseteq unlucky'
           /\ Fault(s) => s \in unlucky'
  BY RechargesAssumption DEF Fine, Fault, TypeOK

LEMMA CreditAfter ==
    ASSUME TypeOK, NEW s \in Subjects, Credit({s})
    PROVE  /\ credits' \in [Subjects \cup Deposits -> Nat]
           /\ credits'[s] = credits[s] + 1
           /\ \A t \in (Subjects \cup Deposits) \ {s} : credits'[t] = credits[t]
  <1>1. DOMAIN credits = Subjects \cup Deposits
    BY DEF TypeOK
  <1> QED
    BY <1>1 DEF Credit, TypeOK

\* The rows of requests and deposits.
LEMMA RequestType ==
    ASSUME NEW status \in CryptoStatuses, NEW credited \in BOOLEAN
    PROVE  /\ Request(status, credited) \in CryptoRows
           /\ Request(status, credited).status = status
           /\ Request(status, credited).credited = credited
  BY DEF Request, CryptoRows

LEMMA DepositFields ==
    ASSUME TypeOK, NEW d \in Deposits
    PROVE  /\ deposit[d] \in DepositRows
           /\ deposit[d].for \in Crypto \cup {None}
           /\ deposit[d].confirmed \in BOOLEAN /\ deposit[d].credited \in BOOLEAN
  <1>1. deposit[d] \in DepositRows
    BY DEF TypeOK, DepositRows
  <1> QED
    BY <1>1 DEF DepositRows

LEMMA UpsertRows ==
    ASSUME TypeOK, NEW x \in Crypto, NEW S \in SUBSET Deposits, NEW C \in SUBSET Deposits
    PROVE  /\ Upsert(x, S, C) \in [Deposits -> DepositRows]
           /\ \A d \in Deposits :
                 /\ Upsert(x, S, C)[d].credited = deposit[d].credited
                 /\ Upsert(x, S, C)[d].confirmed =>
                       deposit[d].confirmed \/ d \in S \cap C
                 /\ Upsert(x, S, C)[d].for =
                       IF d \in S /\ deposit[d].for = None THEN x ELSE deposit[d].for
  <1> SUFFICES ASSUME NEW d \in Deposits
               PROVE  /\ Upsert(x, S, C)[d] \in DepositRows
                      /\ Upsert(x, S, C)[d].credited = deposit[d].credited
                      /\ Upsert(x, S, C)[d].confirmed =>
                            deposit[d].confirmed \/ d \in S \cap C
                      /\ Upsert(x, S, C)[d].for =
                            IF d \in S /\ deposit[d].for = None THEN x
                            ELSE deposit[d].for
    BY DEF Upsert
  <1> DEFINE new == [deposit[d] EXCEPT !.for = IF @ = None THEN x ELSE @,
                                       !.confirmed = @ \/ d \in C]
  <1>1. Upsert(x, S, C)[d] = IF d \in S THEN new ELSE deposit[d]
    BY DEF Upsert
  <1>2. /\ new \in DepositRows /\ new.credited = deposit[d].credited
        /\ new.confirmed = (deposit[d].confirmed \/ d \in C)
        /\ new.for = IF deposit[d].for = None THEN x ELSE deposit[d].for
    BY DepositFields DEF DepositRows
  <1> HIDE DEF new
  <1> QED
    BY <1>1, <1>2, DepositFields

InvoiceStatuses == {"waiting", "paid", "expired", "refunded"}

LEMMA Statuses ==
    /\ \A s \in InvoiceStatuses : mapOxapayInvoiceStatus[s] \in CryptoStatuses \ {"none"}
    /\ TypeOK => \A x \in Invoices : invoice[x] \in InvoiceStatuses
    /\ \A x \in Invoices : Told(x) \subseteq InvoiceStatuses \cup {invoice[x]}
    /\ "failed" \in CryptoStatuses \ {"none"}
  BY DEF mapOxapayInvoiceStatus, CryptoStatuses, TypeOK, InvoiceStatuses, Told

\* A handler has written rows and credited the deposits of T.
DepositsAre(rows, T) ==
    \A d \in Deposits :
        /\ deposit'[d].for = rows[d].for
        /\ deposit'[d].confirmed = rows[d].confirmed
        /\ deposit'[d].credited = (d \in T \/ rows[d].credited)
        /\ credits'[d] = IF d \in T THEN credits[d] + 1 ELSE credits[d]

\* And what it has made of its request.
RequestIs(h, T) ==
    LET x == call[h].on
    IN /\ \A y \in Crypto \ {x} : request'[y] = request[y]
       /\ request'[x].status # "none"
       /\ request'[x].credited = IF T # {} THEN TRUE ELSE call[h].as.credited
       /\ credits'[x] = credits[x] + Cardinality(T)
       /\ \A s \in Subjects \ {x} : credits'[s] = credits[s]

\* creditOnConfirmed, taken apart.
LEMMA CreditedAfter ==
    ASSUME TypeOK, NEW h \in Handlers, NEW rows \in [Deposits -> DepositRows],
           NEW S \in SUBSET Deposits, NEW status \in CryptoStatuses \ {"none"},
           Kind(h), call[h].op \in CryptoOps, creditOnConfirmed(h, rows, S, status)
    PROVE  /\ deposit' \in [Deposits -> DepositRows]
           /\ request' \in [Crypto -> CryptoRows]
           /\ credits' \in [Subjects \cup Deposits -> Nat]
           /\ DepositsAre(rows, S) /\ RequestIs(h, S)
  <1> DEFINE x == call[h].on
  <1>1. x \in Crypto /\ x \in Subjects /\ call[h].as \in CryptoRows
    BY DEF Kind, CryptoOps, Subjects
  <1>2. call[h].as.credited \in BOOLEAN
    BY <1>1 DEF CryptoRows
  <1>3. IsFiniteSet(S) /\ Cardinality(S) \in Nat
    BY RechargesAssumption, FS_Subset, FS_CardinalityType
  <1>4. /\ deposit' \in [Deposits -> DepositRows]
        /\ \A d \in Deposits :
              /\ deposit'[d].for = rows[d].for
              /\ deposit'[d].confirmed = rows[d].confirmed
              /\ deposit'[d].credited = (d \in S \/ rows[d].credited)
    <2>1. \A d \in Deposits : deposit'[d] = IF d \in S THEN [rows[d] EXCEPT !.credited = TRUE]
                                            ELSE rows[d]
      BY DEF creditOnConfirmed
    <2>2. \A d \in Deposits : rows[d] \in DepositRows
      OBVIOUS
    <2>3. ASSUME NEW d \in Deposits
          PROVE  /\ deposit'[d] \in DepositRows
                 /\ deposit'[d].for = rows[d].for
                 /\ deposit'[d].confirmed = rows[d].confirmed
                 /\ deposit'[d].credited = (d \in S \/ rows[d].credited)
      <3>1. CASE d \in S
        BY <2>1, <2>2, <3>1 DEF DepositRows
      <3>2. CASE d \notin S
        BY <2>1, <2>2, <3>2 DEF DepositRows
      <3> QED
        BY <3>1, <3>2
    <2>4. deposit' = [d \in Deposits |-> deposit'[d]]
      BY DEF creditOnConfirmed
    <2> QED
      BY <2>3, <2>4
  <1>5. /\ request' \in [Crypto -> CryptoRows]
        /\ \A y \in Crypto \ {x} : request'[y] = request[y]
        /\ request'[x].status # "none"
        /\ request'[x].credited = IF S # {} THEN TRUE ELSE call[h].as.credited
    <2> DEFINE new == IF S # {} THEN Request("credited", TRUE)
                      ELSE Request(status, call[h].as.credited)
    <2>1. request' = [request EXCEPT ![x] = new]
      BY DEF creditOnConfirmed
    <2>2. "credited" \in CryptoStatuses
      BY DEF CryptoStatuses
    <2>3. /\ new \in CryptoRows /\ new.status # "none"
          /\ new.credited = IF S # {} THEN TRUE ELSE call[h].as.credited
      <3>1. CASE S # {}
        BY <2>2, <3>1, RequestType
      <3>2. CASE S = {}
        BY <1>2, <3>2, RequestType
      <3> QED
        BY <3>1, <3>2
    <2> HIDE DEF new
    <2> QED
      BY <1>1, <2>1, <2>3 DEF TypeOK
  <1>6. DOMAIN credits = Subjects \cup Deposits
    BY DEF TypeOK
  <1>7. \A s \in Subjects \cup Deposits :
           /\ credits[s] \in Nat
           /\ credits'[s] = IF s \in S THEN credits[s] + 1
                            ELSE IF s = x THEN credits[s] + Cardinality(S)
                            ELSE credits[s]
    BY <1>6 DEF creditOnConfirmed, TypeOK
  <1>8. \A s \in Subjects : s \notin S
    BY Disjoint
  <1>9. credits' = [s \in Subjects \cup Deposits |-> credits'[s]]
    BY <1>6 DEF creditOnConfirmed
  <1>10. credits' \in [Subjects \cup Deposits -> Nat]
    BY <1>3, <1>7, <1>9
  <1>11. DepositsAre(rows, S)
    BY <1>1, <1>4, <1>7, Disjoint DEF DepositsAre
  <1>12. RequestIs(h, S)
    BY <1>1, <1>5, <1>7, <1>8 DEF RequestIs
  <1> QED
    BY <1>4, <1>5, <1>10, <1>11, <1>12

\* What is chosen to be credited is unpaid and belongs to the handler.
LEMMA OneOfFacts ==
    ASSUME NEW h \in Handlers, NEW S, NEW T \in OneOf(h, S)
    PROVE  /\ T \subseteq S
           /\ T # {} => ~call[h].as.credited /\ Cardinality(T) = 1
           /\ T = {} => Cardinality(T) = 0
  BY FS_EmptySet, FS_Singleton DEF OneOf

-----------------------------------------------------------------------------
(* The shape of a step of each family *)

\* The bookkeeping of every step: handlers, faults, and what only grows.
Books ==
    /\ call' \in [Handlers -> CallRows]
    /\ overlapped' \in SUBSET Subjects /\ overlapped \subseteq overlapped'
    /\ unlucky' \in SUBSET Subjects /\ unlucky \subseteq unlucky'
    /\ calls' \in 0 .. MaxCalls /\ faults' \in 0 .. MaxFaults

\* A step that starts or ends no handler.
Steady == UNCHANGED <<call, ghostVars, unlucky, faults>>

LEMMA SteadyBooks ==
    ASSUME TypeOK, Steady
    PROVE  Books
  BY DEF Steady, ghostVars, Books, TypeOK, CallRows

LEMMA BeginsBooks ==
    ASSUME TypeOK, NEW h \in Handlers, NEW c \in CallRows, c.on \in Subjects, Begins(h, c)
    PROVE  Books
  BY BeginsAfter DEF Books, TypeOK

LEMMA EndsBooks ==
    ASSUME TypeOK, NEW h \in Handlers, NEW s \in Subjects, Ends(h), Fine \/ Fault(s)
    PROVE  Books
  BY EndsAfter, FaultAfter DEF Books, ghostVars, TypeOK

\* A handler that works has a subject.
LEMMA Subject ==
    ASSUME Kinds, NEW h \in Handlers, call[h].op # "idle"
    PROVE  call[h].on \in Subjects
  BY DEF Kinds, Kind

\* What a step leaves of a row.
Same(s) ==
    /\ s \in Cards => card'[s] = card[s] /\ gateway'[s] = gateway[s]
    /\ s \in Keys => charge'[s] = charge[s] /\ answered'[s] = answered[s]
    /\ s \in Receipts => receipt'[s] = receipt[s]
    /\ s \in Crypto => request'[s] = request[s]
    /\ credits'[s] = credits[s]

\* No handler came to the row, left it or went on with it.
Untouched(s) ==
    \A g \in Handlers : call[g].on = s \/ call'[g].on = s => call'[g] = call[g]

SameDeposits ==
    /\ UNCHANGED deposit
    /\ \A d \in Deposits : /\ credits'[d] = credits[d]
                           /\ ConfirmedAt(d) => ConfirmedAt(d)'

LEMMA RowFrame ==
    ASSUME Books, NEW s \in Subjects, RowOK(s), Same(s), Untouched(s)
    PROVE  RowOK(s)'
  <1>1. s \notin overlapped' => s \notin overlapped
    BY DEF Books
  <1>2. s \in unlucky => s \in unlucky'
    BY DEF Books
  <1>3. ASSUME s \in Cards PROVE CardOK(s)'
    BY <1>1, <1>2, <1>3 DEF RowOK, CardOK, Same, Untouched
  <1>4. ASSUME s \in Keys PROVE KeyOK(s)'
    BY <1>1, <1>4 DEF RowOK, KeyOK, Same, Untouched
  <1>5. ASSUME s \in Receipts PROVE ReceiptOK(s)'
    BY <1>1, <1>2, <1>5 DEF RowOK, ReceiptOK, Same, Untouched
  <1>6. ASSUME s \in Crypto PROVE RequestOK(s)'
    BY <1>1, <1>6 DEF RowOK, RequestOK, Same, Untouched
  <1> QED
    BY <1>3, <1>4, <1>5, <1>6 DEF RowOK

LEMMA DepositFrame ==
    ASSUME Books, Inv, SameDeposits,
           \A h \in Handlers : call'[h] = call[h] \/ call'[h].rows = {}
    PROVE  \A d \in Deposits : DepositOK(d)'
  <1> TAKE d \in Deposits
  <1>1. DepositOK(d) /\ overlapped \subseteq overlapped'
    BY DEF Inv, Books
  <1> QED
    BY <1>1 DEF DepositOK, SameDeposits, ConfirmedAt

LEMMA KindFrame ==
    ASSUME NEW h \in Handlers, Kind(h), call'[h] = call[h]
    PROVE  Kind(h)'
  BY DEF Kind

LEMMA KindIdle ==
    ASSUME NEW h \in Handlers, call'[h] = Idle
    PROVE  Kind(h)'
  BY IdleType DEF Kind, ReceiptOps, CryptoOps

\* Steps of the world: no handler is involved.
LEMMA SteadyInv ==
    ASSUME TypeOK, AllInv, Steady, NEW s \in Subjects,
           \A t \in Subjects \ {s} : Same(t), RowOK(s)', SameDeposits
    PROVE  AllInv'
  <1>1. Books
    BY SteadyBooks
  <1>2. call' = call /\ overlapped' = overlapped
    BY DEF Steady, ghostVars
  <1>3. \A t \in Subjects : RowOK(t)'
    BY <1>1, <1>2, RowFrame DEF AllInv, Inv, Untouched
  <1>4. \A d \in Deposits : DepositOK(d)'
    BY <1>1, <1>2, DepositFrame DEF AllInv
  <1>5. Alone' /\ Kinds'
    BY <1>2 DEF AllInv, Inv, Alone, Kinds, Kind
  <1> QED
    BY <1>3, <1>4, <1>5 DEF AllInv, Inv

\* A handler alone on its row leaves nobody there.
LEMMA EndsAlone ==
    ASSUME TypeOK, Alone, NEW h \in Handlers, Ends(h), NEW s \in Subjects,
           s = call[h].on, s \notin overlapped
    PROVE  \A g \in Handlers : call'[g].on # s
  BY EndsAfter, IdleType, Disjoint DEF Alone

\* The last step of a handler: its row, and perhaps the deposits, change.
LEMMA EndsInv ==
    ASSUME TypeOK, AllInv, NEW h \in Handlers, NEW s \in Subjects, s = call[h].on,
           Ends(h), Fine \/ Fault(s), \A t \in Subjects \ {s} : Same(t), RowOK(s)',
           \A d \in Deposits : DepositOK(d)'
    PROVE  AllInv'
  <1>1. Books
    BY EndsBooks
  <1>2. call'[h] = Idle /\ \A g \in Handlers \ {h} : call'[g] = call[g]
    BY EndsAfter
  <1>3. overlapped' = overlapped
    BY EndsAfter DEF ghostVars
  <1>4. \A t \in Subjects \ {s} : Untouched(t)
    BY <1>2, IdleType, Disjoint DEF Untouched
  <1>5. \A t \in Subjects : RowOK(t)'
    BY <1>1, <1>4, RowFrame DEF AllInv, Inv
  <1>6. Alone'
    BY <1>2, <1>3, IdleType, Disjoint DEF AllInv, Inv, Alone
  <1>7. Kinds'
    BY <1>2, KindFrame, KindIdle DEF AllInv, Kinds
  <1> QED
    BY <1>5, <1>6, <1>7 DEF AllInv, Inv

\* The same for a step that leaves the deposits alone.
LEMMA EndsRowInv ==
    ASSUME TypeOK, AllInv, NEW h \in Handlers, NEW s \in Subjects, s = call[h].on,
           Ends(h), Fine \/ Fault(s), \A t \in Subjects \ {s} : Same(t), RowOK(s)',
           SameDeposits
    PROVE  AllInv'
  <1>1. \A g \in Handlers : call'[g] = call[g] \/ call'[g].rows = {}
    BY EndsAfter, IdleType
  <1>2. \A d \in Deposits : DepositOK(d)'
    BY <1>1, EndsBooks, DepositFrame DEF AllInv
  <1> QED
    BY <1>2, EndsInv

\* The first step of a handler: it finds its row as it is.
LEMMA BeginsInv ==
    ASSUME TypeOK, AllInv, NEW h \in Handlers, NEW c \in CallRows, NEW s \in Subjects,
           c.on = s, c.rows = {}, Begins(h, c), Kind(h)', RowOK(s)',
           \A t \in Subjects \ {s} : Same(t), SameDeposits
    PROVE  AllInv'
  <1>1. Books
    BY BeginsBooks
  <1>2. /\ call'[h] = c /\ \A g \in Handlers \ {h} : call'[g] = call[g]
        /\ call[h].op = "idle"
    BY BeginsAfter
  <1>3. call[h].on = None
    BY <1>2 DEF AllInv, Kinds, Kind
  <1>4. \A t \in Subjects \ {s} : Untouched(t)
    BY <1>2, <1>3, Disjoint DEF Untouched
  <1>5. \A t \in Subjects : RowOK(t)'
    BY <1>1, <1>4, RowFrame DEF AllInv, Inv
  <1>6. \A g \in Handlers : call'[g] = call[g] \/ call'[g].rows = {}
    BY <1>2
  <1>7. \A d \in Deposits : DepositOK(d)'
    BY <1>1, <1>6, DepositFrame DEF AllInv
  <1>8. Alone'
    <2> SUFFICES ASSUME NEW t \in Subjects, t \notin overlapped',
                        NEW f \in Handlers, NEW g \in Handlers,
                        call'[f].on = t, call'[g].on = t
                 PROVE  f = g
      BY DEF Alone
    <2>1. t \notin overlapped
      BY <1>1 DEF Books
    <2>2. t = s => \A e \in Handlers : call[e].on # s
      BY DEF Begins
    <2> QED
      BY <1>2, <2>1, <2>2 DEF AllInv, Inv, Alone
  <1>9. Kinds'
    BY <1>2, KindFrame DEF AllInv, Kinds
  <1> QED
    BY <1>5, <1>7, <1>8, <1>9 DEF AllInv, Inv

\* A row whose columns a beginning handler leaves as they are.
LEMMA BeginsSame ==
    ASSUME TypeOK, NEW h \in Handlers, NEW c \in CallRows, c.on \in Subjects, Begins(h, c)
    PROVE  /\ call'[h] = c /\ \A g \in Handlers \ {h} : call'[g] = call[g]
           /\ overlapped \subseteq overlapped' /\ unlucky' = unlucky
           /\ c.on \notin overlapped' =>
                 \A g \in Handlers : call'[g].on = c.on => g = h
  <1>1. /\ call'[h] = c /\ \A g \in Handlers \ {h} : call'[g] = call[g]
        /\ overlapped \subseteq overlapped' /\ unlucky' = unlucky
    BY BeginsAfter
  <1>2. c.on \notin overlapped' => \A g \in Handlers : call[g].on # c.on
    BY DEF Begins
  <1> QED
    BY <1>1, <1>2

-----------------------------------------------------------------------------
(* Card payments *)

LEMMA OnlyCard ==
    ASSUME NEW p \in Cards, UNCHANGED <<chargeVars, receipt, cryptoVars>>,
           \A q \in Cards \ {p} : card'[q] = card[q] /\ gateway'[q] = gateway[q],
           \A t \in (Subjects \cup Deposits) \ {p} : credits'[t] = credits[t]
    PROVE  \A t \in Subjects \ {p} : Same(t)
  BY DEF Same, chargeVars, cryptoVars, Subjects

LEMMA ChargeWalletInv ==
    ASSUME TypeOK, AllInv, NEW p \in Cards, ChargeWallet(p)
    PROVE  TypeOK' /\ AllInv'
  <1>1. p \in Subjects /\ Steady /\ Books
    BY SteadyBooks DEF ChargeWallet, Steady, Subjects
  <1>2. TypeOK'
    BY <1>1 DEF ChargeWallet, Books, CallRows, TypeOK, CardStatuses, chargeVars, cryptoVars,
                worldVars
  <1>3. card'[p] = "pending" /\ \A q \in Cards \ {p} : card'[q] = card[q]
    BY DEF ChargeWallet, TypeOK
  <1>4. RowOK(p)'
    <2>1. CardOK(p)
      BY <1>1 DEF AllInv, Inv, RowOK
    <2>2. CardOK(p)'
      BY <2>1, <1>3 DEF CardOK, ChargeWallet, ghostVars
    <2> QED
      BY <2>2, Disjoint DEF RowOK
  <1>5. \A t \in Subjects \ {p} : Same(t)
    BY <1>3, OnlyCard DEF ChargeWallet
  <1>6. SameDeposits
    BY DEF ChargeWallet, SameDeposits, ConfirmedAt, cryptoVars, worldVars
  <1> QED
    BY <1>1, <1>2, <1>4, <1>5, <1>6, SteadyInv

LEMMA CustomerPaysInv ==
    ASSUME TypeOK, AllInv, NEW p \in Cards, CustomerPays(p)
    PROVE  TypeOK' /\ AllInv'
  <1>1. p \in Subjects /\ Steady /\ Books
    BY SteadyBooks DEF CustomerPays, Steady, Subjects
  <1>2. TypeOK'
    BY <1>1 DEF CustomerPays, Books, CallRows, TypeOK, chargeVars, cryptoVars, worldVars
  <1>3. gateway'[p] # "captured" /\ \A q \in Cards \ {p} : gateway'[q] = gateway[q]
    BY DEF CustomerPays, TypeOK
  <1>4. RowOK(p)'
    <2>1. CardOK(p)
      BY <1>1 DEF AllInv, Inv, RowOK
    <2>2. CardOK(p)'
      BY <2>1, <1>3 DEF CardOK, CustomerPays, ghostVars
    <2> QED
      BY <2>2, Disjoint DEF RowOK
  <1>5. \A t \in Subjects \ {p} : Same(t)
    BY <1>3, OnlyCard DEF CustomerPays
  <1>6. SameDeposits
    BY DEF CustomerPays, SameDeposits, ConfirmedAt, cryptoVars, worldVars
  <1> QED
    BY <1>1, <1>2, <1>4, <1>5, <1>6, SteadyInv

LEMMA PaymentCallbackInv ==
    ASSUME TypeOK, AllInv, NEW h \in Handlers, NEW p \in Cards, PaymentCallback(h, p)
    PROVE  TypeOK' /\ AllInv'
  <1> DEFINE c == Call("callback", p, None, {})
  <1>1. p \in Subjects /\ "callback" \in Ops
    BY DEF Subjects, Ops
  <1>2. /\ c \in CallRows /\ c.op = "callback" /\ c.on = p /\ c.rows = {}
        /\ Begins(h, c)
    BY <1>1, CallType DEF PaymentCallback
  <1> HIDE DEF c
  <1>3. TypeOK'
    BY <1>1, <1>2, BeginsBooks DEF PaymentCallback, Books, CallRows, TypeOK, cardVars,
       chargeVars, cryptoVars, worldVars
  <1>4. /\ call'[h] = c /\ \A g \in Handlers \ {h} : call'[g] = call[g]
        /\ overlapped \subseteq overlapped' /\ unlucky' = unlucky
    BY <1>1, <1>2, BeginsSame
  <1>5. Kind(h)'
    BY <1>1, <1>2, <1>4 DEF Kind, ReceiptOps, CryptoOps
  <1>6. RowOK(p)'
    <2>1. CardOK(p)
      BY <1>1 DEF AllInv, Inv, RowOK
    <2>2. CardOK(p)'
      BY <2>1, <1>4 DEF CardOK, PaymentCallback, cardVars
    <2> QED
      BY <2>2, Disjoint DEF RowOK
  <1>7. (\A t \in Subjects \ {p} : Same(t)) /\ SameDeposits
    BY DEF PaymentCallback, Same, SameDeposits, ConfirmedAt, cardVars, chargeVars, cryptoVars, worldVars
  <1> QED
    BY <1>1, <1>2, <1>3, <1>5, <1>6, <1>7, BeginsInv

\* The ways a callback ends: the status it saves, what the gateway then
\* knows, and whether it credits.
LEMMA CallbackEndsInv ==
    ASSUME TypeOK, AllInv, NEW h \in Handlers, NEW p \in Cards, p = call[h].on,
           Ends(h), Fine \/ Fault(p),
           NEW status \in CardStatuses, card' = [card EXCEPT ![p] = status],
           NEW known \in {"open", "paid", "refused", "captured"},
           gateway' = [gateway EXCEPT ![p] = known],
           \/ /\ status = "completed" /\ Credit({p})
           \/ /\ status # "completed" /\ UNCHANGED credits
              /\ known = gateway[p] \/ Fault(p),
           call[h].op = "callback",
           UNCHANGED <<chargeVars, receipt, cryptoVars, worldVars, lapsed>>
    PROVE  TypeOK' /\ AllInv'
  <1>1. p \in Subjects
    BY DEF Subjects
  <1>2. Books
    BY <1>1, EndsBooks
  <1>3. /\ credits' \in [Subjects \cup Deposits -> Nat]
        /\ credits'[p] = IF status = "completed" THEN credits[p] + 1 ELSE credits[p]
        /\ \A t \in (Subjects \cup Deposits) \ {p} : credits'[t] = credits[t]
    BY <1>1, CreditAfter DEF TypeOK
  <1>4. TypeOK'
    BY <1>2, <1>3 DEF Books, CallRows, TypeOK, chargeVars, cryptoVars, worldVars
  <1>5. /\ card'[p] = status /\ gateway'[p] = known
        /\ \A q \in Cards \ {p} : card'[q] = card[q] /\ gateway'[q] = gateway[q]
    BY DEF TypeOK
  <1>6. RowOK(p)'
    <2>1. CardOK(p) /\ credits[p] \in Nat
      BY <1>1 DEF AllInv, Inv, RowOK, TypeOK
    <2>2. overlapped' = overlapped
      BY EndsAfter DEF ghostVars
    <2>3. p \notin overlapped => card[p] = "pending" /\ credits[p] = 0
      BY <2>1 DEF CardOK
    <2>4. p \notin overlapped => \A g \in Handlers : call'[g].on # p
      BY <1>1, EndsAlone DEF AllInv, Inv
    <2>5. known = "captured" => credits'[p] > 0 \/ p \in unlucky'
      BY <1>1, <1>3, <2>1, FaultAfter DEF CardOK
    <2>6. CardOK(p)'
      BY <1>3, <1>5, <2>2, <2>3, <2>4, <2>5 DEF CardOK
    <2> QED
      BY <2>6, Disjoint DEF RowOK
  <1>7. \A t \in Subjects \ {p} : Same(t)
    BY <1>3, <1>5, OnlyCard
  <1>8. SameDeposits
    BY <1>1, <1>3, Disjoint DEF SameDeposits, ConfirmedAt, cryptoVars, worldVars
  <1> QED
    BY <1>1, <1>4, <1>6, <1>7, <1>8, EndsRowInv

LEMMA CallbackInv ==
    ASSUME TypeOK, AllInv, NEW h \in Handlers,
           NotPaid(h) \/ VerifyAndCredit(h) \/ VerifyRefused(h) \/ VerifyFails(h)
    PROVE  TypeOK' /\ AllInv'
  <1>1. PICK p : p = call[h].on
    OBVIOUS
  <1>2. call[h].op = "callback" /\ p \in Cards
    BY <1>1 DEF NotPaid, VerifyAndCredit, VerifyRefused, VerifyFails, Working, AllInv,
                Kinds, Kind
  <1>3. /\ gateway[p] \in {"open", "paid", "refused", "captured"}
        /\ gateway = [gateway EXCEPT ![p] = gateway[p]]
        /\ card[p] \in CardStatuses /\ card = [card EXCEPT ![p] = card[p]]
    BY <1>2 DEF TypeOK
  <1>4. ASSUME NotPaid(h) PROVE TypeOK' /\ AllInv'
    <2>1. PICK status \in {"cancelled", "failed", "expired"} :
             card' = [card EXCEPT ![p] = status]
      BY <1>1, <1>4 DEF NotPaid
    <2>2. status \in CardStatuses /\ status # "completed"
      BY DEF CardStatuses
    <2> QED
      <3>1. /\ Ends(h) /\ Fine /\ UNCHANGED credits
            /\ gateway' = [gateway EXCEPT ![p] = gateway[p]]
            /\ UNCHANGED <<chargeVars, receipt, cryptoVars, worldVars, lapsed>>
        BY <1>3, <1>4 DEF NotPaid
      <3> QED
        BY <1>1, <1>2, <1>3, <2>1, <2>2, <3>1, CallbackEndsInv
  <1>5. ASSUME VerifyAndCredit(h) PROVE TypeOK' /\ AllInv'
    <2>1. "completed" \in CardStatuses
      BY DEF CardStatuses
    <2> QED
      BY <1>1, <1>2, <1>5, <2>1, CallbackEndsInv DEF VerifyAndCredit
  <1>6. ASSUME VerifyRefused(h) PROVE TypeOK' /\ AllInv'
    <2>1. "failed" \in CardStatuses
      BY DEF CardStatuses
    <2> QED
      <3>1. /\ Ends(h) /\ Fine /\ UNCHANGED credits
            /\ gateway' = [gateway EXCEPT ![p] = gateway[p]]
            /\ card' = [card EXCEPT ![p] = "failed"]
            /\ UNCHANGED <<chargeVars, receipt, cryptoVars, worldVars, lapsed>>
        BY <1>1, <1>3, <1>6 DEF VerifyRefused
      <3> QED
        BY <1>1, <1>2, <1>3, <2>1, <3>1, CallbackEndsInv
  <1>7. ASSUME VerifyFails(h) PROVE TypeOK' /\ AllInv'
    <2>1. "failed" \in CardStatuses
      BY DEF CardStatuses
    <2>2. PICK status \in CardStatuses : /\ card' = [card EXCEPT ![p] = status]
                                         /\ status \in {card[p], "failed"}
      BY <1>1, <1>3, <1>7, <2>1 DEF VerifyFails
    <2>3. CASE status # "completed"
      BY <1>1, <1>2, <1>7, <2>2, <2>3, CallbackEndsInv DEF VerifyFails
    <2>4. CASE status = "completed"
      \* Only a request on which two callbacks overlap is completed already.
      <3>1. card' = card /\ card[p] = "completed" /\ p \in overlapped
        <4>1. card[p] = "completed"
          BY <2>2, <2>4
        <4>2. CardOK(p)
          BY <1>2 DEF AllInv, Inv, RowOK, Subjects
        <4>3. p \in overlapped
          BY <1>1, <4>1, <4>2 DEF CardOK
        <4> QED
          BY <1>3, <2>2, <2>4, <4>1, <4>3
      <3>2. p \in Subjects /\ Ends(h) /\ Fault(p)
        BY <1>1, <1>2, <1>7 DEF VerifyFails, Subjects
      <3>3. Books /\ p \in unlucky' /\ overlapped' = overlapped
        BY <3>2, EndsBooks, FaultAfter, EndsAfter DEF ghostVars
      <3>4. TypeOK'
        BY <1>1, <1>7, <3>1, <3>3 DEF VerifyFails, Books, CallRows, TypeOK, chargeVars,
           cryptoVars, worldVars
      <3>5. RowOK(p)'
        BY <1>2, <3>1, <3>3, Disjoint DEF RowOK, CardOK
      <3>6. (\A t \in Subjects \ {p} : Same(t)) /\ SameDeposits
        BY <1>1, <1>7, <3>1 DEF VerifyFails, Same, SameDeposits, ConfirmedAt, TypeOK, chargeVars,
           cryptoVars, worldVars
      <3> QED
        BY <1>1, <3>2, <3>4, <3>5, <3>6, EndsRowInv
    <2> QED
      BY <2>3, <2>4
  <1> QED
    BY <1>4, <1>5, <1>6, <1>7

-----------------------------------------------------------------------------
(* Direct charges *)

LEMMA AdminChargeWalletInv ==
    ASSUME TypeOK, AllInv, NEW h \in Handlers, NEW k \in Keys, NEW a \in Payloads,
           AdminChargeWallet(h, k, a)
    PROVE  TypeOK' /\ AllInv'
  <1> DEFINE c == Call("charge", k, a, {})
  <1>1. k \in Subjects /\ "charge" \in Ops /\ KeyOK(k)
    BY DEF Subjects, Ops, AllInv, Inv, RowOK
  <1>2. CASE charge[k] = None
    <2>1. /\ c \in CallRows /\ c.op = "charge" /\ c.on = k /\ c.rows = {} /\ c.as = a
          /\ Begins(h, c)
      BY <1>1, <1>2, CallType DEF AdminChargeWallet
    <2> HIDE DEF c
    <2>2. UNCHANGED <<charge, answered, cardVars, receipt, cryptoVars, worldVars,
                      lapsed, credits>>
      BY <1>2 DEF AdminChargeWallet
    <2>3. TypeOK'
      BY <1>1, <2>1, <2>2, BeginsBooks DEF Books, CallRows, TypeOK, cardVars, cryptoVars,
         worldVars
    <2>4. /\ call'[h] = c /\ \A g \in Handlers \ {h} : call'[g] = call[g]
          /\ overlapped \subseteq overlapped'
      BY <1>1, <2>1, BeginsSame
    <2>5. Kind(h)'
      BY <1>1, <2>1, <2>4 DEF Kind, ReceiptOps, CryptoOps
    <2>6. RowOK(k)'
      BY <1>1, <1>2, <2>2, <2>4, Disjoint DEF KeyOK, RowOK
    <2>7. (\A t \in Subjects \ {k} : Same(t)) /\ SameDeposits
      BY <2>2 DEF Same, SameDeposits, ConfirmedAt, cardVars, cryptoVars, worldVars
    <2> QED
      BY <1>1, <2>1, <2>3, <2>5, <2>6, <2>7, BeginsInv
  <1>3. CASE charge[k] # None
    <2>1. /\ charge[k] = a /\ Steady
          /\ answered' = [answered EXCEPT ![k] = answered[k] \cup {a}]
          /\ UNCHANGED <<charge, cardVars, receipt, cryptoVars, worldVars, lapsed,
                         credits>>
      BY <1>3 DEF AdminChargeWallet, Steady
    <2>2. /\ answered' \in [Keys -> SUBSET Payloads]
          /\ answered'[k] = answered[k] \cup {a}
          /\ \A j \in Keys \ {k} : answered'[j] = answered[j]
      BY <2>1 DEF TypeOK
    <2>3. TypeOK'
      BY <2>1, <2>2, SteadyBooks DEF Books, CallRows, TypeOK, cardVars, cryptoVars, worldVars
    <2>4. RowOK(k)'
      <3>1. call' = call /\ overlapped' = overlapped
        BY <2>1 DEF Steady, ghostVars
      <3>2. KeyOK(k)'
        BY <1>1, <2>1, <2>2, <3>1 DEF KeyOK
      <3> QED
        BY <3>2, Disjoint DEF RowOK
    <2>5. (\A t \in Subjects \ {k} : Same(t)) /\ SameDeposits
      BY <2>1, <2>2 DEF Same, SameDeposits, ConfirmedAt, cardVars, cryptoVars, worldVars
    <2> QED
      BY <1>1, <2>1, <2>3, <2>4, <2>5, SteadyInv
  <1> QED
    BY <1>2, <1>3

LEMMA ChargeCommitsInv ==
    ASSUME TypeOK, AllInv, NEW h \in Handlers, ChargeCommits(h)
    PROVE  TypeOK' /\ AllInv'
  <1>1. PICK k : k = call[h].on
    OBVIOUS
  <1> DEFINE a == call[h].as
  <1>2. k \in Keys /\ k \in Subjects /\ a \in Payloads /\ a # None
    BY <1>1, Disjoint DEF ChargeCommits, Working, AllInv, Kinds, Kind, Subjects
  <1>3. /\ Ends(h) /\ (Fine \/ Fault(k))
        /\ charge' = [charge EXCEPT ![k] = a] /\ Credit({k})
        /\ answered' \in {answered, [answered EXCEPT ![k] = answered[k] \cup {a}]}
        /\ UNCHANGED <<cardVars, receipt, cryptoVars, worldVars, lapsed>>
    BY <1>1 DEF ChargeCommits
  <1>4. /\ credits' \in [Subjects \cup Deposits -> Nat]
        /\ credits'[k] = credits[k] + 1
        /\ \A t \in (Subjects \cup Deposits) \ {k} : credits'[t] = credits[t]
    BY <1>2, <1>3, CreditAfter
  <1>5. /\ answered' \in [Keys -> SUBSET Payloads]
        /\ answered'[k] \subseteq answered[k] \cup {a}
        /\ answered[k] \subseteq Payloads
        /\ \A j \in Keys \ {k} : answered'[j] = answered[j]
    BY <1>2, <1>3 DEF TypeOK
  <1>6. /\ charge' \in [Keys -> Payloads \cup {None}] /\ charge'[k] = a
        /\ \A j \in Keys \ {k} : charge'[j] = charge[j]
    BY <1>2, <1>3 DEF TypeOK
  <1>7. Books
    BY <1>2, <1>3, EndsBooks
  <1>8. TypeOK'
    BY <1>3, <1>4, <1>5, <1>6, <1>7 DEF Books, CallRows, TypeOK, cardVars, cryptoVars,
       worldVars
  <1>9. RowOK(k)'
    <2>1. KeyOK(k) /\ overlapped' = overlapped
      BY <1>2, <1>3, EndsAfter DEF AllInv, Inv, RowOK, ghostVars
    <2>2. k \notin overlapped =>
             charge[k] = None /\ credits[k] = 0 /\ answered[k] \subseteq {None}
      BY <1>1, <2>1 DEF KeyOK
    <2>3. k \notin overlapped => answered[k] = {}
      BY <1>5, <2>2, Disjoint
    <2>4. k \notin overlapped => \A g \in Handlers : call'[g].on # k
      BY <1>1, <1>2, <1>3, EndsAlone DEF AllInv, Inv
    <2> HIDE DEF a
    <2>5. k \notin overlapped =>
             credits'[k] = 1 /\ charge'[k] # None /\ answered'[k] \subseteq {charge'[k]}
      BY <1>2, <1>4, <1>5, <1>6, <2>2, <2>3
    <2>6. KeyOK(k)'
      BY <2>1, <2>4, <2>5 DEF KeyOK
    <2> QED
      BY <1>2, <2>6, Disjoint DEF RowOK
  <1>10. (\A t \in Subjects \ {k} : Same(t)) /\ SameDeposits
    BY <1>2, <1>3, <1>4, <1>5, <1>6, Disjoint DEF Same, SameDeposits, ConfirmedAt, cardVars,
       cryptoVars, worldVars, Subjects
  <1> QED
    BY <1>1, <1>2, <1>3, <1>8, <1>9, <1>10, EndsRowInv

-----------------------------------------------------------------------------
(* Deposit receipts *)

LEMMA OnlyReceipt ==
    ASSUME NEW r \in Receipts, UNCHANGED <<cardVars, chargeVars, cryptoVars>>,
           \A q \in Receipts \ {r} : receipt'[q] = receipt[q],
           \A t \in (Subjects \cup Deposits) \ {r} : credits'[t] = credits[t]
    PROVE  \A t \in Subjects \ {r} : Same(t)
  BY DEF Same, cardVars, chargeVars, cryptoVars, Subjects

LEMMA SubmitDepositReceiptInv ==
    ASSUME TypeOK, AllInv, NEW r \in Receipts, SubmitDepositReceipt(r)
    PROVE  TypeOK' /\ AllInv'
  <1>1. r \in Subjects /\ Steady /\ Books
    BY SteadyBooks DEF SubmitDepositReceipt, Steady, Subjects
  <1>2. receipt'[r] = "pending" /\ \A q \in Receipts \ {r} : receipt'[q] = receipt[q]
    BY DEF SubmitDepositReceipt, TypeOK
  <1>3. TypeOK'
    BY <1>1 DEF SubmitDepositReceipt, Books, CallRows, TypeOK, cardVars, chargeVars,
       cryptoVars, worldVars
  <1>4. RowOK(r)'
    <2>1. ReceiptOK(r)
      BY <1>1 DEF AllInv, Inv, RowOK
    <2>2. \A g \in Handlers : call[g].on = r => r \in overlapped
      BY <2>1 DEF ReceiptOK, SubmitDepositReceipt
    <2>3. ReceiptOK(r)'
      BY <1>2, <2>1, <2>2 DEF ReceiptOK, SubmitDepositReceipt, ghostVars
    <2> QED
      BY <2>3, Disjoint DEF RowOK
  <1>5. \A t \in Subjects \ {r} : Same(t)
    BY <1>2, OnlyReceipt DEF SubmitDepositReceipt
  <1>6. SameDeposits
    BY DEF SubmitDepositReceipt, SameDeposits, ConfirmedAt, cryptoVars, worldVars
  <1> QED
    BY <1>1, <1>3, <1>4, <1>5, <1>6, SteadyInv

LEMMA ReadReceiptInv ==
    ASSUME TypeOK, AllInv, NEW h \in Handlers, NEW r \in Receipts, NEW op \in Ops,
           ReadReceipt(h, r, op)
    PROVE  TypeOK' /\ AllInv'
  <1> DEFINE c == Call(op, r, None, {})
  <1>1. r \in Subjects /\ op \in {"file", "reject", "approve"}
    BY DEF Subjects, ReadReceipt
  <1>2. /\ c \in CallRows /\ c.op = op /\ c.on = r /\ c.rows = {}
        /\ Begins(h, c)
    BY <1>1, CallType DEF ReadReceipt
  <1> HIDE DEF c
  <1>3. TypeOK'
    BY <1>1, <1>2, BeginsBooks DEF ReadReceipt, Books, CallRows, TypeOK, cardVars,
       chargeVars, cryptoVars, worldVars
  <1>4. /\ call'[h] = c /\ \A g \in Handlers \ {h} : call'[g] = call[g]
        /\ overlapped \subseteq overlapped' /\ unlucky' = unlucky
    BY <1>1, <1>2, BeginsSame
  <1>5. Kind(h)'
    BY <1>1, <1>2, <1>4 DEF Kind, ReceiptOps, CryptoOps
  <1>6. RowOK(r)'
    <2>1. ReceiptOK(r) /\ receipt[r] = "pending"
      BY <1>1 DEF AllInv, Inv, RowOK, ReadReceipt
    <2>2. r \notin overlapped => credits[r] = 0
      BY <2>1 DEF ReceiptOK
    <2>3. c.op # "approved"
      BY <1>1, <1>2
    <2>4. receipt' = receipt /\ credits' = credits
      BY DEF ReadReceipt
    <2>5. ReceiptOK(r)'
      BY <1>4, <2>1, <2>2, <2>3, <2>4 DEF ReceiptOK
    <2> QED
      BY <2>5, Disjoint DEF RowOK
  <1>7. (\A t \in Subjects \ {r} : Same(t)) /\ SameDeposits
    BY DEF ReadReceipt, Same, SameDeposits, ConfirmedAt, cardVars, chargeVars, cryptoVars, worldVars
  <1> QED
    BY <1>1, <1>2, <1>3, <1>5, <1>6, <1>7, BeginsInv

\* Changing the file and rejecting: the receipt is saved, nothing is credited.
LEMMA DecisionInv ==
    ASSUME TypeOK, AllInv, NEW h \in Handlers, NEW r \in Receipts, r = call[h].on,
           Ends(h), Fine, NEW status \in {"pending", "rejected"},
           receipt' = [receipt EXCEPT ![r] = status], call[h].op \in {"file", "reject"},
           UNCHANGED <<cardVars, chargeVars, cryptoVars, worldVars, lapsed, credits>>
    PROVE  TypeOK' /\ AllInv'
  <1>1. r \in Subjects
    BY DEF Subjects
  <1>2. Books /\ overlapped' = overlapped
    BY <1>1, EndsBooks, EndsAfter DEF ghostVars
  <1>3. receipt'[r] = status /\ \A q \in Receipts \ {r} : receipt'[q] = receipt[q]
    BY DEF TypeOK
  <1>4. TypeOK'
    BY <1>2 DEF Books, CallRows, TypeOK, cardVars, chargeVars, cryptoVars, worldVars
  <1>5. RowOK(r)'
    <2>1. ReceiptOK(r)
      BY <1>1 DEF AllInv, Inv, RowOK
    <2>2. r \notin overlapped => credits[r] = 0
      BY <2>1 DEF ReceiptOK
    <2>3. r \notin overlapped => \A g \in Handlers : call'[g].on # r
      BY <1>1, EndsAlone DEF AllInv, Inv
    <2>4. ReceiptOK(r)'
      BY <1>2, <1>3, <2>2, <2>3 DEF ReceiptOK
    <2> QED
      BY <2>4, Disjoint DEF RowOK
  <1>6. \A t \in Subjects \ {r} : Same(t)
    BY <1>3, OnlyReceipt
  <1>7. SameDeposits
    BY DEF SameDeposits, ConfirmedAt, cryptoVars, worldVars
  <1> QED
    BY <1>1, <1>4, <1>5, <1>6, <1>7, EndsRowInv

\* The end of an approval: the money commits, or a fault hits the receipt.
LEMMA ApprovalEndsInv ==
    ASSUME TypeOK, AllInv, NEW h \in Handlers, ApprovalCommits(h) \/ ApprovalFails(h)
    PROVE  TypeOK' /\ AllInv'
  <1>1. PICK r : r = call[h].on
    OBVIOUS
  <1>2. /\ r \in Receipts /\ r \in Subjects /\ call[h].op = "approved" /\ Ends(h)
        /\ Fine \/ Fault(r)
        /\ (Fine /\ Credit({r})) \/ (Fault(r) /\ UNCHANGED credits)
        /\ UNCHANGED <<cardVars, chargeVars, receipt, cryptoVars, worldVars, lapsed>>
    BY <1>1 DEF ApprovalCommits, ApprovalFails, Working, AllInv, Kinds, Kind, ReceiptOps,
                Subjects
  <1>3. /\ credits' \in [Subjects \cup Deposits -> Nat]
        /\ credits'[r] \in {credits[r], credits[r] + 1}
        /\ credits'[r] = credits[r] => r \in unlucky'
        /\ \A t \in (Subjects \cup Deposits) \ {r} : credits'[t] = credits[t]
    <2>1. credits \in [Subjects \cup Deposits -> Nat] /\ credits[r] \in Nat
      BY <1>2 DEF TypeOK
    <2>2. CASE Fine /\ Credit({r})
      BY <1>2, <2>1, <2>2, CreditAfter
    <2>3. CASE Fault(r) /\ UNCHANGED credits
      BY <1>2, <2>1, <2>3, FaultAfter
    <2> QED
      BY <1>2, <2>2, <2>3
  <1>4. Books /\ overlapped' = overlapped
    BY <1>2, EndsBooks, EndsAfter DEF ghostVars
  <1>5. TypeOK'
    BY <1>2, <1>3, <1>4 DEF Books, CallRows, TypeOK, cardVars, chargeVars, cryptoVars,
       worldVars
  <1>6. RowOK(r)'
    <2>1. ReceiptOK(r)
      BY <1>2 DEF AllInv, Inv, RowOK
    <2>2. r \notin overlapped => credits[r] = 0 /\ receipt[r] = "approved"
      BY <1>1, <1>2, <2>1 DEF ReceiptOK
    <2>3. r \notin overlapped => \A g \in Handlers : call'[g].on # r
      BY <1>1, <1>2, EndsAlone DEF AllInv, Inv
    <2>4. ReceiptOK(r)'
      BY <1>2, <1>3, <1>4, <2>2, <2>3 DEF ReceiptOK
    <2> QED
      BY <1>2, <2>4, Disjoint DEF RowOK
  <1>7. \A t \in Subjects \ {r} : Same(t)
    BY <1>2, <1>3, OnlyReceipt
  <1>8. SameDeposits
    BY <1>2, <1>3, Disjoint DEF SameDeposits, ConfirmedAt, cryptoVars, worldVars
  <1> QED
    BY <1>1, <1>2, <1>5, <1>6, <1>7, <1>8, EndsRowInv

\* A handler goes on with its row: it stays the only one there if it was.
LEMMA ContinuesInv ==
    ASSUME TypeOK, AllInv, NEW h \in Handlers, NEW s \in Subjects, NEW c \in CallRows,
           s = call[h].on, c.on = s, call' = [call EXCEPT ![h] = c], UNCHANGED ghostVars,
           Fine \/ Fault(s), Kind(h)', RowOK(s)', \A t \in Subjects \ {s} : Same(t),
           \A d \in Deposits : DepositOK(d)'
    PROVE  AllInv'
  <1>1. call'[h] = c /\ \A g \in Handlers \ {h} : call'[g] = call[g]
    BY DEF TypeOK
  <1>2. call' \in [Handlers -> CallRows]
    BY DEF TypeOK, CallRows
  <1>3. Books
    BY <1>2, FaultAfter DEF Books, ghostVars, TypeOK
  <1>4. \A t \in Subjects \ {s} : Untouched(t)
    BY <1>1 DEF Untouched
  <1>5. \A t \in Subjects : RowOK(t)'
    BY <1>3, <1>4, RowFrame DEF AllInv, Inv
  <1>6. Alone'
    BY <1>1 DEF AllInv, Inv, Alone, ghostVars
  <1>7. Kinds'
    BY <1>1, KindFrame DEF AllInv, Kinds
  <1> QED
    BY <1>5, <1>6, <1>7 DEF AllInv, Inv

LEMMA ContinuesBooks ==
    ASSUME TypeOK, NEW h \in Handlers, NEW s \in Subjects, NEW c \in CallRows,
           call' = [call EXCEPT ![h] = c], UNCHANGED ghostVars, Fine \/ Fault(s)
    PROVE  /\ Books
           /\ call'[h] = c /\ \A g \in Handlers \ {h} : call'[g] = call[g]
  <1>1. call' \in [Handlers -> CallRows]
    BY DEF TypeOK, CallRows
  <1> QED
    BY <1>1, FaultAfter DEF Books, ghostVars, TypeOK

LEMMA ApproveReceiptInv ==
    ASSUME TypeOK, AllInv, NEW h \in Handlers, ApproveReceipt(h)
    PROVE  TypeOK' /\ AllInv'
  <1>1. PICK r : r = call[h].on
    OBVIOUS
  <1>2. r \in Receipts /\ r \in Subjects /\ call[h].op = "approve"
    BY <1>1 DEF ApproveReceipt, Working, AllInv, Kinds, Kind, ReceiptOps, Subjects
  <1> DEFINE c == [call[h] EXCEPT !.op = "approved"]
  <1>3. /\ c \in CallRows /\ c.op = "approved" /\ c.on = r /\ c.as = call[h].as
        /\ c.rows = call[h].rows
    BY <1>1, CallFields DEF CallRows, Ops
  <1>4. call' = [call EXCEPT ![h] = c] /\ Fine /\ UNCHANGED ghostVars
    BY DEF ApproveReceipt
  <1> HIDE DEF c
  <1>5. /\ Books /\ call'[h] = c
        /\ \A g \in Handlers \ {h} : call'[g] = call[g]
    BY <1>2, <1>3, <1>4, ContinuesBooks
  <1>6. /\ receipt' = [receipt EXCEPT ![r] = "approved"]
        /\ UNCHANGED <<cardVars, chargeVars, cryptoVars, worldVars, lapsed, credits>>
    BY <1>1 DEF ApproveReceipt, SaveReceipt
  <1>7. receipt'[r] = "approved" /\ \A q \in Receipts \ {r} : receipt'[q] = receipt[q]
    BY <1>2, <1>6 DEF TypeOK
  <1>8. TypeOK'
    BY <1>5, <1>6 DEF Books, CallRows, TypeOK, cardVars, chargeVars, cryptoVars, worldVars
  <1>9. Kind(h)'
    BY <1>2, <1>3, <1>5 DEF Kind, ReceiptOps, CryptoOps
  <1>10. RowOK(r)'
    <2>1. ReceiptOK(r)
      BY <1>2 DEF AllInv, Inv, RowOK
    <2>2. r \notin overlapped => credits[r] = 0
      BY <1>1, <2>1 DEF ReceiptOK
    <2>3. r \notin overlapped => \A g \in Handlers : call'[g].on = r => g = h
      BY <1>1, <1>2, <1>5 DEF AllInv, Inv, Alone
    <2>4. overlapped' = overlapped /\ credits' = credits
      BY <1>4, <1>6 DEF ghostVars
    <2>5. ReceiptOK(r)'
      BY <1>3, <1>5, <1>7, <2>2, <2>3, <2>4 DEF ReceiptOK
    <2> QED
      BY <1>2, <2>5, Disjoint DEF RowOK
  <1>11. \A t \in Subjects \ {r} : Same(t)
    BY <1>2, <1>6, <1>7, OnlyReceipt
  <1>12. \A d \in Deposits : DepositOK(d)'
    <2> TAKE d \in Deposits
    <2>1. DepositOK(d) /\ overlapped' = overlapped
      BY <1>4 DEF AllInv, Inv, ghostVars
    <2>2. \A g \in Handlers : call'[g].rows = call[g].rows /\ call'[g].on = call[g].on
      BY <1>1, <1>3, <1>5
    <2> QED
      BY <1>6, <2>1, <2>2 DEF DepositOK, ConfirmedAt, cryptoVars, worldVars
  <1> QED
    BY <1>1, <1>2, <1>3, <1>4, <1>8, <1>9, <1>10, <1>11, <1>12, ContinuesInv

LEMMA ReceiptInv ==
    ASSUME TypeOK, AllInv, NEW h \in Handlers, ChangeReceiptFile(h) \/ RejectReceipt(h)
    PROVE  TypeOK' /\ AllInv'
  <1>1. PICK r : r = call[h].on
    OBVIOUS
  <1>2. r \in Receipts
    BY <1>1 DEF ChangeReceiptFile, RejectReceipt, Working, AllInv, Kinds, Kind, ReceiptOps
  <1> QED
    BY <1>1, <1>2, DecisionInv DEF ChangeReceiptFile, RejectReceipt, Working, SaveReceipt

-----------------------------------------------------------------------------
(* Faults and time *)

LEMMA HandlerFailsInv ==
    ASSUME TypeOK, AllInv, NEW h \in Handlers, HandlerFails(h)
    PROVE  TypeOK' /\ AllInv'
  <1>1. PICK s : s = call[h].on
    OBVIOUS
  <1>2. /\ s \in Subjects /\ call[h].op \notin {"idle", "approved"} /\ Ends(h) /\ Fault(s)
        /\ UNCHANGED <<cardVars, chargeVars, receipt, cryptoVars, worldVars, lapsed,
                       credits>>
    BY <1>1, Subject DEF HandlerFails, Working, AllInv
  <1>3. Books /\ overlapped' = overlapped
    BY <1>2, EndsBooks, EndsAfter DEF ghostVars
  <1>4. TypeOK'
    BY <1>2, <1>3 DEF Books, CallRows, TypeOK, cardVars, chargeVars, cryptoVars, worldVars
  <1>5. RowOK(s)
    BY <1>2 DEF AllInv, Inv
  <1>6. s \notin overlapped => \A g \in Handlers : call'[g].on # s
    BY <1>1, <1>2, EndsAlone DEF AllInv, Inv
  <1>7. \A g \in Handlers : call'[g] = call[g] \/ call'[g].on = None
    BY <1>2, EndsAfter, IdleType
  <1>8. RowOK(s)'
    <2>1. s \in unlucky' /\ unlucky \subseteq unlucky'
      BY <1>2, <1>3, FaultAfter DEF Books
    <2>2. ASSUME s \in Cards PROVE CardOK(s)'
      BY <1>2, <1>3, <1>5, <1>6, <2>1, <2>2 DEF RowOK, CardOK, cardVars
    <2>3. ASSUME s \in Keys PROVE KeyOK(s)'
      BY <1>2, <1>3, <1>5, <1>6, <2>3 DEF RowOK, KeyOK, chargeVars
    <2>4. ASSUME s \in Receipts PROVE ReceiptOK(s)'
      BY <1>2, <1>3, <1>5, <1>6, <2>1, <2>4 DEF RowOK, ReceiptOK
    <2>5. ASSUME s \in Crypto PROVE RequestOK(s)'
      BY <1>2, <1>3, <1>5, <1>6, <1>7, <2>5, Disjoint DEF RowOK, RequestOK, cryptoVars
    <2> QED
      BY <2>2, <2>3, <2>4, <2>5 DEF RowOK
  <1>9. (\A t \in Subjects \ {s} : Same(t)) /\ SameDeposits
    BY <1>2 DEF Same, SameDeposits, ConfirmedAt, cardVars, chargeVars, cryptoVars, worldVars
  <1> QED
    BY <1>1, <1>2, <1>4, <1>8, <1>9, EndsRowInv

ChainStatuses == {"none", "seen", "confirmed", "failed"}

\* Steps that change no row of ours: time, the chain, the provider.
LEMMA WorldInv ==
    ASSUME TypeOK, AllInv, Steady,
           UNCHANGED <<cardVars, chargeVars, receipt, cryptoVars, credits>>,
           chain' \in [Deposits -> ChainStatuses], dated' \subseteq Deposits,
           \A d \in Deposits : ConfirmedAt(d) => ConfirmedAt(d)',
           invoice' \in [Invoices -> InvoiceStatuses],
           lapsed' \subseteq Cards \cup Crypto
    PROVE  TypeOK' /\ AllInv'
  <1>1. Books
    BY SteadyBooks
  <1>2. TypeOK'
    BY <1>1 DEF Books, CallRows, TypeOK, cardVars, chargeVars, cryptoVars,
                ChainStatuses, InvoiceStatuses
  <1>3. call' = call /\ overlapped' = overlapped
    BY DEF Steady, ghostVars
  <1>4. \A t \in Subjects : RowOK(t)'
    <2>1. \A t \in Subjects : Same(t) /\ Untouched(t)
      BY <1>3 DEF Same, Untouched, cardVars, chargeVars, cryptoVars
    <2> QED
      BY <1>1, <2>1, RowFrame DEF AllInv, Inv
  <1>5. \A d \in Deposits : DepositOK(d)'
    BY <1>1, <1>3, DepositFrame DEF AllInv, SameDeposits, ConfirmedAt, cryptoVars
  <1>6. Alone' /\ Kinds'
    BY <1>3 DEF AllInv, Inv, Alone, Kinds, Kind
  <1> QED
    BY <1>2, <1>4, <1>5, <1>6 DEF AllInv, Inv

LEMMA WorldTypes ==
    ASSUME TypeOK
    PROVE  /\ chain \in [Deposits -> ChainStatuses] /\ dated \subseteq Deposits
           /\ invoice \in [Invoices -> InvoiceStatuses]
           /\ lapsed \subseteq Cards \cup Crypto
  BY DEF TypeOK, ChainStatuses, InvoiceStatuses

LEMMA ConfirmedSame ==
    ASSUME UNCHANGED <<chain, dated>>, NEW d \in Deposits
    PROVE  ConfirmedAt(d)' <=> ConfirmedAt(d)
  BY DEF ConfirmedAt

LEMMA LapseInv ==
    ASSUME TypeOK, AllInv, NEW s \in Cards \cup Crypto, Lapse(s)
    PROVE  TypeOK' /\ AllInv'
  <1>1. UNCHANGED <<chain, dated, invoice>> /\ lapsed' \subseteq Cards \cup Crypto
    BY WorldTypes DEF Lapse, worldVars
  <1> QED
    BY <1>1, WorldTypes, ConfirmedSame, WorldInv DEF Lapse, Steady

LEMMA ChainAdvancesInv ==
    ASSUME TypeOK, AllInv, NEW d \in Deposits, ChainAdvances(d)
    PROVE  TypeOK' /\ AllInv'
  <1>1. /\ UNCHANGED <<dated, invoice, lapsed>>
        /\ chain' \in [Deposits -> ChainStatuses]
        /\ \A e \in Deposits : chain[e] = "confirmed" => chain'[e] = "confirmed"
    BY WorldTypes DEF ChainAdvances, ChainStatuses
  <1>2. \A e \in Deposits : ConfirmedAt(e) => ConfirmedAt(e)'
    BY <1>1 DEF ConfirmedAt
  <1> QED
    BY <1>1, <1>2, WorldTypes, WorldInv DEF ChainAdvances, Steady

LEMMA NodeTimeInv ==
    ASSUME TypeOK, AllInv, NEW d \in Deposits, NodeTime(d)
    PROVE  TypeOK' /\ AllInv'
  <1>1. /\ UNCHANGED <<chain, invoice, lapsed>>
        /\ dated \subseteq dated' /\ dated' \subseteq Deposits
    BY WorldTypes DEF NodeTime
  <1>2. \A e \in Deposits : ConfirmedAt(e) => ConfirmedAt(e)'
    BY <1>1 DEF ConfirmedAt
  <1> QED
    BY <1>1, <1>2, WorldTypes, WorldInv DEF NodeTime, Steady

LEMMA InvoiceEndsInv ==
    ASSUME TypeOK, AllInv, NEW x \in Invoices, InvoiceEnds(x)
    PROVE  TypeOK' /\ AllInv'
  <1>1. /\ UNCHANGED <<chain, dated, lapsed>>
        /\ invoice' \in [Invoices -> InvoiceStatuses]
    BY WorldTypes DEF InvoiceEnds, InvoiceStatuses
  <1> QED
    BY <1>1, WorldTypes, ConfirmedSame, WorldInv DEF InvoiceEnds, Steady

-----------------------------------------------------------------------------
(* Crypto payments *)

LEMMA OnlyRequest ==
    ASSUME NEW x \in Crypto, UNCHANGED <<cardVars, chargeVars, receipt>>,
           \A y \in Crypto \ {x} : request'[y] = request[y],
           \A t \in Subjects \ {x} : credits'[t] = credits[t]
    PROVE  \A t \in Subjects \ {x} : Same(t)
  BY DEF Same, cardVars, chargeVars

LEMMA CreateRequestInv ==
    ASSUME TypeOK, AllInv, NEW x \in Crypto, CreateRequest(x)
    PROVE  TypeOK' /\ AllInv'
  <1> DEFINE new == Request("pending", FALSE)
  <1>1. x \in Subjects /\ Steady /\ Books
    BY SteadyBooks DEF CreateRequest, Steady, Subjects
  <1>2. new \in CryptoRows /\ new.status = "pending" /\ new.credited = FALSE
    BY RequestType DEF CryptoStatuses
  <1>3. request' = [request EXCEPT ![x] = new] /\ request[x].status = "none"
    BY DEF CreateRequest
  <1> HIDE DEF new
  <1>4. /\ request' \in [Crypto -> CryptoRows] /\ request'[x] = new
        /\ \A y \in Crypto \ {x} : request'[y] = request[y]
    BY <1>2, <1>3 DEF TypeOK
  <1>5. TypeOK'
    BY <1>1, <1>4 DEF CreateRequest, Books, CallRows, TypeOK, cardVars, chargeVars, worldVars
  <1>6. RowOK(x)'
    <2>1. RequestOK(x) /\ call' = call /\ overlapped' = overlapped /\ credits' = credits
      BY <1>1 DEF AllInv, Inv, RowOK, CreateRequest, ghostVars
    <2>2. (\A g \in Handlers : call[g].on # x) /\ ~request[x].credited
      BY <1>3, <2>1 DEF RequestOK
    <2>3. RequestOK(x)'
      BY <1>2, <1>4, <2>1, <2>2 DEF RequestOK
    <2> QED
      BY <2>3, Disjoint DEF RowOK
  <1>7. \A t \in Subjects \ {x} : Same(t)
    BY <1>4, OnlyRequest DEF CreateRequest
  <1>8. SameDeposits
    BY DEF CreateRequest, SameDeposits, ConfirmedAt, worldVars
  <1> QED
    BY <1>1, <1>5, <1>6, <1>7, <1>8, SteadyInv

LEMMA ReadRequestInv ==
    ASSUME TypeOK, AllInv, NEW h \in Handlers, NEW x \in Crypto, NEW op \in Ops,
           ReadRequest(h, x, op)
    PROVE  TypeOK' /\ AllInv'
  <1> DEFINE c == Call(op, x, request[x], {})
  <1>1. /\ x \in Subjects /\ op \in CryptoOps
        /\ op = "webhook" => x \in Invoices
        /\ op = "verify" => x \in Addresses
        /\ request[x] \in CryptoRows /\ request[x].status # "none"
    BY DEF Subjects, ReadRequest, CryptoOps, TypeOK
  <1>2. /\ c \in CallRows /\ c.op = op /\ c.on = x /\ c.rows = {} /\ c.as = request[x]
        /\ Begins(h, c)
    BY <1>1, CallType DEF ReadRequest
  <1> HIDE DEF c
  <1>3. TypeOK'
    BY <1>1, <1>2, BeginsBooks DEF ReadRequest, Books, CallRows, TypeOK, cardVars,
       chargeVars, cryptoVars, worldVars
  <1>4. /\ call'[h] = c /\ \A g \in Handlers \ {h} : call'[g] = call[g]
        /\ overlapped \subseteq overlapped' /\ unlucky' = unlucky
    BY <1>1, <1>2, BeginsSame
  <1>5. Kind(h)'
    BY <1>1, <1>2, <1>4 DEF Kind, ReceiptOps, CryptoOps
  <1>6. RowOK(x)'
    <2>1. RequestOK(x) /\ request' = request /\ credits' = credits
      BY <1>1 DEF AllInv, Inv, RowOK, ReadRequest, cryptoVars
    <2>2. RequestOK(x)'
      BY <1>1, <1>2, <1>4, <2>1 DEF RequestOK
    <2> QED
      BY <2>2, Disjoint DEF RowOK
  <1>7. (\A t \in Subjects \ {x} : Same(t)) /\ SameDeposits
    BY DEF ReadRequest, Same, SameDeposits, ConfirmedAt, cardVars, chargeVars, cryptoVars, worldVars
  <1> QED
    BY <1>1, <1>2, <1>3, <1>5, <1>6, <1>7, BeginsInv

\* Rows of deposits that a handler may write: what the providers tell of a
\* transaction is true, and a transaction is stored for its own request.
Faithful(rows) ==
    \A d \in Deposits :
        /\ rows[d].confirmed => ConfirmedAt(d)
        /\ PaidFor[d] \in Invoices =>
              rows[d].for \in {None, PaidFor[d]} /\ rows[d].credited = deposit[d].credited
        /\ PaidFor[d] \in Addresses => rows[d].for \in Addresses \cup {None}

\* Deposits that a handler on request x may credit.
Creditable(x, S) ==
    \A d \in S :
        /\ ConfirmedAt(d)
        /\ PaidFor[d] \in Invoices => PaidFor[d] = x
        /\ PaidFor[d] \in Invoices \ overlapped => ~deposit[d].credited

LEMMA StoredRows ==
    ASSUME TypeOK, AllInv
    PROVE  deposit \in [Deposits -> DepositRows] /\ Faithful(deposit)
  BY DEF TypeOK, DepositRows, Faithful, AllInv, Inv, DepositOK

LEMMA PayerKind ==
    ASSUME NEW d \in Deposits
    PROVE  PaidFor[d] \in Crypto
  BY RechargesAssumption

LEMMA UpsertFaithful ==
    ASSUME TypeOK, AllInv, NEW x \in Crypto, NEW S \in SUBSET OnChain(x),
           NEW C \in SUBSET Confirmed(OnChain(x))
    PROVE  /\ Upsert(x, S, C) \in [Deposits -> DepositRows]
           /\ Faithful(Upsert(x, S, C))
           /\ \A d \in Deposits : Upsert(x, S, C)[d].credited = deposit[d].credited
  <1> DEFINE rows == Upsert(x, S, C)
  <1>1. S \in SUBSET Deposits /\ C \in SUBSET Deposits
    BY DEF OnChain, Confirmed
  <1>2. /\ rows \in [Deposits -> DepositRows]
        /\ \A d \in Deposits :
              /\ rows[d].credited = deposit[d].credited
              /\ rows[d].confirmed => deposit[d].confirmed \/ d \in S \cap C
              /\ rows[d].for = IF d \in S /\ deposit[d].for = None THEN x
                               ELSE deposit[d].for
    BY <1>1, UpsertRows
  <1> HIDE DEF rows
  <1>3. \A d \in C : ConfirmedAt(d)
    BY DEF Confirmed
  <1>4. \A d \in S : PaidFor[d] = x
    BY DEF OnChain
  <1>5. \A d \in Deposits : DepositOK(d)
    BY DEF AllInv, Inv
  <1>6. Faithful(rows)
    <2> SUFFICES ASSUME NEW d \in Deposits
                 PROVE  /\ rows[d].confirmed => ConfirmedAt(d)
                        /\ PaidFor[d] \in Invoices =>
                              /\ rows[d].for \in {None, PaidFor[d]}
                              /\ rows[d].credited = deposit[d].credited
                        /\ PaidFor[d] \in Addresses => rows[d].for \in Addresses \cup {None}
      BY DEF Faithful
    <2>1. DepositOK(d)
      BY <1>5
    <2>2. rows[d].confirmed => ConfirmedAt(d)
      BY <1>2, <1>3, <2>1 DEF DepositOK
    <2>3. (rows[d].for = x /\ PaidFor[d] = x) \/ rows[d].for = deposit[d].for
      BY <1>2, <1>4
    <2> QED
      BY <1>2, <2>1, <2>2, <2>3 DEF DepositOK
  <1> QED
    BY <1>2, <1>6 DEF rows

LEMMA UpsertCreditable ==
    ASSUME TypeOK, AllInv, NEW x \in Crypto, NEW S \in SUBSET OnChain(x),
           NEW C \in SUBSET Confirmed(OnChain(x)),
           NEW U \in SUBSET (Stored(x) \cup OnChain(x)),
           NEW T \in SUBSET Unpaid(Upsert(x, S, C), U)
    PROVE  T \in SUBSET Deposits /\ Creditable(x, T)
  <1> DEFINE rows == Upsert(x, S, C)
  <1>1. S \in SUBSET Deposits /\ C \in SUBSET Deposits
    BY DEF OnChain, Confirmed
  <1>2. Faithful(rows) /\ \A d \in Deposits : rows[d].credited = deposit[d].credited
    <2> HIDE DEF rows
    <2>1. S \in SUBSET OnChain(x) /\ C \in SUBSET Confirmed(OnChain(x))
      OBVIOUS
    <2>2. /\ Faithful(Upsert(x, S, C))
          /\ \A d \in Deposits : Upsert(x, S, C)[d].credited = deposit[d].credited
      BY <2>1, UpsertFaithful
    <2> QED
      BY <2>2 DEF rows
  <1> HIDE DEF rows
  <1>3. \A d \in T : d \in U /\ rows[d].confirmed /\ ~rows[d].credited
    BY DEF Unpaid, rows
  <1>4. T \in SUBSET Deposits
    BY <1>3 DEF Stored, OnChain
  <1>5. \A d \in T : PaidFor[d] \in Invoices => PaidFor[d] = x
    <2> SUFFICES ASSUME NEW d \in T, PaidFor[d] \in Invoices PROVE PaidFor[d] = x
      OBVIOUS
    <2>1. DepositOK(d) /\ d \in Stored(x) \cup OnChain(x)
      BY <1>3, <1>4 DEF AllInv, Inv
    <2>2. x # None
      BY Disjoint DEF Subjects
    <2> QED
      BY <2>1, <2>2 DEF DepositOK, Stored, OnChain
  <1> QED
    BY <1>2, <1>3, <1>4, <1>5 DEF Creditable, Faithful

\* The deposits after that.
LEMMA DepositsCredited ==
    ASSUME TypeOK, AllInv, NEW h \in Handlers, NEW x \in Crypto, x = call[h].on, Ends(h),
           NEW rows \in [Deposits -> DepositRows], Faithful(rows),
           NEW T \in SUBSET Deposits, Creditable(x, T), UNCHANGED worldVars,
           DepositsAre(rows, T)
    PROVE  \A d \in Deposits : DepositOK(d)'
  <1> TAKE d \in Deposits
  <1>0. /\ deposit'[d].for = rows[d].for
        /\ deposit'[d].confirmed = rows[d].confirmed
        /\ deposit'[d].credited = (d \in T \/ rows[d].credited)
        /\ credits'[d] = IF d \in T THEN credits[d] + 1 ELSE credits[d]
    BY DEF DepositsAre
  <1>1. /\ DepositOK(d) /\ (ConfirmedAt(d)' <=> ConfirmedAt(d))
        /\ overlapped' = overlapped /\ credits[d] \in Nat
    BY EndsAfter, ConfirmedSame DEF AllInv, Inv, worldVars, ghostVars, TypeOK
  <1>2. /\ rows[d].confirmed => ConfirmedAt(d)
        /\ PaidFor[d] \in Invoices =>
              rows[d].for \in {None, PaidFor[d]} /\ rows[d].credited = deposit[d].credited
        /\ PaidFor[d] \in Addresses => rows[d].for \in Addresses \cup {None}
    BY DEF Faithful
  <1>3. d \in T =>
           /\ ConfirmedAt(d)
           /\ PaidFor[d] \in Invoices => PaidFor[d] = x
           /\ PaidFor[d] \in Invoices \ overlapped => ~deposit[d].credited
    BY DEF Creditable
  <1>4. credits'[d] > 0 => ConfirmedAt(d)'
    BY <1>0, <1>1, <1>3 DEF DepositOK
  <1>5. PaidFor[d] \in Invoices \ overlapped =>
           credits'[d] = IF deposit'[d].credited THEN 1 ELSE 0
    <2> SUFFICES ASSUME PaidFor[d] \in Invoices \ overlapped
                 PROVE  credits'[d] = IF deposit'[d].credited THEN 1 ELSE 0
      OBVIOUS
    <2>0. credits[d] = IF deposit[d].credited THEN 1 ELSE 0
      BY <1>1 DEF DepositOK
    <2>1. CASE d \in T
      <3>1. deposit'[d].credited
        BY <1>0, <2>1
      <3>2. credits'[d] = credits[d] + 1 /\ credits[d] = 0
        BY <1>0, <1>3, <2>0, <2>1
      <3> QED
        BY <3>1, <3>2
    <2>2. CASE d \notin T
      <3>1. deposit'[d].credited = deposit[d].credited
        <4>1. rows[d].credited \in BOOLEAN
          BY DEF DepositRows
        <4>2. deposit'[d].credited = rows[d].credited
          BY <1>0, <2>2, <4>1
        <4> QED
          BY <1>2, <4>2
      <3>2. credits'[d] = credits[d]
        BY <1>0, <2>2
      <3> QED
        BY <2>0, <3>1, <3>2
    <2> QED
      BY <2>1, <2>2
  <1>6. ASSUME NEW g \in Handlers, d \in call'[g].rows
        PROVE  /\ ConfirmedAt(d)
               /\ PaidFor[d] \in Invoices => call'[g].on = PaidFor[d]
               /\ PaidFor[d] \in Invoices \ overlapped => ~deposit'[d].credited
    <2>1. g # h /\ call'[g] = call[g]
      BY <1>6, EndsAfter, IdleType
    <2>2. /\ ConfirmedAt(d)
          /\ PaidFor[d] \in Invoices => call[g].on = PaidFor[d]
          /\ PaidFor[d] \in Invoices \ overlapped => ~deposit[d].credited
      BY <1>1, <1>6, <2>1 DEF DepositOK
    <2>3. PaidFor[d] \in Invoices \ overlapped => d \notin T
      \* A second handler on the request would have made it overlapped.
      BY <1>3, <2>1, <2>2 DEF AllInv, Inv, Alone, Subjects, Crypto
    <2> QED
      BY <1>0, <1>2, <2>1, <2>2, <2>3
  <1> QED
    BY <1>0, <1>1, <1>2, <1>4, <1>5, <1>6 DEF DepositOK

\* A handler that ends with creditOnConfirmed.
LEMMA CreditedInv ==
    ASSUME TypeOK, AllInv, NEW h \in Handlers, NEW x \in Crypto, x = call[h].on,
           call[h].op \in CryptoOps, Ends(h), Fine \/ Fault(x),
           NEW rows \in [Deposits -> DepositRows], Faithful(rows),
           NEW T \in SUBSET Deposits, Creditable(x, T),
           NEW status \in CryptoStatuses \ {"none"},
           creditOnConfirmed(h, rows, T, status),
           x \in Addresses =>
              /\ T # {} => ~call[h].as.credited /\ Cardinality(T) = 1
              /\ T = {} => Cardinality(T) = 0,
           UNCHANGED <<cardVars, chargeVars, receipt, worldVars, lapsed>>
    PROVE  TypeOK' /\ AllInv'
  <1>1. x \in Subjects /\ Kind(h)
    BY DEF Subjects, AllInv, Kinds
  <1>0. /\ deposit' \in [Deposits -> DepositRows]
        /\ request' \in [Crypto -> CryptoRows]
        /\ credits' \in [Subjects \cup Deposits -> Nat]
        /\ DepositsAre(rows, T) /\ RequestIs(h, T)
    BY <1>1, CreditedAfter
  <1>2. /\ deposit' \in [Deposits -> DepositRows]
        /\ request' \in [Crypto -> CryptoRows]
        /\ credits' \in [Subjects \cup Deposits -> Nat]
        /\ DepositsAre(rows, T)
        /\ \A y \in Crypto \ {x} : request'[y] = request[y]
        /\ request'[x].status # "none"
        /\ request'[x].credited = IF T # {} THEN TRUE ELSE call[h].as.credited
        /\ credits'[x] = credits[x] + Cardinality(T)
        /\ \A s \in Subjects \ {x} : credits'[s] = credits[s]
    BY <1>0 DEF RequestIs
  <1>3. Books /\ overlapped' = overlapped
    BY <1>1, EndsBooks, EndsAfter DEF ghostVars
  <1>4. TypeOK'
    BY <1>2, <1>3 DEF Books, CallRows, DepositRows, TypeOK, cardVars, chargeVars, worldVars
  <1>5. \A d \in Deposits : DepositOK(d)'
    BY <1>2, DepositsCredited DEF worldVars
  <1>6. RowOK(x)'
    <2>1. RequestOK(x) /\ credits[x] \in Nat
      BY <1>1 DEF AllInv, Inv, RowOK, TypeOK
    <2>2. ASSUME x \in Addresses \ overlapped
          PROVE  /\ credits'[x] = IF request'[x].credited THEN 1 ELSE 0
                 /\ \A g \in Handlers : call'[g].on # x
      <3>1. /\ credits[x] = IF request[x].credited THEN 1 ELSE 0
            /\ call[h].as.credited = request[x].credited
        BY <2>1, <2>2 DEF RequestOK
      <3>2. \A g \in Handlers : call'[g].on # x
        BY <1>1, <2>2, EndsAlone DEF AllInv, Inv
      <3>3. credits'[x] = IF request'[x].credited THEN 1 ELSE 0
        <4>1. CASE T = {}
          BY <1>2, <2>2, <3>1, <4>1
        <4>2. CASE T # {}
          BY <1>2, <2>2, <3>1, <4>2
        <4> QED
          BY <4>1, <4>2
      <3> QED
        BY <3>2, <3>3
    <2>3. RequestOK(x)'
      BY <1>2, <1>3, <2>2 DEF RequestOK
    <2> QED
      BY <2>3, Disjoint DEF RowOK
  <1>7. \A t \in Subjects \ {x} : Same(t)
    BY <1>2, OnlyRequest
  <1> QED
    BY <1>1, <1>4, <1>5, <1>6, <1>7, EndsInv

\* A handler that ends with CreditOrFail.
LEMMA CreditOrFailInv ==
    ASSUME TypeOK, AllInv, NEW h \in Handlers, NEW x \in Crypto, x = call[h].on,
           call[h].op \in CryptoOps, Ends(h),
           NEW rows \in [Deposits -> DepositRows], Faithful(rows),
           NEW T \in SUBSET Deposits, Creditable(x, T),
           NEW status \in CryptoStatuses \ {"none"},
           CreditOrFail(h, rows, T, status),
           x \in Addresses =>
              /\ T # {} => ~call[h].as.credited /\ Cardinality(T) = 1
              /\ T = {} => Cardinality(T) = 0,
           UNCHANGED <<cardVars, chargeVars, receipt, worldVars, lapsed>>
    PROVE  TypeOK' /\ AllInv'
  <1>1. CASE creditOnConfirmed(h, rows, T, status) /\ Fine
    BY <1>1, CreditedInv
  <1>2. CASE creditOnConfirmed(h, rows, {}, "failed") /\ Fault(x)
    <2>1. Creditable(x, {}) /\ {} \in SUBSET Deposits /\ Cardinality({}) = 0
      BY FS_EmptySet DEF Creditable
    <2>2. "failed" \in CryptoStatuses \ {"none"}
      BY Statuses
    <2> QED
      BY <1>2, <2>1, <2>2, CreditedInv
  <1> QED
    BY <1>1, <1>2 DEF CreditOrFail

\* A handler that ends and credits nothing: it saved rows, or the status.
LEMMA UncreditedInv ==
    ASSUME TypeOK, AllInv, NEW h \in Handlers, NEW x \in Crypto, x = call[h].on,
           call[h].op \in CryptoOps, Ends(h), Fine,
           NEW rows \in [Deposits -> DepositRows], Faithful(rows), deposit' = rows,
           NEW new \in CryptoRows, request' = [request EXCEPT ![x] = new],
           new.status # "none", new.credited \in {request[x].credited, call[h].as.credited},
           UNCHANGED <<cardVars, chargeVars, receipt, worldVars, lapsed, credits>>
    PROVE  TypeOK' /\ AllInv'
  <1>1. x \in Subjects
    BY DEF Subjects
  <1>2. Books /\ overlapped' = overlapped
    BY <1>1, EndsBooks, EndsAfter DEF ghostVars
  <1>3. /\ request' \in [Crypto -> CryptoRows] /\ request'[x] = new
        /\ \A y \in Crypto \ {x} : request'[y] = request[y]
    BY DEF TypeOK
  <1>4. TypeOK'
    BY <1>2, <1>3 DEF Books, CallRows, DepositRows, TypeOK, cardVars, chargeVars, worldVars
  <1>5. \A d \in Deposits : DepositOK(d)'
    <2>1. Creditable(x, {})
      BY DEF Creditable
    <2>2. DepositsAre(rows, {})
      <3>1. \A d \in Deposits : rows[d].credited \in BOOLEAN
        BY DEF DepositRows
      <3>2. \A d \in Deposits : credits'[d] = credits[d] /\ deposit'[d] = rows[d]
        OBVIOUS
      <3> QED
        BY <3>1, <3>2 DEF DepositsAre
    <2> QED
      BY <2>1, <2>2, DepositsCredited DEF worldVars
  <1>6. RowOK(x)'
    <2>1. RequestOK(x)
      BY <1>1 DEF AllInv, Inv, RowOK
    <2>2. x \in Addresses \ overlapped =>
             /\ credits[x] = IF request[x].credited THEN 1 ELSE 0
             /\ call[h].as.credited = request[x].credited
             /\ \A g \in Handlers : call'[g].on # x
      BY <1>1, <2>1, EndsAlone DEF RequestOK, AllInv, Inv
    <2>3. RequestOK(x)'
      BY <1>2, <1>3, <2>2 DEF RequestOK
    <2> QED
      BY <2>3, Disjoint DEF RowOK
  <1>7. \A t \in Subjects \ {x} : Same(t)
    BY <1>3, OnlyRequest
  <1> QED
    BY <1>1, <1>4, <1>5, <1>6, <1>7, EndsInv

\* The request of a handler, and what it read of it.
LEMMA CryptoCall ==
    ASSUME TypeOK, AllInv, NEW h \in Handlers, call[h].op \in CryptoOps
    PROVE  /\ call[h].on \in Crypto
           /\ call[h].as \in CryptoRows
           /\ call[h].as.status \in CryptoStatuses \ {"none"}
           /\ call[h].as.credited \in BOOLEAN
           /\ request[call[h].on] \in CryptoRows
           /\ request[call[h].on].status # "none"
           /\ request = [request EXCEPT ![call[h].on] = request[call[h].on]]
           /\ StatusOf(h) \in CryptoStatuses \ {"none"}
  <1>1. Kind(h)
    BY DEF AllInv, Kinds
  <1>2. /\ call[h].on \in Crypto /\ call[h].as \in CryptoRows
        /\ call[h].as.status # "none"
    BY <1>1 DEF Kind, CryptoOps
  <1>3. request[call[h].on].status # "none"
    BY <1>2 DEF AllInv, Inv, RowOK, RequestOK, Subjects
  <1>4. call[h].as.status \in CryptoStatuses /\ call[h].as.credited \in BOOLEAN
    BY <1>2 DEF CryptoRows
  <1>5. StatusOf(h) \in CryptoStatuses \ {"none"}
    BY <1>2, <1>4 DEF StatusOf, CryptoStatuses
  <1> QED
    BY <1>2, <1>3, <1>4, <1>5 DEF TypeOK

LEMMA HandleOxapayWebhookInv ==
    ASSUME TypeOK, AllInv, NEW h \in Handlers, HandleOxapayWebhook(h)
    PROVE  TypeOK' /\ AllInv'
  <1>1. PICK x : x = call[h].on
    OBVIOUS
  <1>2. /\ call[h].op = "webhook" /\ call[h].op \in CryptoOps
        /\ x \in Invoices /\ x \in Crypto /\ x \notin Addresses
    BY <1>1, Disjoint DEF HandleOxapayWebhook, Working, CryptoOps, AllInv, Kinds, Kind, Crypto
  <1>3. PICK status \in Told(x), S \in SUBSET OnChain(x) \ {{}} :
           \E confirmed \in SUBSET Confirmed(S) :
           \E T \in OneOf(h, IF status = "paid"
                             THEN Unpaid(Upsert(x, S, confirmed), S \cap Stored(x)) ELSE {}) :
              creditOnConfirmed(h, Upsert(x, S, confirmed), T, mapOxapayInvoiceStatus[status])
    BY <1>1 DEF HandleOxapayWebhook
  <1>3a. PICK confirmed \in SUBSET Confirmed(S) :
           \E T \in OneOf(h, IF status = "paid"
                             THEN Unpaid(Upsert(x, S, confirmed), S \cap Stored(x)) ELSE {}) :
              creditOnConfirmed(h, Upsert(x, S, confirmed), T, mapOxapayInvoiceStatus[status])
    BY <1>3
  <1>3b. PICK T \in OneOf(h, IF status = "paid"
                            THEN Unpaid(Upsert(x, S, confirmed), S \cap Stored(x)) ELSE {}) :
           creditOnConfirmed(h, Upsert(x, S, confirmed), T, mapOxapayInvoiceStatus[status])
    BY <1>3a
  <1> DEFINE rows == Upsert(x, S, confirmed)
  <1>4. mapOxapayInvoiceStatus[status] \in CryptoStatuses \ {"none"}
    BY <1>2, Statuses
  <1>5. S \in SUBSET OnChain(x) /\ confirmed \in SUBSET Confirmed(OnChain(x))
    BY DEF Confirmed
  <1>6. rows \in [Deposits -> DepositRows] /\ Faithful(rows)
    BY <1>2, <1>5, UpsertFaithful
  <1>7. T \in SUBSET Unpaid(rows, S \cap Stored(x))
    BY OneOfFacts
  <1>8. T \in SUBSET Deposits /\ Creditable(x, T)
    BY <1>2, <1>5, <1>7, UpsertCreditable
  <1> HIDE DEF rows
  <1>9. /\ Ends(h) /\ Fine
        /\ UNCHANGED <<cardVars, chargeVars, receipt, worldVars, lapsed>>
    BY DEF HandleOxapayWebhook
  <1>10. creditOnConfirmed(h, rows, T, mapOxapayInvoiceStatus[status])
    BY <1>3b DEF rows
  <1> QED
    BY <1>1, <1>2, <1>4, <1>6, <1>8, <1>9, <1>10, CreditedInv

LEMMA PollInvoiceInv ==
    ASSUME TypeOK, AllInv, NEW h \in Handlers, PollInvoice(h)
    PROVE  TypeOK' /\ AllInv'
  <1>1. PICK x : x = call[h].on
    OBVIOUS
  <1> DEFINE rows == Upsert(x, OnChain(x), Confirmed(OnChain(x)))
             unpaid == Unpaid(rows, Stored(x) \cup OnChain(x))
  <1>2. /\ call[h].op \in CryptoOps /\ x \in Invoices /\ x \in Crypto /\ x \notin Addresses
    BY <1>1, Disjoint DEF PollInvoice, Working, CryptoOps, Crypto
  <1>3. PICK T \in IF invoice[x] = "paid" THEN {unpaid} ELSE OneOf(h, unpaid) :
           CreditOrFail(h, rows, T, mapOxapayInvoiceStatus[invoice[x]])
    BY <1>1 DEF PollInvoice
  <1>4. mapOxapayInvoiceStatus[invoice[x]] \in CryptoStatuses \ {"none"}
    BY <1>2, Statuses
  <1>5. rows \in [Deposits -> DepositRows] /\ Faithful(rows)
    BY <1>2, UpsertFaithful
  <1>6. T \in SUBSET unpaid
    BY OneOfFacts
  <1>7. T \in SUBSET Deposits /\ Creditable(x, T)
    BY <1>2, <1>6, UpsertCreditable
  <1> HIDE DEF rows, unpaid
  <1>8. /\ Ends(h)
        /\ UNCHANGED <<cardVars, chargeVars, receipt, worldVars, lapsed>>
    BY DEF PollInvoice
  <1> QED
    BY <1>1, <1>2, <1>3, <1>4, <1>5, <1>7, <1>8, CreditOrFailInv

LEMMA PollUnansweredInv ==
    ASSUME TypeOK, AllInv, NEW h \in Handlers, PollUnanswered(h)
    PROVE  TypeOK' /\ AllInv'
  <1>1. PICK x : x = call[h].on
    OBVIOUS
  <1>2. call[h].op = "poll" /\ call[h].op \in CryptoOps
    BY DEF PollUnanswered, Working, CryptoOps
  <1>3. x \in Crypto /\ x \in Subjects
    BY <1>1, <1>2, CryptoCall DEF Subjects
  <1> DEFINE held == Unpaid(deposit, Stored(x))
             c == [call[h] EXCEPT !.op = "sweep", !.rows = held]
  <1>4. held \in SUBSET Deposits
    BY DEF Unpaid, Stored
  <1>5. /\ c \in CallRows /\ c.op = "sweep" /\ c.on = x /\ c.as = call[h].as
        /\ c.rows = held
    BY <1>1, <1>4, CallFields DEF CallRows, Ops
  <1>6. /\ call' = [call EXCEPT ![h] = c] /\ Fault(x) /\ UNCHANGED ghostVars
        /\ UNCHANGED <<cardVars, chargeVars, receipt, cryptoVars, worldVars, lapsed,
                       credits>>
    BY <1>1 DEF PollUnanswered
  <1>7. \A d \in held : /\ d \in Deposits /\ deposit[d].for = x
                        /\ deposit[d].confirmed /\ ~deposit[d].credited
    BY DEF Unpaid, Stored
  <1> HIDE DEF c, held
  <1>8. /\ Books /\ call'[h] = c
        /\ \A g \in Handlers \ {h} : call'[g] = call[g]
    BY <1>3, <1>5, <1>6, ContinuesBooks
  <1>9. TypeOK'
    BY <1>6, <1>8 DEF Books, CallRows, TypeOK, cardVars, chargeVars, cryptoVars, worldVars
  <1>10. Kind(h)'
    <2>1. Kind(h) /\ call[h].as \in CryptoRows /\ call[h].as.status # "none"
      BY <1>2, CryptoCall DEF AllInv, Kinds
    <2> QED
      BY <1>3, <1>5, <1>8, <2>1 DEF Kind, ReceiptOps, CryptoOps
  <1>11. RowOK(x)'
    <2>1. RequestOK(x) /\ overlapped' = overlapped /\ request' = request
          /\ credits' = credits
      BY <1>3, <1>6 DEF AllInv, Inv, RowOK, ghostVars, cryptoVars
    <2>2. \A g \in Handlers : call'[g].on = call[g].on /\ call'[g].as = call[g].as
      BY <1>1, <1>5, <1>8
    <2>3. RequestOK(x)'
      BY <2>1, <2>2 DEF RequestOK
    <2> QED
      BY <1>3, <2>3, Disjoint DEF RowOK
  <1>12. \A t \in Subjects \ {x} : Same(t)
    BY <1>6 DEF Same, cardVars, chargeVars, cryptoVars
  <1>13. \A d \in Deposits : DepositOK(d)'
    <2> TAKE d \in Deposits
    <2>1. /\ DepositOK(d) /\ overlapped' = overlapped /\ deposit' = deposit
          /\ credits' = credits /\ (ConfirmedAt(d)' <=> ConfirmedAt(d))
      BY <1>6, ConfirmedSame DEF AllInv, Inv, ghostVars, cryptoVars, worldVars
    <2>2. d \in held =>
             /\ ConfirmedAt(d) /\ ~deposit[d].credited
             /\ PaidFor[d] \in Invoices => x = PaidFor[d]
      BY <1>3, <1>7, <2>1, Disjoint DEF DepositOK
    <2>3. ASSUME NEW g \in Handlers, d \in call'[g].rows
          PROVE  /\ ConfirmedAt(d)
                 /\ PaidFor[d] \in Invoices => call'[g].on = PaidFor[d]
                 /\ PaidFor[d] \in Invoices \ overlapped => ~deposit[d].credited
      BY <1>5, <1>8, <2>1, <2>2, <2>3 DEF DepositOK
    <2> QED
      BY <2>1, <2>3 DEF DepositOK
  <1> QED
    BY <1>1, <1>3, <1>5, <1>6, <1>9, <1>10, <1>11, <1>12, <1>13, ContinuesInv

LEMMA SweepDepositsInv ==
    ASSUME TypeOK, AllInv, NEW h \in Handlers, SweepDeposits(h)
    PROVE  TypeOK' /\ AllInv'
  <1>1. PICK x : x = call[h].on
    OBVIOUS
  <1>2. call[h].op \in CryptoOps
    BY DEF SweepDeposits, Working, CryptoOps
  <1>3. /\ x \in Crypto /\ request[x] \in CryptoRows /\ request[x].status # "none"
        /\ request = [request EXCEPT ![x] = request[x]]
        /\ StatusOf(h) \in CryptoStatuses \ {"none"}
    BY <1>1, <1>2, CryptoCall
  <1>4. deposit \in [Deposits -> DepositRows] /\ Faithful(deposit)
    BY StoredRows
  <1>5. PICK T \in OneOf(h, call[h].rows) :
           IF T = {} /\ ~Expires(h) THEN UNCHANGED <<cryptoVars, credits>> /\ Fine
           ELSE CreditOrFail(h, deposit, T, StatusOf(h))
    BY DEF SweepDeposits
  <1>6. /\ T \subseteq call[h].rows
        /\ T # {} => ~call[h].as.credited /\ Cardinality(T) = 1
        /\ T = {} => Cardinality(T) = 0
    BY OneOfFacts
  <1>7. T \in SUBSET Deposits /\ Creditable(x, T)
    <2>1. T \in SUBSET Deposits
      BY <1>6, CallFields
    <2>2. \A d \in T : DepositOK(d)
      BY <2>1 DEF AllInv, Inv
    <2> QED
      BY <1>1, <1>6, <2>1, <2>2 DEF Creditable, DepositOK
  <1>8. /\ Ends(h)
        /\ UNCHANGED <<cardVars, chargeVars, receipt, worldVars, lapsed>>
    BY DEF SweepDeposits
  <1>9. CASE T = {} /\ ~Expires(h)
    <2>1. UNCHANGED <<request, deposit, credits>> /\ Fine
      BY <1>5, <1>9 DEF cryptoVars
    <2>2. /\ deposit' = deposit /\ request' = [request EXCEPT ![x] = request[x]]
          /\ UNCHANGED <<cardVars, chargeVars, receipt, worldVars, lapsed, credits>>
      BY <1>3, <1>8, <2>1
    <2> QED
      BY <1>1, <1>2, <1>3, <1>4, <1>8, <2>1, <2>2, UncreditedInv
  <1>10. CASE ~(T = {} /\ ~Expires(h))
    <2>1. CreditOrFail(h, deposit, T, StatusOf(h))
      BY <1>5, <1>10
    <2> QED
      BY <1>1, <1>2, <1>3, <1>4, <1>6, <1>7, <1>8, <2>1, CreditOrFailInv
  <1> QED
    BY <1>9, <1>10

LEMMA PollAddressInv ==
    ASSUME TypeOK, AllInv, NEW h \in Handlers, PollAddress(h)
    PROVE  TypeOK' /\ AllInv'
  <1>1. PICK x : x = call[h].on
    OBVIOUS
  <1> DEFINE rows == Upsert(x, OnChain(x), Confirmed(OnChain(x)))
             unpaid == Unpaid(rows, Stored(x) \cup OnChain(x))
  <1>2. call[h].op \in CryptoOps
    BY DEF PollAddress, Working, CryptoOps
  <1>3. /\ x \in Crypto /\ request[x] \in CryptoRows /\ request[x].status # "none"
        /\ request = [request EXCEPT ![x] = request[x]]
        /\ StatusOf(h) \in CryptoStatuses \ {"none"}
    BY <1>1, <1>2, CryptoCall
  <1>4. /\ Ends(h)
        /\ UNCHANGED <<cardVars, chargeVars, receipt, worldVars, lapsed>>
    BY DEF PollAddress
  <1>5. rows \in [Deposits -> DepositRows] /\ Faithful(rows)
    BY <1>3, UpsertFaithful
  <1>6. CASE UNCHANGED <<cryptoVars, credits>> /\ Fine
    <2>1. /\ deposit' = deposit /\ request' = [request EXCEPT ![x] = request[x]]
          /\ UNCHANGED <<cardVars, chargeVars, receipt, worldVars, lapsed, credits>>
      BY <1>3, <1>4, <1>6 DEF cryptoVars
    <2> QED
      BY <1>1, <1>2, <1>3, <1>4, <1>6, <2>1, StoredRows, UncreditedInv
  <1>7. CASE deposit' = rows /\ UNCHANGED <<request, credits>> /\ Fine
    <2> HIDE DEF rows, unpaid
    <2>1. /\ deposit' = rows /\ request' = [request EXCEPT ![x] = request[x]]
          /\ UNCHANGED <<cardVars, chargeVars, receipt, worldVars, lapsed, credits>>
      BY <1>3, <1>4, <1>7
    <2> QED
      BY <1>1, <1>2, <1>3, <1>4, <1>5, <1>7, <2>1, UncreditedInv
  <1>8. ASSUME NEW T \in OneOf(h, unpaid), CreditOrFail(h, rows, T, StatusOf(h))
        PROVE  TypeOK' /\ AllInv'
    <2>1. /\ T \in SUBSET unpaid
          /\ T # {} => ~call[h].as.credited /\ Cardinality(T) = 1
          /\ T = {} => Cardinality(T) = 0
      BY OneOfFacts
    <2>2. T \in SUBSET Deposits /\ Creditable(x, T)
      BY <1>3, <2>1, UpsertCreditable
    <2> HIDE DEF rows, unpaid
    <2> QED
      BY <1>1, <1>2, <1>3, <1>4, <1>5, <1>8, <2>1, <2>2, CreditOrFailInv
  <1> QED
    BY <1>1, <1>6, <1>7, <1>8 DEF PollAddress

LEMMA ManualVerifyInv ==
    ASSUME TypeOK, AllInv, NEW h \in Handlers, NEW d \in Deposits, ManualVerify(h, d)
    PROVE  TypeOK' /\ AllInv'
  <1>1. PICK x : x = call[h].on
    OBVIOUS
  <1> DEFINE known == deposit[d].for
             row == Row(IF known = None THEN x ELSE known, ConfirmedAt(d), FALSE)
             rows == [deposit EXCEPT ![d] = row]
  <1>2. call[h].op \in CryptoOps /\ x \in Addresses
    BY <1>1 DEF ManualVerify, Working, CryptoOps, AllInv, Kinds, Kind
  <1>3. /\ x \in Crypto /\ request[x] \in CryptoRows /\ request[x].status # "none"
        /\ request = [request EXCEPT ![x] = request[x]]
    BY <1>1, <1>2, CryptoCall
  <1>4. /\ Ends(h) /\ Fine /\ PaidFor[d] \in Addresses
        /\ UNCHANGED <<cardVars, chargeVars, receipt, worldVars, lapsed>>
    BY DEF ManualVerify
  <1>5. /\ row \in DepositRows /\ row.for \in Addresses
        /\ row.confirmed = ConfirmedAt(d) /\ row.credited = FALSE
    <2>1. known \in Addresses \cup {None} /\ known \in Crypto \cup {None}
      BY <1>4, DepositFields DEF AllInv, Inv, DepositOK
    <2>2. \A f \in Addresses, b \in BOOLEAN :
             /\ Row(f, b, FALSE) \in DepositRows /\ Row(f, b, FALSE).for = f
             /\ Row(f, b, FALSE).confirmed = b /\ Row(f, b, FALSE).credited = FALSE
      BY DEF Row, DepositRows, Crypto
    <2>3. (IF known = None THEN x ELSE known) \in Addresses
      BY <1>2, <2>1
    <2>4. ConfirmedAt(d) \in BOOLEAN
      <3>1. ConfirmedAt(d) = (d \in dated)
        BY <1>4, Zenon DEF ConfirmedAt
      <3> QED
        BY <3>1
    <2> QED
      BY <2>2, <2>3, <2>4
  <1> HIDE DEF row
  <1>6. /\ rows \in [Deposits -> DepositRows] /\ rows[d] = row
        /\ \A e \in Deposits \ {d} : rows[e] = deposit[e]
    BY <1>5, StoredRows
  <1>7. Faithful(rows)
    <2>1. Faithful(deposit) /\ PaidFor[d] \notin Invoices
      BY <1>4, StoredRows, Disjoint
    <2> HIDE DEF rows
    <2> QED
      BY <1>5, <1>6, <2>1 DEF Faithful
  <1>8. PICK T \in OneOf(h, Unpaid(rows, {d})) :
           IF T = {} THEN deposit' = rows /\ UNCHANGED <<request, credits>>
           ELSE creditOnConfirmed(h, rows, T, "credited")
    BY <1>1 DEF ManualVerify, row
  <1>9. /\ T \subseteq Unpaid(rows, {d})
        /\ T # {} => ~call[h].as.credited /\ Cardinality(T) = 1
        /\ T = {} => Cardinality(T) = 0
    BY OneOfFacts
  <1> HIDE DEF rows
  <1>10. T \in SUBSET Deposits /\ Creditable(x, T)
    <2>1. \A e \in T : e = d /\ rows[e].confirmed
      BY <1>9 DEF Unpaid
    <2> QED
      BY <1>4, <1>5, <1>6, <2>1, Disjoint DEF Creditable
  <1>11. CASE T = {}
    <2>1. /\ deposit' = rows /\ request' = [request EXCEPT ![x] = request[x]]
          /\ UNCHANGED <<cardVars, chargeVars, receipt, worldVars, lapsed, credits>>
      BY <1>3, <1>4, <1>8, <1>11
    <2> QED
      BY <1>1, <1>2, <1>3, <1>4, <1>6, <1>7, <2>1, UncreditedInv
  <1>12. CASE T # {}
    <2>1. creditOnConfirmed(h, rows, T, "credited") /\ "credited" \in CryptoStatuses \ {"none"}
      BY <1>8, <1>12 DEF CryptoStatuses
    <2> QED
      BY <1>1, <1>2, <1>3, <1>4, <1>6, <1>7, <1>9, <1>10, <2>1, CreditedInv
  <1> QED
    BY <1>11, <1>12

LEMMA CancelRequestInv ==
    ASSUME TypeOK, AllInv, NEW h \in Handlers, CancelRequest(h)
    PROVE  TypeOK' /\ AllInv'
  <1>1. PICK x : x = call[h].on
    OBVIOUS
  <1>2. call[h].op \in CryptoOps
    BY DEF CancelRequest, Working, CryptoOps
  <1> DEFINE new == Request("cancelled", call[h].as.credited)
  <1>3. x \in Crypto /\ call[h].as.credited \in BOOLEAN
    BY <1>1, <1>2, CryptoCall
  <1>4. "cancelled" \in CryptoStatuses
    BY DEF CryptoStatuses
  <1>5. new \in CryptoRows /\ new.status # "none" /\ new.credited = call[h].as.credited
    BY <1>3, <1>4, RequestType
  <1>6. /\ Ends(h) /\ Fine /\ deposit' = deposit
        /\ request' = [request EXCEPT ![x] = new]
        /\ UNCHANGED <<cardVars, chargeVars, receipt, worldVars, lapsed, credits>>
    BY <1>1 DEF CancelRequest
  <1> HIDE DEF new
  <1> QED
    BY <1>1, <1>2, <1>3, <1>5, <1>6, StoredRows, UncreditedInv

-----------------------------------------------------------------------------
(* The theorems *)

LEMMA InitInv == Init => TypeOK /\ AllInv
  <1> SUFFICES ASSUME Init PROVE TypeOK /\ AllInv
    OBVIOUS
  <1>1. Request("none", FALSE) \in CryptoRows /\ Request("none", FALSE).status = "none"
        /\ Request("none", FALSE).credited = FALSE
    BY RequestType DEF CryptoStatuses
  <1>2. /\ Row(None, FALSE, FALSE) \in DepositRows
        /\ Row(None, FALSE, FALSE).for = None
        /\ Row(None, FALSE, FALSE).confirmed = FALSE
        /\ Row(None, FALSE, FALSE).credited = FALSE
    BY DEF Row, DepositRows
  <1>3. 0 \in 0 .. MaxCalls /\ 0 \in 0 .. MaxFaults
    BY RechargesAssumption
  <1>4. TypeOK
    BY <1>1, <1>2, <1>3, IdleType DEF Init, TypeOK, CallRows, DepositRows, CardStatuses
  <1>5. \A h \in Handlers : call[h].on = None /\ call[h].rows = {} /\ Kind(h)
    BY IdleType DEF Init, Kind, ReceiptOps, CryptoOps
  <1>6. Alone
    BY <1>5, Disjoint DEF Alone
  <1>7. ASSUME NEW s \in Subjects PROVE RowOK(s)
    <2>1. credits[s] = 0 /\ \A h \in Handlers : call[h].on # s
      BY <1>5, Disjoint DEF Init
    <2>2. s \in Cards => CardOK(s)
      BY <2>1 DEF Init, CardOK
    <2>3. s \in Keys => KeyOK(s)
      BY <2>1 DEF Init, KeyOK
    <2>4. s \in Receipts => ReceiptOK(s)
      BY <2>1 DEF Init, ReceiptOK
    <2>5. s \in Crypto => RequestOK(s)
      <3> HAVE s \in Crypto
      <3>1. request[s] = Request("none", FALSE)
        BY DEF Init
      <3> QED
        BY <1>1, <2>1, <3>1 DEF RequestOK
    <2> QED
      BY <2>2, <2>3, <2>4, <2>5 DEF RowOK
  <1>8. ASSUME NEW d \in Deposits PROVE DepositOK(d)
    <2>1. credits[d] = 0 /\ deposit[d] = Row(None, FALSE, FALSE)
      BY DEF Init
    <2>2. \A h \in Handlers : d \notin call[h].rows
      BY <1>5
    <2>3. /\ deposit[d].confirmed = FALSE /\ deposit[d].credited = FALSE
          /\ deposit[d].for = None
      BY <1>2, <2>1
    <2>4. ~deposit[d].confirmed /\ ~deposit[d].credited
      BY <2>3
    <2>5. credits[d] = IF deposit[d].credited THEN 1 ELSE 0
      BY <2>1, <2>4
    <2>6. ~(credits[d] > 0)
      BY <2>1
    <2> QED
      BY <2>2, <2>3, <2>4, <2>5, <2>6 DEF DepositOK
  <1> QED
    BY <1>4, <1>5, <1>6, <1>7, <1>8 DEF AllInv, Kinds, Inv

LEMMA StepInv == TypeOK /\ AllInv /\ [Next]_vars => TypeOK' /\ AllInv'
  <1> SUFFICES ASSUME TypeOK, AllInv, [Next]_vars PROVE TypeOK' /\ AllInv'
    OBVIOUS
  <1>1. ASSUME NEW h \in Handlers, Starts(h) PROVE TypeOK' /\ AllInv'
    BY <1>1, PaymentCallbackInv, AdminChargeWalletInv, ReadReceiptInv, ReadRequestInv
       DEF Starts
  <1>2. ASSUME NEW h \in Handlers, Finishes(h) PROVE TypeOK' /\ AllInv'
    BY <1>2, HandlerFailsInv, CallbackInv, ChargeCommitsInv, ReceiptInv, ApproveReceiptInv,
       ApprovalEndsInv, HandleOxapayWebhookInv, PollInvoiceInv, PollUnansweredInv,
       SweepDepositsInv, PollAddressInv, CancelRequestInv, ManualVerifyInv DEF Finishes
  <1>3. CASE UNCHANGED vars
    <2>1. Steady /\ UNCHANGED <<cardVars, chargeVars, receipt, cryptoVars, worldVars,
                                lapsed, credits>>
      BY <1>3 DEF vars, Steady, cardVars, chargeVars, cryptoVars, worldVars, ghostVars
    <2> QED
      BY <2>1, WorldTypes, ConfirmedSame, WorldInv DEF worldVars
  <1> QED
    BY <1>1, <1>2, <1>3, ChargeWalletInv, CustomerPaysInv, SubmitDepositReceiptInv,
       CreateRequestInv, InvoiceEndsInv, ChainAdvancesInv, NodeTimeInv, LapseInv DEF Next

LEMMA Always == Spec => [](TypeOK /\ AllInv)
  BY InitInv, StepInv, PTL DEF Spec

\* The columns keep their types, for any number of payments, keys, receipts,
\* requests and handlers.
THEOREM TypesCorrect == Spec => []TypeOK
  BY Always, PTL

\* A completed card payment is credited once, no other one ever, and what the
\* gateway settled is credited unless a fault hit that payment.
THEOREM CardsAreSettled == Spec => []CardSettled
  <1>1. AllInv => CardSettled
    BY DEF AllInv, Inv, RowOK, CardOK, CardSettled, Subjects
  <1> QED
    BY <1>1, Always, PTL

\* An idempotency key charges once.
THEOREM KeysChargeOnce == Spec => []ChargedOnce
  <1>1. AllInv => ChargedOnce
    BY DEF AllInv, Inv, RowOK, KeyOK, ChargedOnce, Subjects
  <1> QED
    BY <1>1, Always, PTL

\* An approved receipt is credited once, any other never.
THEOREM ReceiptsAreSettled == Spec => []ReceiptSettled
  <1>1. AllInv => ReceiptSettled
    <2> SUFFICES ASSUME AllInv, NEW r \in Receipts, r \notin overlapped
                 PROVE  /\ credits[r] = 1 => receipt[r] = "approved"
                        /\ credits[r] <= 1
                        /\ receipt[r] = "approved" =>
                              \/ credits[r] = 1 \/ r \in unlucky
                              \/ \E h \in Handlers : call[h].on = r /\ Working(h, "approved")
      BY DEF ReceiptSettled
    <2>1. ReceiptOK(r)
      BY DEF AllInv, Inv, RowOK, Subjects
    <2> QED
      BY <2>1 DEF ReceiptOK, Working
  <1> QED
    BY <1>1, Always, PTL

\* A transaction of an invoice and a request with an address are credited once
\* at most, and nothing its provider has not given a ConfirmedAt.
THEOREM CryptoIsPaidOnce == Spec => []CryptoPaidOnce
  <1>1. TypeOK /\ AllInv => CryptoPaidOnce
    <2> SUFFICES ASSUME TypeOK, AllInv PROVE CryptoPaidOnce
      OBVIOUS
    <2>1. ASSUME NEW d \in Deposits
          PROVE  /\ PaidFor[d] \in Invoices \ overlapped => credits[d] <= 1
                 /\ credits[d] > 0 => ConfirmedAt(d)
      BY DEF AllInv, Inv, DepositOK
    <2>2. ASSUME NEW x \in Addresses \ overlapped PROVE credits[x] <= 1
      <3>1. RequestOK(x)
        BY DEF AllInv, Inv, RowOK, Subjects, Crypto
      <3> QED
        BY <2>2, <3>1 DEF RequestOK
    <2> QED
      BY <2>1, <2>2 DEF CryptoPaidOnce
  <1> QED
    BY <1>1, Always, PTL

=============================================================================
