--------------------------- MODULE ClickSyncProofs ---------------------------
(* Theorems about ClickSync, for every value of its constants. *)
EXTENDS ClickSync, ShortLinksProofs, FunctionTheorems, WellFoundedInduction

ImporterRows == [step : {"idle", "fetching", "importing", "acknowledging",
                         "repeating"},
                 at : Ids0, page : SUBSET (Ids \X Events), more : BOOLEAN]
Replays == [step : {"idle", "inserting", "inserted"}, tx : Transactions]

\* Where an event carries an id: in an insert that is not decided, and where
\* production may see it or has seen it.
Given(n, e) == \E tx \in inserts : e \in DOMAIN tx /\ tx[e] = n
Shown(n, e) == \/ row[e] = n
               \/ <<n, e>> \in imported
               \/ \E i \in Importers : <<n, e>> \in importer[i].page
Carries(n, e) == Given(n, e) \/ Shown(n, e)

\* An id names one event, which somebody made.
IdInv ==
    /\ \A n \in Ids, e \in Events : Carries(n, e) => n <= lastId /\ visit[e] # "none"
    /\ \A n \in Ids, d, e \in Events : Carries(n, d) /\ Carries(n, e) => d = e

\* An event is shown with one id only, and gets no second row: once its row
\* is gone nothing will store it again.
OneId ==
    \A n \in Ids, e \in Events : Shown(n, e) =>
        /\ row[e] = n \/ Settled(e)
        /\ \A m \in Ids : Shown(m, e) => m = n

\* What becomes of a click that was stored.
Arrived(e) == row[e] # 0 \/ Imported(e) \/ e \in late

\* The service has what it answered for; the spool gives up what is stored.
Kept ==
    /\ \A e \in Events : visit[e] = "done" => e \in spool \/ Arrived(e)
    /\ \A e \in spool : visit[e] # "none"
    /\ replay.step = "inserted" => \A e \in DOMAIN replay.tx : Arrived(e)

\* A click is made on a live link.
OnLiveLink ==
    \A e \in Events :
        visit[e] # "none" => code[e] \in Codes /\ mapping[code[e]] # Nobody

\* An importer starts from the cursor or before it, and its page leaves out
\* nothing up to its end.
Fetched(i) ==
    LET im == importer[i]
    IN  /\ im.at <= cursor
        /\ Known(im.at)
        /\ \A p \in im.page : Known(p[1])
        /\ im.step = "importing" =>
              \A e \in Events : row[e] \in im.at + 1 .. Seen(i) =>
                  <<row[e], e>> \in im.page \/ e \in late

CursorInv ==
    /\ AckBehindCursor
    /\ NothingSkipped
    /\ Known(cursor)
    /\ \A i \in Importers : Fetched(i)

ClickInv == IdInv /\ OneId /\ Kept /\ OnLiveLink /\ CursorInv

-----------------------------------------------------------------------------
(* Numbers, ids, batches and pages *)

\* A finite set of naturals has a maximum: the element with the fewest
\* elements above it.
LEMMA MaxOfNaturals ==
    ASSUME NEW S \in SUBSET Nat, IsFiniteSet(S), S # {}
    PROVE  Max(S) \in S /\ \A y \in S : Max(S) >= y
  <1> DEFINE Above(x) == {y \in S : y >= x}
             Sizes == {Cardinality(Above(x)) : x \in S}
  <1>1. \A x \in S : IsFiniteSet(Above(x)) /\ Cardinality(Above(x)) \in Nat
    BY FS_Subset, FS_CardinalityType
  <1>2. Sizes \subseteq Nat /\ Sizes # {}
    BY <1>1
  <1>3. \E n \in Sizes : \A m \in Sizes : ~ (<<m, n>> \in OpToRel(<, Nat))
    BY <1>2, WFMin, NatLessThanWellFounded
  <1>4. PICK n \in Sizes : \A m \in Sizes : ~ (m < n)
    BY <1>2, <1>3 DEF OpToRel
  <1>5. PICK x \in S : n = Cardinality(Above(x))
    OBVIOUS
  <1>6. \A y \in S : x >= y
    <2>1. SUFFICES ASSUME NEW y \in S, y > x PROVE FALSE
      OBVIOUS
    <2>2. Above(y) \subseteq Above(x) /\ x \in Above(x) /\ x \notin Above(y)
      <3>1. \A z \in S : z \in Nat
        OBVIOUS
      <3>2. \A z \in S : z >= y => z >= x
        BY <2>1, <3>1
      <3>3. x >= x /\ ~ (x >= y)
        BY <2>1, <3>1
      <3> QED
        BY <3>2, <3>3
    <2>3. Cardinality(Above(y)) <= Cardinality(Above(x))
          /\ Cardinality(Above(y)) # Cardinality(Above(x))
      BY <1>1, <2>2, FS_Subset
    <2> HIDE DEF Above
    <2> QED
      BY <1>1, <1>4, <1>5, <2>3
  <1> QED
    BY <1>6 DEF Max

\* The greater of two naturals.
LEMMA MaxOfTwo ==
    ASSUME NEW m \in Nat, NEW n \in Nat
    PROVE  Max({m, n}) \in {m, n} /\ Max({m, n}) >= m /\ Max({m, n}) >= n
  <1>1. \E x \in {m, n} : \A y \in {m, n} : x >= y
    <2>1. CASE m <= n
      BY <2>1
    <2>2. CASE n <= m
      BY <2>2
    <2> QED
      BY <2>1, <2>2
  <1>2. Max({m, n}) \in {m, n} /\ \A y \in {m, n} : Max({m, n}) >= y
    BY <1>1 DEF Max
  <1> QED
    BY <1>2

LEMMA IdFacts == /\ MaxId \in Nat /\ 0 \in Ids0 /\ Ids \subseteq Ids0
                 /\ \A n \in Ids0 : n \in Nat /\ n <= MaxId
                 /\ \A n \in Ids : n # 0
                 /\ \A n \in Ids0 : n # 0 => n \in Ids
  BY ClickSyncAssumption DEF Ids, Ids0

\* The largest id of a page, or where an empty one was looked for.
Through(at, page) == IF page = {} THEN at ELSE Max({p[1] : p \in page})

LEMMA SeenIsThrough ==
    /\ \A i \in Importers : Seen(i) = Through(importer[i].at, importer[i].page)
    /\ \A i \in Importers : Seen(i)' = Through(importer'[i].at, importer'[i].page)
  BY DEF Seen, Through

LEMMA ThroughFacts ==
    ASSUME NEW at \in Ids0, NEW page \in SUBSET (Ids \X Events)
    PROVE  /\ Through(at, page) \in Ids0
           /\ page = {} => Through(at, page) = at
           /\ page # {} => \E p \in page : Through(at, page) = p[1]
           /\ \A p \in page : p[1] <= Through(at, page)
  <1> DEFINE ids == {p[1] : p \in page}
  <1>1. CASE page = {}
    BY <1>1 DEF Through
  <1>2. CASE page # {}
    <2>1. ids \in SUBSET (1 .. MaxId) /\ ids # {} /\ ids \in SUBSET Nat
      BY <1>2, IdFacts DEF Ids
    <2>2. IsFiniteSet(ids)
      <3>1. IsFiniteSet(1 .. MaxId)
        BY IdFacts, FS_Interval
      <3> QED
        BY <2>1, <3>1, FS_Subset
    <2>3. Max(ids) \in ids /\ \A n \in ids : Max(ids) >= n
      BY <2>1, <2>2, MaxOfNaturals
    <2>4. Through(at, page) = Max(ids)
      BY <1>2 DEF Through
    <2> HIDE DEF ids
    <2>5. \A n \in ids : n \in Ids0 /\ n \in Nat
      BY <2>1, IdFacts DEF Ids0
    <2>6. \A p \in page : p[1] \in ids
      BY DEF ids
    <2>7. \A n \in ids : \E p \in page : n = p[1]
      BY DEF ids
    <2> QED
      BY <1>2, <2>3, <2>4, <2>5, <2>6, <2>7
  <1> QED
    BY <1>1, <1>2

LEMMA ImporterFields ==
    ASSUME ClickTypeOK, NEW i \in Importers
    PROVE  /\ importer[i] \in ImporterRows
           /\ importer[i].step \in {"idle", "fetching", "importing",
                                    "acknowledging", "repeating"}
           /\ importer[i].at \in Ids0 /\ importer[i].page \in SUBSET (Ids \X Events)
           /\ importer[i].more \in BOOLEAN
           /\ Seen(i) \in Ids0
           /\ importer[i].page = {} => Seen(i) = importer[i].at
           /\ importer[i].page # {} => \E p \in importer[i].page : Seen(i) = p[1]
           /\ \A p \in importer[i].page : p[1] <= Seen(i)
  <1>1. importer[i] \in ImporterRows
    BY DEF ClickTypeOK, ImporterRows
  <1>2. /\ importer[i].at \in Ids0 /\ importer[i].page \in SUBSET (Ids \X Events)
        /\ importer[i].step \in {"idle", "fetching", "importing", "acknowledging",
                                 "repeating"}
        /\ importer[i].more \in BOOLEAN
    BY <1>1 DEF ImporterRows
  <1>3. Seen(i) = Through(importer[i].at, importer[i].page)
    BY SeenIsThrough
  <1> QED
    BY <1>1, <1>2, <1>3, ThroughFacts

\* Nobody has looked further than SeenThrough.
LEMMA SeenThroughFacts ==
    ASSUME ClickTypeOK
    PROVE  /\ SeenThrough \in Ids0 /\ cursor <= SeenThrough
           /\ \A i \in Importers : Seen(i) <= SeenThrough
  <1> DEFINE S == {cursor} \cup {Seen(i) : i \in Importers}
  <1>1. S \in SUBSET Ids0 /\ S # {} /\ cursor \in S
    BY ImporterFields DEF ClickTypeOK
  <1>2. S \in SUBSET Nat /\ IsFiniteSet(S)
    <2>1. IsFiniteSet(Ids0)
      BY IdFacts, FS_Interval DEF Ids0
    <2>2. S \in SUBSET Nat
      BY <1>1, IdFacts
    <2> QED
      BY <1>1, <2>1, <2>2, FS_Subset
  <1>3. Max(S) \in S /\ \A n \in S : Max(S) >= n
    BY <1>1, <1>2, MaxOfNaturals
  <1>4. SeenThrough = Max(S)
    BY DEF SeenThrough
  <1>5. \A i \in Importers : Seen(i) \in S
    OBVIOUS
  <1> HIDE DEF S
  <1>6. \A n \in S : n \in Nat
    BY <1>2
  <1> QED
    BY <1>1, <1>3, <1>4, <1>5, <1>6

\* The ids a batch gets are new, in number enough, and different.
LEMMA NumberedFacts ==
    ASSUME ClickTypeOK, NEW batch \in SUBSET Events
    PROVE  /\ IsFiniteSet(batch) /\ Cardinality(batch) \in Nat
           /\ Numbered(batch) \in
                 [batch -> lastId + 1 .. lastId + Cardinality(batch)]
           /\ \A d, e \in batch : d # e => Numbered(batch)[d] # Numbered(batch)[e]
  <1> DEFINE n == Cardinality(batch)
             new == lastId + 1 .. lastId + n
             Ok(f) == \A d, e \in batch : d # e => f[d] # f[e]
  <1>1. IsFiniteSet(batch) /\ n \in Nat /\ ExistsBijection(batch, 1 .. n)
    BY FS_Subset, FS_CardinalityType, Fun_ExistsBijSymmetric, ClickSyncAssumption
  <1>2. PICK g \in Bijection(batch, 1 .. n) : TRUE
    BY <1>1 DEF ExistsBijection
  <1>3. g \in [batch -> 1 .. n] /\ \A d, e \in batch : g[d] = g[e] => d = e
    BY <1>2 DEF Bijection, Injection, IsInjective
  <1>4. lastId \in Nat
    BY IdFacts DEF ClickTypeOK
  <1> HIDE DEF n
  <1>5. \E f \in [batch -> new] : Ok(f)
    <2> DEFINE f == [e \in batch |-> lastId + g[e]]
    <2>1. \A e \in batch : g[e] \in Nat /\ 1 <= g[e] /\ g[e] <= n
      BY <1>1, <1>3
    <2>2. f \in [batch -> new]
      BY <1>1, <1>4, <2>1
    <2>3. Ok(f)
      BY <1>3, <1>4, <2>1
    <2> QED
      BY <2>2, <2>3
  <1>6. Numbered(batch) = CHOOSE f \in [batch -> new] : Ok(f)
    BY DEF Numbered, n
  <1> HIDE DEF new, Ok
  <1>7. Numbered(batch) \in [batch -> new] /\ Ok(Numbered(batch))
    BY <1>5, <1>6
  <1> QED
    BY <1>1, <1>7 DEF n, new, Ok

\* A new transaction gives each event of its batch an id nobody had.
LEMMA BatchFacts ==
    ASSUME ClickTypeOK, NEW batch \in SUBSET Events,
           lastId + Cardinality(batch) <= MaxId
    PROVE  /\ Numbered(batch) \in Transactions
           /\ DOMAIN Numbered(batch) = batch
           /\ lastId + Cardinality(batch) \in Ids0
           /\ lastId <= lastId + Cardinality(batch)
           /\ \A e \in batch : /\ lastId < Numbered(batch)[e]
                               /\ Numbered(batch)[e] <= lastId + Cardinality(batch)
           /\ \A d, e \in batch : d # e => Numbered(batch)[d] # Numbered(batch)[e]
  <1> DEFINE n == Cardinality(batch)
             f == Numbered(batch)
  <1>1. /\ n \in Nat /\ f \in [batch -> lastId + 1 .. lastId + n]
        /\ \A d, e \in batch : d # e => f[d] # f[e]
    BY NumberedFacts
  <1>2. lastId \in Nat /\ MaxId \in Nat /\ lastId + n <= MaxId
    BY IdFacts DEF ClickTypeOK
  <1> HIDE DEF n, f
  <1>3. lastId + 1 .. lastId + n \subseteq Ids
    BY <1>1, <1>2 DEF Ids
  <1>4. f \in [batch -> Ids]
    BY <1>1, <1>3
  <1>5. f \in Transactions
    BY <1>4 DEF Transactions
  <1>6. \A e \in batch : f[e] \in lastId + 1 .. lastId + n
    BY <1>1
  <1>7. lastId + n \in Ids0
    BY <1>1, <1>2 DEF Ids0
  <1> QED
    BY <1>1, <1>2, <1>5, <1>6, <1>7 DEF n, f

LEMMA TransactionFacts ==
    ASSUME NEW tx \in Transactions
    PROVE  DOMAIN tx \in SUBSET Events /\ \A e \in DOMAIN tx : tx[e] \in Ids
  BY DEF Transactions

\* An importer becomes what it is set to, the others stay.
LEMMA ImporterAfter ==
    ASSUME ClickTypeOK, NEW i \in Importers, NEW s \in ImporterRows, Become(i, s)
    PROVE  /\ importer' \in [Importers -> ImporterRows]
           /\ importer'[i] = s
           /\ \A k \in Importers \ {i} : importer'[k] = importer[k]
  BY DEF Become, ClickTypeOK, ImporterRows

LEMMA ImporterType ==
    ASSUME NEW step \in {"idle", "fetching", "importing", "acknowledging", "repeating"},
           NEW at \in Ids0, NEW page \in SUBSET (Ids \X Events), NEW more \in BOOLEAN
    PROVE  Importer(step, at, page, more) \in ImporterRows
  BY DEF Importer, ImporterRows

LEMMA RestingType == Resting \in ImporterRows
  BY ImporterType, IdFacts DEF Resting

\* A page is what was visible first: it has all that comes before its end.
LEMMA PageFacts ==
    ASSUME ClickTypeOK, NEW at \in Ids0
    PROVE  LET page == FirstOf(Visible(at), PageSize)
           IN  /\ page \in SUBSET (Ids \X Events)
               /\ \A p \in page : row[p[2]] = p[1] /\ p[1] > at
               /\ \A p \in page, e \in Events :
                     row[e] > at /\ row[e] <= p[1] => <<row[e], e>> \in page
  <1> DEFINE behind == Visible(at)
             page == FirstOf(behind, PageSize)
             below(p) == {q \in behind : q[1] < p[1]}
  <1>1. \A e \in Events : row[e] \in Ids0 /\ row[e] \in Nat
    BY IdFacts DEF ClickTypeOK
  <1>2. at \in Nat
    BY IdFacts
  <1>3. \A p \in behind : p[2] \in Events /\ p[1] = row[p[2]] /\ p[1] > at
                          /\ p[1] \in Ids /\ p = <<p[1], p[2]>>
    BY <1>1, <1>2, IdFacts DEF Visible
  <1>4. \A e \in Events : row[e] > at => <<row[e], e>> \in behind
    BY DEF Visible
  <1>5. IsFiniteSet(behind)
    <2> DEFINE some == {d \in Events : row[d] > at}
               f == [e \in some |-> <<row[e], e>>]
    <2>1. IsFiniteSet(some)
      BY FS_Subset, ClickSyncAssumption
    <2>2. behind = {<<row[e], e>> : e \in some}
      BY DEF Visible
    <2>3. f \in [some -> behind] /\ \A p \in behind : \E e \in some : f[e] = p
      BY <2>2
    <2>4. f \in Surjection(some, behind)
      BY <2>3, Fun_IsSurj
    <2> HIDE DEF f, some, behind
    <2> QED
      BY <2>1, <2>4, FS_Surjection
  <1>6. \A p \in page : p \in behind /\ Cardinality(below(p)) < PageSize
    BY DEF FirstOf
  <1>7. \A p \in behind : Cardinality(below(p)) < PageSize => p \in page
    BY DEF FirstOf
  <1>8. ASSUME NEW p \in page, NEW e \in Events, row[e] > at, row[e] <= p[1]
        PROVE  <<row[e], e>> \in page
    <2> DEFINE q == <<row[e], e>>
    <2>1. q \in behind /\ q[1] <= p[1] /\ q[1] \in Nat /\ p[1] \in Nat
      BY <1>1, <1>3, <1>4, <1>6, <1>8, IdFacts
    <2>2. \A r \in behind : r[1] \in Nat
      BY <1>3, IdFacts
    <2>3. below(q) \subseteq below(p)
      <3>1. \A r \in behind : r[1] < q[1] => r[1] < p[1]
        BY <2>1, <2>2
      <3> HIDE DEF q
      <3> QED
        BY <3>1
    <2>4. IsFiniteSet(below(p)) /\ Cardinality(below(p)) \in Nat
      BY <1>5, FS_Subset, FS_CardinalityType
    <2>5. Cardinality(below(q)) <= Cardinality(below(p)) /\ Cardinality(below(q)) \in Nat
      BY <2>3, <2>4, FS_Subset, FS_CardinalityType
    <2>6. Cardinality(below(p)) < PageSize /\ PageSize \in Nat
      BY <1>6, ClickSyncAssumption
    <2>7. Cardinality(below(q)) < PageSize
      <3> HIDE DEF below
      <3> QED
        BY <2>4, <2>5, <2>6
    <2> HIDE DEF below, page, q
    <2>8. q \in page
      BY <1>7, <2>1, <2>7
    <2> QED
      BY <2>8 DEF q
  <1>9. page \in SUBSET (Ids \X Events)
    <2>1. ASSUME NEW p \in behind PROVE p \in Ids \X Events
      <3>1. p[1] \in Ids /\ p[2] \in Events /\ p = <<p[1], p[2]>>
        BY <1>3
      <3> HIDE DEF behind
      <3> QED
        BY <3>1
    <2> HIDE DEF page, behind
    <2> QED
      BY <1>6, <2>1
  <1> HIDE DEF page, behind, below
  <1>10. \A p \in page : row[p[2]] = p[1] /\ p[1] > at
    BY <1>3, <1>6
  <1> QED
    BY <1>8, <1>9, <1>10 DEF page, behind

-----------------------------------------------------------------------------
(* Types *)

\* ClickTypeOK with the record types by name.
ClickShapes ==
    /\ code \in [Events -> Codes \cup {NoCode}]
    /\ visit \in [Events -> {"none", "inserting", "spooling", "done", "dropped"}]
    /\ lastId \in Ids0
    /\ inserts \subseteq Transactions
    /\ row \in [Events -> Ids0]
    /\ spool \subseteq Events
    /\ replay \in Replays
    /\ acked \in Ids0
    /\ cursor \in Ids0
    /\ imported \subseteq Ids \X Events
    /\ importer \in [Importers -> ImporterRows]
    /\ late \subseteq Events

LEMMA ShapesAgree == (ClickTypeOK <=> ClickShapes) /\ (ClickTypeOK' <=> ClickShapes')
  BY DEF ClickTypeOK, ClickShapes, ImporterRows, Replays

LEMMA NoReplayType == NoReplay \in Replays
  <1>1. <<>> \in [{} -> Ids]
    OBVIOUS
  <1>2. <<>> \in Transactions
    BY <1>1 DEF Transactions
  <1> QED
    BY <1>2 DEF NoReplay, Replays

LEMMA ClickTypeInit == ClickInit => ClickTypeOK
  <1> SUFFICES ASSUME ClickInit PROVE ClickShapes
    BY ShapesAgree
  <1> QED
    BY RestingType, NoReplayType, IdFacts DEF ClickInit, ClickShapes

LEMMA OneEvent ==
    ASSUME NEW e \in Events
    PROVE  {e} \in SUBSET Events /\ Cardinality({e}) = 1
  BY FS_Singleton

LEMMA RedirectType ==
    ASSUME ClickTypeOK, NEW e \in Events, NEW c \in Codes, Redirect(e, c)
    PROVE  ClickTypeOK'
  <1>1. ClickShapes
    BY ShapesAgree
  <1>2. lastId + 1 <= MaxId
    BY <1>1, IdFacts DEF Redirect, ClickShapes
  <1>3. Numbered({e}) \in Transactions /\ lastId + 1 \in Ids0
    BY <1>2, OneEvent, BatchFacts
  <1>4. ClickShapes'
    BY <1>1, <1>3 DEF Redirect, ClickShapes, syncVars
  <1> QED
    BY <1>4, ShapesAgree

LEMMA InsertType ==
    ASSUME ClickTypeOK, NEW tx \in inserts, InsertCommits(tx) \/ InsertFails(tx)
    PROVE  ClickTypeOK'
  <1>1. ClickShapes /\ tx \in Transactions
    BY ShapesAgree DEF ClickTypeOK
  <1>2. DOMAIN tx \in SUBSET Events /\ \A e \in DOMAIN tx : tx[e] \in Ids0
    BY <1>1, TransactionFacts, IdFacts
  <1>3. NoReplay \in Replays /\ [replay EXCEPT !.step = "inserted"] \in Replays
    BY <1>1, NoReplayType DEF ClickShapes, Replays
  <1>4. CASE InsertCommits(tx)
    <2>1. row' \in [Events -> Ids0]
      BY <1>1, <1>2, <1>4 DEF InsertCommits, ClickShapes
    <2>2. visit' \in [Events -> {"none", "inserting", "spooling", "done", "dropped"}]
      BY <1>1, <1>4 DEF InsertCommits, ClickShapes
    <2>3. replay' \in Replays /\ late' \subseteq Events /\ inserts' \subseteq Transactions
      BY <1>1, <1>2, <1>3, <1>4 DEF InsertCommits, ClickShapes
    <2>4. ClickShapes'
      BY <1>1, <1>4, <2>1, <2>2, <2>3 DEF InsertCommits, ClickShapes, syncVars
    <2> QED
      BY <2>4, ShapesAgree
  <1>5. CASE InsertFails(tx)
    <2>1. visit' \in [Events -> {"none", "inserting", "spooling", "done", "dropped"}]
      BY <1>1, <1>5 DEF InsertFails, ClickShapes
    <2>2. replay' \in Replays /\ inserts' \subseteq Transactions
      BY <1>1, <1>3, <1>5 DEF InsertFails, ClickShapes
    <2>3. ClickShapes'
      BY <1>1, <1>5, <2>1, <2>2 DEF InsertFails, ClickShapes, syncVars
    <2> QED
      BY <2>3, ShapesAgree
  <1> QED
    BY <1>4, <1>5

LEMMA ReplayInsertsType ==
    ASSUME ClickTypeOK, ReplayInserts
    PROVE  /\ ClickTypeOK'
           /\ \E batch \in SUBSET spool :
                 /\ lastId + Cardinality(batch) <= MaxId
                 /\ replay' = [step |-> "inserting", tx |-> Numbered(batch)]
                 /\ inserts' = inserts \cup {Numbered(batch)}
                 /\ lastId' = lastId + Cardinality(batch)
  <1>1. ClickShapes
    BY ShapesAgree
  <1>2. PICK batch \in SUBSET spool :
           /\ lastId + Cardinality(batch) <= MaxId
           /\ replay' = [step |-> "inserting", tx |-> Numbered(batch)]
           /\ inserts' = inserts \cup {Numbered(batch)}
           /\ lastId' = lastId + Cardinality(batch)
    BY DEF ReplayInserts, kSubset
  <1>3. batch \in SUBSET Events
    BY <1>1 DEF ClickShapes
  <1>4. Numbered(batch) \in Transactions /\ lastId + Cardinality(batch) \in Ids0
    BY <1>2, <1>3, BatchFacts
  <1>5. replay' \in Replays
    BY <1>2, <1>4 DEF Replays
  <1>6. ClickShapes'
    BY <1>1, <1>2, <1>4, <1>5 DEF ReplayInserts, ClickShapes, syncVars
  <1> QED
    BY <1>2, <1>6, ShapesAgree

LEMMA ServiceType == ClickTypeOK /\ ServiceNext => ClickTypeOK'
  <1> SUFFICES ASSUME ClickTypeOK, ServiceNext PROVE ClickTypeOK'
    OBVIOUS
  <1>0. ClickShapes
    BY ShapesAgree
  <1>1. ASSUME NEW e \in Events, SpoolClick(e) PROVE ClickShapes'
    BY <1>0, <1>1 DEF SpoolClick, ClickShapes, syncVars
  <1>2. ASSUME NEW e \in Events, SpoolFails(e) PROVE ClickShapes'
    BY <1>0, <1>2 DEF SpoolFails, ClickShapes, syncVars
  <1>3. ASSUME NEW e \in Events, Purge(e) PROVE ClickShapes'
    BY <1>0, <1>3, IdFacts DEF Purge, ClickShapes, syncVars
  <1>4. CASE ReplayRemoves
    BY <1>0, <1>4, NoReplayType, ShapesAgree DEF ReplayRemoves, ClickShapes, syncVars
  <1>5. CASE Restart
    BY <1>0, <1>5, NoReplayType, ShapesAgree DEF Restart, ClickShapes, syncVars
  <1> QED
    BY <1>1, <1>2, <1>3, <1>4, <1>5, ShapesAgree, RedirectType, InsertType,
       ReplayInsertsType DEF ServiceNext

\* What the cursor is after an import, and where the importer stands.
LEMMA ImportFacts ==
    ASSUME ClickTypeOK, NEW i \in Importers
    PROVE  /\ Max({cursor, Seen(i)}) \in {cursor, Seen(i)}
           /\ cursor <= Max({cursor, Seen(i)}) /\ Seen(i) <= Max({cursor, Seen(i)})
           /\ Max({cursor, Seen(i)}) \in Ids0
           /\ Importer("acknowledging", Seen(i), {}, importer[i].more) \in ImporterRows
  <1>1. cursor \in Ids0 /\ Seen(i) \in Ids0 /\ cursor \in Nat /\ Seen(i) \in Nat
    BY ImporterFields, IdFacts DEF ClickTypeOK
  <1>2. /\ Max({cursor, Seen(i)}) \in {cursor, Seen(i)}
        /\ cursor <= Max({cursor, Seen(i)}) /\ Seen(i) <= Max({cursor, Seen(i)})
    BY <1>1, MaxOfTwo
  <1>3. Importer("acknowledging", Seen(i), {}, importer[i].more) \in ImporterRows
    BY <1>1, ImporterFields, ImporterType
  <1> QED
    BY <1>1, <1>2, <1>3

\* The importer a step of SyncNext is about gets a new record, the others
\* keep theirs.
LEMMA SyncMoves ==
    ASSUME ClickTypeOK, SyncNext
    PROVE  \E i \in Importers :
             /\ importer' \in [Importers -> ImporterRows]
             /\ \A k \in Importers \ {i} : importer'[k] = importer[k]
             /\ \/ /\ importer'[i].step = "importing"
                   /\ importer'[i].at = importer[i].at
                   /\ importer'[i].page = FirstOf(Visible(importer[i].at), PageSize)
                   /\ importer'[i].page # {}
                \/ /\ importer'[i].step # "importing"
                   /\ importer'[i].page = {}
                   /\ \/ importer'[i].at \in {0, cursor, importer[i].at}
                      \/ importer'[i].at = Seen(i) /\ ImportPage(i)
  <1> USE IdFacts
  <1>0. PICK i \in Importers : \/ ReadCursor(i) \/ FetchClicks(i) \/ ImportPage(i)
                               \/ ImportFails(i) \/ Acknowledge(i) \/ ImporterStops(i)
    BY DEF SyncNext
  <1> DEFINE page == FirstOf(Visible(importer[i].at), PageSize)
  <1>1. importer[i].at \in Ids0 /\ importer[i].more \in BOOLEAN /\ cursor \in Ids0
    BY ImporterFields DEF ClickTypeOK
  <1>2. page \in SUBSET (Ids \X Events)
    BY <1>1, PageFacts
  <1> HIDE DEF page
  <1>3. Resting \in ImporterRows /\ Resting.at = 0 /\ Resting.page = {}
        /\ Resting.step = "idle"
    BY RestingType DEF Resting, Importer
  <1>4. CASE ReadCursor(i)
    <2>1. Importer("fetching", cursor, {}, FALSE) \in ImporterRows
      BY <1>1, ImporterType
    <2> QED
      BY <1>4, <2>1, ImporterAfter DEF ReadCursor, Importer
  <1>5. CASE FetchClicks(i)
    <2>1. PICK s : /\ Become(i, s)
                   /\ \/ /\ s = Importer("importing", importer[i].at, page,
                                         page # Visible(importer[i].at))
                         /\ page # {}
                      \/ s = Importer("repeating", importer[i].at, {}, FALSE)
                      \/ s = Resting
      BY <1>5 DEF FetchClicks, page
    <2>2. /\ Importer("importing", importer[i].at, page,
                      page # Visible(importer[i].at)) \in ImporterRows
          /\ Importer("repeating", importer[i].at, {}, FALSE) \in ImporterRows
      BY <1>1, <1>2, ImporterType
    <2>3. importer' \in [Importers -> ImporterRows] /\ importer'[i] = s
          /\ \A k \in Importers \ {i} : importer'[k] = importer[k]
      BY <1>3, <2>1, <2>2, ImporterAfter
    <2>4. \/ /\ s.step = "importing" /\ s.at = importer[i].at
             /\ s.page = page /\ page # {}
          \/ /\ s.step # "importing" /\ s.page = {}
             /\ s.at \in {0, importer[i].at}
      BY <1>3, <2>1 DEF Importer
    <2> QED
      BY <2>3, <2>4 DEF page
  <1>6. CASE ImportPage(i)
    <2> DEFINE s == Importer("acknowledging", Seen(i), {}, importer[i].more)
    <2>1. Become(i, s) /\ s \in ImporterRows
      BY <1>6, ImportFacts DEF ImportPage
    <2>2. s.at = Seen(i) /\ s.page = {} /\ s.step # "importing"
      BY DEF Importer
    <2> HIDE DEF s
    <2> QED
      BY <1>6, <2>1, <2>2, ImporterAfter
  <1>7. CASE ImportFails(i) \/ ImporterStops(i)
    BY <1>3, <1>7, ImporterAfter DEF ImportFails, ImporterStops
  <1>8. CASE Acknowledge(i)
    <2> DEFINE s == IF importer[i].step = "acknowledging" /\ importer[i].more
                    THEN Importer("fetching", importer[i].at, {}, FALSE) ELSE Resting
    <2>1. s \in ImporterRows
      BY <1>1, <1>3, ImporterType
    <2>2. s.at \in {0, importer[i].at} /\ s.page = {} /\ s.step # "importing"
      BY <1>3 DEF Importer
    <2>3. Become(i, s)
      BY <1>8 DEF Acknowledge
    <2> HIDE DEF s
    <2> QED
      BY <2>1, <2>2, <2>3, ImporterAfter
  <1> QED
    BY <1>0, <1>4, <1>5, <1>6, <1>7, <1>8

\* What steps of the import do to the cursor, the clicks and the
\* acknowledgement.
LEMMA SyncEffects ==
    ASSUME ClickTypeOK, NEW i \in Importers,
           \/ ReadCursor(i) \/ FetchClicks(i) \/ ImportPage(i)
           \/ ImportFails(i) \/ Acknowledge(i) \/ ImporterStops(i)
    PROVE  /\ \/ UNCHANGED <<cursor, imported>>
              \/ /\ importer[i].step = "importing"
                 /\ cursor' = Max({cursor, Seen(i)})
                 /\ imported' = Stored(importer[i].page)
                 /\ Acceptable(importer[i].page)
           /\ \/ acked' = acked
              \/ Acknowledge(i) /\ acked' = Acknowledged(importer[i].at)
           /\ UNCHANGED serviceVars
           /\ Fault \/ UNCHANGED faults
  <1>1. CASE ReadCursor(i) \/ FetchClicks(i)
    BY <1>1 DEF ReadCursor, FetchClicks, serviceVars
  <1>2. CASE ImportPage(i)
    BY <1>2 DEF ImportPage, serviceVars
  <1>3. CASE ImportFails(i)
    BY <1>3 DEF ImportFails, serviceVars
  <1>4. CASE Acknowledge(i)
    BY <1>4 DEF Acknowledge, serviceVars
  <1>5. CASE ImporterStops(i)
    BY <1>5 DEF ImporterStops, serviceVars
  <1> QED
    BY <1>1, <1>2, <1>3, <1>4, <1>5

LEMMA AcknowledgedFacts ==
    ASSUME ClickTypeOK, NEW n \in Ids0
    PROVE  /\ Acknowledged(n) \in {acked, n}
           /\ Acknowledged(n) \in Ids0
           /\ acked <= Acknowledged(n)
  <1>1. acked \in Nat /\ n \in Nat /\ acked \in Ids0
    BY IdFacts DEF ClickTypeOK
  <1> QED
    BY <1>1, MaxOfTwo DEF Acknowledged

LEMMA SyncType == ClickTypeOK /\ SyncNext => ClickTypeOK'
  <1> SUFFICES ASSUME ClickTypeOK, SyncNext PROVE ClickShapes'
    BY ShapesAgree
  <1>1. ClickShapes
    BY ShapesAgree
  <1>2. PICK i \in Importers : \/ ReadCursor(i) \/ FetchClicks(i) \/ ImportPage(i)
                               \/ ImportFails(i) \/ Acknowledge(i) \/ ImporterStops(i)
    BY DEF SyncNext
  <1>3. importer' \in [Importers -> ImporterRows]
    BY SyncMoves
  <1>4. acked' \in Ids0
    BY <1>1, <1>2, SyncEffects, AcknowledgedFacts, ImporterFields DEF ClickShapes
  <1>5. cursor' \in Ids0 /\ imported' \subseteq Ids \X Events
    <2>1. CASE UNCHANGED <<cursor, imported>>
      BY <1>1, <2>1 DEF ClickShapes
    <2>2. CASE /\ cursor' = Max({cursor, Seen(i)})
               /\ imported' = Stored(importer[i].page)
      <3>1. Stored(importer[i].page) \subseteq imported \cup importer[i].page
        BY DEF Stored
      <3> QED
        BY <1>1, <2>2, <3>1, ImportFacts, ImporterFields DEF ClickShapes
    <2> QED
      BY <1>2, <2>1, <2>2, SyncEffects
  <1>6. UNCHANGED serviceVars
    BY <1>2, SyncEffects
  <1> QED
    BY <1>1, <1>3, <1>4, <1>5, <1>6 DEF ClickShapes, serviceVars

LEMMA ClickTypeStep == ClickTypeOK /\ [Next]_vars => ClickTypeOK'
  <1> SUFFICES ASSUME ClickTypeOK, [Next]_vars PROVE ClickTypeOK'
    OBVIOUS
  <1>1. CASE UNCHANGED clickVars
    BY <1>1 DEF clickVars, ClickTypeOK
  <1> QED
    BY <1>1, ServiceType, SyncType DEF Next, vars

-----------------------------------------------------------------------------
(* What the service does to ids, rows and clicks *)

LEMMA ServiceLeaves ==
    ASSUME ServiceNext
    PROVE  UNCHANGED <<cursor, imported, importer, acked>> /\ (Fault \/ UNCHANGED faults)
  <1>1. ASSUME NEW e \in Events, NEW c \in Codes, Redirect(e, c)
        PROVE  UNCHANGED <<cursor, imported, importer, acked, faults>>
    BY <1>1 DEF Redirect, syncVars
  <1>2. ASSUME NEW e \in Events, SpoolClick(e) \/ SpoolFails(e) \/ Purge(e)
        PROVE  /\ UNCHANGED <<cursor, imported, importer, acked>>
               /\ Fault \/ UNCHANGED faults
    BY <1>2 DEF SpoolClick, SpoolFails, Purge, syncVars
  <1>3. ASSUME NEW tx \in inserts, InsertCommits(tx) \/ InsertFails(tx)
        PROVE  /\ UNCHANGED <<cursor, imported, importer, acked>>
               /\ Fault \/ UNCHANGED faults
    BY <1>3 DEF InsertCommits, InsertFails, syncVars
  <1>4. ASSUME ReplayInserts \/ ReplayRemoves \/ Restart
        PROVE  /\ UNCHANGED <<cursor, imported, importer, acked>>
               /\ Fault \/ UNCHANGED faults
    BY <1>4 DEF ReplayInserts, ReplayRemoves, Restart, syncVars
  <1> QED
    BY <1>1, <1>2, <1>3, <1>4 DEF ServiceNext

\* A row appears when an insert of its event commits and disappears when it
\* is purged, and never changes in between.
LEMMA RowMoves ==
    ASSUME ClickTypeOK, ServiceNext, NEW e \in Events
    PROVE  \/ row'[e] = row[e]
           \/ \E tx \in inserts :
                 /\ InsertCommits(tx) /\ e \in DOMAIN tx
                 /\ row[e] = 0 /\ row'[e] = tx[e] /\ tx[e] \in Ids
           \/ Purge(e) /\ row'[e] = 0
  <1>0. row \in [Events -> Ids0] /\ inserts \subseteq Transactions
    BY DEF ClickTypeOK
  <1>1. ASSUME NEW tx \in inserts, InsertCommits(tx), row'[e] # row[e]
        PROVE  e \in DOMAIN tx /\ row[e] = 0 /\ row'[e] = tx[e] /\ tx[e] \in Ids
    <2>1. e \in DOMAIN tx /\ row[e] = 0 /\ row'[e] = tx[e]
      BY <1>1 DEF InsertCommits
    <2> QED
      BY <1>0, <2>1, TransactionFacts
  <1>2. ASSUME NEW d \in Events, Purge(d), row'[e] # row[e]
        PROVE  Purge(e) /\ row'[e] = 0
    BY <1>0, <1>2 DEF Purge
  <1>3. CASE UNCHANGED row
    BY <1>3
  <1> QED
    BY <1>1, <1>2, <1>3 DEF ServiceNext, Redirect, SpoolClick, SpoolFails, InsertFails,
                            ReplayInserts, ReplayRemoves, Restart

\* Only a redirect and the replay start a transaction.
LEMMA InsertsMove ==
    ASSUME ClickTypeOK, Kept, ServiceNext
    PROVE  \/ inserts' \subseteq inserts /\ lastId' = lastId
           \/ \E batch \in SUBSET Events :
                 /\ lastId + Cardinality(batch) <= MaxId
                 /\ inserts' = inserts \cup {Numbered(batch)}
                 /\ lastId' = lastId + Cardinality(batch)
                 /\ row' = row
                 /\ \A e \in batch : visit'[e] # "none"
  <1>1. ASSUME NEW e \in Events, NEW c \in Codes, Redirect(e, c)
        PROVE  \E batch \in SUBSET Events :
                 /\ lastId + Cardinality(batch) <= MaxId
                 /\ inserts' = inserts \cup {Numbered(batch)}
                 /\ lastId' = lastId + Cardinality(batch)
                 /\ row' = row
                 /\ \A d \in batch : visit'[d] # "none"
    <2>1. {e} \in SUBSET Events /\ Cardinality({e}) = 1
      BY OneEvent
    <2>2. lastId + 1 <= MaxId
      BY <1>1, IdFacts DEF Redirect, ClickTypeOK
    <2>3. visit'[e] # "none"
      BY <1>1 DEF Redirect, ClickTypeOK
    <2> QED
      BY <1>1, <2>1, <2>2, <2>3 DEF Redirect
  <1>2. CASE ReplayInserts
    <2>1. PICK batch \in SUBSET spool :
                 /\ lastId + Cardinality(batch) <= MaxId
                 /\ inserts' = inserts \cup {Numbered(batch)}
                 /\ lastId' = lastId + Cardinality(batch)
      BY <1>2, ReplayInsertsType
    <2>2. batch \in SUBSET Events /\ row' = row /\ visit' = visit
      BY <1>2 DEF ReplayInserts, ClickTypeOK
    <2>3. \A e \in batch : visit'[e] # "none"
      BY <2>2 DEF Kept
    <2> QED
      BY <2>1, <2>2, <2>3
  <1>3. ASSUME NEW tx \in inserts, InsertCommits(tx) \/ InsertFails(tx)
        PROVE  inserts' \subseteq inserts /\ lastId' = lastId
    BY <1>3 DEF InsertCommits, InsertFails
  <1>4. CASE inserts' = inserts /\ lastId' = lastId
    BY <1>4
  <1> QED
    BY <1>1, <1>2, <1>3, <1>4 DEF ServiceNext, SpoolClick, SpoolFails, Purge,
                                  ReplayRemoves, Restart

\* A click that was made stays made.
LEMMA VisitStays ==
    ASSUME ClickTypeOK, ServiceNext, NEW e \in Events, visit[e] # "none"
    PROVE  visit'[e] # "none"
  <1>0. visit \in [Events -> {"none", "inserting", "spooling", "done", "dropped"}]
    BY DEF ClickTypeOK
  <1>1. ASSUME NEW d \in Events, NEW c \in Codes, Redirect(d, c)
        PROVE  visit'[e] # "none"
    BY <1>0, <1>1 DEF Redirect
  <1>2. ASSUME NEW d \in Events, SpoolClick(d) \/ SpoolFails(d)
        PROVE  visit'[e] # "none"
    BY <1>0, <1>2 DEF SpoolClick, SpoolFails
  <1>3. ASSUME NEW tx \in inserts, InsertCommits(tx) \/ InsertFails(tx)
        PROVE  visit'[e] # "none"
    BY <1>3 DEF InsertCommits, InsertFails
  <1>4. CASE Restart
    BY <1>4 DEF Restart
  <1>5. CASE visit' = visit
    BY <1>5
  <1> QED
    BY <1>1, <1>2, <1>3, <1>4, <1>5 DEF ServiceNext, Purge, ReplayInserts, ReplayRemoves

\* A click that is out of the request, the spool and the transactions never
\* comes back into one.
LEMMA SettledStays ==
    ASSUME ClickTypeOK, ServiceNext, NEW e \in Events, Settled(e)
    PROVE  Settled(e)'
  <1>0. /\ visit \in [Events -> {"none", "inserting", "spooling", "done", "dropped"}]
        /\ visit[e] \in {"done", "dropped"} /\ e \notin spool
        /\ \A tx \in inserts : e \notin DOMAIN tx
    BY DEF ClickTypeOK, Settled, InFlight
  <1>1. visit'[e] = visit[e]
    <2>1. ASSUME NEW d \in Events, NEW c \in Codes, Redirect(d, c)
          PROVE  visit'[e] = visit[e]
      BY <1>0, <2>1 DEF Redirect
    <2>2. ASSUME NEW d \in Events, SpoolClick(d) \/ SpoolFails(d)
          PROVE  visit'[e] = visit[e]
      BY <1>0, <2>2 DEF SpoolClick, SpoolFails
    <2>3. ASSUME NEW tx \in inserts, InsertCommits(tx) \/ InsertFails(tx)
          PROVE  visit'[e] = visit[e]
      BY <1>0, <2>3 DEF InsertCommits, InsertFails
    <2>4. CASE Restart
      BY <1>0, <2>4 DEF Restart
    <2>5. CASE visit' = visit
      BY <2>5
    <2> QED
      BY <2>1, <2>2, <2>3, <2>4, <2>5 DEF ServiceNext, Purge, ReplayInserts, ReplayRemoves
  <1>2. e \notin spool'
    <2>1. ASSUME NEW d \in Events, SpoolClick(d)
          PROVE  e \notin spool'
      BY <1>0, <2>1 DEF SpoolClick
    <2>2. CASE spool' \subseteq spool
      BY <1>0, <2>2
    <2> QED
      BY <2>1, <2>2 DEF ServiceNext, Redirect, SpoolFails, InsertCommits, InsertFails,
                        ReplayInserts, ReplayRemoves, Restart, Purge
  <1>3. \A tx \in inserts' : e \notin DOMAIN tx
    <2>1. ASSUME NEW d \in Events, NEW c \in Codes, Redirect(d, c)
          PROVE  \A tx \in inserts' : e \notin DOMAIN tx
      <3>1. d # e /\ DOMAIN Numbered({d}) = {d}
        BY <1>0, <2>1, OneEvent, NumberedFacts DEF Redirect
      <3> QED
        BY <1>0, <2>1, <3>1 DEF Redirect
    <2>2. CASE ReplayInserts
      <3>1. PICK batch \in SUBSET spool : inserts' = inserts \cup {Numbered(batch)}
        BY <2>2, ReplayInsertsType
      <3>2. DOMAIN Numbered(batch) = batch
        BY NumberedFacts DEF ClickTypeOK
      <3> QED
        BY <1>0, <3>1, <3>2
    <2>3. ASSUME NEW tx \in inserts, InsertCommits(tx) \/ InsertFails(tx)
          PROVE  inserts' \subseteq inserts
      BY <2>3 DEF InsertCommits, InsertFails
    <2>4. CASE inserts' \subseteq inserts
      BY <1>0, <2>4
    <2> QED
      BY <2>1, <2>2, <2>3, <2>4 DEF ServiceNext, SpoolClick, SpoolFails, Purge,
                                    ReplayRemoves, Restart
  <1> QED
    BY <1>0, <1>1, <1>2, <1>3 DEF Settled, InFlight

\* What the acknowledgement of a page names stays known.
LEMMA KnownStays ==
    ASSUME ClickTypeOK, ServiceNext \/ SyncNext
    PROVE  \A n \in Ids0 :
              Known(n) => n <= acked' \/ \E e \in Events : row'[e] = n
  <1> SUFFICES ASSUME NEW n \in Ids0, Known(n)
               PROVE  n <= acked' \/ \E e \in Events : row'[e] = n
    OBVIOUS
  <1>0. acked \in Nat /\ n \in Nat /\ row \in [Events -> Ids0] /\ acked \in Ids0
    BY IdFacts DEF ClickTypeOK
  <1>1. CASE ServiceNext
    <2>1. acked' = acked
      BY <1>1, ServiceLeaves
    <2>2. ASSUME NEW e \in Events, row[e] = n, n > acked PROVE row'[e] = n
      BY <1>0, <1>1, <2>2, RowMoves, IdFacts DEF Purge
    <2> QED
      BY <1>0, <2>1, <2>2 DEF Known
  <1>2. CASE SyncNext
    <2>1. PICK i \in Importers :
              \/ ReadCursor(i) \/ FetchClicks(i) \/ ImportPage(i)
              \/ ImportFails(i) \/ Acknowledge(i) \/ ImporterStops(i)
      BY <1>2 DEF SyncNext
    <2>2. row' = row /\ acked' \in Nat /\ acked <= acked'
      <3>1. acked' = acked \/ acked' = Acknowledged(importer[i].at)
        BY <2>1, SyncEffects
      <3>2. importer[i].at \in Ids0
        BY ImporterFields
      <3>3. row' = row
        BY <2>1, SyncEffects DEF serviceVars
      <3>4. acked' \in Ids0 /\ acked <= acked'
        BY <1>0, <3>1, <3>2, AcknowledgedFacts
      <3> QED
        BY <3>3, <3>4, IdFacts
    <2> QED
      BY <1>0, <2>2 DEF Known
  <1> QED
    BY <1>1, <1>2

-----------------------------------------------------------------------------
(* One event, one id *)

\* The service shows an event under a new id only when its insert commits.
LEMMA ServiceShows ==
    ASSUME ClickTypeOK, ServiceNext, NEW n \in Ids, NEW e \in Events, Shown(n, e)'
    PROVE  \/ Shown(n, e) /\ row'[e] = row[e]
           \/ Shown(n, e) /\ Settled(e)
           \/ \E tx \in inserts :
                 e \in DOMAIN tx /\ tx[e] = n /\ row[e] = 0 /\ row'[e] = n
           \/ \E tx \in inserts :
                 e \in DOMAIN tx /\ row[e] = 0 /\ Shown(n, e)
  <1>1. importer' = importer /\ imported' = imported
    BY ServiceLeaves
  <1>2. CASE row'[e] = row[e]
    BY <1>1, <1>2 DEF Shown
  <1>3. CASE \E tx \in inserts :
                /\ InsertCommits(tx) /\ e \in DOMAIN tx
                /\ row[e] = 0 /\ row'[e] = tx[e] /\ tx[e] \in Ids
    BY <1>1, <1>3 DEF Shown
  <1>4. CASE Purge(e) /\ row'[e] = 0
    <2>1. Shown(n, e)
      BY <1>1, <1>4, IdFacts DEF Shown
    <2> QED
      BY <1>4, <2>1 DEF Purge
  <1> QED
    BY <1>2, <1>3, <1>4, RowMoves

\* The import shows nothing that was not shown.
LEMMA SyncShows ==
    ASSUME ClickTypeOK, SyncNext, NEW n \in Ids, NEW e \in Events, Shown(n, e)'
    PROVE  Shown(n, e) /\ row'[e] = row[e]
  <1>1. PICK i \in Importers :
             /\ \A k \in Importers \ {i} : importer'[k] = importer[k]
             /\ \/ importer'[i].page = {}
                \/ importer'[i].page = FirstOf(Visible(importer[i].at), PageSize)
    BY SyncMoves
  <1>2. PICK k \in Importers :
           \/ ReadCursor(k) \/ FetchClicks(k) \/ ImportPage(k)
           \/ ImportFails(k) \/ Acknowledge(k) \/ ImporterStops(k)
    BY DEF SyncNext
  <1>3. row' = row
    BY <1>2, SyncEffects DEF serviceVars
  <1>4. imported' \subseteq imported \cup importer[k].page
    BY <1>2, SyncEffects DEF Stored
  <1>5. ASSUME <<n, e>> \in importer'[i].page PROVE Shown(n, e)
    <2>1. importer[i].at \in Ids0
      BY ImporterFields
    <2>2. row[<<n, e>>[2]] = <<n, e>>[1]
      BY <1>1, <1>5, <2>1, PageFacts
    <2> QED
      BY <2>2 DEF Shown
  <1>6. ASSUME NEW l \in Importers, <<n, e>> \in importer'[l].page PROVE Shown(n, e)
    BY <1>1, <1>5, <1>6 DEF Shown
  <1> QED
    BY <1>3, <1>4, <1>6 DEF Shown

LEMMA IdInvService ==
    ASSUME ClickTypeOK, IdInv, Kept, ServiceNext
    PROVE  IdInv'
  <1>1. ASSUME NEW n \in Ids, NEW e \in Events, Shown(n, e)' PROVE Carries(n, e)
    BY <1>1, ServiceShows DEF Carries, Given
  <1>2. ASSUME NEW n \in Ids, NEW e \in Events, Carries(n, e)
        PROVE  n <= lastId /\ visit'[e] # "none"
    BY <1>2, VisitStays DEF IdInv
  <1>3. CASE inserts' \subseteq inserts /\ lastId' = lastId
    <2>1. ASSUME NEW n \in Ids, NEW e \in Events, Carries(n, e)' PROVE Carries(n, e)
      BY <1>1, <1>3, <2>1 DEF Carries, Given
    <2> QED
      BY <1>2, <1>3, <2>1 DEF IdInv
  <1>4. ASSUME NEW batch \in SUBSET Events,
               lastId + Cardinality(batch) <= MaxId,
               inserts' = inserts \cup {Numbered(batch)},
               lastId' = lastId + Cardinality(batch),
               \A e \in batch : visit'[e] # "none"
        PROVE  IdInv'
    <2> DEFINE tx == Numbered(batch)
               Fresh(n, e) == e \in batch /\ tx[e] = n
    <2>1. /\ DOMAIN tx = batch /\ lastId <= lastId' /\ lastId \in Nat /\ lastId' \in Nat
          /\ \A e \in batch : lastId < tx[e] /\ tx[e] <= lastId'
          /\ \A d, e \in batch : d # e => tx[d] # tx[e]
      BY <1>4, BatchFacts, IdFacts DEF ClickTypeOK
    <2> HIDE DEF tx
    <2>2. ASSUME NEW n \in Ids, NEW e \in Events, Carries(n, e)'
          PROVE  Carries(n, e) \/ Fresh(n, e)
      BY <1>1, <1>4, <2>1, <2>2 DEF Carries, Given, tx
    <2>3. ASSUME NEW n \in Ids, NEW e \in Events, Fresh(n, e)
          PROVE  n > lastId /\ n <= lastId' /\ visit'[e] # "none"
      BY <1>4, <2>1, <2>3
    <2>4. ASSUME NEW n \in Ids, NEW e \in Events, Carries(n, e)'
          PROVE  n <= lastId' /\ visit'[e] # "none"
      BY <1>2, <2>1, <2>2, <2>3, <2>4, IdFacts
    <2>5. ASSUME NEW n \in Ids, NEW d \in Events, NEW e \in Events,
                 Carries(n, d)', Carries(n, e)'
          PROVE  d = e
      <3>1. CASE Fresh(n, d) /\ Fresh(n, e)
        BY <2>1, <3>1
      <3>2. CASE Carries(n, d) /\ Carries(n, e)
        BY <3>2 DEF IdInv
      <3>3. ~ (Carries(n, d) /\ Fresh(n, e)) /\ ~ (Fresh(n, d) /\ Carries(n, e))
        BY <1>2, <2>1, <2>3, IdFacts
      <3> QED
        BY <2>2, <2>5, <3>1, <3>2, <3>3
    <2> QED
      BY <2>4, <2>5 DEF IdInv
  <1> QED
    BY <1>3, <1>4, InsertsMove

LEMMA IdInvSync ==
    ASSUME ClickTypeOK, IdInv, SyncNext
    PROVE  IdInv'
  <1>1. inserts' = inserts /\ lastId' = lastId /\ visit' = visit
    BY SyncEffects DEF SyncNext, serviceVars
  <1>2. ASSUME NEW n \in Ids, NEW e \in Events, Carries(n, e)' PROVE Carries(n, e)
    BY <1>1, <1>2, SyncShows DEF Carries, Given
  <1> QED
    BY <1>1, <1>2 DEF IdInv

\* An event that is about to be stored, or is stored, was shown under no
\* other id.
LEMMA OneIdService ==
    ASSUME ClickTypeOK, OneId, ServiceNext
    PROVE  OneId'
  <1>1. ASSUME NEW tx \in inserts, NEW e \in DOMAIN tx, row[e] = 0,
               NEW n \in Ids, Shown(n, e), e \in Events
        PROVE  FALSE
    BY <1>1, IdFacts DEF OneId, Settled, InFlight
  <1> SUFFICES ASSUME NEW n \in Ids, NEW e \in Events, Shown(n, e)'
               PROVE  /\ row'[e] = n \/ Settled(e)'
                      /\ \A m \in Ids : Shown(m, e)' => m = n
    BY DEF OneId
  <1>2. CASE row'[e] = row[e] \/ Settled(e)
    <2>1. \A m \in Ids : Shown(m, e)' => Shown(m, e)
      BY <1>1, <1>2, ServiceShows, IdFacts DEF Settled, InFlight
    <2>2. row[e] = n \/ Settled(e)
      BY <2>1 DEF OneId
    <2>3. Settled(e) => Settled(e)'
      BY SettledStays
    <2> QED
      BY <1>2, <2>1, <2>2, <2>3 DEF OneId
  <1>3. CASE row'[e] # row[e] /\ ~ Settled(e)
    <2>1. PICK tx \in inserts : e \in DOMAIN tx /\ row[e] = 0
      BY <1>3, RowMoves DEF Purge
    <2>2. \A m \in Ids : ~ Shown(m, e)
      BY <1>1, <2>1
    <2>3. \A m \in Ids : Shown(m, e)' => row'[e] = m
      BY <2>2, ServiceShows
    <2> QED
      BY <2>3
  <1> QED
    BY <1>2, <1>3

LEMMA OneIdSync ==
    ASSUME ClickTypeOK, OneId, SyncNext
    PROVE  OneId'
  <1>1. UNCHANGED <<visit, spool, inserts>>
    BY SyncEffects DEF SyncNext, serviceVars
  <1>2. \A e \in Events : Settled(e)' <=> Settled(e)
    BY <1>1 DEF Settled, InFlight
  <1> QED
    BY <1>2, SyncShows DEF OneId

-----------------------------------------------------------------------------
(* No click is lost *)

LEMMA LateStays ==
    ASSUME ServiceNext
    PROVE  late \subseteq late'
  BY DEF ServiceNext, Redirect, SpoolClick, SpoolFails, Purge, InsertCommits,
         InsertFails, ReplayInserts, ReplayRemoves, Restart

\* A purged row was imported, or had appeared late.
LEMMA ArrivedStays ==
    ASSUME ClickTypeOK, CursorInv, ServiceNext, NEW e \in Events, Arrived(e)
    PROVE  Arrived(e)'
  <1>1. imported' = imported /\ late \subseteq late'
    BY ServiceLeaves, LateStays
  <1>2. CASE Imported(e) \/ e \in late
    BY <1>1, <1>2 DEF Arrived, Imported
  <1>3. CASE row[e] # 0
    <2>1. CASE row'[e] = row[e]
      BY <1>3, <2>1 DEF Arrived
    <2>2. CASE Purge(e)
      <3>1. row[e] \in 1 .. cursor
        BY <2>2, IdFacts DEF Purge, CursorInv, AckBehindCursor, ClickTypeOK
      <3>2. <<row[e], e>> \in imported \/ e \in late
        BY <3>1 DEF CursorInv, NothingSkipped
      <3> QED
        BY <1>2, <3>2 DEF Imported
    <2> QED
      BY <1>3, <2>1, <2>2, RowMoves
  <1> QED
    BY <1>2, <1>3 DEF Arrived

LEMMA KeptService ==
    ASSUME ClickTypeOK, Kept, CursorInv, ServiceNext
    PROVE  Kept'
  <1>0. /\ visit \in [Events -> {"none", "inserting", "spooling", "done", "dropped"}]
        /\ replay \in Replays /\ inserts \subseteq Transactions /\ spool \subseteq Events
        /\ row \in [Events -> Ids0]
        /\ DOMAIN replay.tx \in SUBSET Events
    BY TransactionFacts DEF ClickTypeOK, Replays
  <1>1. ASSUME NEW tx \in inserts, InsertCommits(tx), NEW e \in DOMAIN tx
        PROVE  e \in Events /\ Arrived(e)'
    <2>1. e \in Events /\ tx[e] \in Ids
      BY <1>0, <1>1, TransactionFacts
    <2>2. row'[e] # 0
      BY <1>0, <1>1, <2>1, IdFacts DEF InsertCommits
    <2> QED
      BY <2>1, <2>2 DEF Arrived
  <1>2. ASSUME NEW e \in Events, visit'[e] = "done"
        PROVE  e \in spool' \/ Arrived(e)'
    <2>1. CASE visit[e] = "done" /\ spool \subseteq spool'
      BY <2>1, ArrivedStays DEF Kept
    <2>2. ASSUME ReplayRemoves, visit[e] = "done"
          PROVE  e \in spool' \/ Arrived(e)'
      <3>1. e \notin DOMAIN replay.tx /\ e \in spool => e \in spool'
        BY <2>2 DEF ReplayRemoves
      <3>2. e \in DOMAIN replay.tx => Arrived(e)
        BY <2>2 DEF ReplayRemoves, Kept
      <3> QED
        BY <2>2, <3>1, <3>2, ArrivedStays DEF Kept
    <2>3. ASSUME NEW tx \in inserts, InsertCommits(tx), visit[e] # "done"
          PROVE  Arrived(e)'
      <3>1. e \in DOMAIN tx
        BY <1>0, <1>2, <2>3 DEF InsertCommits
      <3> QED
        BY <1>1, <2>3, <3>1
    <2>4. ASSUME NEW d \in Events, SpoolClick(d), visit[e] # "done"
          PROVE  e \in spool'
      BY <1>0, <1>2, <2>4 DEF SpoolClick
    <2>5. ASSUME NEW d \in Events, NEW c \in Codes, Redirect(d, c)
          PROVE  visit[e] = "done" /\ spool \subseteq spool'
      BY <1>0, <1>2, <2>5 DEF Redirect
    <2>6. ASSUME NEW d \in Events, SpoolFails(d)
          PROVE  visit[e] = "done" /\ spool \subseteq spool'
      BY <1>0, <1>2, <2>6 DEF SpoolFails
    <2>7. ASSUME NEW tx \in inserts, InsertFails(tx)
          PROVE  visit[e] = "done" /\ spool \subseteq spool'
      BY <1>0, <1>2, <2>7 DEF InsertFails
    <2>8. CASE Restart \/ ReplayInserts \/ \E d \in Events : Purge(d)
      <3>1. visit[e] = "done" /\ spool \subseteq spool'
        BY <1>0, <1>2, <2>8 DEF Restart, ReplayInserts, Purge
      <3> QED
        BY <2>1, <3>1
    <2>9. ASSUME \/ \E d \in Events : SpoolClick(d)
                 \/ \E tx \in inserts : InsertCommits(tx)
          PROVE  spool \subseteq spool'
      BY <2>9 DEF SpoolClick, InsertCommits
    <2>10. ReplayRemoves => visit[e] = "done"
      BY <1>2 DEF ReplayRemoves
    <2> QED
      BY <2>1, <2>2, <2>3, <2>4, <2>5, <2>6, <2>7, <2>8, <2>9, <2>10 DEF ServiceNext
  <1>3. ASSUME NEW e \in spool' PROVE visit'[e] # "none"
    <2>1. CASE e \in spool
      BY <1>0, <2>1, VisitStays DEF Kept
    <2>2. CASE e \notin spool
      <3>1. PICK d \in Events : SpoolClick(d)
        BY <1>3, <2>2 DEF ServiceNext, Redirect, SpoolFails, Purge, InsertCommits,
              InsertFails, ReplayInserts, ReplayRemoves, Restart
      <3> QED
        BY <1>0, <1>3, <2>2, <3>1 DEF SpoolClick
    <2> QED
      BY <2>1, <2>2
  <1>4. ASSUME replay'.step = "inserted", NEW e \in DOMAIN replay'.tx
        PROVE  Arrived(e)'
    <2>1. CASE replay' = replay
      BY <1>0, <1>4, <2>1, ArrivedStays DEF Kept
    <2>2. ASSUME NEW tx \in inserts, InsertCommits(tx), replay' # replay
          PROVE  Arrived(e)'
      <3>1. replay'.tx = tx
        BY <1>0, <2>2 DEF InsertCommits, Replays
      <3> QED
        BY <1>1, <1>4, <2>2, <3>1
    <2>3. ASSUME replay' = NoReplay \/ replay'.step = "inserting" PROVE FALSE
      BY <1>4, <2>3 DEF NoReplay
    <2>4. ASSUME ReplayInserts PROVE replay'.step = "inserting"
      BY <2>4, ReplayInsertsType
    <2> QED
      BY <2>1, <2>2, <2>3, <2>4 DEF ServiceNext, Redirect, SpoolClick, SpoolFails, Purge,
             InsertFails, ReplayRemoves, Restart
  <1> QED
    BY <1>2, <1>3, <1>4 DEF Kept

\* What was imported stays imported, and a page is imported as it is: an id
\* that is already there is there with the same event.
LEMMA StoredFacts ==
    ASSUME ClickTypeOK, IdInv, NEW i \in Importers
    PROVE  imported \subseteq Stored(importer[i].page)
           /\ importer[i].page \subseteq Stored(importer[i].page)
  <1>1. imported \subseteq Stored(importer[i].page)
    BY DEF Stored
  <1>2. ASSUME NEW p \in importer[i].page, NEW q \in imported, q[1] = p[1]
        PROVE  p = q
    <2>1. /\ p = <<p[1], p[2]>> /\ p[1] \in Ids /\ p[2] \in Events
          /\ q = <<q[1], q[2]>> /\ q[2] \in Events
      BY ImporterFields DEF ClickTypeOK
    <2>2. Shown(p[1], p[2]) /\ Shown(p[1], q[2])
      BY <1>2, <2>1 DEF Shown
    <2>3. p[2] = q[2]
      BY <2>1, <2>2 DEF IdInv, Carries
    <2> QED
      BY <1>2, <2>1, <2>3
  <1> QED
    BY <1>1, <1>2 DEF Stored

LEMMA SyncKeeps ==
    ASSUME ClickTypeOK, IdInv, SyncNext
    PROVE  imported \subseteq imported' /\ cursor <= cursor' /\ UNCHANGED serviceVars
  <1>1. PICK i \in Importers :
           \/ ReadCursor(i) \/ FetchClicks(i) \/ ImportPage(i)
           \/ ImportFails(i) \/ Acknowledge(i) \/ ImporterStops(i)
    BY DEF SyncNext
  <1>2. cursor \in Nat
    BY IdFacts DEF ClickTypeOK
  <1>3. \/ UNCHANGED <<cursor, imported>>
        \/ /\ cursor' = Max({cursor, Seen(i)})
           /\ imported' = Stored(importer[i].page)
    BY <1>1, SyncEffects
  <1>4. imported \subseteq imported'
    BY <1>3, StoredFacts
  <1>5. cursor <= cursor'
    BY <1>2, <1>3, ImportFacts
  <1>6. UNCHANGED serviceVars
    BY <1>1, SyncEffects
  <1> QED
    BY <1>4, <1>5, <1>6

LEMMA KeptSync ==
    ASSUME ClickTypeOK, IdInv, Kept, SyncNext
    PROVE  Kept'
  <1>1. /\ imported \subseteq imported'
        /\ UNCHANGED <<visit, spool, replay, row, late>>
    BY SyncKeeps DEF serviceVars
  <1>2. ASSUME NEW e, Arrived(e) PROVE Arrived(e)'
    BY <1>1, <1>2 DEF Arrived, Imported
  <1> QED
    BY <1>1, <1>2 DEF Kept

-----------------------------------------------------------------------------
(* Clicks lead to live links *)

\* What neither the service nor the import writes.
LEMMA LinksStay ==
    ASSUME TypeOK, LinkInv, UNCHANGED allocationVars, Fault \/ UNCHANGED faults
    PROVE  TypeOK' /\ LinkInv'
  <1>0. job \in [Jobs -> JobRows] /\ caller \in [Replicas -> Callers]
    BY DEF TypeOK, JobRows, Callers
  <1>1. /\ UNCHANGED <<nextValue, owner, published, mapping, answered, publisher>>
        /\ job' = job /\ caller' = caller
    BY DEF allocationVars
  <1>2. TypeOK'
    BY <1>0, <1>1, TypeOfControl
  <1>3. Grows /\ StoreInv'
    BY <1>1, SameStore, StoreFrame DEF LinkInv
  <1>4. \A r \in Replicas : Progress(r)'
    BY <1>1, <1>3, ProgressFrame DEF LinkInv
  <1>5. \A j \in Jobs : Leased(j)'
    BY <1>1, <1>3, LeasedFrame DEF LinkInv
  <1>6. \A q \in Requests : Answered(q)'
    BY <1>1, <1>3, AnsweredFrame DEF LinkInv
  <1> QED
    BY <1>2, <1>3, <1>4, <1>5, <1>6 DEF LinkInv

LEMMA LinksStep == TypeOK /\ LinkInv /\ [Next]_vars => TypeOK' /\ LinkInv'
  <1> SUFFICES ASSUME TypeOK, LinkInv, [Next]_vars PROVE TypeOK' /\ LinkInv'
    OBVIOUS
  <1>1. CASE [LinkNext]_linkVars
    BY <1>1, TypeStep, InvStep
  <1>2. CASE ServiceNext /\ UNCHANGED allocationVars
    BY <1>2, ServiceLeaves, LinksStay
  <1>3. CASE SyncNext /\ UNCHANGED allocationVars
    <2>1. Fault \/ UNCHANGED faults
      BY <1>3 DEF SyncNext, ReadCursor, FetchClicks, ImportPage, ImportFails,
                  Acknowledge, ImporterStops
    <2> QED
      BY <1>3, <2>1, LinksStay
  <1> QED
    BY <1>1, <1>2, <1>3 DEF Next, vars

LEMMA OnLiveLinkStep ==
    ASSUME TypeOK, LinkInv, ClickTypeOK, OnLiveLink, [Next]_vars
    PROVE  OnLiveLink'
  <1>0. code \in [Events -> Codes \cup {NoCode}]
        /\ visit \in [Events -> {"none", "inserting", "spooling", "done", "dropped"}]
    BY DEF ClickTypeOK
  <1>1. CASE [LinkNext]_linkVars /\ UNCHANGED clickVars
    <2>1. \A c \in Codes : mapping[c] # Nobody => mapping'[c] = mapping[c]
      BY <1>1, StepGrows DEF Grows
    <2> QED
      BY <1>1, <2>1 DEF OnLiveLink, clickVars
  <1>2. ASSUME NEW e \in Events, NEW c \in Codes, Redirect(e, c),
               UNCHANGED allocationVars
        PROVE  OnLiveLink'
    <2>1. c \in Codes /\ mapping[c] # Nobody /\ mapping' = mapping
      BY <1>2 DEF Redirect, Mapped, allocationVars
    <2>2. \A d \in Events : /\ visit'[d] # "none" => d = e \/ visit[d] # "none"
                            /\ code'[d] = IF d = e THEN c ELSE code[d]
      BY <1>0, <1>2 DEF Redirect
    <2> QED
      BY <2>1, <2>2 DEF OnLiveLink
  <1>3. ASSUME ServiceNext, UNCHANGED allocationVars, code' = code,
               \A e \in Events : visit[e] = "none" => visit'[e] = "none"
        PROVE  OnLiveLink'
    BY <1>3 DEF OnLiveLink, allocationVars
  <1>4. CASE SyncNext /\ UNCHANGED allocationVars
    <2>1. UNCHANGED <<code, visit, mapping>>
      BY <1>4, SyncEffects DEF SyncNext, serviceVars, allocationVars
    <2> QED
      BY <2>1 DEF OnLiveLink
  <1>5. ASSUME ServiceNext, ~ \E e \in Events, c \in Codes : Redirect(e, c)
        PROVE  /\ code' = code
               /\ \A e \in Events : visit[e] = "none" => visit'[e] = "none"
    <2>1. ASSUME NEW e \in Events, SpoolClick(e) \/ SpoolFails(e)
          PROVE  /\ code' = code
                 /\ \A d \in Events : visit[d] = "none" => visit'[d] = "none"
      BY <1>0, <2>1 DEF SpoolClick, SpoolFails
    <2>2. ASSUME NEW tx \in inserts, InsertCommits(tx) \/ InsertFails(tx)
          PROVE  /\ code' = code
                 /\ \A d \in Events : visit[d] = "none" => visit'[d] = "none"
      BY <1>0, <2>2 DEF InsertCommits, InsertFails
    <2>3. CASE Restart
      BY <1>0, <2>3 DEF Restart
    <2>4. CASE code' = code /\ visit' = visit
      BY <2>4
    <2> QED
      BY <1>5, <2>1, <2>2, <2>3, <2>4 DEF ServiceNext, Purge, ReplayInserts, ReplayRemoves
  <1> QED
    BY <1>1, <1>2, <1>3, <1>4, <1>5 DEF Next, vars

-----------------------------------------------------------------------------
(* The cursor, the pages and the acknowledgement *)

LEMMA CursorService ==
    ASSUME ClickTypeOK, CursorInv, ServiceNext
    PROVE  CursorInv'
  <1>0. /\ UNCHANGED <<cursor, imported, importer, acked>> /\ late \subseteq late'
        /\ cursor \in Ids0 /\ cursor \in Nat /\ row \in [Events -> Ids0]
    BY ServiceLeaves, LateStays, IdFacts DEF ClickTypeOK
  <1>1. ASSUME NEW e \in Events, NEW n \in Ids0, n <= SeenThrough,
               row'[e] # row[e], row'[e] \in 1 .. n
        PROVE  e \in late'
    <2>1. PICK tx \in inserts : /\ InsertCommits(tx) /\ e \in DOMAIN tx
                                /\ row[e] = 0 /\ row'[e] = tx[e]
      BY <1>1, RowMoves
    <2>2. tx[e] <= SeenThrough
      BY <1>1, <2>1, SeenThroughFacts, IdFacts
    <2> QED
      BY <2>1, <2>2 DEF InsertCommits
  <1>2. AckBehindCursor'
    BY <1>0 DEF CursorInv, AckBehindCursor
  <1>3. NothingSkipped'
    <2> SUFFICES ASSUME NEW e \in Events, row'[e] \in 1 .. cursor
                 PROVE  <<row'[e], e>> \in imported \/ e \in late'
      BY <1>0 DEF NothingSkipped
    <2>1. CASE row'[e] = row[e]
      BY <1>0, <2>1 DEF CursorInv, NothingSkipped
    <2>2. CASE row'[e] # row[e]
      BY <1>0, <1>1, <2>2, SeenThroughFacts
    <2> QED
      BY <2>1, <2>2
  <1>4. Known(cursor)'
    BY <1>0, KnownStays DEF CursorInv, Known
  <1>5. ASSUME NEW i \in Importers PROVE Fetched(i)'
    <2>0. /\ importer[i].at \in Ids0 /\ importer[i].page \in SUBSET (Ids \X Events)
          /\ importer[i].at \in Nat
          /\ Seen(i) \in Ids0 /\ Seen(i) <= SeenThrough
          /\ Seen(i)' = Seen(i) /\ importer'[i] = importer[i]
          /\ \A n \in Nat : n \in importer[i].at + 1 .. Seen(i) => n \in 1 .. Seen(i)
      <3>1. Seen(i)' = Seen(i)
        BY <1>0, SeenIsThrough
      <3>2. /\ importer[i].at \in Ids0 /\ importer[i].page \in SUBSET (Ids \X Events)
            /\ importer[i].at \in Nat /\ Seen(i) \in Ids0 /\ Seen(i) \in Nat
        BY ImporterFields, IdFacts
      <3>3. \A n \in Nat : n \in importer[i].at + 1 .. Seen(i) => n \in 1 .. Seen(i)
        BY <3>2
      <3> QED
        BY <1>0, <3>1, <3>2, <3>3, SeenThroughFacts
    <2>1. Known(importer[i].at)' /\ \A p \in importer[i].page : Known(p[1])'
      <3>1. Known(importer[i].at) /\ \A p \in importer[i].page : Known(p[1])
        BY DEF CursorInv, Fetched
      <3>2. \A p \in importer[i].page : p[1] \in Ids0
        BY <2>0, IdFacts
      <3> QED
        BY <1>0, <2>0, <3>1, <3>2, KnownStays DEF Known
    <2>2. ASSUME importer[i].step = "importing", NEW e \in Events,
                 row'[e] \in importer[i].at + 1 .. Seen(i)
          PROVE  <<row'[e], e>> \in importer[i].page \/ e \in late'
      <3>1. CASE row'[e] = row[e]
        BY <1>0, <2>2, <3>1 DEF CursorInv, Fetched
      <3>2. CASE row'[e] # row[e]
        <4>1. row'[e] \in Nat
          BY <2>0, <2>2, IdFacts
        <4> QED
          BY <1>1, <2>0, <2>2, <3>2, <4>1
      <3> QED
        BY <3>1, <3>2
    <2> QED
      BY <1>0, <1>5, <2>0, <2>1, <2>2 DEF CursorInv, Fetched
  <1> QED
    BY <1>2, <1>3, <1>4, <1>5 DEF CursorInv

LEMMA CursorSync ==
    ASSUME ClickTypeOK, IdInv, CursorInv, SyncNext
    PROVE  CursorInv'
  <1>0. /\ row' = row /\ late' = late
        /\ imported \subseteq imported' /\ cursor <= cursor'
        /\ cursor \in Ids0 /\ cursor \in Nat /\ cursor' \in Nat /\ acked \in Nat
        /\ row \in [Events -> Ids0]
    BY SyncKeeps, SyncType, IdFacts DEF ClickTypeOK, serviceVars
  <1>1. PICK k \in Importers :
           \/ ReadCursor(k) \/ FetchClicks(k) \/ ImportPage(k)
           \/ ImportFails(k) \/ Acknowledge(k) \/ ImporterStops(k)
    BY DEF SyncNext
  <1>2. \/ UNCHANGED <<cursor, imported>>
        \/ /\ importer[k].step = "importing"
           /\ cursor' \in {cursor, Seen(k)}
           /\ importer[k].page \subseteq imported'
    BY <1>1, SyncEffects, ImportFacts, StoredFacts
  <1>3. ASSUME NEW i \in Importers PROVE Known(Seen(i)) /\ Seen(i) \in Ids0
    BY <1>3, ImporterFields DEF CursorInv, Fetched
  <1>4. AckBehindCursor'
    <2>1. acked' \in {acked, importer[k].at}
      BY <1>1, SyncEffects, AcknowledgedFacts, ImporterFields
    <2>2. importer[k].at <= cursor /\ importer[k].at \in Nat /\ acked <= cursor
      BY ImporterFields, IdFacts DEF CursorInv, Fetched, AckBehindCursor
    <2> QED
      BY <1>0, <2>1, <2>2 DEF AckBehindCursor
  <1>5. NothingSkipped'
    <2> SUFFICES ASSUME NEW e \in Events, row[e] \in 1 .. cursor'
                 PROVE  <<row[e], e>> \in imported' \/ e \in late
      BY <1>0 DEF NothingSkipped
    <2>1. CASE row[e] <= cursor
      BY <1>0, <2>1 DEF CursorInv, NothingSkipped
    <2>2. CASE row[e] > cursor
      <3>0. row[e] \in Nat
        BY <1>0, IdFacts
      <3>1. /\ importer[k].step = "importing" /\ cursor' = Seen(k)
            /\ importer[k].page \subseteq imported'
        BY <1>0, <1>2, <2>2, <3>0
      <3>2. importer[k].at <= cursor /\ importer[k].at \in Nat
        BY ImporterFields, IdFacts DEF CursorInv, Fetched
      <3>3. row[e] \in importer[k].at + 1 .. Seen(k)
        BY <1>0, <2>2, <3>0, <3>1, <3>2
      <3>4. <<row[e], e>> \in importer[k].page \/ e \in late
        BY <3>1, <3>3 DEF CursorInv, Fetched
      <3> QED
        BY <3>1, <3>4
    <2> QED
      BY <1>0, <2>1, <2>2, IdFacts
  <1>6. Known(cursor)'
    <2>1. Known(cursor') /\ cursor' \in Ids0
      BY <1>0, <1>2, <1>3 DEF CursorInv
    <2> QED
      BY <2>1, KnownStays DEF Known
  <1>7. ASSUME NEW l \in Importers, importer'[l] = importer[l]
        PROVE  Fetched(l)'
    <2>1. Seen(l)' = Seen(l) /\ importer[l].at \in Nat /\ importer[l].at \in Ids0
          /\ importer[l].page \in SUBSET (Ids \X Events)
      BY <1>7, SeenIsThrough, ImporterFields, IdFacts
    <2>2. Known(importer[l].at)' /\ \A p \in importer[l].page : Known(p[1])'
      <3>1. Known(importer[l].at) /\ \A p \in importer[l].page : Known(p[1])
        BY DEF CursorInv, Fetched
      <3>2. \A p \in importer[l].page : p[1] \in Ids0
        BY <2>1, IdFacts
      <3> QED
        BY <1>7, <2>1, <3>1, <3>2, KnownStays DEF Known
    <2> QED
      BY <1>0, <1>7, <2>1, <2>2 DEF CursorInv, Fetched
  <1>8. ASSUME NEW i \in Importers, importer'[i].page = {},
               importer'[i].step # "importing",
               importer'[i].at \in Ids0, importer'[i].at <= cursor',
               Known(importer'[i].at)
        PROVE  Fetched(i)'
    <2>1. Known(importer[i].at)'
      BY <1>8, KnownStays DEF Known
    <2> QED
      BY <1>8, <2>1 DEF Fetched
  <1>9. ASSUME NEW i \in Importers, importer'[i].step = "importing",
               importer'[i].at = importer[i].at,
               importer'[i].page = FirstOf(Visible(importer[i].at), PageSize),
               importer'[i].page # {}
        PROVE  Fetched(i)'
    <2> DEFINE at == importer[i].at
               page == FirstOf(Visible(at), PageSize)
    <2>0. at \in Ids0 /\ at \in Nat /\ at <= cursor /\ Known(at)
      BY ImporterFields, IdFacts DEF CursorInv, Fetched
    <2>1. /\ page \in SUBSET (Ids \X Events)
          /\ \A p \in page : row[p[2]] = p[1] /\ p[1] > at
          /\ \A p \in page, e \in Events :
                row[e] > at /\ row[e] <= p[1] => <<row[e], e>> \in page
      BY <2>0, PageFacts
    <2> HIDE DEF page
    <2>2. importer'[i].page = page /\ importer'[i].at = at
      BY <1>9 DEF page
    <2> HIDE DEF at
    <2>3. Seen(i)' = Through(at, page)
      BY <2>2, SeenIsThrough
    <2>4. PICK p \in page : Through(at, page) = p[1]
      BY <1>9, <2>0, <2>1, <2>2, ThroughFacts
    <2>5. \A q \in page : q[1] \in Ids0 /\ q[2] \in Events
      BY <2>1, IdFacts
    <2>6. \A q \in page : Known(q[1])
      BY <2>1, <2>5 DEF Known
    <2>7. Known(importer[i].at)' /\ \A q \in importer'[i].page : Known(q[1])'
      BY <2>0, <2>2, <2>5, <2>6, KnownStays DEF Known
    <2>8. ASSUME NEW e \in Events, row[e] \in at + 1 .. p[1]
          PROVE  <<row[e], e>> \in page
      <3>1. row[e] \in Nat /\ p[1] \in Nat
        BY <1>0, <2>5, IdFacts
      <3> QED
        BY <2>0, <2>1, <2>8, <3>1
    <2> QED
      BY <1>0, <2>0, <2>2, <2>3, <2>4, <2>7, <2>8 DEF Fetched
  <1>10. ASSUME NEW l \in Importers PROVE Fetched(l)'
    <2>1. PICK i \in Importers :
             /\ \A j \in Importers \ {i} : importer'[j] = importer[j]
             /\ \/ /\ importer'[i].step = "importing"
                   /\ importer'[i].at = importer[i].at
                   /\ importer'[i].page = FirstOf(Visible(importer[i].at), PageSize)
                   /\ importer'[i].page # {}
                \/ /\ importer'[i].step # "importing"
                   /\ importer'[i].page = {}
                   /\ \/ importer'[i].at \in {0, cursor, importer[i].at}
                      \/ importer'[i].at = Seen(i) /\ ImportPage(i)
      BY SyncMoves
    <2>2. CASE l # i
      BY <1>7, <2>1, <2>2
    <2>3. CASE importer'[i].step = "importing"
      BY <1>7, <1>9, <2>1, <2>3
    <2>4. ASSUME importer'[i].step # "importing"
          PROVE  Fetched(i)'
      <3> DEFINE at == importer'[i].at
      <3>1. /\ importer[i].at \in Ids0 /\ importer[i].at \in Nat
            /\ importer[i].at <= cursor /\ Known(importer[i].at)
        BY ImporterFields, IdFacts DEF CursorInv, Fetched
      <3>2. Known(0) /\ Known(cursor) /\ Known(Seen(i)) /\ Seen(i) \in Ids0
        BY <1>0, <1>3 DEF CursorInv, Known
      <3>3. ImportPage(i) => Seen(i) <= cursor'
        BY ImportFacts DEF ImportPage
      <3>4. at \in Ids0 /\ Known(at) /\ at <= cursor'
        BY <1>0, <2>1, <2>4, <3>1, <3>2, <3>3, IdFacts
      <3> QED
        BY <1>8, <2>1, <2>4, <3>4
    <2> QED
      BY <2>2, <2>3, <2>4
  <1> QED
    BY <1>4, <1>5, <1>6, <1>10 DEF CursorInv

LEMMA ClickInvInit == Init => ClickInv
  <1> SUFFICES ASSUME Init PROVE ClickInv
    OBVIOUS
  <1>1. /\ visit = [e \in Events |-> "none"] /\ row = [e \in Events |-> 0]
        /\ inserts = {} /\ spool = {} /\ imported = {} /\ replay = NoReplay
        /\ lastId = 0 /\ acked = 0 /\ cursor = 0 /\ late = {}
        /\ importer = [i \in Importers |-> Resting]
    BY DEF Init, ClickInit
  <1>2. \A i \in Importers : /\ importer[i].page = {} /\ importer[i].at = 0
                             /\ importer[i].step = "idle"
    BY <1>1 DEF Resting, Importer
  <1>3. \A n \in Ids, e \in Events : ~Carries(n, e)
    BY <1>1, <1>2, IdFacts DEF Carries, Given, Shown
  <1>4. IdInv /\ OneId
    BY <1>3 DEF IdInv, OneId, Carries
  <1>5. Kept
    BY <1>1 DEF Kept, NoReplay
  <1>6. OnLiveLink
    BY <1>1 DEF OnLiveLink
  <1>7. Known(0) /\ 0 <= 0
    BY <1>1 DEF Known
  <1>8. CursorInv
    BY <1>1, <1>2, <1>7 DEF CursorInv, AckBehindCursor, NothingSkipped, Fetched
  <1> QED
    BY <1>4, <1>5, <1>6, <1>8 DEF ClickInv

LEMMA ClickInvStep ==
    ASSUME TypeOK, LinkInv, ClickTypeOK, ClickInv, [Next]_vars
    PROVE  ClickInv'
  <1>1. OnLiveLink'
    BY OnLiveLinkStep DEF ClickInv
  <1>2. CASE ServiceNext
    BY <1>1, <1>2, IdInvService, OneIdService, KeptService, CursorService DEF ClickInv
  <1>3. CASE SyncNext
    BY <1>1, <1>3, IdInvSync, OneIdSync, KeptSync, CursorSync DEF ClickInv
  <1>4. CASE UNCHANGED clickVars
    <2>1. IdInv' /\ OneId'
      BY <1>4 DEF ClickInv, clickVars, IdInv, OneId, Carries, Given, Shown, Settled,
                  InFlight
    <2>2. Kept'
      BY <1>4 DEF ClickInv, clickVars, Kept, Arrived, Imported
    <2>3. AckBehindCursor' /\ NothingSkipped' /\ Known(cursor)'
      BY <1>4 DEF ClickInv, clickVars, CursorInv, AckBehindCursor, NothingSkipped, Known
    <2>4. ASSUME NEW i \in Importers PROVE Fetched(i)'
      <3>1. Fetched(i)
        BY DEF ClickInv, CursorInv
      <3>2. Seen(i)' = Seen(i)
        BY <1>4, SeenIsThrough DEF clickVars
      <3> QED
        BY <1>4, <3>1, <3>2 DEF clickVars, Fetched, Known
    <2> QED
      BY <1>1, <2>1, <2>2, <2>3, <2>4 DEF ClickInv, CursorInv
  <1> QED
    BY <1>2, <1>3, <1>4 DEF Next, vars

-----------------------------------------------------------------------------
(* Theorems *)

Sound == TypeOK /\ LinkInv /\ ClickTypeOK /\ ClickInv

LEMMA SoundAlways == Spec => []Sound
  <1>1. Init => Sound
    BY TypeInit, InvInit, ClickTypeInit, ClickInvInit DEF Init, Sound
  <1>2. Sound /\ [Next]_vars => Sound'
    BY LinksStep, ClickTypeStep, ClickInvStep DEF Sound
  <1> QED
    BY <1>1, <1>2, PTL DEF Spec

\* The spool, the rows, the pages and the cursor keep their types; ids never
\* pass the last one drawn.
THEOREM ClickTypesCorrect == Spec => []ClickTypeOK
  <1>1. Sound => ClickTypeOK
    BY DEF Sound
  <1> QED
    BY <1>1, SoundAlways, PTL

\* A click the service answered for is in a request, the spool or a row until
\* production has it, unless its row appeared behind a page already read: for
\* any number of visits, importers, restarts and failures.
THEOREM ClicksAreKept == Spec => []NoClickLost
  <1>1. Sound => NoClickLost
    BY DEF Sound, ClickInv, Kept, Arrived, InFlight, NoClickLost
  <1> QED
    BY <1>1, SoundAlways, PTL

\* Page and cursor move together: no stored click behind the cursor was
\* passed over.
THEOREM CursorIsTrue == Spec => []NothingSkipped
  <1>1. Sound => NothingSkipped
    BY DEF Sound, ClickInv, CursorInv
  <1> QED
    BY <1>1, SoundAlways, PTL

\* The service is never told to let go of more than production has committed,
\* by any number of instances that import side by side.
THEOREM AcksAreBehind == Spec => []AckBehindCursor
  <1>1. Sound => AckBehindCursor
    BY DEF Sound, ClickInv, CursorInv
  <1> QED
    BY <1>1, SoundAlways, PTL

\* However often an event is inserted and replayed, production counts it once.
THEOREM ClicksCountOnce == Spec => []NoDuplicateClick
  <1>1. ASSUME Sound, NEW p \in imported, NEW q \in imported, p[2] = q[2]
        PROVE  p = q
    <2>1. /\ p[1] \in Ids /\ q[1] \in Ids /\ p[2] \in Events
          /\ p = <<p[1], p[2]>> /\ q = <<q[1], q[2]>>
      BY <1>1 DEF Sound, ClickTypeOK
    <2>2. Shown(p[1], p[2]) /\ Shown(q[1], p[2])
      BY <1>1, <2>1 DEF Shown
    <2>3. q[1] = p[1]
      BY <1>1, <2>1, <2>2 DEF Sound, ClickInv, OneId
    <2> QED
      BY <1>1, <2>1, <2>3
  <1>2. Sound => NoDuplicateClick
    BY <1>1 DEF NoDuplicateClick
  <1> QED
    BY <1>2, SoundAlways, PTL

\* What an instance acknowledges is an id the service still knows or has
\* passed: the acknowledgement is not refused.
THEOREM AcksAreAccepted == Spec => []AckAccepted
  <1>1. Sound => AckAccepted
    BY DEF Sound, ClickInv, CursorInv, Fetched, AckAccepted
  <1> QED
    BY <1>1, SoundAlways, PTL

\* A fetched click is on a code the redirect service knows.
LEMMA OnPage ==
    ASSUME Sound, NEW i \in Importers, NEW p \in importer[i].page
    PROVE  code[p[2]] \in Codes /\ mapping[code[p[2]]] # Nobody
  <1>1. p[1] \in Ids /\ p[2] \in Events /\ p = <<p[1], p[2]>>
    <2>1. importer[i].page \in SUBSET (Ids \X Events)
      BY ImporterFields DEF Sound
    <2> QED
      BY <2>1
  <1>2. Carries(p[1], p[2])
    BY <1>1 DEF Carries, Shown
  <1>3. visit[p[2]] # "none"
    BY <1>1, <1>2 DEF Sound, ClickInv, IdInv
  <1> QED
    BY <1>1, <1>3 DEF Sound, ClickInv, OnLiveLink

\* Every click of a page is on a code that production holds, and at the redirect
\* service that code leads to the destination of its own row: no page is refused
\* but for what the two normalizations make of one destination.
THEOREM OnlyDestinationsMatter == Spec => []OnlyDestinationsBlock
  <1>1. ASSUME Sound, NEW i \in Importers, NEW p \in importer[i].page
        PROVE  owner[code[p[2]]] # Nobody /\ mapping[code[p[2]]] = owner[code[p[2]]]
    BY <1>1, OnPage DEF Sound, LinkInv, StoreInv, LeadsToOwner
  <1>2. Sound => OnlyDestinationsBlock
    BY <1>1 DEF OnlyDestinationsBlock
  <1> QED
    BY <1>2, SoundAlways, PTL

\* Where the two normalizations agree on the destinations of all links, no page
\* is ever refused.
THEOREM ImportsGoOn ==
    ASSUME \A k \in Keys \cup Codes : Agree(Destination[k])
    PROVE  Spec => []ImportNeverBlocked
  <1>1. Sound /\ OnlyDestinationsBlock => ImportNeverBlocked
    <2> SUFFICES ASSUME Sound, OnlyDestinationsBlock, NEW i \in Importers,
                        importer[i].step = "importing", NEW p \in importer[i].page
                 PROVE  /\ owner[code[p[2]]] # Nobody
                        /\ mapping[code[p[2]]] = owner[code[p[2]]]
                        /\ Agree(LongLink(code[p[2]]))
      BY DEF ImportNeverBlocked, Acceptable
    <2>1. owner[code[p[2]]] # Nobody /\ mapping[code[p[2]]] = owner[code[p[2]]]
      BY DEF OnlyDestinationsBlock
    <2>2. code[p[2]] \in Codes
      BY OnPage
    <2>3. owner[code[p[2]]] \in Keys \cup {Historic}
      BY <2>1, <2>2 DEF Sound, TypeOK, Owners
    <2>4. Agree(LongLink(code[p[2]]))
      BY <2>2, <2>3 DEF LongLink
    <2> QED
      BY <2>1, <2>4
  <1> QED
    BY <1>1, OnlyDestinationsMatter, SoundAlways, PTL

=============================================================================
