--------------------- MODULE AudienceReservationsProofs ---------------------
(* Theorems about AudienceReservations, for every value of its constants. *)
EXTENDS AudienceReservations, FiniteSetTheorems, TLAPS

\* A row of the calculation tables has the size that was asked for.
Sized(row) == Cardinality(row.members) \in {0, row.input.count}

Rows == calc \in [Ids -> Calculations] /\ \A k \in Ids : Sized(calc[k])

\* What a step does to a row that has ended, or that ends with it.
Moves == {<<"ready", "committed">>, <<"committed", "stale">>,
          <<"committed", "materialized">>}
Unended == {"none", "pending"}

\* A claim is made by finalizing a campaign, and only so.
Finalized(k) ==
    \E c \in Campaigns : FinalizeExecution(c, k) \/ (FinalizeTest(c) /\ k = sample[c])

RowStep(k) ==
    /\ calc[k].status # "none" =>
          /\ calc'[k].status # "none"
          /\ calc'[k].campaign = calc[k].campaign
          /\ calc'[k].input = calc[k].input
    /\ calc[k].status \notin Unended =>
          /\ calc'[k].lease = calc[k].lease /\ calc'[k].fp = calc[k].fp
          /\ calc'[k].members = calc[k].members
          /\ calc'[k].status # calc[k].status =>
                <<calc[k].status, calc'[k].status>> \in Moves
          /\ calc[k].status = "ready" /\ calc'[k].status = "committed" => Finalized(k)
    /\ calc[k].status \in Unended =>
          /\ calc'[k].status \notin {"committed", "materialized"}
          /\ calc'[k].status = "ready" =>
                \E w \in Workers : Complete(w) /\ job[w].id = k

\* A scan finds as many as it looks for; a sampling may come back empty.
Enough(k, S) == /\ Cardinality(S) \in {0, calc[k].input.count}
                /\ calc[k].input.kind = "execution" =>
                      Cardinality(S) = calc[k].input.count

\* A worker with a job has a row, and found as many members as it asks for.
Busy(w) ==
    /\ job[w].step # "idle" =>
          job[w].id \in Ids /\ calc[job[w].id].status # "none"
    /\ job[w].step # "publishing" => job[w].members = {}
    /\ job[w].step = "publishing" => Enough(job[w].id, job[w].members)

-----------------------------------------------------------------------------
(* Types *)

LEMMA RowFields ==
    ASSUME Rows, NEW k \in Ids
    PROVE  /\ calc[k] \in Calculations
           /\ calc[k].campaign \in Campaigns /\ calc[k].input \in Inputs
           /\ calc[k].status \in CalcStatuses
           /\ calc[k].fp \in Fingerprints
           /\ calc[k].members \in SUBSET Audiences
           /\ Sized(calc[k])
  BY DEF Rows, Calculations

LEMMA InputFields ==
    ASSUME NEW i \in Inputs
    PROVE  /\ i.kind \in Kinds /\ i.pool \in SUBSET Audiences
           /\ i.count \in Nat \ {0}
  BY ReservationsAssumption

\* A fingerprint has its type.
LEMMA FingerprintType ==
    ASSUME TypeOK, NEW c \in Campaigns
    PROVE  /\ Fingerprint(c) \in Fingerprints
           /\ Fingerprint(c).materialized = Materialized(c)
           /\ Fingerprint(c).reservations = Reservations(c)
           /\ NoFingerprint \in Fingerprints
           /\ \A fp \in Fingerprints, R \in SUBSET Ids :
                 /\ [fp EXCEPT !.reservations = R] \in Fingerprints
                 /\ [fp EXCEPT !.reservations = R].reservations = R
                 /\ [fp EXCEPT !.reservations = R].materialized = fp.materialized
  <1>1. Allocations(c) \subseteq Campaigns \X Nat \X Allocated
    BY InputFields DEF Allocations, TypeOK
  <1>2. Materialized(c) \subseteq Campaigns /\ Reservations(c) \subseteq Ids
    BY DEF Materialized, Reservations, Held
  <1> QED
    BY <1>1, <1>2 DEF Fingerprint, Fingerprints, NoFingerprint

LEMMA NewCalcType ==
    ASSUME TypeOK, NEW c \in Campaigns
    PROVE  /\ NewCalc(c) \in Calculations
           /\ NewCalc(c).status = "pending" /\ NewCalc(c).members = {}
           /\ Sized(NewCalc(c))
  <1>1. NewCalc(c) \in Calculations
    BY FingerprintType DEF NewCalc, Calculations, CalcStatuses, TypeOK
  <1> QED
    BY <1>1, FS_EmptySet DEF NewCalc, Sized

-----------------------------------------------------------------------------
(* Rows *)

\* A step that leaves the rows alone.
LEMMA RowsKept ==
    ASSUME Rows, calc' = calc
    PROVE  Rows' /\ \A k \in Ids : RowStep(k)
  BY DEF Rows, RowStep, Sized, Unended, Ids

\* One row gets a new value.
LEMMA OneRow ==
    ASSUME Rows, NEW k \in Ids, NEW row \in Calculations, Sized(row),
           calc' = [calc EXCEPT ![k] = row],
           calc[k].status # "none" => /\ row.status # "none"
                                      /\ row.campaign = calc[k].campaign
                                      /\ row.input = calc[k].input,
           calc[k].status \in Unended,
           row.status \notin {"committed", "materialized"},
           row.status = "ready" => \E w \in Workers : Complete(w) /\ job[w].id = k
    PROVE  Rows' /\ \A l \in Ids : RowStep(l)
  <1>1. calc'[k] = row /\ \A l \in Ids \ {k} : calc'[l] = calc[l]
    BY DEF Rows
  <1>2. Rows'
    <2>1. calc' \in [Ids -> Calculations]
      BY DEF Rows
    <2>2. \A l \in Ids : Sized(calc[l])'
      BY <1>1 DEF Rows, Sized
    <2> QED
      BY <2>1, <2>2 DEF Rows, Ids
  <1>3. RowStep(k)
    BY <1>1 DEF RowStep
  <1>4. \A l \in Ids \ {k} : RowStep(l)
    BY <1>1 DEF RowStep, Unended
  <1> QED
    BY <1>2, <1>3, <1>4

\* Rows that get another status: pending ones end, claims are released or
\* materialized.
LEMMA MarkedRow ==
    ASSUME Rows, NEW ids, NEW s \in CalcStatuses, NEW k \in Ids
    PROVE  /\ Mark(ids, s)[k] \in Calculations
           /\ Mark(ids, s)[k].status = IF k \in ids THEN s ELSE calc[k].status
           /\ Mark(ids, s)[k].campaign = calc[k].campaign
           /\ Mark(ids, s)[k].input = calc[k].input
           /\ Mark(ids, s)[k].members = calc[k].members
           /\ Mark(ids, s)[k].fp = calc[k].fp
           /\ Mark(ids, s)[k].lease = calc[k].lease
  <1>1. calc[k] \in Calculations
    BY DEF Rows
  <1>2. Mark(ids, s)[k] = IF k \in ids THEN [calc[k] EXCEPT !.status = s] ELSE calc[k]
    BY DEF Mark
  <1> QED
    BY <1>1, <1>2 DEF Calculations

LEMMA MarkRows ==
    ASSUME Rows, NEW ids, NEW s \in CalcStatuses,
           \/ /\ \A k \in ids \cap Ids : calc[k].status = "pending"
              /\ s \in {"failed", "stale"}
           \/ /\ \A k \in ids \cap Ids : calc[k].status = "committed"
              /\ s \in {"stale", "materialized"},
           calc' = Mark(ids, s)
    PROVE  Rows' /\ \A k \in Ids : RowStep(k)
  <1>1. calc' \in [Ids -> Calculations]
    BY MarkedRow DEF Mark
  <1>2. Rows'
    <2>1. \A k \in Ids : /\ calc'[k].members = calc[k].members
                         /\ calc'[k].input = calc[k].input
      BY MarkedRow
    <2> QED
      BY <1>1, <2>1 DEF Rows, Sized, Ids
  <1>3. ASSUME NEW k \in Ids PROVE RowStep(k)
    <2>1. CASE k \notin ids
      BY <2>1, MarkedRow DEF RowStep, Unended
    <2>2. CASE k \in ids /\ calc[k].status = "pending" /\ s \in {"failed", "stale"}
      BY <2>2, MarkedRow DEF RowStep, Unended
    <2>3. CASE k \in ids /\ calc[k].status = "committed" /\ s \in {"stale", "materialized"}
      BY <2>3, MarkedRow DEF RowStep, Unended, Moves
    <2> QED
      BY <2>1, <2>2, <2>3
  <1> QED
    BY <1>2, <1>3

\* A finalization: one row is committed, claims of the other kind released.
LEMMA CommitRow ==
    ASSUME Rows, NEW ids \in SUBSET Held, NEW k \in Ids,
           calc[k].status \in {"ready", "committed"}, Finalized(k),
           calc' = [Mark(ids, "stale") EXCEPT ![k].status = "committed"]
    PROVE  /\ Rows' /\ \A l \in Ids : RowStep(l)
           /\ calc'[k].status = "committed"
           /\ \A l \in Ids \ {k} : calc'[l].status = "committed" =>
                                      calc[l].status = "committed"
  <1> DEFINE marked == Mark(ids, "stale")
  <1>1. \A l \in Ids : marked[l] \in Calculations
    BY MarkedRow DEF CalcStatuses
  <1>2. marked \in [Ids -> Calculations]
    BY <1>1 DEF Mark
  <1>3. /\ calc'[k] = [marked[k] EXCEPT !.status = "committed"]
        /\ \A l \in Ids \ {k} : calc'[l] = marked[l]
    BY <1>2
  <1>4. /\ calc'[k] \in Calculations /\ calc'[k].status = "committed"
        /\ calc'[k].campaign = calc[k].campaign /\ calc'[k].input = calc[k].input
        /\ calc'[k].members = calc[k].members /\ calc'[k].fp = calc[k].fp
        /\ calc'[k].lease = calc[k].lease
    <2> HIDE DEF marked
    <2>1. calc'[k] \in Calculations /\ calc'[k].status = "committed"
          /\ calc'[k].campaign = marked[k].campaign /\ calc'[k].input = marked[k].input
          /\ calc'[k].members = marked[k].members /\ calc'[k].fp = marked[k].fp
          /\ calc'[k].lease = marked[k].lease
      BY <1>1, <1>3 DEF Calculations, CalcStatuses
    <2> QED
      BY <2>1, MarkedRow DEF marked, CalcStatuses
  <1>5. \A l \in Ids : calc'[l] \in Calculations
    BY <1>1, <1>3, <1>4
  <1>6. calc' \in [Ids -> Calculations]
    BY <1>2, <1>5
  <1>7. \A l \in Ids : /\ calc'[l].members = calc[l].members
                       /\ calc'[l].input = calc[l].input
                       /\ calc'[l].campaign = calc[l].campaign
                       /\ calc'[l].fp = calc[l].fp
                       /\ calc'[l].lease = calc[l].lease
    BY <1>3, <1>4, MarkedRow DEF CalcStatuses
  <1>8. Rows'
    BY <1>6, <1>7 DEF Rows, Sized, Ids
  <1>9. \A l \in Ids \ {k} :
           calc'[l].status = IF l \in ids THEN "stale" ELSE calc[l].status
    BY <1>3, MarkedRow DEF CalcStatuses
  <1>10. \A l \in Ids : l \in ids => calc[l].status = "committed"
    BY DEF Held
  <1>11. ASSUME NEW l \in Ids PROVE RowStep(l)
    <2>1. CASE l = k
      BY <2>1, <1>4, <1>7 DEF RowStep, Unended, Moves
    <2>2. CASE l # k
      BY <2>2, <1>7, <1>9, <1>10 DEF RowStep, Unended, Moves
    <2> QED
      BY <2>1, <2>2
  <1> QED
    BY <1>4, <1>8, <1>9, <1>11

-----------------------------------------------------------------------------
(* Steps of the rows *)

LEMMA OutdatedType ==
    ASSUME NEW kind
    PROVE  Outdated(kind) \in {"failed", "stale"}
  BY DEF Outdated

LEMMA SupersededRows ==
    ASSUME TypeOK, Rows, NEW c \in Campaigns, calc' = Superseded(c)
    PROVE  Rows' /\ \A k \in Ids : RowStep(k)
  <1>1. Outdated(input[c].kind) \in CalcStatuses /\
        Outdated(input[c].kind) \in {"failed", "stale"}
    BY OutdatedType DEF CalcStatuses
  <1>2. \A k \in Pending(c) \cap Ids : calc[k].status = "pending"
    BY DEF Pending
  <1> QED
    BY <1>1, <1>2, MarkRows DEF Superseded

LEMMA StartRows ==
    ASSUME TypeOK, Rows, NEW c \in Campaigns, StartCalculation(c)
    PROVE  Rows' /\ \A k \in Ids : RowStep(k)
  <1>1. CASE calc' = Superseded(c)
    BY <1>1, SupersededRows
  <1>2. CASE \E k \in Ids : /\ calc[k].status = "none"
                            /\ calc' = [Superseded(c) EXCEPT ![k] = NewCalc(c)]
    <2>1. PICK k \in Ids : /\ calc[k].status = "none"
                           /\ calc' = [Superseded(c) EXCEPT ![k] = NewCalc(c)]
      BY <1>2
    <2> DEFINE s == Outdated(input[c].kind)
    <2>2. s \in CalcStatuses /\ s \in {"failed", "stale"}
      BY OutdatedType DEF CalcStatuses
    <2> HIDE DEF s
    <2>3. Superseded(c) = Mark(Pending(c), s)
      BY DEF Superseded, s
    <2>4. \A l \in Ids : /\ Superseded(c)[l] \in Calculations
                         /\ Superseded(c)[l].members = calc[l].members
                         /\ Superseded(c)[l].input = calc[l].input
                         /\ Superseded(c)[l].campaign = calc[l].campaign
                         /\ Superseded(c)[l].fp = calc[l].fp
                         /\ Superseded(c)[l].lease = calc[l].lease
                         /\ Superseded(c)[l].status =
                               IF l \in Pending(c) THEN s ELSE calc[l].status
      BY <2>2, <2>3, MarkedRow
    <2>5. Superseded(c) \in [Ids -> Calculations]
      BY <2>3, <2>4 DEF Mark
    <2>6. calc'[k] = NewCalc(c) /\ \A l \in Ids \ {k} : calc'[l] = Superseded(c)[l]
      BY <2>1, <2>5
    <2>7. calc' \in [Ids -> Calculations]
      BY <2>1, <2>5, NewCalcType
    <2>8. \A l \in Ids : Sized(calc[l])'
      BY <2>4, <2>6, NewCalcType DEF Rows, Sized
    <2>9. \A l \in Pending(c) : calc[l].status = "pending"
      BY DEF Pending
    <2>10. RowStep(k)
      BY <2>1, <2>6, NewCalcType DEF RowStep, Unended
    <2>11. ASSUME NEW l \in Ids \ {k} PROVE RowStep(l)
      BY <2>2, <2>4, <2>6, <2>9 DEF RowStep, Unended
    <2> QED
      BY <2>7, <2>8, <2>10, <2>11 DEF Rows, Ids
  <1> QED
    BY <1>1, <1>2 DEF StartCalculation

LEMMA ClaimRows ==
    ASSUME TypeOK, Rows, NEW w \in Workers, NEW k \in Ids, ClaimPending(w, k)
    PROVE  Rows' /\ \A l \in Ids : RowStep(l)
  <1> DEFINE row == [calc[k] EXCEPT !.lease = w]
  <1>1. row \in Calculations /\ row.status = "pending" /\ Sized(row)
        /\ row.campaign = calc[k].campaign /\ row.input = calc[k].input
    BY RowFields DEF ClaimPending, Calculations, Sized
  <1>2. calc' = [calc EXCEPT ![k] = row]
    BY DEF ClaimPending
  <1>3. calc[k].status = "pending"
    BY DEF ClaimPending
  <1> QED
    BY <1>1, <1>2, <1>3, OneRow DEF Unended

\* A worker that ends its job: the row follows if it is still leased to it.
LEMMA FinishRows ==
    ASSUME TypeOK, Rows, NEW w \in Workers, NEW s \in {"failed", "stale"},
           calc' = calc \/ (Leased(w) /\ calc' = Mark({job[w].id}, s))
    PROVE  Rows' /\ \A k \in Ids : RowStep(k)
  <1>1. CASE calc' = calc
    BY <1>1, RowsKept
  <1>2. CASE Leased(w) /\ calc' = Mark({job[w].id}, s)
    <2>1. \A k \in {job[w].id} \cap Ids : calc[k].status = "pending"
      BY <1>2 DEF Leased
    <2> QED
      BY <1>2, <2>1, MarkRows DEF CalcStatuses
  <1> QED
    BY <1>1, <1>2

LEMMA CompleteRows ==
    ASSUME TypeOK, Rows, NEW w \in Workers, Busy(w), Complete(w)
    PROVE  Rows' /\ \A k \in Ids : RowStep(k)
  <1> DEFINE k == job[w].id
             row == [calc[k] EXCEPT !.status = "ready",
                                    !.fp = Fingerprint(Campaign(w)),
                                    !.members = job[w].members]
  <1>1. job[w].step = "publishing" /\ calc[k].status = "pending" /\ k \in Ids
    BY DEF Complete, Publishable, Leased, Busy
  <1>2. calc' = [calc EXCEPT ![k] = row]
    BY DEF Complete
  <1>3. Fingerprint(Campaign(w)) \in Fingerprints
    BY <1>1, RowFields, FingerprintType DEF Campaign
  <1>4. job[w].members \in SUBSET Audiences
        /\ Cardinality(job[w].members) \in {0, calc[k].input.count}
    BY <1>1 DEF Busy, Enough, TypeOK, Jobs
  <1>5. row \in Calculations /\ row.status = "ready" /\ Sized(row)
        /\ row.campaign = calc[k].campaign /\ row.input = calc[k].input
    <2>1. calc[k] \in Calculations
      BY <1>1, RowFields
    <2> QED
      BY <1>3, <1>4, <2>1 DEF Calculations, CalcStatuses, Sized
  <1> HIDE DEF row
  <1> QED
    BY <1>1, <1>2, <1>5, OneRow DEF Unended

\* Finalizations claim one row, the end of a campaign releases what it holds.
LEMMA FinalizeRows ==
    ASSUME TypeOK, Rows, NEW c \in Campaigns, Finalize(c)
    PROVE  Rows' /\ \A k \in Ids : RowStep(k)
  <1>1. HeldFor(c, "test") \in SUBSET Held /\ HeldFor(c, "execution") \in SUBSET Held
    BY DEF HeldFor, HeldBy
  <1>2. CASE \E k \in Ids : FinalizeExecution(c, k)
    <2>1. PICK k \in Ids : FinalizeExecution(c, k)
      BY <1>2
    <2>2. calc[k].status = "ready"
          /\ calc' = [Mark(HeldFor(c, "test"), "stale") EXCEPT ![k].status = "committed"]
      BY <2>1 DEF FinalizeExecution
    <2>3. Finalized(k)
      BY <2>1 DEF Finalized
    <2> QED
      BY <1>1, <2>2, <2>3, CommitRow
  <1>3. CASE FinalizeTest(c)
    <2>1. sample[c] \in Ids
      BY <1>3 DEF FinalizeTest, TypeOK
    <2>2. calc[sample[c]].status \in {"ready", "committed"}
          /\ calc' = [Mark(HeldFor(c, "execution"), "stale")
                         EXCEPT ![sample[c]].status = "committed"]
      BY <1>3 DEF FinalizeTest, ReserveForCampaign
    <2>3. Finalized(sample[c])
      BY <1>3 DEF Finalized
    <2> QED
      BY <1>1, <2>1, <2>2, <2>3, CommitRow
  <1>4. CASE FinalizeStandard(c)
    BY <1>4, RowsKept DEF FinalizeStandard
  <1> QED
    BY <1>2, <1>3, <1>4 DEF Finalize

LEMMA ReleaseRows ==
    ASSUME Rows, NEW c \in Campaigns, Release(c)
    PROVE  Rows' /\ \A k \in Ids : RowStep(k)
  <1>1. \A k \in HeldBy(c) \cap Ids : calc[k].status = "committed"
    BY DEF HeldBy, Held
  <1> QED
    BY <1>1, MarkRows DEF Release, CalcStatuses

LEMMA LiveRows ==
    ASSUME TypeOK, Rows, NEW c \in Campaigns, Live(c)
    PROVE  Rows' /\ \A k \in Ids : RowStep(k)
  <1>1. CASE Release(c)
    BY <1>1, ReleaseRows
  <1>2. CASE calc' = calc
    BY <1>2, RowsKept
  <1>3. CASE calc' = Mark({sample[c]}, "materialized") /\ sample[c] \in HeldBy(c)
    <2>1. \A k \in {sample[c]} \cap Ids : calc[k].status = "committed"
      BY <1>3 DEF HeldBy, Held
    <2> QED
      BY <1>3, <2>1, MarkRows DEF CalcStatuses
  <1> QED
    BY <1>1, <1>2, <1>3 DEF Live, Fall, ApproveCampaign, RejectCampaign,
       CancelCampaign, MoveCampaignToRunning, Materialize, MaterializeTest,
       MaterializeExecution, SelectStandard, RecoverCampaign,
       MoveCampaignToExecuted

LEMMA WorkRows ==
    ASSUME TypeOK, Rows, NEW w \in Workers, Busy(w), Work(w) \/ WorkerFails(w)
    PROVE  Rows' /\ \A k \in Ids : RowStep(k)
  <1> DEFINE s == Outdated(calc[job[w].id].input.kind)
  <1>1. s \in {"failed", "stale"}
    BY OutdatedType
  <1> HIDE DEF s
  <1>2. CASE Complete(w)
    BY <1>2, CompleteRows
  <1>3. CASE \E t \in {"failed", "stale"} :
                calc' = calc \/ (Leased(w) /\ calc' = Mark({job[w].id}, t))
    BY <1>3, FinishRows
  <1>4. ReadCampaign(w) => calc' = calc \/ (Leased(w) /\ calc' = Mark({job[w].id}, s))
    BY DEF ReadCampaign, Finish, s
  <1>5. AllocationChanged(w) => calc' = calc \/ (Leased(w) /\ calc' = Mark({job[w].id}, s))
    BY DEF AllocationChanged, Finish, s
  <1>6. InsufficientCapacity(w) =>
           calc' = calc \/ (Leased(w) /\ calc' = Mark({job[w].id}, "failed"))
    BY DEF InsufficientCapacity, Finish
  <1>7. WorkerFails(w) =>
           calc' = calc \/ (Leased(w) /\ calc' = Mark({job[w].id}, "failed"))
    BY DEF WorkerFails
  <1>8. ReadReservations(w) \/ SelectCandidates(w) => calc' = calc
    BY DEF ReadReservations, SelectCandidates
  <1> QED
    BY <1>1, <1>2, <1>3, <1>4, <1>5, <1>6, <1>7, <1>8 DEF Work

LEMMA SaveRows ==
    ASSUME TypeOK, Rows, NEW c \in Campaigns, NEW i \in Inputs, NEW f \in BOOLEAN,
           UpdateSave(c, i, f)
    PROVE  Rows' /\ \A k \in Ids : RowStep(k)
  <1>1. CASE calc' = calc
    BY <1>1, RowsKept
  <1>2. CASE calc' # calc
    <2> DEFINE ids == {k \in Ids : /\ calc[k].campaign = c
                                   /\ calc[k].status = "pending"
                                   /\ calc[k].input.kind = "test"}
    <2>1. calc' = Mark(ids, "failed")
      BY <1>2 DEF UpdateSave
    <2>2. \A k \in ids \cap Ids : calc[k].status = "pending"
      OBVIOUS
    <2> QED
      BY <2>1, <2>2, MarkRows DEF CalcStatuses
  <1> QED
    BY <1>1, <1>2

\* What every step does to the rows.
LEMMA StepRows ==
    ASSUME TypeOK, \A w \in Workers : Busy(w), [Next]_vars
    PROVE  Rows' /\ \A k \in Ids : RowStep(k)
  <1>1. Rows
    BY DEF TypeOK, Rows, Sized, Members
  <1>2. CASE UNCHANGED vars
    BY <1>1, <1>2, RowsKept DEF vars
  <1>3. ASSUME NEW w \in Workers, Work(w) \/ WorkerFails(w)
        PROVE  Rows' /\ \A k \in Ids : RowStep(k)
    BY <1>1, <1>3, WorkRows
  <1>4. ASSUME NEW w \in Workers, NEW k \in Ids, ClaimPending(w, k)
        PROVE  Rows' /\ \A l \in Ids : RowStep(l)
    BY <1>1, <1>4, ClaimRows
  <1>5. ASSUME NEW c \in Campaigns, StartCalculation(c)
        PROVE  Rows' /\ \A k \in Ids : RowStep(k)
    BY <1>1, <1>5, StartRows
  <1>6. ASSUME NEW c \in Campaigns, UpdateCheck(c)
        PROVE  Rows' /\ \A k \in Ids : RowStep(k)
    BY <1>1, <1>6, RowsKept DEF UpdateCheck
  <1>7. ASSUME NEW c \in Campaigns, Finalize(c)
        PROVE  Rows' /\ \A k \in Ids : RowStep(k)
    BY <1>1, <1>7, FinalizeRows
  <1>8. ASSUME NEW c \in Campaigns, Live(c)
        PROVE  Rows' /\ \A k \in Ids : RowStep(k)
    BY <1>1, <1>8, LiveRows
  <1>9. ASSUME NEW c \in Campaigns, NEW i \in Inputs, NEW f \in BOOLEAN,
               UpdateSave(c, i, f)
        PROVE  Rows' /\ \A k \in Ids : RowStep(k)
    BY <1>1, <1>9, SaveRows
  <1> QED
    BY <1>2, <1>3, <1>4, <1>5, <1>6, <1>7, <1>8, <1>9 DEF Next

-----------------------------------------------------------------------------
(* Steps of the campaigns *)

CampaignTypes ==
    /\ status \in [Campaigns -> Statuses]
    /\ input \in [Campaigns -> Inputs]
    /\ sample \in [Campaigns -> Ids \cup {0}]
    /\ freezes \in [Campaigns -> Nat]
    /\ taken \in [Campaigns -> SUBSET Audiences]
    /\ due \subseteq Campaigns
    /\ editing \subseteq Campaigns
    /\ finalizing \subseteq Campaigns
    /\ updates \in Nat

\* A campaign that has its selection, or may get it, cannot be edited again.
Chosen(c) ==
    /\ c \in due => c \notin editing /\ ~IsEditable(c)
    /\ status[c] \in {"running", "interrupted", "executed"} => c \in due
    /\ taken[c] # {} => status[c] \in Allocated /\ c \in due

TakenStep(c) == taken[c] # {} => taken'[c] = taken[c]

\* Whom Materialize selects.
LEMMA SelectedType ==
    ASSUME TypeOK, NEW c \in Campaigns, Materialize(c)
    PROVE  \E S \in SUBSET Audiences : Insert(c, S)
  <1>1. ASSUME NEW k \in HeldBy(c) PROVE Members(k) \in SUBSET Audiences
    BY DEF HeldBy, Held, Members, TypeOK, Calculations
  <1>2. ASSUME NEW S \in kSubset(input[c].count,
                                 input[c].pool \ (Used \cup MembersOf(Held)))
        PROVE  S \in SUBSET Audiences
    BY InputFields DEF kSubset, TypeOK
  <1>3. HeldFor(c, "execution") \subseteq HeldBy(c)
    BY DEF HeldFor
  <1> QED
    BY <1>1, <1>2, <1>3 DEF Materialize, MaterializeTest, MaterializeExecution,
                           SelectStandard, StandardCandidates

LEMMA MaterializeCampaigns ==
    ASSUME TypeOK, \A x \in Campaigns : Chosen(x),
           NEW c \in Campaigns, Materialize(c)
    PROVE  /\ CampaignTypes'
           /\ \A x \in Campaigns : Chosen(x)' /\ TakenStep(x)
  <1>1. PICK S \in SUBSET Audiences : taken' = [taken EXCEPT ![c] = S]
    BY SelectedType DEF Insert
  <1>2. status[c] = "running" /\ taken[c] = {}
        /\ UNCHANGED <<status, input, sample, freezes, due, editing, finalizing,
                       updates>>
    BY DEF Materialize
  <1>3. CampaignTypes'
    BY <1>1, <1>2 DEF CampaignTypes, TypeOK, Ids
  <1>4. ASSUME NEW x \in Campaigns PROVE Chosen(x)' /\ TakenStep(x)
    BY <1>1, <1>2 DEF Chosen, TakenStep, TypeOK, IsEditable, Allocated
  <1> QED
    BY <1>3, <1>4

LEMMA MoveCampaigns ==
    ASSUME TypeOK, \A x \in Campaigns : Chosen(x),
           NEW c \in Campaigns, NEW s \in Statuses, MoveTo(c, s),
           s \notin {"initiated", "in-progress"},
           s = "ended" => taken[c] = {},
           s # "ended" => s \in Allocated /\ (status[c] \in {"approved", "running"}
                                              \/ s = "approved"),
           s \in {"running", "interrupted", "executed"} => c \in due
    PROVE  /\ CampaignTypes'
           /\ \A x \in Campaigns : Chosen(x)' /\ TakenStep(x)
  <1>1. /\ status' = [status EXCEPT ![c] = s]
        /\ due' = IF s = "ended" THEN due \ {c} ELSE due
        /\ finalizing' = finalizing \ {c}
        /\ UNCHANGED <<input, sample, freezes, taken, editing, updates>>
    BY DEF MoveTo, SetStatus
  <1>2. CampaignTypes'
    BY <1>1 DEF CampaignTypes, TypeOK, Ids
  <1>3. ASSUME NEW x \in Campaigns PROVE Chosen(x)' /\ TakenStep(x)
    <2>1. CASE x # c
      BY <1>1, <2>1 DEF Chosen, TakenStep, TypeOK, IsEditable
    <2>2. CASE x = c
      BY <1>1, <2>2 DEF Chosen, TakenStep, TypeOK, IsEditable, Allocated
    <2> QED
      BY <2>1, <2>2
  <1> QED
    BY <1>2, <1>3

LEMMA LiveCampaigns ==
    ASSUME TypeOK, \A x \in Campaigns : Chosen(x), NEW c \in Campaigns, Live(c)
    PROVE  /\ CampaignTypes'
           /\ \A x \in Campaigns : Chosen(x)' /\ TakenStep(x)
  <1>1. CASE Fall(c)
    <2>1. CampaignTypes'
      BY <1>1 DEF Fall, CampaignTypes, TypeOK, Ids
    <2>2. ASSUME NEW x \in Campaigns PROVE Chosen(x)' /\ TakenStep(x)
      BY <1>1 DEF Fall, Chosen, TakenStep, TypeOK, IsEditable
    <2> QED
      BY <2>1, <2>2
  <1>2. CASE Materialize(c)
    BY <1>2, MaterializeCampaigns
  <1>3. CASE ApproveCampaign(c)
    BY <1>3, MoveCampaigns DEF ApproveCampaign, Statuses, Allocated
  <1>4. CASE RejectCampaign(c) \/ CancelCampaign(c)
    <2>1. MoveTo(c, "ended") /\ (status[c] = "waiting-for-approval" \/ c \notin due)
      BY <1>4 DEF RejectCampaign, CancelCampaign, Refundable
    <2>2. taken[c] = {}
      BY <2>1 DEF Chosen, Allocated
    <2> QED
      BY <2>1, <2>2, MoveCampaigns DEF Statuses
  <1>5. CASE MoveCampaignToRunning(c)
    BY <1>5, MoveCampaigns DEF MoveCampaignToRunning, Statuses, Allocated
  <1>6. CASE RecoverCampaign(c)
    <2>1. c \in due
      BY <1>6 DEF RecoverCampaign, Chosen
    <2> QED
      BY <1>6, <2>1, MoveCampaigns DEF RecoverCampaign, Statuses, Allocated
  <1>7. CASE MoveCampaignToExecuted(c)
    <2>1. c \in due
      BY <1>7 DEF MoveCampaignToExecuted, Chosen
    <2> QED
      BY <1>7, <2>1, MoveCampaigns DEF MoveCampaignToExecuted, Statuses, Allocated
  <1> QED
    BY <1>1, <1>2, <1>3, <1>4, <1>5, <1>6, <1>7 DEF Live

LEMMA DraftCampaigns ==
    ASSUME TypeOK, \A x \in Campaigns : Chosen(x), NEW c \in Campaigns,
           StartCalculation(c) \/ UpdateCheck(c) \/ Finalize(c)
              \/ \E i \in Inputs, f \in BOOLEAN : UpdateSave(c, i, f)
    PROVE  /\ CampaignTypes'
           /\ \A x \in Campaigns : Chosen(x)' /\ TakenStep(x)
  <1>1. CASE StartCalculation(c)
    <2>1. CampaignTypes'
      BY <1>1 DEF StartCalculation, CampaignTypes, TypeOK, Ids
    <2>2. ASSUME NEW x \in Campaigns PROVE Chosen(x)' /\ TakenStep(x)
      BY <1>1 DEF StartCalculation, Chosen, TakenStep, IsEditable
    <2> QED
      BY <2>1, <2>2
  <1>2. CASE UpdateCheck(c)
    <2>1. CampaignTypes'
      BY <1>2 DEF UpdateCheck, CampaignTypes, TypeOK, Ids
    <2>2. ASSUME NEW x \in Campaigns PROVE Chosen(x)' /\ TakenStep(x)
      BY <1>2 DEF UpdateCheck, Chosen, TakenStep, IsEditable
    <2> QED
      BY <2>1, <2>2
  <1>3. CASE Finalize(c)
    <2>1. FinalizeRow(c)
      BY <1>3 DEF Finalize, FinalizeExecution, FinalizeTest, FinalizeStandard
    <2>2. CampaignTypes'
      BY <2>1 DEF FinalizeRow, SetStatus, CampaignTypes, TypeOK, Ids, Statuses
    <2>3. ASSUME NEW x \in Campaigns PROVE Chosen(x)' /\ TakenStep(x)
      BY <2>1 DEF FinalizeRow, SetStatus, Chosen, TakenStep, IsEditable, TypeOK,
         Allocated
    <2> QED
      BY <2>2, <2>3
  <1>4. CASE \E i \in Inputs, f \in BOOLEAN : UpdateSave(c, i, f)
    <2>1. PICK i \in Inputs, f \in BOOLEAN : UpdateSave(c, i, f)
      BY <1>4
    <2>2. CampaignTypes'
      BY <2>1 DEF UpdateSave, SetStatus, CampaignTypes, TypeOK, Ids, Statuses
    <2>3. ASSUME NEW x \in Campaigns PROVE Chosen(x)' /\ TakenStep(x)
      BY <2>1 DEF UpdateSave, SetStatus, Chosen, TakenStep, IsEditable, TypeOK,
         Allocated
    <2> QED
      BY <2>2, <2>3
  <1> QED
    BY <1>1, <1>2, <1>3, <1>4

LEMMA WorkerCampaigns ==
    ASSUME TypeOK, \A x \in Campaigns : Chosen(x), NEW w \in Workers, Busy(w),
           Work(w) \/ WorkerFails(w) \/ \E k \in Ids : ClaimPending(w, k)
    PROVE  /\ CampaignTypes'
           /\ \A x \in Campaigns : Chosen(x)' /\ TakenStep(x)
  <1>1. CASE Complete(w)
    <2>1. job[w].id \in Ids
      BY <1>1 DEF Complete, Busy
    <2>2. CampaignTypes'
      BY <1>1, <2>1 DEF Complete, CampaignTypes, TypeOK, Ids
    <2>3. ASSUME NEW x \in Campaigns PROVE Chosen(x)' /\ TakenStep(x)
      BY <1>1 DEF Complete, Chosen, TakenStep, IsEditable
    <2> QED
      BY <2>2, <2>3
  <1>2. CASE UNCHANGED campaignVars
    <2>1. CampaignTypes'
      BY <1>2 DEF campaignVars, CampaignTypes, TypeOK, Ids
    <2>2. ASSUME NEW x \in Campaigns PROVE Chosen(x)' /\ TakenStep(x)
      BY <1>2 DEF campaignVars, Chosen, TakenStep, IsEditable
    <2> QED
      BY <2>1, <2>2
  <1> QED
    BY <1>1, <1>2 DEF Work, WorkerFails, ClaimPending, ReadCampaign, Finish,
       ReadReservations, SelectCandidates, InsufficientCapacity, AllocationChanged

\* What every step does to the campaigns.
LEMMA StepCampaigns ==
    ASSUME TypeOK, \A x \in Campaigns : Chosen(x), \A w \in Workers : Busy(w),
           [Next]_vars
    PROVE  /\ CampaignTypes'
           /\ \A x \in Campaigns : Chosen(x)' /\ TakenStep(x)
  <1>1. CASE UNCHANGED vars
    <2>1. CampaignTypes'
      BY <1>1 DEF vars, CampaignTypes, TypeOK, Ids
    <2>2. ASSUME NEW x \in Campaigns PROVE Chosen(x)' /\ TakenStep(x)
      BY <1>1 DEF vars, Chosen, TakenStep, IsEditable
    <2> QED
      BY <2>1, <2>2
  <1> QED
    BY <1>1, LiveCampaigns, DraftCampaigns, WorkerCampaigns DEF Next

-----------------------------------------------------------------------------
(* What a fingerprint knows *)

\* A fingerprint taken for campaign c names claims of other campaigns, which
\* may have been released since, and campaigns with a selection.
Known(fp, c) ==
    /\ \A l \in fp.reservations :
          /\ calc[l].status \in {"committed", "stale", "materialized"}
          /\ calc[l].campaign # c
    /\ \A x \in fp.materialized : taken[x] # {}

\* Of what it names, nothing that is still claimed is among the members S.
Free(fp, S) ==
    /\ \A l \in fp.reservations : calc[l].status = "committed" =>
                                     calc[l].members \cap S = {}
    /\ \A x \in fp.materialized : taken[x] \cap S = {}

KnownJob(w) ==
    /\ job[w].step \in {"reading", "scanning", "publishing"} =>
          Known(job[w].fp, calc[job[w].id].campaign)
    /\ job[w].step = "publishing" => Free(job[w].fp, job[w].members)

KnownCalc(k) ==
    calc[k].status = "ready" => /\ Known(calc[k].fp, calc[k].campaign)
                                /\ Free(calc[k].fp, calc[k].members)

\* The same of the state after a step.
KnownLater(fp, c) ==
    /\ \A l \in fp.reservations :
          /\ calc'[l].status \in {"committed", "stale", "materialized"}
          /\ calc'[l].campaign # c
    /\ \A x \in fp.materialized : taken'[x] # {}

FreeLater(fp, S) ==
    /\ \A l \in fp.reservations : calc'[l].status = "committed" =>
                                     calc'[l].members \cap S = {}
    /\ \A x \in fp.materialized : taken'[x] \cap S = {}

LEMMA Later ==
    /\ \A w : KnownJob(w)' <=>
          /\ job'[w].step \in {"reading", "scanning", "publishing"} =>
                KnownLater(job'[w].fp, calc'[job'[w].id].campaign)
          /\ job'[w].step = "publishing" => FreeLater(job'[w].fp, job'[w].members)
    /\ \A k : KnownCalc(k)' <=>
          (calc'[k].status = "ready" => /\ KnownLater(calc'[k].fp, calc'[k].campaign)
                                        /\ FreeLater(calc'[k].fp, calc'[k].members))
  BY DEF KnownJob, KnownCalc, Known, Free, KnownLater, FreeLater

\* Claims are never taken up again and selections never change, so what is
\* known stays known.
LEMMA KnownStays ==
    ASSUME \A k \in Ids : RowStep(k), \A x \in Campaigns : TakenStep(x),
           NEW fp \in Fingerprints, NEW c
    PROVE  /\ Known(fp, c) => KnownLater(fp, c)
           /\ \A S : Known(fp, c) /\ Free(fp, S) => FreeLater(fp, S)
  <1>1. fp.reservations \subseteq Ids /\ fp.materialized \subseteq Campaigns
    BY DEF Fingerprints
  <1>2. ASSUME NEW l \in fp.reservations,
               calc[l].status \in {"committed", "stale", "materialized"}
        PROVE  /\ calc'[l].status \in {"committed", "stale", "materialized"}
               /\ calc'[l].campaign = calc[l].campaign
               /\ calc'[l].members = calc[l].members
               /\ calc'[l].status = "committed" => calc[l].status = "committed"
    BY <1>1, <1>2 DEF RowStep, Unended, Moves
  <1>3. \A x \in fp.materialized : taken[x] # {} => taken'[x] = taken[x]
    BY <1>1 DEF TakenStep
  <1>4. Known(fp, c) => KnownLater(fp, c)
    BY <1>2, <1>3 DEF Known, KnownLater
  <1>5. ASSUME NEW S, Known(fp, c), Free(fp, S) PROVE FreeLater(fp, S)
    BY <1>2, <1>3, <1>5 DEF Known, Free, FreeLater
  <1> QED
    BY <1>4, <1>5

\* The fingerprint of the present state is known, and what is free of it is
\* free of everything the other campaigns hold.
LEMMA FingerprintKnown ==
    ASSUME TypeOK, NEW c \in Campaigns
    PROVE  Known(Fingerprint(c), c)
  BY FingerprintType DEF Known, Materialized, Reservations, Held, HeldBy

LEMMA FreeOfClaims ==
    ASSUME TypeOK, \A x \in Campaigns : Chosen(x), NEW c \in Campaigns,
           NEW S, Free(Fingerprint(c), S), NEW x \in Campaigns \ {c}
    PROVE  S \cap Claims(x) = {}
  <1>1. taken[x] # {} => x \in Fingerprint(c).materialized
    BY FingerprintType DEF Materialized, Chosen
  <1>2. ASSUME NEW l \in HeldBy(x) PROVE calc[l].members \cap S = {}
    <2>1. l \in Fingerprint(c).reservations /\ calc[l].status = "committed"
      BY FingerprintType DEF Reservations, Held, HeldBy
    <2> QED
      BY <2>1 DEF Free
  <1>3. taken[x] \cap S = {}
    BY <1>1 DEF Free
  <1> QED
    BY <1>2, <1>3 DEF Claims, MembersOf, Members

\* The scan passes over everything that is known.
LEMMA ScanIsFree ==
    ASSUME TypeOK, NEW k \in Ids, NEW fp \in Fingerprints,
           Known(fp, calc[k].campaign), NEW S \in SUBSET Candidates(k)
    PROVE  Free(fp, S)
  <1>1. fp.reservations \subseteq Ids /\ fp.materialized \subseteq Campaigns
    BY DEF Fingerprints
  <1>2. \A x \in fp.materialized : taken[x] \subseteq Excluded(k)
    BY <1>1 DEF Excluded, Used
  <1>3. ASSUME NEW l \in fp.reservations, calc[l].status = "committed"
        PROVE  calc[l].members \subseteq Excluded(k)
    <2>1. l \in Held /\ l \notin HeldFor(calc[k].campaign, "execution")
      BY <1>1, <1>3 DEF Held, HeldFor, HeldBy, Known
    <2> QED
      BY <2>1 DEF Excluded, MembersOf, Members
  <1> QED
    BY <1>2, <1>3 DEF Free, Candidates

-----------------------------------------------------------------------------
(* Steps of the workers *)

Claimed(k) == [NoJob EXCEPT !.step = "claimed", !.id = k]
HasRead(w) == [job[w] EXCEPT !.step = "reading", !.fp =
                  [Fingerprint(Campaign(w)) EXCEPT !.reservations = {}]]
HasReadAll(w) == [job[w] EXCEPT !.step = "scanning", !.fp =
                     [@ EXCEPT !.reservations = Reservations(Campaign(w))]]
HasChosen(w, S) == [job[w] EXCEPT !.step = "publishing", !.members = S]

JobStep(w) ==
    \/ job'[w] = job[w]
    \/ job'[w] = NoJob
    \/ \E k \in Ids : calc[k].status = "pending" /\ job'[w] = Claimed(k)
    \/ job[w].step = "claimed" /\ job'[w] = HasRead(w)
    \/ job[w].step = "reading" /\ job'[w] = HasReadAll(w)
    \/ /\ job[w].step = "scanning"
       /\ \E S \in SUBSET Candidates(job[w].id) :
             Enough(job[w].id, S) /\ job'[w] = HasChosen(w, S)

LEMMA JobFields ==
    ASSUME TypeOK, NEW w \in Workers
    PROVE  /\ job[w] \in Jobs /\ job[w].fp \in Fingerprints
           /\ job[w].id \in Ids \cup {0} /\ job[w].members \in SUBSET Audiences
  BY DEF TypeOK, Jobs

LEMMA NoJobType == NoJob \in Jobs /\ NoJob.step = "idle" /\ NoJob.members = {}
  BY DEF NoJob, Jobs, NoFingerprint, Fingerprints

\* One worker changes at most, and as one of the above.
LEMMA OneWorker ==
    ASSUME [Next]_vars
    PROVE  job' = job \/ \E w \in Workers : \E j : Goto(w, j)
  <1>1. ASSUME NEW w \in Workers,
               Work(w) \/ WorkerFails(w) \/ \E k \in Ids : ClaimPending(w, k)
        PROVE  \E j : Goto(w, j)
    BY <1>1 DEF Work, WorkerFails, ClaimPending, ReadCampaign, Finish, Complete,
       ReadReservations, SelectCandidates, InsufficientCapacity,
       AllocationChanged, Goto
  <1>2. ASSUME NEW c \in Campaigns,
               StartCalculation(c) \/ UpdateCheck(c) \/ Finalize(c) \/ Live(c)
                  \/ \E i \in Inputs, f \in BOOLEAN : UpdateSave(c, i, f)
        PROVE  job' = job
    BY <1>2 DEF StartCalculation, UpdateCheck, Finalize, FinalizeExecution,
       FinalizeTest, FinalizeStandard, FinalizeRow, Live, Fall, ApproveCampaign,
       RejectCampaign, CancelCampaign, MoveCampaignToRunning,
       Materialize, RecoverCampaign, MoveCampaignToExecuted, MoveTo, UpdateSave
  <1>3. CASE UNCHANGED vars
    BY <1>3 DEF vars
  <1> QED
    BY <1>1, <1>2, <1>3 DEF Next

LEMMA StepJobs ==
    ASSUME TypeOK, \A w \in Workers : Busy(w), [Next]_vars, NEW v \in Workers
    PROVE  JobStep(v)
  <1>1. CASE job' = job
    BY <1>1 DEF JobStep
  <1>2. ASSUME NEW w \in Workers, NEW j, Goto(w, j), w # v PROVE JobStep(v)
    BY <1>2 DEF Goto, TypeOK, JobStep
  <1>3. ASSUME NEW w \in Workers, NEW j, Goto(w, j), w = v PROVE job'[v] = j
    BY <1>3 DEF Goto, TypeOK
  <1>4. ASSUME NEW w \in Workers, Goto(w, NoJob)
        PROVE  JobStep(v)
    BY <1>2, <1>3, <1>4 DEF JobStep
  <1>5. ASSUME NEW w \in Workers, NEW k \in Ids, ClaimPending(w, k)
        PROVE  JobStep(v)
    <2>1. Goto(w, Claimed(k)) /\ calc[k].status = "pending"
      BY <1>5 DEF ClaimPending, Goto, Claimed
    <2> QED
      BY <1>2, <1>3, <2>1 DEF JobStep
  <1>6. ASSUME NEW w \in Workers, ReadCampaign(w)
        PROVE  JobStep(v)
    <2>1. Goto(w, NoJob) \/ (job[w].step = "claimed" /\ Goto(w, HasRead(w)))
      BY <1>6 DEF ReadCampaign, Finish, HasRead
    <2> QED
      BY <1>2, <1>3, <1>4, <2>1 DEF JobStep
  <1>7. ASSUME NEW w \in Workers, ReadReservations(w)
        PROVE  JobStep(v)
    <2>1. job[w].step = "reading" /\ Goto(w, HasReadAll(w))
      BY <1>7 DEF ReadReservations, HasReadAll
    <2> QED
      BY <1>2, <1>3, <2>1 DEF JobStep
  <1>8. ASSUME NEW w \in Workers, SelectCandidates(w)
        PROVE  JobStep(v)
    <2>1. \E S \in SUBSET Candidates(job[w].id) :
             Enough(job[w].id, S) /\ Goto(w, HasChosen(w, S))
      <3>1. CASE \E S \in kSubset(calc[job[w].id].input.count, Candidates(job[w].id)) :
                    Goto(w, HasChosen(w, S))
        BY <3>1 DEF kSubset, Enough
      <3>2. CASE /\ Goto(w, [job[w] EXCEPT !.step = "publishing"])
                 /\ calc[job[w].id].input.kind = "test"
        <4>1. job[w].step = "scanning" /\ job[w].members = {}
          BY <1>8 DEF SelectCandidates, Busy
        <4>2. HasChosen(w, {}) = [job[w] EXCEPT !.step = "publishing"]
          BY <4>1, JobFields DEF HasChosen, Jobs
        <4> QED
          BY <3>2, <4>2, FS_EmptySet DEF Enough
      <3> QED
        BY <1>8, <3>1, <3>2 DEF SelectCandidates, HasChosen
    <2>2. job[w].step = "scanning"
      BY <1>8 DEF SelectCandidates
    <2> QED
      BY <1>2, <1>3, <2>1, <2>2 DEF JobStep
  <1>9. ASSUME NEW w \in Workers,
               InsufficientCapacity(w) \/ Complete(w) \/ AllocationChanged(w)
                  \/ WorkerFails(w)
        PROVE  JobStep(v)
    <2>1. Goto(w, NoJob)
      BY <1>9 DEF InsufficientCapacity, Complete, AllocationChanged, WorkerFails,
         Finish
    <2> QED
      BY <2>1, <1>4
  <1>10. ASSUME NEW w \in Workers,
                Work(w) \/ WorkerFails(w) \/ \E k \in Ids : ClaimPending(w, k)
         PROVE  JobStep(v)
    BY <1>5, <1>6, <1>7, <1>8, <1>9, <1>10 DEF Work
  <1>11. ASSUME NEW c \in Campaigns,
                StartCalculation(c) \/ UpdateCheck(c) \/ Finalize(c) \/ Live(c)
                   \/ \E i \in Inputs, f \in BOOLEAN : UpdateSave(c, i, f)
         PROVE  job' = job
    BY <1>11 DEF StartCalculation, UpdateCheck, Finalize, FinalizeExecution,
       FinalizeTest, FinalizeStandard, FinalizeRow, Live, Fall, ApproveCampaign,
       RejectCampaign, CancelCampaign, MoveCampaignToRunning,
       Materialize, RecoverCampaign, MoveCampaignToExecuted, MoveTo, UpdateSave
  <1>12. CASE UNCHANGED vars
    BY <1>1, <1>12 DEF vars
  <1> QED
    BY <1>1, <1>10, <1>11, <1>12 DEF Next

\* What a worker's step makes of its type and of what it knows.
LEMMA WorkerKnows ==
    ASSUME TypeOK, \A k \in Ids : RowStep(k), \A x \in Campaigns : TakenStep(x),
           NEW w \in Workers, Busy(w), KnownJob(w), JobStep(w)
    PROVE  job'[w] \in Jobs /\ Busy(w)' /\ KnownJob(w)'
  <1> USE JobFields
  <1>1. job[w].step # "idle" =>
           /\ job[w].id \in Ids
           /\ calc'[job[w].id].campaign = calc[job[w].id].campaign
           /\ calc'[job[w].id].input = calc[job[w].id].input
           /\ calc'[job[w].id].status # "none"
           /\ calc[job[w].id].campaign \in Campaigns
    <2>1. Rows
      BY DEF TypeOK, Rows, Sized, Members
    <2> QED
      BY <2>1, RowFields DEF Busy, RowStep
  <1>2. ASSUME NEW fp \in Fingerprints, NEW c
        PROVE  /\ Known(fp, c) => KnownLater(fp, c)
               /\ \A S : Known(fp, c) /\ Free(fp, S) => FreeLater(fp, S)
    BY KnownStays
  <1>3. CASE job'[w] = job[w]
    <2>1. Busy(w)'
      BY <1>1, <1>3 DEF Busy, Enough
    <2>2. KnownJob(w)'
      BY <1>1, <1>2, <1>3, Later DEF KnownJob, Busy
    <2> QED
      BY <1>3, <2>1, <2>2
  <1>4. CASE job'[w] = NoJob
    BY <1>4, NoJobType, Later DEF Busy
  <1>5. CASE \E k \in Ids : calc[k].status = "pending" /\ job'[w] = Claimed(k)
    <2>1. PICK k \in Ids : calc[k].status = "pending" /\ job'[w] = Claimed(k)
      BY <1>5
    <2>2. job'[w] \in Jobs /\ job'[w].step = "claimed" /\ job'[w].id = k
          /\ job'[w].members = {}
      BY <2>1, NoJobType DEF Claimed, Jobs
    <2>3. calc'[k].status # "none"
      BY <2>1 DEF RowStep
    <2> QED
      BY <2>2, <2>3, Later DEF Busy
  <1>6. CASE job[w].step = "claimed" /\ job'[w] = HasRead(w)
    <2> DEFINE c == calc[job[w].id].campaign
               fp == [Fingerprint(c) EXCEPT !.reservations = {}]
    <2>1. c \in Campaigns
      BY <1>1, <1>6
    <2>2. fp \in Fingerprints /\ fp.reservations = {}
          /\ fp.materialized = Fingerprint(c).materialized
      BY <2>1, FingerprintType
    <2>3. Known(fp, c)
      BY <2>1, <2>2, FingerprintKnown DEF Known
    <2>4. job'[w] = [job[w] EXCEPT !.step = "reading", !.fp = fp]
      BY <1>6 DEF HasRead, Campaign
    <2> HIDE DEF fp, c
    <2>5. job'[w] \in Jobs /\ job'[w].step = "reading" /\ job'[w].fp = fp
          /\ job'[w].id = job[w].id /\ job'[w].members = job[w].members
      BY <2>2, <2>4 DEF Jobs
    <2>6. Busy(w)'
      BY <1>1, <1>6, <2>5 DEF Busy
    <2>7. KnownLater(fp, c)
      BY <1>2, <2>2, <2>3
    <2> QED
      BY <1>1, <1>6, <2>5, <2>6, <2>7, Later DEF c
  <1>7. CASE job[w].step = "reading" /\ job'[w] = HasReadAll(w)
    <2> DEFINE c == calc[job[w].id].campaign
               fp == [job[w].fp EXCEPT !.reservations = Reservations(c)]
    <2>1. c \in Campaigns
      BY <1>1, <1>7
    <2>2. Reservations(c) \in SUBSET Ids
      BY DEF Reservations, Held
    <2>3. fp \in Fingerprints /\ fp.reservations = Reservations(c)
          /\ fp.materialized = job[w].fp.materialized
      BY <2>1, <2>2, FingerprintType
    <2>4. Known(fp, c)
      BY <1>7, <2>1, <2>3, FingerprintKnown, FingerprintType DEF Known, KnownJob
    <2>5. job'[w] = [job[w] EXCEPT !.step = "scanning", !.fp = fp]
      BY <1>7 DEF HasReadAll, Campaign
    <2> HIDE DEF fp, c
    <2>6. job'[w] \in Jobs /\ job'[w].step = "scanning" /\ job'[w].fp = fp
          /\ job'[w].id = job[w].id /\ job'[w].members = job[w].members
      BY <2>3, <2>5 DEF Jobs
    <2>7. Busy(w)'
      BY <1>1, <1>7, <2>6 DEF Busy
    <2>8. KnownLater(fp, c)
      BY <1>2, <2>3, <2>4
    <2> QED
      BY <1>1, <1>7, <2>6, <2>7, <2>8, Later DEF c
  <1>8. CASE /\ job[w].step = "scanning"
             /\ \E S \in SUBSET Candidates(job[w].id) :
                   Enough(job[w].id, S) /\ job'[w] = HasChosen(w, S)
    <2>1. PICK S \in SUBSET Candidates(job[w].id) :
             Enough(job[w].id, S) /\ job'[w] = HasChosen(w, S)
      BY <1>8
    <2>2. S \in SUBSET Audiences
      BY <1>1, <1>8, InputFields, RowFields DEF Candidates, TypeOK, Calculations
    <2>3. job'[w] \in Jobs /\ job'[w].step = "publishing" /\ job'[w].fp = job[w].fp
          /\ job'[w].id = job[w].id /\ job'[w].members = S
      BY <2>1, <2>2 DEF HasChosen, Jobs
    <2>4. Busy(w)'
      BY <1>1, <1>8, <2>1, <2>3 DEF Busy, Enough
    <2>5. Known(job[w].fp, calc[job[w].id].campaign) /\ Free(job[w].fp, S)
      BY <1>1, <1>8, ScanIsFree DEF KnownJob
    <2> QED
      BY <1>1, <1>2, <1>8, <2>3, <2>4, <2>5, Later
  <1> QED
    BY <1>3, <1>4, <1>5, <1>6, <1>7, <1>8 DEF JobStep

-----------------------------------------------------------------------------
(* Claims *)

LEMMA ClaimsAre ==
    ASSUME NEW c, NEW a
    PROVE  a \in Claims(c) <=>
              \/ a \in taken[c]
              \/ \E k \in Ids : /\ calc[k].status = "committed"
                                /\ calc[k].campaign = c /\ a \in calc[k].members
  BY DEF Claims, MembersOf, Members, HeldBy, Held

LEMMA ClaimsAreLater ==
    \A c, a : a \in Claims(c)' <=>
              \/ a \in taken'[c]
              \/ \E k \in Ids : /\ calc'[k].status = "committed"
                                /\ calc'[k].campaign = c /\ a \in calc'[k].members
  BY DEF Claims, MembersOf, Members, HeldBy, Held, Ids

\* The sampling a campaign uses has ended and is its own.
Sampled(c) == sample[c] # 0 => /\ calc[sample[c]].campaign = c
                               /\ calc[sample[c]].status \notin Unended

\* What is claimed anew is its campaign's alone.
LEMMA FinalizedAlone ==
    ASSUME TypeOK, \A c \in Campaigns : Chosen(c) /\ Sampled(c),
           \A k \in Ids : KnownCalc(k), NEW k \in Ids,
           calc[k].status = "ready", Finalized(k)
    PROVE  \E c \in Campaigns :
              /\ calc[k].campaign = c /\ FinalizeRow(c)
              /\ \A y \in Campaigns \ {c} : calc[k].members \cap Claims(y) = {}
  <1>1. PICK c \in Campaigns : FinalizeExecution(c, k)
                               \/ (FinalizeTest(c) /\ k = sample[c])
    BY DEF Finalized
  <1>2. CASE FinalizeExecution(c, k)
    <2>1. calc[k].campaign = c /\ FinalizeRow(c) /\ calc[k].fp = Fingerprint(c)
      BY <1>2 DEF FinalizeExecution, Current
    <2>2. Free(Fingerprint(c), calc[k].members)
      BY <2>1 DEF KnownCalc
    <2> QED
      BY <2>1, <2>2, FreeOfClaims
  <1>3. CASE FinalizeTest(c) /\ k = sample[c]
    <2>1. FinalizeRow(c) /\ Members(k) \cap Unavailable(c) = {} /\ k # 0
      BY <1>3 DEF FinalizeTest, ReserveForCampaign
    <2>2. calc[k].campaign = c
      BY <1>3, <2>1 DEF Sampled
    <2>3. ASSUME NEW y \in Campaigns \ {c}, NEW a \in Claims(y) PROVE a \in Unavailable(c)
      <3>1. CASE a \in taken[y]
        BY <3>1 DEF Unavailable, Used
      <3>2. CASE \E l \in Ids : /\ calc[l].status = "committed"
                                /\ calc[l].campaign = y /\ a \in calc[l].members
        BY <3>2 DEF Unavailable, MembersOf, Members, HeldBy, Held
      <3> QED
        BY <2>3, <3>1, <3>2, ClaimsAre
    <2>4. calc[k].members \cap Unavailable(c) = {}
      BY <2>1 DEF Members
    <2> QED
      BY <2>1, <2>2, <2>3, <2>4
  <1> QED
    BY <1>1, <1>2, <1>3

\* Selections are made by executions only, and of nothing another campaign
\* claims.
LEMMA TakenChanges ==
    ASSUME [Next]_vars
    PROVE  taken' = taken \/ \E c \in Campaigns : Materialize(c)
  <1>1. CASE UNCHANGED vars
    BY <1>1 DEF vars
  <1>2. ASSUME NEW w \in Workers,
               Work(w) \/ WorkerFails(w) \/ \E k \in Ids : ClaimPending(w, k)
        PROVE  taken' = taken
    BY <1>2 DEF Work, WorkerFails, ClaimPending, ReadCampaign, Finish, Complete,
       ReadReservations, SelectCandidates, InsufficientCapacity, AllocationChanged,
       campaignVars
  <1>3. ASSUME NEW c \in Campaigns,
               StartCalculation(c) \/ UpdateCheck(c) \/ Finalize(c)
                  \/ \E i \in Inputs, f \in BOOLEAN : UpdateSave(c, i, f)
        PROVE  taken' = taken
    BY <1>3 DEF StartCalculation, UpdateCheck, Finalize, FinalizeExecution,
       FinalizeTest, FinalizeStandard, FinalizeRow, UpdateSave
  <1>4. ASSUME NEW c \in Campaigns, Live(c)
        PROVE  taken' = taken \/ Materialize(c)
    BY <1>4 DEF Live, Fall, ApproveCampaign, RejectCampaign, CancelCampaign,
       MoveCampaignToRunning, RecoverCampaign,
       MoveCampaignToExecuted, MoveTo
  <1> QED
    BY <1>1, <1>2, <1>3, <1>4 DEF Next

LEMMA MaterializedAlone ==
    ASSUME TypeOK, NEW c \in Campaigns, Materialize(c)
    PROVE  /\ \A x \in Campaigns \ {c} : taken'[x] = taken[x]
           /\ \A a \in taken'[c] : \/ a \in Claims(c)
                                   \/ \A y \in Campaigns : a \notin Claims(y)
           /\ status' = status
  <1>1. PICK S : taken' = [taken EXCEPT ![c] = S] /\ Insert(c, S)
    BY SelectedType DEF Insert
  <1>2. taken'[c] = S /\ \A x \in Campaigns \ {c} : taken'[x] = taken[x]
    BY <1>1 DEF TypeOK
  <1>3. ASSUME NEW T, Insert(c, T) PROVE taken'[c] = T
    BY <1>3 DEF Insert, TypeOK
  <1>4. ASSUME NEW k \in HeldBy(c), Insert(c, Members(k)), NEW a \in taken'[c]
        PROVE  a \in Claims(c)
    BY <1>3, <1>4 DEF Claims, MembersOf
  <1>5. ASSUME NEW T \in SUBSET (input[c].pool \ (Used \cup MembersOf(Held))),
               Insert(c, T), NEW a \in taken'[c], NEW y \in Campaigns
        PROVE  a \notin Claims(y)
    <2>1. a \notin Used \cup MembersOf(Held)
      BY <1>3, <1>5
    <2> QED
      BY <2>1, ClaimsAre DEF Used, MembersOf, Members, Held
  <1>6. HeldFor(c, "execution") \subseteq HeldBy(c)
    BY DEF HeldFor
  <1>7. \A n : kSubset(n, input[c].pool \ (Used \cup MembersOf(Held)))
               \subseteq SUBSET (input[c].pool \ (Used \cup MembersOf(Held)))
    BY DEF kSubset
  <1>8. status' = status
    BY DEF Materialize
  <1> QED
    BY <1>2, <1>4, <1>5, <1>6, <1>7, <1>8 DEF Materialize, MaterializeTest,
       MaterializeExecution, SelectStandard, StandardCandidates

LEMMA StepClaims ==
    ASSUME TypeOK, ClaimsDisjoint, \A c \in Campaigns : Chosen(c) /\ Sampled(c),
           \A k \in Ids : KnownCalc(k), \A k \in Ids : RowStep(k), [Next]_vars
    PROVE  ClaimsDisjoint'
  <1> DEFINE New(z, a) == \E k \in Ids : /\ calc[k].status = "ready"
                                         /\ calc'[k].status = "committed"
                                         /\ calc[k].campaign = z
                                         /\ a \in calc[k].members
             Selected(z, a) == a \in taken'[z] /\ a \notin taken[z]
  <1>1. ASSUME NEW z \in Campaigns, NEW a, a \in Claims(z)'
        PROVE  a \in Claims(z) \/ New(z, a) \/ Selected(z, a)
    <2>1. CASE a \in taken'[z]
      BY <2>1, ClaimsAre
    <2>2. ASSUME NEW k \in Ids, calc'[k].status = "committed",
                 calc'[k].campaign = z, a \in calc'[k].members
          PROVE  a \in Claims(z) \/ New(z, a)
      <3>1. calc[k].status \in {"ready", "committed"} /\ calc[k].campaign = z
            /\ a \in calc[k].members
        BY <2>2 DEF RowStep, Unended, Moves
      <3> QED
        BY <2>2, <3>1, ClaimsAre
    <2> QED
      BY <1>1, <2>1, <2>2, ClaimsAreLater
  <1>2. ASSUME NEW z \in Campaigns, NEW a, New(z, a)
        PROVE  /\ FinalizeRow(z)
               /\ \A y \in Campaigns \ {z} : a \notin Claims(y)
    <2>1. PICK k \in Ids : /\ calc[k].status = "ready"
                           /\ calc'[k].status = "committed"
                           /\ calc[k].campaign = z /\ a \in calc[k].members
      BY <1>2
    <2>2. Finalized(k)
      BY <2>1 DEF RowStep, Unended
    <2> QED
      BY <2>1, <2>2, FinalizedAlone
  <1>3. ASSUME NEW z \in Campaigns, NEW a, Selected(z, a)
        PROVE  /\ Materialize(z)
               /\ a \in Claims(z) \/ \A y \in Campaigns : a \notin Claims(y)
    <2>1. PICK c \in Campaigns : Materialize(c)
      BY <1>3, TakenChanges
    <2>2. c = z
      BY <1>3, <2>1, MaterializedAlone
    <2> QED
      BY <1>3, <2>1, <2>2, MaterializedAlone
  <1>4. ASSUME NEW z \in Campaigns, FinalizeRow(z)
        PROVE  /\ taken' = taken /\ status'[z] # status[z]
               /\ \A y \in Campaigns \ {z} : status'[y] = status[y]
    BY <1>4 DEF FinalizeRow, SetStatus, IsEditable, TypeOK
  <1>5. ASSUME NEW x \in Campaigns, NEW y \in Campaigns, x # y, NEW a,
               a \in Claims(x)', a \in Claims(y)'
        PROVE  FALSE
    <2> HIDE DEF New, Selected
    <2>1. CASE New(x, a) \/ New(y, a)
      <3>1. ~ (New(x, a) /\ New(y, a))
        BY <1>2, <1>4, <1>5
      <3>2. taken' = taken
        BY <1>2, <1>4, <2>1
      <3>3. ~ Selected(x, a) /\ ~ Selected(y, a)
        BY <3>2 DEF Selected
      <3> QED
        BY <1>1, <1>2, <1>5, <2>1, <3>1, <3>3
    <2>2. CASE Selected(x, a) \/ Selected(y, a)
      <3>1. ~ (Selected(x, a) /\ Selected(y, a))
        BY <1>3, <1>5, MaterializedAlone DEF Selected
      <3>2. ~ New(x, a) /\ ~ New(y, a)
        BY <1>2, <1>3, <1>4, <2>2, MaterializedAlone
      <3>3. \A c, d \in Campaigns : c # d /\ a \in Claims(c) => a \notin Claims(d)
        BY DEF ClaimsDisjoint
      <3> QED
        BY <1>1, <1>3, <1>5, <2>2, <3>1, <3>2, <3>3
    <2>3. \A c, d \in Campaigns : c # d /\ a \in Claims(c) => a \notin Claims(d)
      BY DEF ClaimsDisjoint
    <2> QED
      BY <1>1, <1>5, <2>1, <2>2, <2>3
  <1> QED
    BY <1>5 DEF ClaimsDisjoint

-----------------------------------------------------------------------------
(* The invariant *)

Inv ==
    /\ TypeOK
    /\ \A w \in Workers : Busy(w) /\ KnownJob(w)
    /\ \A c \in Campaigns : Chosen(c) /\ Sampled(c)
    /\ \A k \in Ids : KnownCalc(k)
    /\ ClaimsDisjoint

LEMMA InitInv ==
    ASSUME Init
    PROVE  Inv
  <1> DEFINE d == CHOOSE c \in Campaigns : TRUE
  <1>1. d \in Campaigns
    BY ReservationsAssumption
  <1>2. NoCalc \in Calculations /\ NoCalc.status = "none" /\ NoCalc.members = {}
    <2>1. NewCalc(d) \in Calculations /\ NewCalc(d).members = {}
      BY <1>1 DEF Init, NewCalc, Calculations, CalcStatuses, NoFingerprint,
         Fingerprints
    <2>2. NoCalc = [NewCalc(d) EXCEPT !.status = "none"]
      BY DEF NoCalc
    <2> QED
      BY <2>1, <2>2 DEF Calculations, CalcStatuses
  <1> HIDE DEF d
  <1>3. \A k \in Ids : calc[k] = NoCalc
    BY DEF Init
  <1>4. \A k \in Ids : Cardinality(Members(k)) = 0
    BY <1>2, <1>3, FS_EmptySet DEF Members
  <1>5. TypeOK
    <2>1. calc \in [Ids -> Calculations] /\ job \in [Workers -> Jobs]
      BY <1>2, NoJobType DEF Init
    <2> QED
      BY <1>4, <2>1 DEF Init, TypeOK, Statuses
  <1>6. \A w \in Workers : Busy(w) /\ KnownJob(w)
    BY NoJobType DEF Init, Busy, KnownJob
  <1>7. \A c \in Campaigns : Chosen(c) /\ Sampled(c)
    BY DEF Init, Chosen, Sampled
  <1>8. \A k \in Ids : KnownCalc(k)
    BY <1>2, <1>3 DEF KnownCalc
  <1>9. ClaimsDisjoint
    <2>1. \A c \in Campaigns : \A a : a \notin Claims(c)
      BY <1>2, <1>3, ClaimsAre DEF Init
    <2> QED
      BY <2>1 DEF ClaimsDisjoint
  <1> QED
    BY <1>5, <1>6, <1>7, <1>8, <1>9 DEF Inv

\* Only a worker that publishes it makes a sampling that of its campaign.
LEMMA SampleChanges ==
    ASSUME TypeOK, [Next]_vars, NEW c \in Campaigns
    PROVE  \/ sample'[c] = sample[c] \/ sample'[c] = 0
           \/ \E w \in Workers : /\ Complete(w) /\ sample'[c] = job[w].id
                                 /\ calc[job[w].id].campaign = c
  <1>1. CASE UNCHANGED vars
    BY <1>1 DEF vars
  <1>2. ASSUME NEW w \in Workers,
               Work(w) \/ WorkerFails(w) \/ \E k \in Ids : ClaimPending(w, k)
        PROVE  Complete(w) \/ sample' = sample
    BY <1>2 DEF Work, WorkerFails, ClaimPending, ReadCampaign, Finish,
       ReadReservations, SelectCandidates, InsufficientCapacity, AllocationChanged,
       campaignVars
  <1>3. ASSUME NEW w \in Workers, Complete(w)
        PROVE  \/ sample'[c] = sample[c]
               \/ sample'[c] = job[w].id /\ calc[job[w].id].campaign = c
    BY <1>3 DEF Complete, Campaign, TypeOK
  <1>4. ASSUME NEW d \in Campaigns,
               StartCalculation(d) \/ UpdateCheck(d) \/ Finalize(d) \/ Live(d)
                  \/ \E i \in Inputs, f \in BOOLEAN : UpdateSave(d, i, f)
        PROVE  sample'[c] = sample[c] \/ sample'[c] = 0
    BY <1>4 DEF TypeOK, StartCalculation, UpdateCheck, Finalize, FinalizeExecution,
       FinalizeTest, FinalizeStandard, FinalizeRow, Live, Fall, ApproveCampaign,
       RejectCampaign, CancelCampaign, MoveCampaignToRunning,
       Materialize, RecoverCampaign, MoveCampaignToExecuted, MoveTo, UpdateSave
  <1> QED
    BY <1>1, <1>2, <1>3, <1>4 DEF Next

LEMMA NextInv ==
    ASSUME Inv, [Next]_vars
    PROVE  Inv'
  <1> USE DEF Inv
  <1>1. Rows' /\ \A k \in Ids : RowStep(k)
    BY StepRows
  <1>2. CampaignTypes' /\ \A c \in Campaigns : Chosen(c)' /\ TakenStep(c)
    BY StepCampaigns
  <1>3. \A w \in Workers : job'[w] \in Jobs /\ Busy(w)' /\ KnownJob(w)'
    <2>1. ASSUME NEW w \in Workers PROVE JobStep(w)
      BY StepJobs
    <2> QED
      BY <1>1, <1>2, <2>1, WorkerKnows
  <1>4. job' \in [Workers -> Jobs]
    <2>1. CASE job' = job
      BY <2>1 DEF TypeOK
    <2>2. ASSUME NEW w \in Workers, NEW j, Goto(w, j) PROVE job' \in [Workers -> Jobs]
      <3>1. job'[w] = j
        BY <2>2 DEF Goto, TypeOK
      <3> QED
        BY <1>3, <2>2, <3>1 DEF Goto, TypeOK
    <2> QED
      BY <2>1, <2>2, OneWorker
  <1>5. TypeOK'
    BY <1>1, <1>2, <1>4 DEF TypeOK, Rows, CampaignTypes, Sized, Members, Ids
  <1>6. \A c \in Campaigns : Sampled(c)'
    <2>1. ASSUME NEW c \in Campaigns, sample'[c] # 0
          PROVE  /\ calc'[sample'[c]].campaign = c
                 /\ calc'[sample'[c]].status \notin Unended
      <3>1. CASE sample'[c] = sample[c]
        <4>1. sample[c] \in Ids
          BY <2>1, <3>1 DEF TypeOK
        <4> QED
          BY <1>1, <2>1, <3>1, <4>1 DEF Sampled, RowStep, Unended, Moves
      <3>2. ASSUME NEW w \in Workers, Complete(w), sample'[c] = job[w].id,
                   calc[job[w].id].campaign = c
            PROVE  /\ calc'[sample'[c]].campaign = c
                   /\ calc'[sample'[c]].status \notin Unended
        <4>1. job[w].id \in Ids /\ calc[job[w].id].status # "none"
          BY <3>2 DEF Complete, Busy
        <4>2. calc'[job[w].id].status = "ready"
          BY <3>2, <4>1 DEF Complete, TypeOK, Calculations
        <4> QED
          BY <1>1, <3>2, <4>1, <4>2 DEF RowStep, Unended
      <3> QED
        BY <2>1, <3>1, <3>2, SampleChanges
    <2> QED
      BY <2>1 DEF Sampled, Unended
  <1>7. \A k \in Ids : KnownCalc(k)'
    <2>1. ASSUME NEW k \in Ids, calc'[k].status = "ready"
          PROVE  /\ KnownLater(calc'[k].fp, calc'[k].campaign)
                 /\ FreeLater(calc'[k].fp, calc'[k].members)
      <3>1. CASE calc[k].status \notin Unended
        <4>1. /\ calc[k].status = "ready" /\ calc'[k].fp = calc[k].fp
              /\ calc'[k].members = calc[k].members
              /\ calc'[k].campaign = calc[k].campaign
          BY <1>1, <2>1, <3>1 DEF RowStep, Moves, Unended
        <4>2. calc[k].fp \in Fingerprints
          BY DEF TypeOK, Calculations
        <4> QED
          BY <1>1, <1>2, <4>1, <4>2, KnownStays DEF KnownCalc
      <3>2. CASE calc[k].status \in Unended
        <4>1. PICK w \in Workers : Complete(w) /\ job[w].id = k
          BY <1>1, <2>1, <3>2 DEF RowStep
        <4>2. /\ calc'[k].fp = job[w].fp /\ calc'[k].members = job[w].members
              /\ calc[k].status # "none"
          BY <4>1 DEF Complete, Publishable, Busy, TypeOK, Calculations
        <4>3. calc'[k].campaign = calc[k].campaign
          BY <1>1, <4>2 DEF RowStep
        <4>4. Known(job[w].fp, calc[k].campaign) /\ Free(job[w].fp, job[w].members)
          BY <4>1 DEF KnownJob, Complete
        <4>5. job[w].fp \in Fingerprints
          BY JobFields
        <4> QED
          BY <1>1, <1>2, <4>2, <4>3, <4>4, <4>5, KnownStays
      <3> QED
        BY <3>1, <3>2
    <2> QED
      BY <2>1, Later
  <1>8. ClaimsDisjoint'
    BY <1>1, StepClaims
  <1> QED
    BY <1>2, <1>3, <1>5, <1>6, <1>7, <1>8 DEF Inv, Ids

-----------------------------------------------------------------------------
(* Claims and money *)

\* A committed row leaves that status only with a step of its own campaign.
LEMMA ClaimStays ==
    ASSUME TypeOK, \A w \in Workers : Busy(w), [Next]_vars,
           NEW k \in Ids, calc[k].status = "committed", NEW c,
           c = calc[k].campaign
    PROVE  \/ calc'[k].status = "committed"
           \/ Finalize(c) \/ RejectCampaign(c) \/ CancelCampaign(c)
           \/ Materialize(c)
  <1>0. Rows /\ \A w \in Workers : job[w].step # "idle" => job[w].id \in Ids
    BY DEF TypeOK, Rows, Sized, Members, Busy
  <1>1. ASSUME NEW ids, NEW s \in CalcStatuses, calc' = Mark(ids, s), k \notin ids
        PROVE  calc'[k].status = "committed"
    BY <1>0, <1>1, MarkedRow
  <1>2. ASSUME NEW l \in Ids, NEW r, calc' = [calc EXCEPT ![l] = r], l # k
        PROVE  calc'[k].status = "committed"
    BY <1>0, <1>2 DEF Rows
  <1>3. ASSUME NEW w \in Workers, NEW s \in CalcStatuses,
               calc' = calc \/ (Leased(w) /\ calc' = Mark({job[w].id}, s))
        PROVE  calc'[k].status = "committed"
    <2>1. Leased(w) => k \notin {job[w].id}
      BY DEF Leased
    <2> QED
      BY <1>1, <1>3, <2>1
  <1>4. ASSUME NEW w \in Workers,
               Work(w) \/ WorkerFails(w) \/ \E l \in Ids : ClaimPending(w, l)
        PROVE  calc'[k].status = "committed"
    <2>1. CASE Complete(w)
      <3>1. job[w].id \in Ids /\ job[w].id # k
        BY <1>0, <2>1 DEF Complete, Publishable, Leased
      <3>2. \E r : calc' = [calc EXCEPT ![job[w].id] = r]
        BY <2>1 DEF Complete
      <3> QED
        BY <1>2, <3>1, <3>2
    <2>2. CASE \E l \in Ids : ClaimPending(w, l)
      <3>1. PICK l \in Ids : ClaimPending(w, l)
        BY <2>2
      <3>2. l # k /\ \E r : calc' = [calc EXCEPT ![l] = r]
        BY <3>1 DEF ClaimPending
      <3> QED
        BY <1>2, <3>2
    <2>3. CASE \/ ReadCampaign(w) \/ ReadReservations(w) \/ SelectCandidates(w)
               \/ InsufficientCapacity(w) \/ AllocationChanged(w) \/ WorkerFails(w)
      <3>1. \E s \in {"failed", "stale"} :
                calc' = calc \/ (Leased(w) /\ calc' = Mark({job[w].id}, s))
        <4>1. Outdated(calc[job[w].id].input.kind) \in {"failed", "stale"}
          BY OutdatedType
        <4> QED
          BY <2>3, <4>1 DEF ReadCampaign, ReadReservations, SelectCandidates,
             InsufficientCapacity, AllocationChanged, WorkerFails, Finish
      <3> QED
        BY <1>3, <3>1 DEF CalcStatuses
    <2> QED
      BY <1>4, <2>1, <2>2, <2>3 DEF Work
  <1>5. ASSUME NEW d \in Campaigns, StartCalculation(d)
        PROVE  calc'[k].status = "committed"
    <2> DEFINE s == Outdated(input[d].kind)
    <2>1. s \in CalcStatuses
      BY OutdatedType DEF CalcStatuses
    <2>2. k \notin Pending(d)
      BY DEF Pending
    <2>3. Superseded(d) = Mark(Pending(d), s)
      BY DEF Superseded
    <2>4. Superseded(d)[k].status = "committed" /\ DOMAIN Superseded(d) = Ids
      <3> HIDE DEF s
      <3>1. DOMAIN Mark(Pending(d), s) = Ids
        BY DEF Mark
      <3> QED
        BY <1>0, <2>1, <2>2, <2>3, <3>1, MarkedRow
    <2>5. \/ calc' = Superseded(d)
          \/ \E l \in Ids : /\ calc[l].status = "none"
                            /\ calc' = [Superseded(d) EXCEPT ![l] = NewCalc(d)]
      BY <1>5 DEF StartCalculation
    <2> QED
      BY <2>4, <2>5
  <1>6. ASSUME NEW d \in Campaigns, NEW i \in Inputs, NEW f \in BOOLEAN,
               UpdateSave(d, i, f)
        PROVE  calc'[k].status = "committed"
    <2>1. \/ calc' = calc
          \/ calc' = Mark({l \in Ids : /\ calc[l].campaign = d
                                       /\ calc[l].status = "pending"
                                       /\ calc[l].input.kind = "test"}, "failed")
      BY <1>6 DEF UpdateSave
    <2> QED
      BY <1>1, <2>1 DEF CalcStatuses
  <1>7. ASSUME NEW d \in Campaigns, Finalize(d), d # c
        PROVE  calc'[k].status = "committed"
    <2>1. ASSUME NEW l \in Ids, NEW kind,
                 calc' = [Mark(HeldFor(d, kind), "stale") EXCEPT ![l].status = "committed"]
          PROVE  calc'[k].status = "committed"
      <3>1. k \notin HeldFor(d, kind)
        BY <1>7 DEF HeldFor, HeldBy
      <3>2. "stale" \in CalcStatuses
        BY DEF CalcStatuses
      <3>3. Mark(HeldFor(d, kind), "stale")[k].status = "committed"
        BY <1>0, <3>1, <3>2, MarkedRow
      <3>4. DOMAIN Mark(HeldFor(d, kind), "stale") = Ids
        BY DEF Mark
      <3>5. Mark(HeldFor(d, kind), "stale")[k] \in Calculations
        BY <1>0, <3>2, MarkedRow
      <3> QED
        BY <2>1, <3>3, <3>4, <3>5 DEF Calculations
    <2>2. sample[d] \in Ids \cup {0}
      BY DEF TypeOK
    <2> QED
      BY <1>7, <2>1, <2>2 DEF Finalize, FinalizeExecution, FinalizeTest,
         ReserveForCampaign, FinalizeStandard
  <1>8. ASSUME NEW d \in Campaigns, Live(d)
        PROVE  \/ calc'[k].status = "committed"
               \/ RejectCampaign(c) \/ CancelCampaign(c) \/ Materialize(c)
    <2>1. CASE RejectCampaign(d) \/ CancelCampaign(d)
      <3>1. calc' = Mark(HeldBy(d), "stale")
        BY <2>1 DEF RejectCampaign, CancelCampaign, Release
      <3>2. d # c => k \notin HeldBy(d)
        BY DEF HeldBy
      <3> QED
        BY <1>1, <2>1, <3>1, <3>2 DEF CalcStatuses
    <2>2. CASE Materialize(d)
      <3>1. \/ calc' = calc
            \/ calc' = Mark({sample[d]}, "materialized") /\ sample[d] \in HeldBy(d)
        BY <2>2 DEF Materialize, MaterializeTest, MaterializeExecution, SelectStandard
      <3>2. d # c /\ sample[d] \in HeldBy(d) => k \notin {sample[d]}
        BY DEF HeldBy
      <3> QED
        BY <1>1, <2>2, <3>1, <3>2 DEF CalcStatuses
    <2> QED
      BY <1>8, <2>1, <2>2 DEF Live, Fall, ApproveCampaign, MoveCampaignToRunning,
         RecoverCampaign, MoveCampaignToExecuted
  <1>9. ASSUME NEW d \in Campaigns, UpdateCheck(d)
        PROVE  calc'[k].status = "committed"
    BY <1>9 DEF UpdateCheck
  <1>10. CASE UNCHANGED vars
    BY <1>10 DEF vars
  <1> QED
    BY <1>4, <1>5, <1>6, <1>7, <1>8, <1>9, <1>10 DEF Next

\* From finalization to the end of a campaign the customer's money is frozen
\* or spent.
Sold == Allocated \cup {"waiting-for-approval"}

\* What a step means to a campaign that it neither finalizes nor ends, that
\* does not get its selection and is not saved.
Same(c) ==
    /\ status'[c] = status[c] \/ {status[c], status'[c]} \subseteq Sold
    /\ input'[c] = input[c] /\ freezes'[c] = freezes[c] /\ taken'[c] = taken[c]

LEMMA StepOf ==
    ASSUME TypeOK, [Next]_vars, NEW c \in Campaigns
    PROVE  \/ Finalize(c) \/ RejectCampaign(c) \/ CancelCampaign(c) \/ Materialize(c)
           \/ \E i \in Inputs, f \in BOOLEAN : UpdateSave(c, i, f)
           \/ Same(c)
  <1>1. ASSUME UNCHANGED <<status, input, freezes, taken>>
        PROVE  Same(c)
    BY <1>1 DEF Same
  <1>2. ASSUME NEW w \in Workers,
               Work(w) \/ WorkerFails(w) \/ \E k \in Ids : ClaimPending(w, k)
        PROVE  Same(c)
    BY <1>1, <1>2 DEF Work, WorkerFails, ClaimPending, ReadCampaign, Finish,
       Complete, ReadReservations, SelectCandidates, InsufficientCapacity,
       AllocationChanged, campaignVars
  <1>3. ASSUME NEW d \in Campaigns, StartCalculation(d) \/ UpdateCheck(d)
        PROVE  Same(c)
    BY <1>1, <1>3 DEF StartCalculation, UpdateCheck
  <1>4. ASSUME NEW d \in Campaigns, NEW i \in Inputs, NEW f \in BOOLEAN,
               UpdateSave(d, i, f), d # c
        PROVE  Same(c)
    BY <1>4 DEF UpdateSave, SetStatus, Same, TypeOK
  <1>5. ASSUME NEW d \in Campaigns, Finalize(d), d # c
        PROVE  Same(c)
    <2>1. FinalizeRow(d)
      BY <1>5 DEF Finalize, FinalizeExecution, FinalizeTest, FinalizeStandard
    <2> QED
      BY <1>5, <2>1 DEF FinalizeRow, SetStatus, Same, TypeOK
  <1>6. ASSUME NEW d \in Campaigns, Live(d), ~ Materialize(d)
        PROVE  Same(c) \/ RejectCampaign(c) \/ CancelCampaign(c)
    <2>1. CASE Fall(d)
      BY <1>1, <2>1 DEF Fall
    <2>2. ASSUME NEW s, MoveTo(d, s), d # c \/ {status[d], s} \subseteq Sold
          PROVE  Same(c)
      BY <2>2 DEF MoveTo, SetStatus, Same, TypeOK
    <2>3. CASE RejectCampaign(d) \/ CancelCampaign(d)
      BY <2>2, <2>3 DEF RejectCampaign, CancelCampaign
    <2>4. CASE ApproveCampaign(d) \/ MoveCampaignToRunning(d)
                  \/ RecoverCampaign(d) \/ MoveCampaignToExecuted(d)
      BY <2>2, <2>4 DEF ApproveCampaign, Refundable, MoveCampaignToRunning,
         RecoverCampaign, MoveCampaignToExecuted, Sold, Allocated
    <2> QED
      BY <1>6, <2>1, <2>3, <2>4 DEF Live
  <1>7. ASSUME NEW d \in Campaigns, Materialize(d), d # c
        PROVE  Same(c)
    <2>1. taken'[c] = taken[c]
      BY <1>7, MaterializedAlone
    <2> QED
      BY <1>7, <2>1 DEF Materialize, Same
  <1>8. CASE UNCHANGED vars
    BY <1>1, <1>8 DEF vars
  <1> QED
    BY <1>2, <1>3, <1>4, <1>5, <1>6, <1>7, <1>8 DEF Next

\* An Execution calculation that is ready has found all it looked for.
Full(k) ==
    calc[k].input.kind = "execution" /\ calc[k].status \in {"ready", "committed"} =>
        Cardinality(calc[k].members) = calc[k].input.count

\* A campaign that was never finalized has no claim.
Unsold(c) == freezes[c] = 0 => IsEditable(c) /\ taken[c] = {} /\ HeldBy(c) = {}

\* The claim k backs the campaign: it was committed and not released.
BackedBy(c, k) ==
    /\ calc[k].campaign = c /\ calc[k].input = input[c]
    /\ calc[k].status \in {"committed", "materialized"}
    /\ Cardinality(calc[k].members) = input[c].count
    /\ taken[c] \in {{}, calc[k].members}
    /\ IF taken[c] # {} /\ input[c].kind = "test"
          THEN HeldBy(c) = {} ELSE HeldBy(c) = {k}
Backed(c) ==
    freezes[c] = 1 /\ ~IsEditable(c) =>
        IF status[c] \in Sold /\ input[c].kind # "standard"
           THEN \E k \in Ids : BackedBy(c, k)
           ELSE HeldBy(c) = {}

\* A row that has ended keeps what a claim is made of.
LEMMA EndedRow ==
    ASSUME NEW k \in Ids, RowStep(k), calc[k].status \notin Unended
    PROVE  /\ calc'[k].campaign = calc[k].campaign /\ calc'[k].input = calc[k].input
           /\ calc'[k].members = calc[k].members
           /\ calc[k].status = "materialized" => calc'[k].status = "materialized"
           /\ calc[k].status = "committed" =>
                 calc'[k].status \in {"committed", "stale", "materialized"}
  BY DEF RowStep, Unended, Moves

LEMMA HeldByIs ==
    /\ \A c, k : k \in HeldBy(c) <=> /\ k \in Ids /\ calc[k].status = "committed"
                                     /\ calc[k].campaign = c
    /\ \A c, k : k \in HeldBy(c)' <=> /\ k \in Ids /\ calc'[k].status = "committed"
                                      /\ calc'[k].campaign = c
  BY DEF HeldBy, Held, Ids

\* Where a new claim comes from.
LEMMA HeldGrows ==
    ASSUME TypeOK, \A k \in Ids : RowStep(k), \A c \in Campaigns : Sampled(c),
           NEW c \in Campaigns, NEW k \in HeldBy(c)', k \notin HeldBy(c)
    PROVE  /\ k \in Ids /\ calc[k].status = "ready" /\ calc[k].campaign = c
           /\ FinalizeExecution(c, k) \/ (FinalizeTest(c) /\ k = sample[c])
  <1>1. /\ k \in Ids /\ calc'[k].status = "committed" /\ calc'[k].campaign = c
        /\ ~ (calc[k].status = "committed" /\ calc[k].campaign = c)
    BY HeldByIs
  <1>2. calc[k].status \notin Unended
    BY <1>1 DEF RowStep
  <1>3. calc[k].campaign = c /\ calc[k].status # "committed"
    BY <1>1, <1>2, EndedRow
  <1>4. calc[k].status = "ready" /\ Finalized(k)
    BY <1>1, <1>2, <1>3 DEF RowStep, Moves
  <1>5. PICK d \in Campaigns :
            FinalizeExecution(d, k) \/ (FinalizeTest(d) /\ k = sample[d])
    BY <1>4 DEF Finalized
  <1>6. d = c
    BY <1>3, <1>5 DEF FinalizeExecution, FinalizeTest, Sampled
  <1> QED
    BY <1>1, <1>3, <1>4, <1>5, <1>6

\* A step that leaves the campaign and its claims alone.
LEMMA SameBacked ==
    ASSUME TypeOK, \A k \in Ids : RowStep(k), NEW c \in Campaigns, Same(c),
           HeldBy(c)' = HeldBy(c), Unsold(c), Backed(c)
    PROVE  Unsold(c)' /\ Backed(c)'
  <1>1. /\ IsEditable(c)' <=> IsEditable(c)
        /\ status'[c] \in Sold <=> status[c] \in Sold
    BY DEF Same, IsEditable, Sold, Allocated
  <1>2. Unsold(c)'
    BY <1>1 DEF Unsold, Same
  <1>3. ASSUME NEW k \in Ids, BackedBy(c, k)
        PROVE  BackedBy(c, k)'
    <2>1. /\ calc'[k].campaign = calc[k].campaign /\ calc'[k].input = calc[k].input
          /\ calc'[k].members = calc[k].members
          /\ calc'[k].status \in {"committed", "materialized"}
      <3>1. CASE HeldBy(c) = {k}
        BY <1>3, <3>1, EndedRow, HeldByIs DEF BackedBy, Unended
      <3>2. CASE calc[k].status = "committed"
        BY <1>3, <3>1, <3>2, HeldByIs DEF BackedBy
      <3> QED
        BY <1>3, <3>2, EndedRow DEF BackedBy, Unended
    <2> QED
      BY <1>3, <2>1 DEF BackedBy, Same
  <1>4. Ids' = Ids
    BY DEF Ids
  <1> QED
    BY <1>1, <1>2, <1>3, <1>4 DEF Backed, Same

\* An Execution result is as large as what the scan found.
LEMMA FullStep ==
    ASSUME TypeOK, \A w \in Workers : Busy(w), NEW k \in Ids, RowStep(k), Full(k)
    PROVE  Full(k)'
  <1>1. CASE calc[k].status \notin Unended
    BY <1>1 DEF RowStep, Full, Moves, Unended
  <1>2. CASE calc[k].status \in Unended
    <2>1. SUFFICES ASSUME calc'[k].status = "ready", calc'[k].input.kind = "execution"
                   PROVE  Cardinality(calc'[k].members) = calc'[k].input.count
      BY <1>2 DEF RowStep, Full
    <2>2. PICK w \in Workers : Complete(w) /\ job[w].id = k
      BY <1>2, <2>1 DEF RowStep
    <2>3. calc'[k].members = job[w].members /\ calc[k].status # "none"
      BY <2>2 DEF Complete, Busy, TypeOK, Calculations
    <2>4. calc'[k].input = calc[k].input
      BY <2>3 DEF RowStep
    <2>5. Enough(k, job[w].members)
      BY <2>2 DEF Complete, Busy
    <2> QED
      BY <2>1, <2>3, <2>4, <2>5 DEF Enough
  <1> QED
    BY <1>1, <1>2

\* The first finalization: the campaign gets the one claim it names.
LEMMA FinalizeBacked ==
    ASSUME Inv, \A k \in Ids : RowStep(k), \A k \in Ids : Full(k),
           NEW c \in Campaigns, Finalize(c), Unsold(c), freezes'[c] = 1
    PROVE  Backed(c)'
  <1> USE DEF Inv
  <1>0. FinalizeRow(c)
    BY DEF Finalize, FinalizeExecution, FinalizeTest, FinalizeStandard
  <1>1. /\ freezes[c] = 0 /\ status'[c] = "waiting-for-approval"
        /\ input' = input /\ taken' = taken
    BY <1>0 DEF FinalizeRow, SetStatus, TypeOK
  <1>2. taken[c] = {} /\ HeldBy(c) = {}
    BY <1>1 DEF Unsold
  <1>3. CASE FinalizeStandard(c)
    <2>1. HeldBy(c)' = {} /\ input[c].kind = "standard"
      BY <1>2, <1>3, HeldByIs DEF FinalizeStandard
    <2> QED
      BY <1>1, <2>1 DEF Backed
  <1>4. ASSUME NEW k \in Ids, calc[k].status = "ready", calc[k].campaign = c,
               calc'[k].status = "committed", calc[k].input = input[c],
               Cardinality(calc[k].members) = input[c].count,
               \A l \in HeldBy(c)' : l = k, input[c].kind # "standard"
        PROVE  Backed(c)'
    <2>1. /\ calc'[k].campaign = c /\ calc'[k].input = input[c]
          /\ calc'[k].members = calc[k].members
      BY <1>4, EndedRow DEF Unended
    <2>2. HeldBy(c)' = {k}
      BY <1>4, <2>1, HeldByIs
    <2>3. BackedBy(c, k)'
      BY <1>1, <1>2, <1>4, <2>1, <2>2 DEF BackedBy
    <2>4. status'[c] \in Sold
      BY <1>1 DEF Sold
    <2>5. k \in Ids'
      BY DEF Ids
    <2> QED
      BY <1>1, <1>4, <2>3, <2>4, <2>5 DEF Backed
  <1>5. ASSUME NEW k \in Ids, FinalizeExecution(c, k)
        PROVE  Backed(c)'
    <2>1. /\ calc[k].status = "ready" /\ calc[k].campaign = c
          /\ calc[k].input = input[c] /\ input[c].kind = "execution"
          /\ calc' = [Mark(HeldFor(c, "test"), "stale") EXCEPT ![k].status = "committed"]
      BY <1>5 DEF FinalizeExecution
    <2>2. calc'[k].status = "committed"
          /\ \A l \in Ids \ {k} : calc'[l].status = "committed" =>
                                     calc[l].status = "committed"
      <3>1. HeldFor(c, "test") \in SUBSET Held /\ Rows /\ Finalized(k)
        BY <1>5 DEF HeldFor, HeldBy, TypeOK, Rows, Sized, Members, Finalized
      <3> QED
        BY <2>1, <3>1, CommitRow
    <2>3. Cardinality(calc[k].members) = input[c].count
      BY <2>1 DEF Full
    <2>4. ASSUME NEW l \in HeldBy(c)' PROVE l = k
      <3>1. l \notin HeldBy(c)
        BY <1>2
      <3>2. l \in Ids /\ calc[l].status = "ready"
        BY <3>1, HeldGrows
      <3>3. calc'[l].status = "committed"
        BY HeldByIs
      <3> QED
        BY <2>2, <3>2, <3>3
    <2> QED
      BY <1>4, <2>1, <2>2, <2>3, <2>4
  <1>6. CASE FinalizeTest(c)
    <2> DEFINE k == sample[c]
    <2>1. k \in Ids /\ calc[k].campaign = c /\ calc[k].input = input[c]
      BY <1>6 DEF FinalizeTest, TypeOK, Sampled
    <2>2. calc[k].status = "ready"
      BY <1>2, <1>6, <2>1, HeldByIs DEF FinalizeTest, ReserveForCampaign
    <2>3. Finalized(k)
          /\ calc' = [Mark(HeldFor(c, "execution"), "stale") EXCEPT ![k].status = "committed"]
      BY <1>6 DEF FinalizeTest, ReserveForCampaign, Finalized
    <2>4. calc'[k].status = "committed"
          /\ \A l \in Ids \ {k} : calc'[l].status = "committed" =>
                                     calc[l].status = "committed"
      <3>1. HeldFor(c, "execution") \in SUBSET Held /\ Rows
        BY DEF HeldFor, HeldBy, TypeOK, Rows, Sized, Members
      <3> HIDE DEF k
      <3> QED
        BY <2>1, <2>2, <2>3, <3>1, CommitRow
    <2>5. Cardinality(calc[k].members) = input[c].count
      <3>1. calc[k].members # {} /\ calc[k].members \subseteq Audiences
        BY <1>6, <2>1 DEF FinalizeTest, Members, TypeOK, Calculations
      <3>2. IsFiniteSet(calc[k].members)
        BY <3>1, FS_Subset, ReservationsAssumption
      <3>3. Cardinality(calc[k].members) # 0
        BY <3>1, <3>2, FS_EmptySet
      <3> QED
        BY <2>1, <3>3 DEF TypeOK, Members
    <2>6. ASSUME NEW l \in HeldBy(c)' PROVE l = k
      <3>1. l \notin HeldBy(c)
        BY <1>2
      <3>2. l \in Ids /\ calc[l].status = "ready" /\ calc'[l].status = "committed"
        BY <3>1, HeldGrows, HeldByIs
      <3> QED
        BY <2>4, <3>2
    <2> HIDE DEF k
    <2> QED
      BY <1>4, <1>6, <2>1, <2>2, <2>4, <2>5, <2>6 DEF FinalizeTest
  <1> QED
    BY <1>3, <1>5, <1>6 DEF Finalize

\* The execution of a campaign turns its claim into its selection.
LEMMA MaterializeBacked ==
    ASSUME Inv, \A k \in Ids : RowStep(k), NEW c \in Campaigns, Materialize(c),
           Backed(c), freezes[c] = 1
    PROVE  Backed(c)'
  <1> USE DEF Inv
  <1>1. /\ status[c] = "running" /\ taken[c] = {}
        /\ UNCHANGED <<status, input, freezes>>
    BY DEF Materialize
  <1>2. status[c] \in Sold /\ ~IsEditable(c) /\ IsEditable(c)' = IsEditable(c)
    BY <1>1 DEF Sold, Allocated, IsEditable
  <1>3. ASSUME NEW S, Insert(c, S) PROVE taken'[c] = S
    BY <1>3 DEF Insert, TypeOK
  <1>4. CASE SelectStandard(c)
    <2>1. input[c].kind = "standard" /\ HeldBy(c) = {} /\ calc' = calc
      BY <1>1, <1>2, <1>4 DEF SelectStandard, Backed
    <2>2. HeldBy(c)' = {}
      BY <2>1, HeldByIs
    <2> QED
      BY <1>1, <2>1, <2>2 DEF Backed
  <1>5. CASE MaterializeTest(c) \/ MaterializeExecution(c)
    <2>1. input[c].kind \in {"test", "execution"}
      BY <1>5 DEF MaterializeTest, MaterializeExecution
    <2>2. PICK k \in Ids : BackedBy(c, k)
      BY <1>1, <1>2, <2>1 DEF Backed
    <2>3. HeldBy(c) = {k} /\ calc[k].status = "committed" /\ calc[k].campaign = c
      BY <1>1, <2>2, HeldByIs DEF BackedBy
    <2>4. /\ calc'[k].campaign = c /\ calc'[k].input = input[c]
          /\ calc'[k].members = calc[k].members
      BY <2>2, <2>3, EndedRow DEF Unended, BackedBy
    <2>5. Cardinality(calc[k].members) = input[c].count /\ calc[k].members # {}
      <3>1. Cardinality(calc[k].members) = input[c].count /\ input[c].count # 0
        BY <2>2, InputFields DEF BackedBy, TypeOK
      <3> QED
        BY <3>1, FS_EmptySet
    <2>6. CASE MaterializeTest(c)
      <3>1. /\ input[c].kind = "test" /\ sample[c] = k
            /\ taken'[c] = calc[k].members
            /\ calc' = Mark({k}, "materialized")
        BY <1>3, <2>3, <2>6 DEF MaterializeTest, Members
      <3>2. calc'[k].status = "materialized"
        BY <3>1, MarkedRow DEF TypeOK, Rows, Sized, Members, CalcStatuses
      <3>3. ASSUME NEW l \in HeldBy(c)' PROVE FALSE
        <4>1. l # k
          BY <3>2, HeldByIs
        <4>2. FinalizeRow(c)
          BY <2>3, <4>1, HeldGrows DEF FinalizeExecution, FinalizeTest
        <4> QED
          BY <1>2, <4>2 DEF FinalizeRow
      <3>4. BackedBy(c, k)'
        BY <1>1, <2>4, <2>5, <3>1, <3>2, <3>3 DEF BackedBy
      <3> QED
        BY <1>1, <1>2, <2>1, <3>4 DEF Backed, Ids
    <2>7. CASE MaterializeExecution(c)
      <3>1. /\ input[c].kind = "execution" /\ calc' = calc
            /\ taken'[c] = calc[k].members
        BY <1>3, <2>3, <2>7 DEF MaterializeExecution, HeldFor, Members
      <3>2. HeldBy(c)' = {k}
        BY <2>3, <3>1, HeldByIs
      <3>3. BackedBy(c, k)'
        BY <1>1, <2>3, <2>4, <2>5, <3>1, <3>2 DEF BackedBy
      <3> QED
        BY <1>1, <1>2, <2>1, <3>3 DEF Backed, Ids
    <2> QED
      BY <1>5, <2>6, <2>7
  <1> QED
    BY <1>4, <1>5 DEF Materialize

SoldInv == /\ \A k \in Ids : Full(k)
           /\ \A c \in Campaigns : Unsold(c) /\ Backed(c)

LEMMA SoldStep ==
    ASSUME Inv, SoldInv, [Next]_vars
    PROVE  SoldInv'
  <1>0. TypeOK /\ (\A w \in Workers : Busy(w)) /\ \A c \in Campaigns : Sampled(c)
    BY DEF Inv
  <1>1. \A k \in Ids : RowStep(k)
    BY <1>0, StepRows
  <1>2. \A k \in Ids : Full(k)'
    BY <1>0, <1>1, FullStep DEF SoldInv
  <1>3. ASSUME NEW c \in Campaigns
        PROVE  Unsold(c)' /\ Backed(c)'
    <2>0. Unsold(c) /\ Backed(c) /\ freezes[c] \in Nat
      BY <1>0 DEF SoldInv, TypeOK
    <2>1. CASE Finalize(c)
      <3>1. FinalizeRow(c)
        BY <2>1 DEF Finalize, FinalizeExecution, FinalizeTest, FinalizeStandard
      <3>2. freezes'[c] = freezes[c] + 1
        BY <1>0, <3>1 DEF FinalizeRow, TypeOK
      <3>3. Unsold(c)'
        BY <2>0, <3>2 DEF Unsold
      <3>4. Backed(c)'
        <4>1. CASE freezes'[c] = 1
          BY <1>1, <2>0, <2>1, <4>1, FinalizeBacked DEF SoldInv
        <4> QED
          BY <4>1 DEF Backed
      <3> QED
        BY <3>3, <3>4
    <2>2. CASE RejectCampaign(c) \/ CancelCampaign(c)
      <3>1. /\ MoveTo(c, "ended") /\ calc' = Mark(HeldBy(c), "stale")
            /\ status[c] \in Sold
        BY <2>2 DEF RejectCampaign, CancelCampaign, Release, Refundable, Sold,
           Allocated
      <3>2. status'[c] = "ended" /\ freezes' = freezes
        BY <1>0, <3>1 DEF MoveTo, SetStatus, TypeOK
      <3>3. ASSUME NEW l \in HeldBy(c)' PROVE FALSE
        <4>1. l \notin HeldBy(c)
          <5>1. Rows
            BY <1>0 DEF TypeOK, Rows, Sized, Members
          <5> QED
            BY <3>1, <5>1, HeldByIs, MarkedRow DEF CalcStatuses
        <4>2. FinalizeRow(c)
          BY <1>0, <1>1, <4>1, HeldGrows DEF FinalizeExecution, FinalizeTest
        <4> QED
          BY <3>1, <4>2 DEF FinalizeRow, IsEditable, Sold, Allocated
      <3>4. freezes[c] # 0
        BY <2>0, <3>1 DEF Unsold, IsEditable, Sold, Allocated
      <3>5. status'[c] \notin Sold
        BY <3>2 DEF Sold, Allocated
      <3> QED
        BY <3>2, <3>3, <3>4, <3>5 DEF Unsold, Backed
    <2>3. CASE Materialize(c)
      <3>1. freezes' = freezes /\ freezes[c] # 0
        BY <2>0, <2>3 DEF Materialize, Unsold, IsEditable
      <3>2. CASE freezes[c] = 1
        BY <1>1, <2>0, <2>3, <3>1, <3>2, MaterializeBacked DEF Unsold
      <3> QED
        BY <3>1, <3>2 DEF Unsold, Backed
    <2>4. ASSUME ~Finalize(c), ~RejectCampaign(c), ~CancelCampaign(c), ~Materialize(c)
          PROVE  HeldBy(c)' = HeldBy(c)
      <3>1. ASSUME NEW k \in HeldBy(c) PROVE k \in HeldBy(c)'
        <4>1. k \in Ids /\ calc[k].status = "committed" /\ calc[k].campaign = c
          BY HeldByIs
        <4>2. calc'[k].status = "committed"
          BY <1>0, <2>4, <4>1, ClaimStays
        <4>3. calc'[k].campaign = c
          BY <1>1, <4>1, EndedRow DEF Unended
        <4> QED
          BY <4>1, <4>2, <4>3, HeldByIs
      <3>2. ASSUME NEW k \in HeldBy(c)' PROVE k \in HeldBy(c)
        BY <1>0, <1>1, <2>4, HeldGrows DEF Finalize
      <3> QED
        BY <3>1, <3>2
    <2>5. ASSUME NEW i \in Inputs, NEW f \in BOOLEAN, UpdateSave(c, i, f),
                 HeldBy(c)' = HeldBy(c)
          PROVE  Unsold(c)' /\ Backed(c)'
      <3>1. IsEditable(c)' /\ freezes' = freezes /\ taken' = taken
        BY <1>0, <2>5 DEF UpdateSave, SetStatus, IsEditable, TypeOK
      <3> QED
        BY <2>0, <2>5, <3>1 DEF Unsold, Backed
    <2>6. ASSUME Same(c), HeldBy(c)' = HeldBy(c)
          PROVE  Unsold(c)' /\ Backed(c)'
      BY <1>0, <1>1, <2>0, <2>6, SameBacked
    <2> QED
      BY <1>0, <2>1, <2>2, <2>3, <2>4, <2>5, <2>6, StepOf
  <1> QED
    BY <1>2, <1>3 DEF SoldInv, Ids

-----------------------------------------------------------------------------
(* Theorems *)

\* Rows, campaigns and workers keep their types, and a result is empty or of
\* the size that was asked for: Complete and SelectCandidates of both
\* calculation flows.
THEOREM TypesCorrect == Spec => []TypeOK
  <1>1. Init => Inv
    BY InitInv
  <1>2. Inv /\ [Next]_vars => Inv'
    BY NextInv
  <1>3. Inv => TypeOK
    BY DEF Inv
  <1> QED
    BY <1>1, <1>2, <1>3, PTL DEF Spec

\* No audience belongs to two campaigns of the bundle, for any campaigns,
\* audiences, workers and interleaving of scans, finalizations, executions and
\* late saves.
THEOREM ClaimsAreDisjoint == Spec => []ClaimsDisjoint
  <1>1. Init => Inv
    BY InitInv
  <1>2. Inv /\ [Next]_vars => Inv'
    BY NextInv
  <1>3. Inv => ClaimsDisjoint
    BY DEF Inv
  <1> QED
    BY <1>1, <1>2, <1>3, PTL DEF Spec

\* A result that is ready and whose fingerprint is the present one has no
\* member another campaign claims: what finalization relies on.
THEOREM CurrentResultsAreFree == Spec => []FreshMeansFree
  <1>1. Init => Inv
    BY InitInv
  <1>2. Inv /\ [Next]_vars => Inv'
    BY NextInv
  <1>3. Inv => FreshMeansFree
    <2>1. ASSUME Inv, NEW k \in Ids, calc[k].status = "ready", Current(k),
                 NEW x \in Campaigns \ {calc[k].campaign}
          PROVE  Members(k) \cap Claims(x) = {}
      <3>1. calc[k].campaign \in Campaigns
        BY <2>1 DEF Inv, TypeOK, Calculations
      <3>2. Free(Fingerprint(calc[k].campaign), calc[k].members)
        BY <2>1 DEF Inv, KnownCalc, Current
      <3> QED
        BY <2>1, <3>1, <3>2, FreeOfClaims DEF Inv, Members
    <2> QED
      BY <2>1 DEF FreshMeansFree
  <1> QED
    BY <1>1, <1>2, <1>3, PTL DEF Spec

\* A campaign that was finalized once and not put back to draft has exactly
\* the claim it was sold, of the right size and kind, from its finalization
\* through approval, execution and recovery, and none once it has ended.
THEOREM ClaimsFollowMoney == Spec => []ClaimFollowsMoney
  <1>1. Init => Inv /\ SoldInv
    <2> SUFFICES ASSUME Init PROVE SoldInv
      BY InitInv
    <2>1. NoCalc.status = "none"
      BY DEF NoCalc, NewCalc
    <2>2. \A k \in Ids : calc[k].status = "none"
      BY <2>1 DEF Init
    <2>3. \A c \in Campaigns : HeldBy(c) = {}
      BY <2>2, HeldByIs
    <2> QED
      BY <2>2, <2>3 DEF Init, SoldInv, Full, Unsold, Backed, IsEditable
  <1>2. Inv /\ SoldInv /\ [Next]_vars => Inv' /\ SoldInv'
    BY NextInv, SoldStep
  <1>3. SoldInv => ClaimFollowsMoney
    <2> SUFFICES ASSUME SoldInv, NEW c \in Campaigns, Undisturbed(c)
                 PROVE  IF status[c] \in Sold /\ input[c].kind # "standard"
                           THEN \E k \in Ids : BackedBy(c, k)
                           ELSE HeldBy(c) = {}
      BY DEF ClaimFollowsMoney, BackedBy, Members, Sold
    <2>1. CASE freezes[c] = 0
      BY <2>1 DEF SoldInv, Unsold, IsEditable, Sold, Allocated
    <2>2. CASE freezes[c] = 1 /\ ~IsEditable(c)
      BY <2>2 DEF SoldInv, Backed
    <2> QED
      BY <2>1, <2>2 DEF Undisturbed
  <1> QED
    BY <1>1, <1>2, <1>3, PTL DEF Spec

\* No step of any worker or handler, in particular of a worker that lost its
\* lease, changes a result that has ended or takes up a released claim.
THEOREM EndedResultsStay == Spec => EndedStays
  <1> DEFINE A == \A k \in Ids : calc[k].status \notin {"none", "pending"} =>
                    /\ [calc'[k] EXCEPT !.status = calc[k].status] = calc[k]
                    /\ calc'[k].status # calc[k].status =>
                          <<calc[k].status, calc'[k].status>> \in
                             {<<"ready", "committed">>, <<"committed", "stale">>,
                              <<"committed", "materialized">>}
  <1>1. Init => Inv
    BY InitInv
  <1>2. Inv /\ [Next]_vars => Inv'
    BY NextInv
  <1>3. Inv /\ [Next]_vars => A
    <2>1. ASSUME Inv, [Next]_vars, NEW k \in Ids,
                 calc[k].status \notin {"none", "pending"}
          PROVE  /\ [calc'[k] EXCEPT !.status = calc[k].status] = calc[k]
                 /\ calc'[k].status # calc[k].status =>
                       <<calc[k].status, calc'[k].status>> \in Moves
      <3>1. Rows' /\ RowStep(k)
        BY <2>1, StepRows DEF Inv
      <3>2. calc'[k] \in Calculations /\ calc[k] \in Calculations
        BY <2>1, <3>1 DEF Inv, TypeOK, Rows, Ids
      <3>3. [calc'[k] EXCEPT !.status = calc[k].status] = calc[k]
        BY <2>1, <3>1, <3>2 DEF RowStep, Unended, Calculations
      <3> QED
        BY <2>1, <3>1, <3>3 DEF RowStep, Unended
    <2> QED
      BY <2>1 DEF Moves
  <1>4. Inv /\ [Next]_vars => [A]_vars
    BY <1>3
  <1> HIDE DEF A
  <1>5. Spec => [][A]_vars
    BY <1>1, <1>2, <1>4, PTL DEF Spec
  <1> QED
    BY <1>5 DEF EndedStays, A

=============================================================================
