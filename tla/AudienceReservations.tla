----------------------- MODULE AudienceReservations -----------------------
(***************************************************************************)
(* Who of a bundle's audience belongs to which campaign.  An audience must *)
(* not hear from two campaigns of its bundle, and a campaign that was paid *)
(* for must find the audience it was sold.                                 *)
(*                                                                         *)
(* Members are chosen in the background: leased workers scan the bundle    *)
(* and publish what they chose as a calculation (Execution phase) or as a  *)
(* sampling (Test phase), business_flow/                                   *)
(* smart_targeting_execution_calculation_flow.go and                       *)
(* smart_targeting_sampling_flow.go.  Nothing is locked while they scan: a *)
(* fingerprint of what the other campaigns hold is read before, compared   *)
(* when the result is published and again when the campaign is finalized.  *)
(* Finalizing makes the members a claim, an execution makes the claim a    *)
(* permanent selection (app/scheduler/smart_targeting_capacity_candidates  *)
(* .go, shared.go), and the end of a campaign releases it.                 *)
(*                                                                         *)
(* There is one bundle.  A request that read a campaign before it fell due *)
(* is taken to have saved it by then: schedules lead by ten minutes.       *)
(***************************************************************************)
EXTENDS Integers, FiniteSets, FiniteSetsExt

CONSTANTS Campaigns,  \* campaigns of the bundle
          Audiences,  \* audience profiles of the bundle
          Inputs,     \* what a campaign may ask for
          Workers,    \* goroutines of the two calculation schedulers
          Nobody,     \* a NULL started_at
          MaxCalcs,   \* bound: calculations and samplings
          MaxUpdates  \* bound: UpdateCampaign requests

\* standard campaigns choose their audience when they are executed.
Kinds == {"execution", "test", "standard"}

ASSUME ReservationsAssumption ==
    /\ Inputs \subseteq [kind : Kinds, pool : SUBSET Audiences,
                         count : Nat \ {0}]
    /\ Campaigns # {}
    /\ IsFiniteSet(Audiences)
    /\ Nobody \notin Workers
    /\ MaxCalcs \in Nat
    /\ MaxUpdates \in Nat

VARIABLES status,     \* campaigns: status; "ended" stands for cancelled and rejected
          input,      \* campaigns: phase, method and selection of the audience
          sample,     \* campaigns: active_smart_targeting_test_selection_id, or 0
          freezes,    \* transactions: completed freezes of a campaign
          taken,      \* bundle_audience_selections: members, {} without a row
          due,        \* finalized campaigns whose schedule_at has passed
          editing,    \* UpdateCampaign requests past their status check
          finalizing, \* requests between their save and their commit, the
                      \* revision they saved being still that of the row
          calc,       \* rows of both calculation tables, with their members
          job,        \* what each worker is doing
          updates     \* UpdateCampaign requests so far

campaignVars == <<status, input, sample, freezes, taken, due, editing,
                  finalizing, updates>>
vars == <<status, input, sample, freezes, taken, due, editing, finalizing,
          calc, job, updates>>

Statuses == {"initiated", "in-progress", "waiting-for-approval", "approved",
             "running", "interrupted", "executed", "ended"}
IsEditable(c) == status[c] \in {"initiated", "in-progress"}
Allocated == {"approved", "running", "interrupted", "executed"}

\* "committed" says that the members are claimed: an Execution calculation is
\* committed itself, a Test selection has active reservation rows, which
\* become "materialized" or, when they are released, "stale".
CalcStatuses == {"none", "pending", "ready", "failed", "stale", "committed",
                 "materialized"}
Ids == 1 .. MaxCalcs
Members(k) == calc[k].members
Held == {k \in Ids : calc[k].status = "committed"}
HeldBy(c) == {k \in Held : calc[k].campaign = c}
HeldFor(c, kind) == {k \in HeldBy(c) : calc[k].input.kind = kind}
MembersOf(ids) == UNION {Members(k) : k \in ids}
Used == UNION {taken[c] : c \in Campaigns}

\* smartTargetingBundleAllocationFingerprint: the allocations of the other
\* campaigns and the reservations that are active for them.  Only whether a
\* selection exists is part of it, not who is in it.
Allocations(c) == {<<x, input[x].count, status[x]>> :
                      x \in {y \in Campaigns \ {c} : status[y] \in Allocated}}
Materialized(c) == {x \in Campaigns \ {c} : status[x] \in Allocated /\ taken[x] # {}}
Reservations(c) == Held \ HeldBy(c)
Fingerprint(c) == [allocations  |-> Allocations(c),
                   materialized |-> Materialized(c),
                   reservations |-> Reservations(c)]
NoFingerprint == [allocations |-> {}, materialized |-> {}, reservations |-> {}]
Fingerprints == [allocations  : SUBSET (Campaigns \X Nat \X Allocated),
                 materialized : SUBSET Campaigns,
                 reservations : SUBSET Ids]

Calculations == [campaign : Campaigns, input : Inputs, status : CalcStatuses,
                 lease : Workers \cup {Nobody}, fp : Fingerprints,
                 members : SUBSET Audiences]
NewCalc(c) == [campaign |-> c, input |-> input[c], status |-> "pending",
               lease |-> Nobody, fp |-> NoFingerprint, members |-> {}]
NoCalc == [NewCalc(CHOOSE c \in Campaigns : TRUE) EXCEPT !.status = "none"]
NoJob == [step |-> "idle", id |-> 0, fp |-> NoFingerprint, members |-> {}]
Jobs == [step : {"idle", "claimed", "reading", "scanning", "publishing"},
         id : Ids \cup {0}, fp : Fingerprints, members : SUBSET Audiences]

TypeOK ==
    /\ status \in [Campaigns -> Statuses]
    /\ input \in [Campaigns -> Inputs]
    /\ sample \in [Campaigns -> Ids \cup {0}]
    /\ freezes \in [Campaigns -> Nat]
    /\ taken \in [Campaigns -> SUBSET Audiences]
    /\ due \subseteq Campaigns
    /\ editing \subseteq Campaigns
    /\ finalizing \subseteq Campaigns
    /\ calc \in [Ids -> Calculations]
    /\ \A k \in Ids : Cardinality(Members(k)) \in {0, calc[k].input.count}
    /\ job \in [Workers -> Jobs]
    /\ updates \in Nat

Init ==
    /\ status = [c \in Campaigns |-> "initiated"]
    /\ input \in [Campaigns -> Inputs]
    /\ sample = [c \in Campaigns |-> 0]
    /\ freezes = [c \in Campaigns |-> 0]
    /\ taken = [c \in Campaigns |-> {}]
    /\ due = {} /\ editing = {} /\ finalizing = {}
    /\ calc = [k \in Ids |-> NoCalc]
    /\ job = [w \in Workers |-> NoJob]
    /\ updates = 0

SetStatus(c, s) == status' = [status EXCEPT ![c] = s]

\* Rows of a set of calculations get another status.
Mark(ids, s) ==
    [k \in Ids |-> IF k \in ids THEN [calc[k] EXCEPT !.status = s] ELSE calc[k]]

-----------------------------------------------------------------------------
(* Requests for a calculation or a sampling.                               *)

CalcsOf(c) == {k \in Ids : calc[k].campaign = c /\ calc[k].input.kind = input[c].kind}
Pending(c) == {k \in CalcsOf(c) : calc[k].status = "pending"}
Current(k) == calc[k].fp = Fingerprint(calc[k].campaign)

\* The newest result for the input of the campaign.  A sampling remains
\* calculated whatever becomes of its reservation rows.
Results(c) ==
    {k \in CalcsOf(c) :
        /\ calc[k].input = input[c]
        /\ \/ calc[k].status = "ready"
           \/ /\ input[c].kind = "test"
              /\ calc[k].status \in {"committed", "stale", "materialized"}}
Reusable(c) ==
    {k \in Results(c) : /\ \A l \in Results(c) : l <= k
                        /\ Current(k)
                        /\ input[c].kind = "test" => sample[c] = k}

\* A request with new inputs ends the calculation that is still running: an
\* Execution calculation becomes stale, a sampling fails.
Outdated(kind) == IF kind = "test" THEN "failed" ELSE "stale"
Superseded(c) == Mark(Pending(c), Outdated(input[c].kind))

\* StartSmartTargetingExecutionCalculation and StartSmartTargetingTestSampling.
\* A sampling clears what the last one published and changes the revision of
\* the campaign.
StartCalculation(c) ==
    /\ IsEditable(c)
    /\ input[c].kind \in {"execution", "test"}
    /\ \A k \in Pending(c) : calc[k].input # input[c]
    /\ \/ /\ Reusable(c) # {}
          /\ calc' = Superseded(c)
          /\ UNCHANGED <<sample, finalizing>>
       \/ /\ Reusable(c) = {}
          /\ \E k \in Ids :
                /\ calc[k].status = "none"
                /\ \A l \in Ids : l < k => calc[l].status # "none"
                /\ calc' = [Superseded(c) EXCEPT ![k] = NewCalc(c)]
          /\ IF input[c].kind = "test"
                THEN /\ sample' = [sample EXCEPT ![c] = 0]
                     /\ finalizing' = finalizing \ {c}
                ELSE UNCHANGED <<sample, finalizing>>
    /\ UNCHANGED <<status, input, freezes, taken, due, editing, job, updates>>

-----------------------------------------------------------------------------
(* The workers.                                                            *)

\* ClaimPending: pending, without a lease or with an overdue one.  A job ends
\* before its lease does unless the clocks of two replicas disagree.  The
\* started_at of a claim is its worker here: a worker has one job at a time.
ClaimPending(w, k) ==
    /\ job[w].step = "idle"
    /\ calc[k].status = "pending"
    /\ calc' = [calc EXCEPT ![k].lease = w]
    /\ job' = [job EXCEPT ![w] = [NoJob EXCEPT !.step = "claimed", !.id = k]]
    /\ UNCHANGED campaignVars

Leased(w) == calc[job[w].id].status = "pending" /\ calc[job[w].id].lease = w
Campaign(w) == calc[job[w].id].campaign

\* executionCalculationStillMatches,
\* currentSmartTargetingTestSamplingCalculationInput
StillMatches(k) ==
    /\ IsEditable(calc[k].campaign)
    /\ input[calc[k].campaign] = calc[k].input

Goto(w, j) == job' = [job EXCEPT ![w] = j]

\* Finish and Fail: no effect without the lease.
Finish(w, s) ==
    /\ calc' = IF Leased(w) THEN Mark({job[w].id}, s) ELSE calc
    /\ Goto(w, NoJob)
    /\ UNCHANGED campaignVars

\* The row and the campaign are read, then the fingerprint: with a statement
\* for the allocations and later ones for the reservations.
ReadCampaign(w) ==
    /\ job[w].step = "claimed"
    /\ IF Leased(w) /\ StillMatches(job[w].id)
          THEN /\ Goto(w, [job[w] EXCEPT !.step = "reading", !.fp =
                              [Fingerprint(Campaign(w)) EXCEPT !.reservations = {}]])
               /\ UNCHANGED <<calc, campaignVars>>
          ELSE Finish(w, Outdated(calc[job[w].id].input.kind))

ReadReservations(w) ==
    /\ job[w].step = "reading"
    /\ Goto(w, [job[w] EXCEPT !.step = "scanning", !.fp =
                   [@ EXCEPT !.reservations = Reservations(Campaign(w))]])
    /\ UNCHANGED <<calc, campaignVars>>

\* Whom the scan passes over: the query of an Execution calculation leaves
\* the committed calculation of its own campaign out of account.
Excluded(k) ==
    IF calc[k].input.kind = "execution"
       THEN Used \cup MembersOf(Held \ HeldFor(calc[k].campaign, "execution"))
       ELSE Used \cup MembersOf(Held)
Candidates(k) == calc[k].input.pool \ Excluded(k)

\* Mutant: one candidate more than was asked for.
SelectOneMore(w) ==
    LET k == job[w].id IN
    /\ job[w].step = "scanning"
    /\ \E S \in kSubset(calc[k].input.count + 1, Candidates(k)) :
           Goto(w, [job[w] EXCEPT !.step = "publishing", !.members = S])
    /\ UNCHANGED <<calc, campaignVars>>

\* A sampling without a satisfied tag is published empty.
SelectCandidates(w) ==
    LET k == job[w].id IN
    /\ job[w].step = "scanning"
    /\ \/ \E S \in kSubset(calc[k].input.count, Candidates(k)) :
             Goto(w, [job[w] EXCEPT !.step = "publishing", !.members = S])
       \/ /\ Cardinality(Candidates(k)) < calc[k].input.count
          /\ calc[k].input.kind = "test"
          /\ Goto(w, [job[w] EXCEPT !.step = "publishing"])
    /\ UNCHANGED <<calc, campaignVars>>

InsufficientCapacity(w) ==
    LET k == job[w].id IN
    /\ job[w].step = "scanning"
    /\ Cardinality(Candidates(k)) < calc[k].input.count
    /\ calc[k].input.kind = "execution"
    /\ Finish(w, "failed")

\* Mutant: the fingerprint is stored but not compared with the first one.
UncheckedPublishable(w) == Leased(w) /\ StillMatches(job[w].id)

\* Mutant: the update names the row by its id only.
UnleasedPublishable(w) ==
    /\ StillMatches(job[w].id)
    /\ Fingerprint(Campaign(w)) = job[w].fp

Publishable(w) ==
    /\ Leased(w)
    /\ StillMatches(job[w].id)
    /\ Fingerprint(Campaign(w)) = job[w].fp

\* The campaign row is locked and the bundle row shared: the result is
\* published if nothing it was computed from has changed.
Complete(w) ==
    /\ job[w].step = "publishing"
    /\ Publishable(w)
    /\ calc' = [calc EXCEPT ![job[w].id] =
                   [@ EXCEPT !.status = "ready",
                             !.fp = Fingerprint(Campaign(w)),
                             !.members = job[w].members]]
    /\ IF calc[job[w].id].input.kind = "test"
          THEN /\ sample' = [sample EXCEPT ![Campaign(w)] = job[w].id]
               /\ finalizing' = finalizing \ {Campaign(w)}
          ELSE UNCHANGED <<sample, finalizing>>
    /\ Goto(w, NoJob)
    /\ UNCHANGED <<status, input, freezes, taken, due, editing, updates>>

AllocationChanged(w) ==
    /\ job[w].step = "publishing"
    /\ ~Publishable(w)
    /\ Finish(w, Outdated(calc[job[w].id].input.kind))

\* An error, a timeout or a panic ends a job, the end of the process loses it.
WorkerFails(w) ==
    /\ job[w].step # "idle"
    /\ calc' \in {calc, IF Leased(w) THEN Mark({job[w].id}, "failed") ELSE calc}
    /\ Goto(w, NoJob)
    /\ UNCHANGED campaignVars

-----------------------------------------------------------------------------
(* Saving and finalizing a campaign.                                       *)

\* The status is read outside any transaction.
UpdateCheck(c) ==
    /\ IsEditable(c)
    /\ c \notin editing
    /\ updates < MaxUpdates
    /\ updates' = updates + 1
    /\ editing' = editing \cup {c}
    /\ UNCHANGED <<status, input, sample, freezes, taken, due, finalizing, calc,
                   job>>

\* The row is read again under its lock, its status is not tested again.  New
\* inputs clear the sampling of the campaign and end one that is running.
UpdateSave(c, i, finalize) ==
    /\ c \in editing
    /\ editing' = editing \ {c}
    /\ SetStatus(c, "in-progress")
    /\ input' = [input EXCEPT ![c] = i]
    /\ finalizing' = IF finalize THEN finalizing \cup {c} ELSE finalizing \ {c}
    /\ IF i = input[c]
          THEN UNCHANGED <<sample, calc>>
          ELSE /\ sample' = [sample EXCEPT ![c] = 0]
               /\ calc' = Mark({k \in Ids : /\ calc[k].campaign = c
                                            /\ calc[k].status = "pending"
                                            /\ calc[k].input.kind = "test"},
                               "failed")
    /\ UNCHANGED <<freezes, taken, due, job, updates>>

\* Phase two starts: the row is as this request saved it, and editable.
FinalizeRow(c) ==
    /\ c \in finalizing
    /\ IsEditable(c)
    /\ finalizing' = finalizing \ {c}
    /\ SetStatus(c, "waiting-for-approval")
    /\ freezes' = [freezes EXCEPT ![c] = @ + 1]
    /\ UNCHANGED <<input, sample, taken, due, editing, job, updates>>

\* Mutant: the fingerprint is not compared again.
FinalizeUnchecked(c, k) ==
    /\ FinalizeRow(c)
    /\ input[c].kind = "execution"
    /\ calc[k].campaign = c /\ calc[k].status = "ready"
    /\ calc[k].input = input[c]
    /\ calc' = [Mark(HeldFor(c, "test"), "stale") EXCEPT ![k].status = "committed"]

\* An Execution campaign names the calculation it accepts: ready, its own, of
\* the same input, and current under the lock of the bundle.
FinalizeExecution(c, k) ==
    /\ FinalizeRow(c)
    /\ input[c].kind = "execution"
    /\ calc[k].campaign = c /\ calc[k].status = "ready"
    /\ calc[k].input = input[c]
    /\ Current(k)
    /\ calc' = [Mark(HeldFor(c, "test"), "stale") EXCEPT ![k].status = "committed"]

\* Whom testSampleSelectionAvailabilityQuery finds unavailable, after the
\* calculation of the same campaign was invalidated.
Unavailable(c) == Used \cup MembersOf(Held \ HeldBy(c))

\* ReserveForCampaign: the rows of the active selection are inserted once.  A
\* selection whose rows exist already is left as it is while they are active,
\* and collides with them when they were released; other active rows of the
\* campaign collide with members they share.
ReserveForCampaign(c) ==
    LET k == sample[c] IN
    /\ \/ calc[k].status = "committed"
       \/ /\ calc[k].status = "ready"
          /\ Members(k) \cap Unavailable(c) = {}
          /\ Members(k) \cap MembersOf(HeldFor(c, "test")) = {}
    /\ calc' = [Mark(HeldFor(c, "execution"), "stale")
                   EXCEPT ![k].status = "committed"]

\* A Test campaign claims the members of its active selection.
FinalizeTest(c) ==
    /\ FinalizeRow(c)
    /\ input[c].kind = "test"
    /\ sample[c] # 0
    /\ calc[sample[c]].input = input[c]
    /\ Members(sample[c]) # {}
    /\ ReserveForCampaign(c)

FinalizeStandard(c) ==
    /\ FinalizeRow(c)
    /\ input[c].kind = "standard"
    /\ UNCHANGED calc

-----------------------------------------------------------------------------
(* The life of a finalized campaign.                                       *)

\* A draft gets a time ahead when it is finalized.
Fall(c) ==
    /\ status[c] \in {"waiting-for-approval", "approved"}
    /\ c \notin due \cup editing
    /\ due' = due \cup {c}
    /\ UNCHANGED <<status, input, sample, freezes, taken, editing, finalizing,
                   calc, job, updates>>

\* A saved row is a new revision: what was finalizing it is too late.
MoveTo(c, s) ==
    /\ SetStatus(c, s)
    /\ finalizing' = finalizing \ {c}
    /\ due' = IF s = "ended" THEN due \ {c} ELSE due
    /\ UNCHANGED <<input, sample, freezes, taken, editing, job, updates>>

\* Mutant: only the rows of a Test selection are released.
ReleaseTestOnly(c) == calc' = Mark(HeldFor(c, "test"), "stale")

\* Both ReleaseForCampaign.
Release(c) == calc' = Mark(HeldBy(c), "stale")

\* Every refund of a waiting campaign looks for its one freeze.
Refundable(c) == status[c] = "waiting-for-approval" /\ freezes[c] = 1

ApproveCampaign(c) ==
    /\ Refundable(c)
    /\ c \notin due
    /\ input[c].kind = "test" => /\ sample[c] # 0
                                 /\ sample[c] \in HeldBy(c)
    /\ MoveTo(c, "approved")
    /\ UNCHANGED calc

RejectCampaign(c) == Refundable(c) /\ MoveTo(c, "ended") /\ Release(c)

\* CancelCampaign of the customer and of the administrator.
CancelCampaign(c) ==
    /\ Refundable(c) \/ (status[c] = "approved" /\ c \notin due)
    /\ MoveTo(c, "ended")
    /\ Release(c)

MoveCampaignToRunning(c) ==
    /\ status[c] = "approved"
    /\ c \in due
    /\ MoveTo(c, "running")
    /\ UNCHANGED calc

\* InsertForCampaign: an audience has one row in the selections of a bundle,
\* and none when a Test selection of another campaign reserves it.
Insert(c, S) ==
    /\ S \cap Used = {}
    /\ S \cap MembersOf({k \in Held \ HeldBy(c) : calc[k].input.kind = "test"}) = {}
    /\ taken' = [taken EXCEPT ![c] = S]

MaterializeTest(c) ==
    /\ input[c].kind = "test"
    /\ sample[c] \in HeldBy(c)
    /\ Insert(c, Members(sample[c]))
    /\ calc' = Mark({sample[c]}, "materialized")

\* A committed calculation stays one: its members are in both tables then.
MaterializeExecution(c) ==
    /\ input[c].kind = "execution"
    /\ \E k \in HeldFor(c, "execution") :
          /\ calc[k].input.count = input[c].count
          /\ Insert(c, Members(k))
    /\ UNCHANGED calc

\* Whom campaignCandidatesQuery leaves to a standard campaign.
StandardCandidates(c) == input[c].pool \ (Used \cup MembersOf(Held))
SelectStandard(c) ==
    /\ input[c].kind = "standard"
    /\ \E S \in kSubset(input[c].count, StandardCandidates(c)) : Insert(c, S)
    /\ UNCHANGED calc

\* The execution of a campaign makes its claim permanent, under the lock of
\* the bundle.  One that has its selection already goes on with it.
Materialize(c) ==
    /\ status[c] = "running"
    /\ taken[c] = {}
    /\ MaterializeTest(c) \/ MaterializeExecution(c) \/ SelectStandard(c)
    /\ UNCHANGED <<status, input, sample, freezes, due, editing, finalizing, job,
                   updates>>

\* recoverUndeliveredCampaigns keeps the selection; a campaign with deliveries
\* is interrupted.
RecoverCampaign(c) ==
    /\ status[c] = "running"
    /\ MoveTo(c, "approved") \/ (taken[c] # {} /\ MoveTo(c, "interrupted"))
    /\ UNCHANGED calc

MoveCampaignToExecuted(c) ==
    /\ status[c] = "running"
    /\ taken[c] # {}
    /\ MoveTo(c, "executed")
    /\ UNCHANGED calc

-----------------------------------------------------------------------------
Work(w) ==
    \/ ReadCampaign(w) \/ ReadReservations(w) \/ SelectCandidates(w)
    \/ InsufficientCapacity(w) \/ Complete(w) \/ AllocationChanged(w)

Finalize(c) ==
    \/ \E k \in Ids : FinalizeExecution(c, k)
    \/ FinalizeTest(c) \/ FinalizeStandard(c)

Live(c) ==
    \/ Fall(c) \/ ApproveCampaign(c) \/ RejectCampaign(c) \/ CancelCampaign(c)
    \/ MoveCampaignToRunning(c) \/ Materialize(c) \/ RecoverCampaign(c)
    \/ MoveCampaignToExecuted(c)

Next ==
    \/ \E w \in Workers : \/ Work(w) \/ WorkerFails(w)
                          \/ \E k \in Ids : ClaimPending(w, k)
    \/ \E c \in Campaigns :
          \/ StartCalculation(c) \/ UpdateCheck(c) \/ Finalize(c) \/ Live(c)
          \/ \E i \in Inputs, f \in BOOLEAN : UpdateSave(c, i, f)

Spec == Init /\ [][Next]_vars

-----------------------------------------------------------------------------
(* Properties.                                                             *)

\* What a campaign holds: its permanent selection and its claims.
Claims(c) == taken[c] \cup MembersOf(HeldBy(c))

\* No audience belongs to two campaigns of the bundle, although scans lock
\* nothing and drafts may be overwritten: "one audience cannot be actively
\* reserved or permanently allocated by different campaigns in the same
\* Bundle" (migrations/0144:3).
ClaimsDisjoint ==
    \A x, y \in Campaigns : x # y => Claims(x) \cap Claims(y) = {}

\* The fingerprint tells every change that matters, although it counts
\* members and does not name them: a result whose fingerprint is the present
\* one, which clients are shown as is_current, has no member that another
\* campaign claimed since it was computed.
FreshMeansFree ==
    \A k \in Ids : calc[k].status = "ready" /\ Current(k) =>
        \A x \in Campaigns \ {calc[k].campaign} : Members(k) \cap Claims(x) = {}

\* A late save of a draft has not put a finalized campaign back to draft.
Undisturbed(c) ==
    freezes[c] = 0 \/ (freezes[c] = 1 /\ ~IsEditable(c))

\* A campaign holds a claim exactly while it holds the customer's money: one
\* of the size and kind that was sold from its finalization on, the same in
\* its permanent selection, and none once it is cancelled or rejected.
ClaimFollowsMoney ==
    \A c \in Campaigns : Undisturbed(c) =>
        IF status[c] \in Allocated \cup {"waiting-for-approval"}
                /\ input[c].kind # "standard"
           THEN \E k \in Ids :
                   /\ calc[k].campaign = c /\ calc[k].input = input[c]
                   /\ Cardinality(Members(k)) = input[c].count
                   /\ taken[c] \in {{}, Members(k)}
                   /\ IF taken[c] # {} /\ input[c].kind = "test"
                         THEN HeldBy(c) = {} ELSE HeldBy(c) = {k}
           ELSE HeldBy(c) = {}

\* The result of a calculation never changes once it ended, whoever still
\* works on it; a claim that was released is never taken up again.
EndedStays ==
    [][\A k \in Ids : calc[k].status \notin {"none", "pending"} =>
          /\ [calc'[k] EXCEPT !.status = calc[k].status] = calc[k]
          /\ calc'[k].status # calc[k].status =>
                <<calc[k].status, calc'[k].status>> \in
                    {<<"ready", "committed">>, <<"committed", "stale">>,
                     <<"committed", "materialized">>}]_vars

=============================================================================
