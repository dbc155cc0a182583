----------------------------- MODULE ShortLinks -----------------------------
(***************************************************************************)
(* Allocation and publication of short links.  Campaign executions ask for *)
(* the links of a request (business_flow/bot_short_link_flow.go),          *)
(* administrators upload CSV files that leased jobs turn into links        *)
(* (business_flow/admin_short_link_flow.go).  Both take codes from one     *)
(* durable allocator row and publish the links to the external redirect    *)
(* service; a background publisher repeats what they left unmarked         *)
(* (app/scheduler/external_short_link_scheduler.go).                       *)
(*                                                                         *)
(* An allocation key stands for its request: the key of a request is the   *)
(* hash of its content, the key of a job is drawn at random.  The          *)
(* destination of a link is that of its key, or of its own row if that is  *)
(* older than the allocator: the redirect service stores it as             *)
(* normalize_long_url leaves it, or refuses it, and with it the batch it   *)
(* came in.  A mapping is named here by the owner whose destination it     *)
(* has.  A claim of a job is identified by its lease_token in the code and *)
(* by the attempt number here: each claim sets both to a value of its own. *)
(***************************************************************************)
EXTENDS Integers, FiniteSets, FiniteSetsExt

CONSTANTS Requests,     \* contents of allocation requests of the executions
          Jobs,         \* uploads of administrators
          BadJobs,      \* uploads whose CSV does not pass inspectAdminCSV
          Replicas,     \* goroutines that serve requests and run jobs
          Size,         \* number of links of a key
          Legacy,       \* codes that older rows occupy
          Capacity,     \* ShortLinkUIDCapacity
          MaxAttempts,  \* adminUploadMaxAttempts
          PublishBatch, \* batchSize of the background publisher
          MaxFaults,    \* bound: failed calls and transactions, crashes
          Nobody,       \* owner of a free code
          Historic,     \* owner of the legacy codes
          Destination   \* long link of the rows of a key, and of the older
                        \* row that holds a code

Keys == Requests \cup Jobs
Codes == 0 .. Capacity - 1

\* What the two normalizations of a long link look at.  The host is "plain"
\* where RFC 3986 has it, "lenient" where only a browser's parser finds one
\* (https:x.com, /x.com); escaped: its percent signs begin escapes (not so
\* x.com/50%off); fits: it is within the limits only the service has (length,
\* no white space, port).
Destinations == [scheme : {"none", "http", "other"},
                 host : {"plain", "lenient", "none"},
                 escaped : BOOLEAN, fits : BOOLEAN]

ASSUME ShortLinksAssumption ==
    /\ Requests \cap Jobs = {}
    /\ IsFiniteSet(Keys)
    /\ BadJobs \subseteq Jobs
    /\ Capacity \in Nat \ {0}
    /\ Legacy \subseteq Codes
    /\ Size \in [Keys -> Nat \ {0}]
    /\ MaxAttempts \in Nat \ {0}
    /\ PublishBatch \in Nat \ {0}
    /\ MaxFaults \in Nat
    /\ Nobody \notin Keys \cup {Historic}
    /\ Historic \notin Keys
    /\ Destination \in [Keys \cup Codes -> Destinations]

VARIABLES nextValue,  \* next_value of the allocator row
          owner,      \* short_links: the key of the row that holds a code
          published,  \* codes of rows with an external_published_at
          mapping,    \* external service: the destination a code leads to
          caller,     \* what each replica is doing
          job,        \* admin_short_link_upload_jobs
          answered,   \* codes that requests were answered with
          publisher,  \* batch the background publisher is uploading
          faults      \* faults so far

linkVars == <<nextValue, owner, published, mapping, caller, job, answered,
              publisher, faults>>

\* The long link itself, or with https: put before one that has no scheme.
WithScheme(d) == IF d.scheme = "none" THEN "https added" ELSE "kept"

\* What the redirect service stores of a long link, or that it refuses it.
normalize_long_url(d) ==
    IF d.scheme = "other" \/ d.host = "none" \/ ~d.fits THEN "refused"
    ELSE WithScheme(d)
Accepted(d) == normalize_long_url(d) # "refused"

Owners == Keys \cup {Historic, Nobody}
RowsOf(k) == {c \in Codes : owner[c] = k}
LongLink(c) == Destination[IF owner[c] = Historic THEN c ELSE owner[c]]
\* Mutant: a link works as soon as its row is stored.
MappedByRow == {c \in Codes : owner[c] # Nobody}

Mapped == {c \in Codes : mapping[c] # Nobody}

Steps == {"idle", "claimed", "reserving", "persisting", "publishing",
          "marking", "completing"}
Caller(step, k, codes, token) ==
    [step |-> step, key |-> k, codes |-> codes, token |-> token]
Idle == Caller("idle", Nobody, {}, 0)

\* token 0 is a NULL lease_token; lapsed: lease_expires_at has passed.
Job(status, attempts, token) ==
    [status |-> status, attempts |-> attempts, token |-> token,
     lapsed |-> FALSE]
JobStatuses == {"new", "pending", "processing", "retrying", "completed",
                "failed"}
Terminal == {"completed", "failed"}

TypeOK ==
    /\ nextValue \in 0 .. Capacity
    /\ owner \in [Codes -> Owners]
    /\ published \subseteq Codes
    /\ mapping \in [Codes -> Owners]
    /\ caller \in [Replicas -> [step : Steps, key : Keys \cup {Nobody},
                                codes : SUBSET Codes, token : Nat]]
    /\ job \in [Jobs -> [status : JobStatuses, attempts : Nat, token : Nat,
                         lapsed : BOOLEAN]]
    /\ answered \in [Requests -> SUBSET SUBSET Codes]
    /\ publisher \subseteq Codes
    /\ faults \in 0 .. MaxFaults

LinkInit ==
    /\ nextValue = 0
    /\ owner = [c \in Codes |-> IF c \in Legacy THEN Historic ELSE Nobody]
    /\ published = {}
    /\ mapping = [c \in Codes |-> Nobody]
    /\ caller = [r \in Replicas |-> Idle]
    /\ job = [j \in Jobs |-> Job("new", 0, 0)]
    /\ answered = [q \in Requests |-> {}]
    /\ publisher = {}
    /\ faults = 0

Fault == faults < MaxFaults /\ faults' = faults + 1

Goto(r, c) == caller' = [caller EXCEPT ![r] = c]
At(r, step) == [caller[r] EXCEPT !.step = step]

-----------------------------------------------------------------------------
(* The code of both kinds of allocation.                                   *)

\* Mutant: the allocator does not look at the rows.
FreeCodesUnlooked == {c \in Codes : c >= nextValue}

\* ReserveSequentialUIDs: the first n codes from next_value on that no row
\* holds; there are none when the capacity is exhausted.
FreeCodes == {c \in Codes : c >= nextValue /\ owner[c] = Nobody}
Exhausted(n) == Cardinality(FreeCodes) < n
Reservation(n) == {S \in SUBSET FreeCodes :
                      /\ Cardinality(S) = n
                      /\ \A c \in S, d \in FreeCodes \ S : c < d}

\* The reservation, the rows and the counter commit in one transaction that
\* holds the allocator row; (allocation_key, allocation_position) is unique.
Allocate(k, codes) ==
    /\ RowsOf(k) = {}
    /\ codes \in Reservation(Size[k])
    /\ \E last \in codes : /\ \A c \in codes : c <= last
                           /\ nextValue' = last + 1
    /\ owner' = [c \in Codes |-> IF c \in codes THEN k ELSE owner[c]]

\* UpdateClaimed: the row is written only while it holds the worker's token.
Holds(r) == caller[r].key \in Jobs /\ job[caller[r].key].token = caller[r].token
\* Mutant: the row is saved whatever token it holds.
UpdateUnfenced(r, status) ==
    job' = IF caller[r].key \in Jobs
           THEN [job EXCEPT ![caller[r].key] =
                    Job(status, job[caller[r].key].attempts, 0)]
           ELSE job

UpdateClaimed(r, status) ==
    job' = IF Holds(r)
           THEN [job EXCEPT ![caller[r].key] =
                    Job(status, job[caller[r].key].attempts, 0)]
           ELSE job

\* failJob compares the attempts the worker read when it claimed the job.
FailedStatus(r) == IF caller[r].token >= MaxAttempts THEN "failed"
                   ELSE "retrying"

\* A step that fails: a job is retried or fails, a request is answered with
\* an error.
GiveUp(r, status) ==
    /\ Goto(r, Idle)
    /\ UpdateClaimed(r, status)

-----------------------------------------------------------------------------
(* Requests and jobs.                                                      *)

\* GenerateAndCreateShortLinks finds the rows of an earlier call, or none.
ServeRequest(r, q) ==
    /\ caller[r].step = "idle"
    /\ Goto(r, IF RowsOf(q) = {} THEN Caller("reserving", q, {}, 0)
               ELSE Caller("publishing", q, RowsOf(q), 0))
    /\ UNCHANGED <<nextValue, owner, published, mapping, job, answered,
                   publisher, faults>>

\* CreateShortLinksFromCSV stores the job before anything else.
CreateJob(j) ==
    /\ job[j].status = "new"
    /\ job' = [job EXCEPT ![j] = Job("pending", 0, 0)]
    /\ UNCHANGED <<nextValue, owner, published, mapping, caller, answered,
                   publisher, faults>>

\* Mutant: a job whose worker died is not taken up again.
DueUnleased(j) == job[j].status \in {"pending", "retrying"}

Due(j) == \/ job[j].status \in {"pending", "retrying"}
          \/ job[j].status = "processing" /\ job[j].lapsed

\* Claim, by the upload request itself or by the job loop of a replica.
ClaimJob(r, j) ==
    /\ caller[r].step = "idle"
    /\ Due(j)
    /\ LET n == job[j].attempts + 1
       IN /\ job' = [job EXCEPT ![j] = Job("processing", n, n)]
          /\ Goto(r, Caller("claimed", j, {}, n))
    /\ UNCHANGED <<nextValue, owner, published, mapping, answered, publisher,
                   faults>>

\* The lease outlasts a worker that is alive unless that one is too slow.
Attended(j) == \E r \in Replicas :
                   caller[r].key = j /\ caller[r].token = job[j].token
LeaseExpires(j) ==
    /\ job[j].status = "processing" /\ ~job[j].lapsed
    /\ IF Attended(j) THEN Fault ELSE UNCHANGED faults
    /\ job' = [job EXCEPT ![j].lapsed = TRUE]
    /\ UNCHANGED <<nextValue, owner, published, mapping, caller, answered,
                   publisher>>

\* processJob inspects the CSV, then looks for the rows of an earlier attempt.
InspectJob(r) ==
    /\ caller[r].step = "claimed"
    /\ IF caller[r].key \in BadJobs THEN GiveUp(r, "failed")
       ELSE /\ Goto(r, At(r, IF RowsOf(caller[r].key) = {} THEN "reserving"
                             ELSE "persisting"))
            /\ UNCHANGED job
    /\ UNCHANGED <<nextValue, owner, published, mapping, answered, publisher,
                   faults>>

\* The allocation commits; a job's progress is part of the transaction.
Reserve(r) ==
    LET k == caller[r].key
    IN /\ caller[r].step = "reserving"
       /\ k \in Jobs => Holds(r)
       /\ \E codes \in SUBSET FreeCodes :
              /\ Allocate(k, codes)
              /\ Goto(r, Caller("publishing", k, codes, caller[r].token))
       /\ UNCHANGED <<published, mapping, job, answered, publisher, faults>>

\* The allocation rolls back: another call inserted the rows first, the
\* capacity is exhausted, the lease was lost, or the transaction failed.  The
\* rows of the winner are used if there are any.
ReserveFails(r) ==
    LET k == caller[r].key
    IN /\ caller[r].step = "reserving"
       /\ \/ /\ RowsOf(k) # {} \/ Exhausted(Size[k]) \/ (k \in Jobs /\ ~Holds(r))
             /\ UNCHANGED faults
          \/ Fault
       /\ IF RowsOf(k) = {}
          THEN GiveUp(r, IF Exhausted(Size[k]) /\ UNCHANGED faults THEN "failed"
                         ELSE FailedStatus(r))
          ELSE /\ Goto(r, IF k \in Jobs THEN At(r, "persisting")
                          ELSE Caller("publishing", k, RowsOf(k), 0))
               /\ UNCHANGED job
       /\ UNCHANGED <<nextValue, owner, published, mapping, answered, publisher>>

\* Mutant: the links of an earlier attempt are taken to be live.
PersistAndSkip(r) ==
    /\ caller[r].step = "persisting"
    /\ IF Holds(r) THEN Goto(r, At(r, "completing")) /\ UNCHANGED job
       ELSE GiveUp(r, FailedStatus(r))
    /\ UNCHANGED <<nextValue, owner, published, mapping, answered, publisher,
                   faults>>

\* PersistAllocation without links: the counters of a retried job.
PersistProgress(r) ==
    /\ caller[r].step = "persisting"
    /\ IF Holds(r)
       THEN /\ Goto(r, Caller("publishing", caller[r].key, RowsOf(caller[r].key),
                              caller[r].token))
            /\ UNCHANGED job
       ELSE GiveUp(r, FailedStatus(r))
    /\ UNCHANGED <<nextValue, owner, published, mapping, answered, publisher,
                   faults>>

-----------------------------------------------------------------------------
(* Publication.                                                            *)

\* upload_links of the external service: one transaction that rejects the
\* whole batch when it refuses a destination or a code already leads elsewhere.
Refuses(codes) ==
    \E c \in codes : ~Accepted(LongLink(c)) \/ mapping[c] \notin {Nobody, owner[c]}
UploadLinks(codes) ==
    /\ ~Refuses(codes)
    /\ mapping' = [c \in Codes |-> IF c \in codes THEN owner[c] ELSE mapping[c]]

\* Mutant: the answers to the chunks of an upload are not checked.
PublishUnchecked(r) ==
    /\ caller[r].step = "publishing"
    /\ \E done \in SUBSET caller[r].codes : UploadLinks(done)
    /\ Goto(r, At(r, "marking"))
    /\ UNCHANGED <<nextValue, owner, published, job, answered, publisher, faults>>

\* publishShortLinkMappings: the upload is acknowledged.
Publish(r) ==
    /\ caller[r].step = "publishing"
    /\ UploadLinks(caller[r].codes)
    /\ Goto(r, At(r, "marking"))
    /\ UNCHANGED <<nextValue, owner, published, job, answered, publisher, faults>>

\* An upload that ends early: chunks of it, or all of it with a lost answer,
\* may have been stored.  A job marks each of its chunks before the next one.
Interrupted(r) ==
    \E done \in SUBSET caller[r].codes : \E marked \in SUBSET done :
        /\ UploadLinks(done)
        /\ marked # {} => caller[r].key \in Jobs /\ marked # caller[r].codes
        /\ published' = published \cup marked

PublishFails(r) ==
    /\ caller[r].step = "publishing"
    /\ Fault \/ (Refuses(caller[r].codes) /\ UNCHANGED faults)
    /\ Interrupted(r)
    /\ GiveUp(r, FailedStatus(r))
    /\ UNCHANGED <<nextValue, owner, answered, publisher>>

\* MarkExternallyPublished: an error is ignored.  A request is then answered
\* with its codes.
MarkPublished(r) ==
    LET k == caller[r].key
    IN /\ caller[r].step = "marking"
       /\ \/ published' = published \cup caller[r].codes /\ UNCHANGED faults
          \/ Fault /\ UNCHANGED published
       /\ IF k \in Requests
          THEN /\ answered' = [answered EXCEPT ![k] = @ \cup {caller[r].codes}]
               /\ Goto(r, Idle)
          ELSE /\ Goto(r, At(r, "completing"))
               /\ UNCHANGED answered
       /\ UNCHANGED <<nextValue, owner, mapping, job, publisher>>

CompleteJob(r) ==
    /\ caller[r].step = "completing"
    /\ GiveUp(r, "completed")
    /\ UNCHANGED <<nextValue, owner, published, mapping, answered, publisher,
                   faults>>

\* Reading the rows or saving the counters of a job fails.
JobCallFails(r) ==
    /\ caller[r].step \in {"claimed", "persisting"}
    /\ Fault
    /\ GiveUp(r, FailedStatus(r))
    /\ UNCHANGED <<nextValue, owner, published, mapping, answered, publisher>>

\* The process stops, or the context of a request ends.
Crash(r) ==
    /\ caller[r].step # "idle"
    /\ Fault
    /\ Goto(r, Idle)
    /\ \/ caller[r].step = "publishing" /\ Interrupted(r)
       \/ /\ caller[r].step = "marking"
          /\ published' = published \cup caller[r].codes
          /\ UNCHANGED mapping
       \/ caller[r].step # "publishing" /\ UNCHANGED <<published, mapping>>
    /\ UNCHANGED <<nextValue, owner, job, answered, publisher>>

-----------------------------------------------------------------------------
(* The background publisher.                                               *)

\* Mutant: only rows of the allocator are published.
PendingAllocated ==
    {c \in Codes : owner[c] \in Keys /\ c \notin published}

Pending == {c \in Codes : owner[c] # Nobody /\ c \notin published}

\* ids: legacy rows came first; the others were inserted under the lock of
\* the allocator row, in the order of their codes.
Before(d, c) == c \notin Legacy /\ (d \in Legacy \/ d < c)

\* ListPendingExternalPublication: a batch of the lowest ids.
ListPending ==
    /\ publisher = {}
    /\ Pending # {}
    /\ publisher' \in kSubset(Min({PublishBatch, Cardinality(Pending)}), Pending)
    /\ \A c \in publisher', d \in Pending \ publisher' : ~Before(d, c)
    /\ UNCHANGED <<nextValue, owner, published, mapping, caller, job, answered,
                   faults>>

\* Upload and mark; the two are one step, the mark may fail like the upload.
PublishPending ==
    /\ publisher # {}
    /\ UploadLinks(publisher)
    /\ published' = published \cup publisher
    /\ publisher' = {}
    /\ UNCHANGED <<nextValue, owner, caller, job, answered, faults>>

PublishPendingFails ==
    /\ publisher # {}
    /\ Fault \/ (Refuses(publisher) /\ UNCHANGED faults)
    /\ \E done \in SUBSET publisher : UploadLinks(done)
    /\ publisher' = {}
    /\ UNCHANGED <<nextValue, owner, published, caller, job, answered>>

Proceed(r) ==
    \/ InspectJob(r) \/ Reserve(r) \/ ReserveFails(r) \/ PersistProgress(r)
    \/ Publish(r) \/ PublishFails(r) \/ MarkPublished(r) \/ CompleteJob(r)
    \/ JobCallFails(r) \/ Crash(r)

LinkNext ==
    \/ \E r \in Replicas : \/ \E q \in Requests : ServeRequest(r, q)
                           \/ \E j \in Jobs : ClaimJob(r, j)
                           \/ Proceed(r)
    \/ \E j \in Jobs : CreateJob(j) \/ LeaseExpires(j)
    \/ ListPending \/ PublishPending \/ PublishPendingFails

LinkSpec == LinkInit /\ [][LinkNext]_linkVars

-----------------------------------------------------------------------------
(* Properties.                                                             *)

\* The links a campaign was given are all the rows of its request, however
\* often and by how many replicas it was asked for, and at the redirect
\* service each of them leads to the destination of that request: "no code is
\* returned to the campaign scheduler until every mapping is durably
\* acknowledged" (bot_short_link_flow.go:120).
SendSafe ==
    \A q \in Requests : \A codes \in answered[q] :
        /\ codes = RowsOf(q)
        /\ Cardinality(codes) = Size[q]
        /\ \A c \in codes : mapping[c] = q

\* A row that carries an external_published_at, which takes it out of the
\* background publisher's sight for good, is known to the redirect service.
PublishedIsMapped == \A c \in published : mapping[c] = owner[c] /\ owner[c] # Nobody

\* An upload reported as completed has all of its links, each of them live,
\* whichever of the workers that held its lease reported it.
CompletedIsLive ==
    \A j \in Jobs : job[j].status = "completed" =>
        /\ Cardinality(RowsOf(j)) = Size[j]
        /\ \A c \in RowsOf(j) : mapping[c] = j

\* The allocator skips a code only because a row holds it: allocations that
\* failed, lost a race or crashed burn no codes of the fixed-width space.
NoCodeBurned == \A c \in Codes : c < nextValue => owner[c] # Nobody

\* A code is never given to a second owner, not even one a row of the time
\* before the allocator holds, and a live link never leads elsewhere.
CodesAreForever ==
    [][\A c \in Codes : /\ owner[c] # Nobody => owner'[c] = owner[c]
                        /\ mapping[c] # Nobody => mapping'[c] = mapping[c]]_linkVars

\* A worker whose lease another one took over does not touch an upload that
\* is finished.
FinishedStays ==
    [][\A j \in Jobs : job[j].status \in Terminal => job'[j] = job[j]]_linkVars

\* The goroutines keep running.  The job loop of a replica has a goroutine of
\* its own: the requests its slot serves here do not starve it.
LinkFairness ==
    /\ WF_linkVars(ListPending)
    /\ WF_linkVars(PublishPending \/ PublishPendingFails)
    /\ \A r \in Replicas : WF_linkVars(Proceed(r))
    /\ \A j \in Jobs : /\ WF_linkVars(LeaseExpires(j))
                       /\ SF_linkVars(\E r \in Replicas : ClaimJob(r, j))

FairLinkSpec == LinkSpec /\ LinkFairness

\* Once calls stop failing every stored link goes live, although the process
\* that stored it may have crashed before its upload or before its marker,
\* unless a link is stored that the redirect service refuses.  There are only
\* so many codes: at some time all of them are.
EveryLinkGoesLive ==
    LET live == \A c \in Codes : owner[c] # Nobody => c \in published
        refused == \E c \in Codes : owner[c] # Nobody /\ ~Accepted(LongLink(c))
    IN ~live ~> live \/ refused

\* Every upload ends, completed or failed, whatever its workers die of.
EveryUploadEnds ==
    \A j \in Jobs : job[j].status = "pending" ~> job[j].status \in Terminal

=============================================================================
