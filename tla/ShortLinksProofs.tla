-------------------------- MODULE ShortLinksProofs --------------------------
(* Theorems about ShortLinks, for every value of its constants. *)
EXTENDS ShortLinks, FiniteSetTheorems, TLAPS

\* A code leads nowhere or to the destination of the row that holds it.
LeadsToOwner == \A c \in Codes : mapping[c] \in {Nobody, owner[c]}

\* The rows of a key come all at once.
Sized == \A k \in Keys : RowsOf(k) # {} => Cardinality(RowsOf(k)) = Size[k]

HasRows(k) == RowsOf(k) # {}
Live(k) == \A c \in RowsOf(k) : mapping[c] = k

\* How far the caller of a key has come: what it will still rely on.
Progress(r) ==
    LET me == caller[r]
    IN  /\ me.step # "idle" => me.key \in Keys
        /\ me.key \in Jobs => me.token > 0
        /\ me.step \in {"claimed", "persisting", "completing"} => me.key \in Jobs
        /\ me.step \in {"persisting", "publishing", "marking", "completing"} =>
              HasRows(me.key)
        /\ me.step \in {"publishing", "marking"} => me.codes = RowsOf(me.key)
        /\ me.step \in {"marking", "completing"} => Live(me.key)

\* Only an upload in progress carries a lease; a completed one is live.
Leased(j) ==
    /\ job[j].token # 0 => job[j].status = "processing"
    /\ job[j].status = "completed" => HasRows(j) /\ Live(j)

Answered(q) ==
    \A codes \in answered[q] : codes = RowsOf(q) /\ HasRows(q) /\ Live(q)

\* Links, markers and the allocator agree.
StoreInv ==
    /\ LeadsToOwner
    /\ Sized
    /\ PublishedIsMapped
    /\ NoCodeBurned
    /\ \A c \in publisher : owner[c] # Nobody

LinkInv ==
    /\ StoreInv
    /\ \A r \in Replicas : Progress(r)
    /\ \A j \in Jobs : Leased(j)
    /\ \A q \in Requests : Answered(q)

Callers == [step : Steps, key : Keys \cup {Nobody}, codes : SUBSET Codes, token : Nat]
JobRows == [status : JobStatuses, attempts : Nat, token : Nat, lapsed : BOOLEAN]

-----------------------------------------------------------------------------
(* Types *)

LEMMA CodeFacts == Codes \subseteq Nat /\ IsFiniteSet(Codes) /\ Capacity \in Nat
  <1>1. Capacity \in Nat \ {0}
    BY ShortLinksAssumption
  <1>2. IsFiniteSet(0 .. Capacity - 1)
    BY <1>1, FS_Interval
  <1> QED
    BY <1>1, <1>2 DEF Codes

LEMMA KeyFacts ==
    /\ Nobody \notin Keys /\ Nobody # Historic /\ Historic \notin Keys
    /\ Requests \subseteq Keys /\ Jobs \subseteq Keys
    /\ \A k \in Keys : Size[k] \in Nat \ {0}
  BY ShortLinksAssumption DEF Keys

LEMMA CallerType ==
    ASSUME NEW step \in Steps, NEW k \in Keys \cup {Nobody}, NEW codes \in SUBSET Codes,
           NEW token \in Nat
    PROVE  Caller(step, k, codes, token) \in Callers
  BY DEF Caller, Callers

LEMMA IdleType == Idle \in Callers
  BY CallerType DEF Idle, Steps

LEMMA CallerFields ==
    ASSUME TypeOK, NEW r \in Replicas
    PROVE  /\ caller[r] \in Callers
           /\ caller[r].step \in Steps /\ caller[r].key \in Keys \cup {Nobody}
           /\ caller[r].codes \subseteq Codes /\ caller[r].token \in Nat
  <1>1. caller[r] \in Callers
    BY DEF TypeOK, Callers
  <1> QED
    BY <1>1 DEF Callers

LEMMA AtType ==
    ASSUME TypeOK, NEW r \in Replicas, NEW step \in Steps
    PROVE  /\ At(r, step) \in Callers
           /\ At(r, step).step = step
           /\ At(r, step).key = caller[r].key
           /\ At(r, step).codes = caller[r].codes
           /\ At(r, step).token = caller[r].token
  BY CallerFields DEF At, Callers

\* What a step of one replica does to the callers.
LEMMA GotoAfter ==
    ASSUME TypeOK, NEW r \in Replicas, NEW c \in Callers, Goto(r, c)
    PROVE  /\ caller' \in [Replicas -> Callers]
           /\ caller'[r] = c
           /\ \A p \in Replicas \ {r} : caller'[p] = caller[p]
  BY DEF Goto, TypeOK, Callers

LEMMA JobType ==
    ASSUME NEW status \in JobStatuses, NEW attempts \in Nat, NEW token \in Nat
    PROVE  Job(status, attempts, token) \in JobRows
  BY DEF Job, JobRows

LEMMA JobFields ==
    ASSUME TypeOK, NEW j \in Jobs
    PROVE  /\ job[j] \in JobRows
           /\ job[j].status \in JobStatuses /\ job[j].attempts \in Nat
           /\ job[j].token \in Nat /\ job[j].lapsed \in BOOLEAN
  <1>1. job[j] \in JobRows
    BY DEF TypeOK, JobRows
  <1> QED
    BY <1>1 DEF JobRows

\* A worker that gives up rests; it touches the row only while it holds it.
LEMMA GiveUpAfter ==
    ASSUME TypeOK, NEW r \in Replicas, NEW status \in JobStatuses, GiveUp(r, status)
    PROVE  /\ caller' \in [Replicas -> Callers]
           /\ caller'[r] = Idle
           /\ \A p \in Replicas \ {r} : caller'[p] = caller[p]
           /\ job' \in [Jobs -> JobRows]
           /\ \A j \in Jobs :
                 \/ job'[j] = job[j]
                 \/ /\ caller[r].key = j /\ job[j].token = caller[r].token
                    /\ job'[j].status = status /\ job'[j].token = 0
  <1>1. Goto(r, Idle) /\ UpdateClaimed(r, status)
    BY DEF GiveUp
  <1>2. /\ caller' \in [Replicas -> Callers]
        /\ caller'[r] = Idle
        /\ \A p \in Replicas \ {r} : caller'[p] = caller[p]
    BY <1>1, IdleType, GotoAfter
  <1>3. job \in [Jobs -> JobRows]
    BY DEF TypeOK, JobRows
  <1>4. CASE Holds(r)
    <2> DEFINE k == caller[r].key
               new == Job(status, job[k].attempts, 0)
    <2>1. k \in Jobs /\ job[k].token = caller[r].token
      BY <1>4 DEF Holds
    <2>2. new \in JobRows /\ new.status = status /\ new.token = 0
      BY <2>1, JobFields, JobType DEF Job
    <2>3. job' = [job EXCEPT ![k] = new]
      BY <1>1, <1>4 DEF UpdateClaimed
    <2> QED
      BY <1>2, <1>3, <2>1, <2>2, <2>3
  <1>5. CASE ~Holds(r)
    BY <1>1, <1>2, <1>3, <1>5 DEF UpdateClaimed
  <1> QED
    BY <1>4, <1>5

LEMMA FailedStatusType ==
    ASSUME NEW r
    PROVE  FailedStatus(r) \in JobStatuses /\ FailedStatus(r) # "completed"
  BY DEF FailedStatus, JobStatuses

LEMMA FaultType ==
    ASSUME TypeOK, Fault \/ UNCHANGED faults
    PROVE  faults' \in 0 .. MaxFaults
  BY ShortLinksAssumption DEF TypeOK, Fault

\* Rows exist for keys only, and all codes they hold are codes.
LEMMA RowFacts ==
    ASSUME TypeOK, NEW k
    PROVE  RowsOf(k) \in SUBSET Codes /\ IsFiniteSet(RowsOf(k))
  BY CodeFacts, FS_Subset DEF RowsOf

LEMMA UploadType ==
    ASSUME TypeOK, NEW codes \in SUBSET Codes, UploadLinks(codes)
    PROVE  mapping' \in [Codes -> Owners]
  BY DEF TypeOK, UploadLinks

\* An upload that ends early leaves links and markers of codes only.
LEMMA InterruptedType ==
    ASSUME TypeOK, NEW r \in Replicas, Interrupted(r)
    PROVE  mapping' \in [Codes -> Owners] /\ published' \in SUBSET Codes
  <1>1. PICK done \in SUBSET caller[r].codes : \E marked \in SUBSET done :
                UploadLinks(done) /\ published' = published \cup marked
    BY DEF Interrupted
  <1>2. done \in SUBSET Codes /\ published \in SUBSET Codes
    BY CallerFields DEF TypeOK
  <1> QED
    BY <1>1, <1>2, UploadType

LEMMA AllocateType ==
    ASSUME TypeOK, NEW k \in Keys \cup {Nobody}, NEW codes \in SUBSET FreeCodes,
           Allocate(k, codes)
    PROVE  nextValue' \in 0 .. Capacity /\ owner' \in [Codes -> Owners]
  <1>1. PICK last \in codes : nextValue' = last + 1
    BY DEF Allocate
  <1>2. last \in 0 .. Capacity - 1
    BY <1>1 DEF FreeCodes, Codes
  <1>3. nextValue' \in 0 .. Capacity
    BY <1>1, <1>2, CodeFacts
  <1>4. owner' \in [Codes -> Owners]
    BY DEF Allocate, TypeOK, Owners
  <1> QED
    BY <1>3, <1>4

LEMMA TypeInit == LinkInit => TypeOK
  <1> SUFFICES ASSUME LinkInit PROVE TypeOK
    OBVIOUS
  <1>1. Idle \in Callers /\ Job("new", 0, 0) \in JobRows
    BY IdleType, JobType DEF JobStatuses
  <1>2. 0 \in 0 .. Capacity /\ 0 \in 0 .. MaxFaults
    BY ShortLinksAssumption
  <1> QED
    BY <1>1, <1>2 DEF LinkInit, TypeOK, Callers, JobRows, Owners

\* A step of a replica that touches callers and jobs only.
LEMMA TypeOfControl ==
    ASSUME TypeOK, caller' \in [Replicas -> Callers], job' \in [Jobs -> JobRows],
           Fault \/ UNCHANGED faults,
           UNCHANGED <<nextValue, owner, published, mapping, answered, publisher>>
    PROVE  TypeOK'
  BY FaultType DEF TypeOK, Callers, JobRows, Owners

LEMMA TypeStep == TypeOK /\ [LinkNext]_linkVars => TypeOK'
  <1> SUFFICES ASSUME TypeOK, [LinkNext]_linkVars PROVE TypeOK'
    OBVIOUS
  <1>0. job \in [Jobs -> JobRows] /\ caller \in [Replicas -> Callers]
    BY DEF TypeOK, JobRows, Callers
  <1>1. ASSUME NEW r \in Replicas, NEW q \in Requests, ServeRequest(r, q) PROVE TypeOK'
    <2>1. /\ Caller("reserving", q, {}, 0) \in Callers
          /\ Caller("publishing", q, RowsOf(q), 0) \in Callers
      BY CallerType, KeyFacts, RowFacts DEF Steps
    <2>2. caller' \in [Replicas -> Callers]
      BY <1>1, <2>1, GotoAfter DEF ServeRequest
    <2> QED
      BY <1>0, <1>1, <2>2, TypeOfControl DEF ServeRequest
  <1>2. ASSUME NEW j \in Jobs, CreateJob(j) PROVE TypeOK'
    <2>1. Job("pending", 0, 0) \in JobRows
      BY JobType DEF JobStatuses
    <2>2. job' \in [Jobs -> JobRows]
      BY <1>0, <1>2, <2>1 DEF CreateJob
    <2> QED
      BY <1>0, <1>2, <2>2, TypeOfControl DEF CreateJob
  <1>3. ASSUME NEW r \in Replicas, NEW j \in Jobs, ClaimJob(r, j) PROVE TypeOK'
    <2> DEFINE n == job[j].attempts + 1
    <2>1. n \in Nat
      BY JobFields
    <2>2. Job("processing", n, n) \in JobRows /\ Caller("claimed", j, {}, n) \in Callers
      BY <2>1, JobType, CallerType, KeyFacts DEF JobStatuses, Steps
    <2>3. job' \in [Jobs -> JobRows]
      BY <1>0, <1>3, <2>2 DEF ClaimJob
    <2>4. caller' \in [Replicas -> Callers]
      BY <1>3, <2>2, GotoAfter DEF ClaimJob
    <2> QED
      BY <1>3, <2>3, <2>4, TypeOfControl DEF ClaimJob
  <1>4. ASSUME NEW j \in Jobs, LeaseExpires(j) PROVE TypeOK'
    <2>1. [job[j] EXCEPT !.lapsed = TRUE] \in JobRows
      BY JobFields DEF JobRows
    <2>2. job' \in [Jobs -> JobRows]
      BY <1>0, <1>4, <2>1 DEF LeaseExpires
    <2> QED
      BY <1>0, <1>4, <2>2, TypeOfControl DEF LeaseExpires
  <1>5. ASSUME NEW r \in Replicas, InspectJob(r) PROVE TypeOK'
    <2>1. CASE GiveUp(r, "failed")
      BY <1>5, <2>1, GiveUpAfter, TypeOfControl DEF InspectJob, JobStatuses
    <2>2. CASE ~GiveUp(r, "failed")
      <3>1. At(r, "reserving") \in Callers /\ At(r, "persisting") \in Callers
        BY AtType DEF Steps
      <3>2. caller' \in [Replicas -> Callers] /\ UNCHANGED job
        BY <1>5, <2>2, <3>1, GotoAfter DEF InspectJob
      <3> QED
        BY <1>0, <1>5, <3>2, TypeOfControl DEF InspectJob
    <2> QED
      BY <2>1, <2>2
  <1>6. ASSUME NEW r \in Replicas, Reserve(r) PROVE TypeOK'
    <2> DEFINE k == caller[r].key
    <2>1. PICK codes \in SUBSET FreeCodes :
             /\ Allocate(k, codes)
             /\ Goto(r, Caller("publishing", k, codes, caller[r].token))
      BY <1>6 DEF Reserve
    <2>2. codes \in SUBSET Codes
      BY DEF FreeCodes
    <2>3. Caller("publishing", k, codes, caller[r].token) \in Callers
      BY <2>2, CallerFields, CallerType DEF Steps
    <2>4. caller' \in [Replicas -> Callers]
      BY <2>1, <2>3, GotoAfter
    <2>5. k \in Keys \cup {Nobody}
      BY CallerFields
    <2>6. nextValue' \in 0 .. Capacity /\ owner' \in [Codes -> Owners]
      BY <2>1, <2>5, AllocateType
    <2> QED
      BY <1>6, <2>4, <2>6 DEF Reserve, TypeOK, Callers, Owners
  <1>7. ASSUME NEW r \in Replicas, ReserveFails(r) PROVE TypeOK'
    <2> DEFINE k == caller[r].key
    <2>1. CASE RowsOf(k) = {}
      <3>1. PICK s \in JobStatuses : GiveUp(r, s)
        BY <1>7, <2>1, FailedStatusType DEF ReserveFails, JobStatuses
      <3> QED
        BY <1>7, <3>1, GiveUpAfter, TypeOfControl DEF ReserveFails
    <2>2. CASE RowsOf(k) # {}
      <3>1. At(r, "persisting") \in Callers /\ Caller("publishing", k, RowsOf(k), 0) \in Callers
        BY AtType, CallerType, CallerFields, RowFacts DEF Steps
      <3>2. caller' \in [Replicas -> Callers] /\ UNCHANGED job
        BY <1>7, <2>2, <3>1, GotoAfter DEF ReserveFails
      <3> QED
        BY <1>0, <1>7, <3>2, TypeOfControl DEF ReserveFails
    <2> QED
      BY <2>1, <2>2
  <1>8. ASSUME NEW r \in Replicas, PersistProgress(r) PROVE TypeOK'
    <2> DEFINE k == caller[r].key
    <2>1. CASE Holds(r)
      <3>1. Caller("publishing", k, RowsOf(k), caller[r].token) \in Callers
        BY CallerType, CallerFields, RowFacts DEF Steps
      <3>2. caller' \in [Replicas -> Callers] /\ UNCHANGED job
        BY <1>8, <2>1, <3>1, GotoAfter DEF PersistProgress
      <3> QED
        BY <1>0, <1>8, <3>2, TypeOfControl DEF PersistProgress
    <2>2. CASE ~Holds(r)
      BY <1>8, <2>2, FailedStatusType, GiveUpAfter, TypeOfControl DEF PersistProgress
    <2> QED
      BY <2>1, <2>2
  <1>9. ASSUME NEW r \in Replicas, Publish(r) PROVE TypeOK'
    <2>1. mapping' \in [Codes -> Owners]
      BY <1>9, CallerFields, UploadType DEF Publish
    <2>2. caller' \in [Replicas -> Callers]
      BY <1>9, AtType, GotoAfter DEF Publish, Steps
    <2> QED
      BY <1>9, <2>1, <2>2 DEF Publish, TypeOK, Callers, Owners
  <1>10. ASSUME NEW r \in Replicas, PublishFails(r) PROVE TypeOK'
    <2>2. mapping' \in [Codes -> Owners] /\ published' \in SUBSET Codes
      BY <1>10, InterruptedType DEF PublishFails
    <2>3. caller' \in [Replicas -> Callers] /\ job' \in [Jobs -> JobRows]
      BY <1>10, FailedStatusType, GiveUpAfter DEF PublishFails
    <2>4. faults' \in 0 .. MaxFaults
      BY <1>10, FaultType DEF PublishFails
    <2> QED
      BY <1>10, <2>2, <2>3, <2>4 DEF PublishFails, TypeOK, Callers, JobRows, Owners
  <1>11. ASSUME NEW r \in Replicas, MarkPublished(r) PROVE TypeOK'
    <2>1. published' \in SUBSET Codes /\ faults' \in 0 .. MaxFaults
      BY <1>11, CallerFields, FaultType DEF MarkPublished, TypeOK
    <2>2. caller' \in [Replicas -> Callers]
      BY <1>11, AtType, IdleType, GotoAfter DEF MarkPublished, Steps
    <2>3. answered' \in [Requests -> SUBSET SUBSET Codes]
      <3> DEFINE k == caller[r].key
      <3>1. caller[r].codes \in SUBSET Codes /\ answered \in [Requests -> SUBSET SUBSET Codes]
        BY CallerFields DEF TypeOK
      <3>2. CASE k \in Requests
        <4>1. answered' = [answered EXCEPT ![k] = answered[k] \cup {caller[r].codes}]
          BY <1>11, <3>2 DEF MarkPublished
        <4> QED
          BY <3>1, <3>2, <4>1
      <3>3. CASE k \notin Requests
        BY <1>11, <3>1, <3>3 DEF MarkPublished
      <3> QED
        BY <3>2, <3>3
    <2> QED
      BY <1>11, <2>1, <2>2, <2>3 DEF MarkPublished, TypeOK, Callers, Owners
  <1>12. ASSUME NEW r \in Replicas, CompleteJob(r) PROVE TypeOK'
    BY <1>12, GiveUpAfter, TypeOfControl DEF CompleteJob, JobStatuses
  <1>13. ASSUME NEW r \in Replicas, JobCallFails(r) PROVE TypeOK'
    BY <1>13, FailedStatusType, GiveUpAfter, TypeOfControl DEF JobCallFails
  <1>14. ASSUME NEW r \in Replicas, Crash(r) PROVE TypeOK'
    <2>1. caller' \in [Replicas -> Callers]
      BY <1>14, IdleType, GotoAfter DEF Crash
    <2>2. mapping' \in [Codes -> Owners] /\ published' \in SUBSET Codes
      <3>1. mapping \in [Codes -> Owners] /\ published \in SUBSET Codes
        BY DEF TypeOK
      <3> QED
        BY <1>14, <3>1, CallerFields, InterruptedType DEF Crash
    <2>3. faults' \in 0 .. MaxFaults
      BY <1>14, FaultType DEF Crash
    <2> QED
      BY <1>14, <2>1, <2>2, <2>3 DEF Crash, TypeOK, Callers, Owners
  <1>15. ASSUME ListPending PROVE TypeOK'
    <2>1. publisher' \subseteq Codes
      BY <1>15 DEF ListPending, kSubset, Pending
    <2> QED
      BY <1>15, <2>1 DEF ListPending, TypeOK, Owners
  <1>16. ASSUME PublishPending PROVE TypeOK'
    <2>1. mapping' \in [Codes -> Owners] /\ published' \in SUBSET Codes
      BY <1>16, UploadType DEF PublishPending, TypeOK
    <2> QED
      BY <1>16, <2>1 DEF PublishPending, TypeOK, Owners
  <1>17. ASSUME PublishPendingFails PROVE TypeOK'
    <2>1. PICK done \in SUBSET publisher : UploadLinks(done)
      BY <1>17 DEF PublishPendingFails
    <2>2. mapping' \in [Codes -> Owners]
      BY <2>1, UploadType DEF TypeOK
    <2>3. faults' \in 0 .. MaxFaults
      BY <1>17, FaultType DEF PublishPendingFails
    <2> QED
      BY <1>17, <2>2, <2>3 DEF PublishPendingFails, TypeOK, Owners
  <1>18. CASE UNCHANGED linkVars
    BY <1>18 DEF linkVars, TypeOK, Owners
  <1> QED
    BY <1>1, <1>2, <1>3, <1>4, <1>5, <1>6, <1>7, <1>8, <1>9, <1>10, <1>11, <1>12,
       <1>13, <1>14, <1>15, <1>16, <1>17, <1>18 DEF LinkNext, Proceed

-----------------------------------------------------------------------------
(* What no step takes back: the rows of a key and the links of a code *)

Grows ==
    /\ \A c \in Codes : owner[c] # Nobody => owner'[c] = owner[c]
    /\ \A c \in Codes : mapping[c] # Nobody => mapping'[c] = mapping[c]
    /\ \A k \in Keys : HasRows(k) => RowsOf(k)' = RowsOf(k)

LEMMA SameStore ==
    ASSUME UNCHANGED <<owner, mapping>>
    PROVE  Grows
  BY DEF Grows, RowsOf

\* Codes that are uploaded get their owner's destination.
LEMMA UploadGrows ==
    ASSUME TypeOK, LeadsToOwner, NEW codes \in SUBSET Codes, UploadLinks(codes),
           UNCHANGED owner
    PROVE  /\ Grows
           /\ LeadsToOwner'
           /\ \A c \in codes : mapping'[c] = owner[c]
           /\ \A c \in Codes : mapping[c] = owner[c] => mapping'[c] = owner[c]
  BY DEF Grows, UploadLinks, LeadsToOwner, RowsOf

\* An allocation gives a key the free codes it reserved, and takes none away.
LEMMA AllocateGrows ==
    ASSUME TypeOK, LinkInv, NEW k \in Keys, NEW codes \in SUBSET FreeCodes,
           Allocate(k, codes), UNCHANGED mapping
    PROVE  /\ Grows
           /\ RowsOf(k)' = codes
           /\ Cardinality(codes) = Size[k]
           /\ codes # {}
           /\ LeadsToOwner'
           /\ Sized'
           /\ NoCodeBurned'
  <1>1. /\ RowsOf(k) = {}
        /\ codes \in SUBSET Codes
        /\ \A c \in codes : c >= nextValue /\ owner[c] = Nobody
        /\ Cardinality(codes) = Size[k]
        /\ \A c \in codes, d \in FreeCodes \ codes : c < d
        /\ owner' = [c \in Codes |-> IF c \in codes THEN k ELSE owner[c]]
    BY DEF Allocate, Reservation, FreeCodes
  <1>2. PICK last \in codes : /\ \A c \in codes : c <= last
                              /\ nextValue' = last + 1
    BY DEF Allocate
  <1>3. \A c \in Codes : owner'[c] = IF c \in codes THEN k ELSE owner[c]
    BY <1>1
  <1>4. \A c \in Codes : owner[c] # Nobody => owner'[c] = owner[c]
    BY <1>1, <1>3
  <1>5. RowsOf(k)' = codes
    BY <1>1, <1>3 DEF RowsOf
  <1>6. \A h \in Keys \ {k} : RowsOf(h)' = RowsOf(h)
    BY <1>1, <1>3, KeyFacts DEF RowsOf
  <1>7. Grows
    BY <1>1, <1>4, <1>6 DEF Grows, HasRows
  <1>8. LeadsToOwner'
    BY <1>1, <1>3 DEF LinkInv, StoreInv, LeadsToOwner
  <1>9. Sized'
    BY <1>1, <1>5, <1>6 DEF LinkInv, StoreInv, Sized
  <1>10. NoCodeBurned'
    <2> SUFFICES ASSUME NEW c \in Codes, c < nextValue'
                 PROVE  owner'[c] # Nobody
      BY DEF NoCodeBurned
    <2>1. c \in Nat /\ last \in Nat /\ nextValue \in Nat /\ last \in Codes
      BY <1>1, CodeFacts DEF TypeOK
    <2>2. CASE c \in codes
      BY <1>3, <2>2, KeyFacts
    <2>3. CASE c \notin codes /\ c < nextValue
      BY <1>3, <2>3 DEF LinkInv, StoreInv, NoCodeBurned
    <2>4. CASE c \notin codes /\ c >= nextValue
      <3>1. owner[c] # Nobody
        <4>1. SUFFICES ASSUME c \in FreeCodes PROVE FALSE
          BY <2>4 DEF FreeCodes
        <4>2. last < c
          BY <1>1, <2>4, <4>1
        <4> QED
          BY <1>2, <2>1, <4>2
      <3> QED
        BY <1>3, <2>4, <3>1
    <2> QED
      BY <2>1, <2>2, <2>3, <2>4
  <1> QED
    BY <1>1, <1>2, <1>5, <1>7, <1>8, <1>9, <1>10

-----------------------------------------------------------------------------
(* Frames: who is not touched stays right while the store grows *)

\* A live key stays live: none of its codes is free, none leads nowhere.
LEMMA LiveGrows ==
    ASSUME TypeOK, Grows, NEW k \in Keys, HasRows(k), Live(k)
    PROVE  HasRows(k)' /\ Live(k)'
  BY KeyFacts DEF Grows, HasRows, Live, RowsOf

\* What to show of a caller after a step, in terms of its key.
LEMMA ProgressOf ==
    ASSUME NEW r \in Replicas, NEW k \in Keys, caller'[r].key = k,
           k \in Jobs => caller'[r].token > 0,
           caller'[r].step \in {"claimed", "persisting", "completing"} => k \in Jobs,
           caller'[r].step \in {"persisting", "publishing", "marking", "completing"} =>
              HasRows(k)',
           caller'[r].step \in {"publishing", "marking"} => caller'[r].codes = RowsOf(k)',
           caller'[r].step \in {"marking", "completing"} => Live(k)'
    PROVE  Progress(r)'
  BY DEF Progress, HasRows, Live, RowsOf

LEMMA ProgressIdle ==
    ASSUME NEW r \in Replicas, caller'[r] = Idle
    PROVE  Progress(r)'
  BY KeyFacts DEF Progress, Idle, Caller

LEMMA ProgressFrame ==
    ASSUME TypeOK, Grows, NEW r \in Replicas, Progress(r), caller'[r] = caller[r]
    PROVE  Progress(r)'
  <1>1. CASE caller[r].step = "idle"
    <2>1. caller'[r].step = "idle" /\ (caller'[r].key \in Jobs => caller'[r].token > 0)
      BY <1>1 DEF Progress
    <2> QED
      BY <2>1 DEF Progress
  <1>2. CASE caller[r].step # "idle"
    <2>1. PICK k \in Keys : k = caller[r].key
      BY <1>2 DEF Progress
    <2>2. HasRows(k) => HasRows(k)' /\ RowsOf(k)' = RowsOf(k)
      BY DEF Grows, HasRows
    <2>3. HasRows(k) /\ Live(k) => Live(k)'
      BY LiveGrows
    <2> QED
      BY <2>1, <2>2, <2>3, ProgressOf DEF Progress
  <1> QED
    BY <1>1, <1>2

LEMMA LeasedFrame ==
    ASSUME TypeOK, Grows, NEW j \in Jobs, Leased(j), job'[j] = job[j]
    PROVE  Leased(j)'
  BY LiveGrows, KeyFacts DEF Leased

LEMMA AnsweredFrame ==
    ASSUME TypeOK, Grows, NEW q \in Requests, Answered(q), answered'[q] = answered[q]
    PROVE  Answered(q)'
  <1> SUFFICES ASSUME NEW codes \in answered[q]
               PROVE  codes = RowsOf(q)' /\ HasRows(q)' /\ Live(q)'
    BY DEF Answered
  <1>1. codes = RowsOf(q) /\ HasRows(q) /\ Live(q) /\ q \in Keys
    BY KeyFacts DEF Answered
  <1> QED
    BY <1>1, LiveGrows DEF Grows

LEMMA StoreFrame ==
    ASSUME StoreInv, UNCHANGED <<nextValue, owner, published, mapping, publisher>>
    PROVE  StoreInv'
  BY DEF StoreInv, LeadsToOwner, Sized, RowsOf, PublishedIsMapped, NoCodeBurned

\* A step of one replica that writes neither rows nor links nor jobs.
LEMMA ControlInv ==
    ASSUME TypeOK, LinkInv, NEW r \in Replicas, NEW c \in Callers, Goto(r, c),
           Progress(r)',
           UNCHANGED <<nextValue, owner, published, mapping, job, answered, publisher>>
    PROVE  LinkInv'
  <1>1. Grows
    BY SameStore
  <1>2. \A p \in Replicas : Progress(p)'
    BY <1>1, GotoAfter, ProgressFrame DEF LinkInv
  <1>3. \A j \in Jobs : Leased(j)'
    BY <1>1, LeasedFrame DEF LinkInv
  <1>4. \A q \in Requests : Answered(q)'
    BY <1>1, AnsweredFrame DEF LinkInv
  <1> QED
    BY <1>2, <1>3, <1>4, StoreFrame DEF LinkInv

\* A replica that gives up, having uploaded links or not.
LEMMA GiveUpInv ==
    ASSUME TypeOK, LinkInv, NEW r \in Replicas, NEW status \in JobStatuses,
           GiveUp(r, status), Grows, StoreInv', UNCHANGED answered,
           status = "completed" => caller[r].step = "completing"
    PROVE  LinkInv'
  <1>1. \A p \in Replicas : Progress(p)'
    <2> TAKE p \in Replicas
    <2>1. CASE p = r
      BY <2>1, GiveUpAfter, ProgressIdle
    <2>2. CASE p # r
      BY <2>2, GiveUpAfter, ProgressFrame DEF LinkInv
    <2> QED
      BY <2>1, <2>2
  <1>2. \A j \in Jobs : Leased(j)'
    <2> TAKE j \in Jobs
    <2>1. CASE job'[j] = job[j]
      BY <2>1, LeasedFrame DEF LinkInv
    <2>2. CASE /\ caller[r].key = j /\ job[j].token = caller[r].token
               /\ job'[j].status = status /\ job'[j].token = 0
      <3>1. status = "completed" => HasRows(j) /\ Live(j)
        BY <2>2 DEF LinkInv, Progress
      <3>2. status = "completed" => HasRows(j)' /\ Live(j)'
        BY <3>1, LiveGrows, KeyFacts
      <3> QED
        BY <2>2, <3>2 DEF Leased
    <2> QED
      BY <2>1, <2>2, GiveUpAfter
  <1>3. \A q \in Requests : Answered(q)'
    BY AnsweredFrame DEF LinkInv
  <1> QED
    BY <1>1, <1>2, <1>3 DEF LinkInv

\* The background publisher touches no caller, job or answer.
LEMMA PublisherInv ==
    ASSUME TypeOK, LinkInv, Grows, StoreInv', UNCHANGED <<caller, job, answered>>
    PROVE  LinkInv'
  <1>1. \A p \in Replicas : Progress(p)'
    BY ProgressFrame DEF LinkInv
  <1>2. \A j \in Jobs : Leased(j)'
    BY LeasedFrame DEF LinkInv
  <1>3. \A q \in Requests : Answered(q)'
    BY AnsweredFrame DEF LinkInv
  <1> QED
    BY <1>1, <1>2, <1>3 DEF LinkInv

\* A step that changes one row of the jobs, and no row or link of a key.
LEMMA JobInv ==
    ASSUME TypeOK, LinkInv, NEW j \in Jobs, NEW row \in JobRows,
           job' = [job EXCEPT ![j] = row],
           row.token # 0 => row.status = "processing", row.status # "completed",
           \A p \in Replicas : Progress(p)',
           UNCHANGED <<nextValue, owner, published, mapping, answered, publisher>>
    PROVE  LinkInv'
  <1>1. Grows
    BY SameStore
  <1>2. job'[j] = row /\ \A i \in Jobs \ {j} : job'[i] = job[i]
    BY DEF TypeOK
  <1>3. \A i \in Jobs : Leased(i)'
    <2> TAKE i \in Jobs
    <2>1. CASE i = j
      BY <1>2, <2>1 DEF Leased
    <2>2. CASE i # j
      BY <1>1, <1>2, <2>2, LeasedFrame DEF LinkInv
    <2> QED
      BY <2>1, <2>2
  <1>4. \A q \in Requests : Answered(q)'
    BY <1>1, AnsweredFrame DEF LinkInv
  <1> QED
    BY <1>3, <1>4, StoreFrame DEF LinkInv

-----------------------------------------------------------------------------
(* The invariant, one action at a time *)

LEMMA ServeRequestInv ==
    ASSUME TypeOK, LinkInv, NEW r \in Replicas, NEW q \in Requests, ServeRequest(r, q)
    PROVE  LinkInv'
  <1> DEFINE c == IF RowsOf(q) = {} THEN Caller("reserving", q, {}, 0)
                  ELSE Caller("publishing", q, RowsOf(q), 0)
  <1>1. q \in Keys /\ q \notin Jobs
    BY KeyFacts, ShortLinksAssumption
  <1>2. c \in Callers
    BY <1>1, CallerType, RowFacts DEF Steps
  <1>3. caller'[r] = c
    BY <1>2, GotoAfter DEF ServeRequest
  <1>4. RowsOf(q)' = RowsOf(q)
    BY DEF ServeRequest, RowsOf
  <1>5. Progress(r)'
    BY <1>1, <1>3, <1>4 DEF Progress, HasRows, Caller
  <1> QED
    BY <1>2, <1>5, ControlInv DEF ServeRequest

LEMMA CreateJobInv ==
    ASSUME TypeOK, LinkInv, NEW j \in Jobs, CreateJob(j)
    PROVE  LinkInv'
  <1>1. Job("pending", 0, 0) \in JobRows
    BY JobType DEF JobStatuses
  <1>2. Grows
    BY SameStore DEF CreateJob
  <1>3. \A p \in Replicas : Progress(p)'
    BY <1>2, ProgressFrame DEF LinkInv, CreateJob
  <1> QED
    BY <1>1, <1>3, JobInv DEF CreateJob, Job

LEMMA ClaimJobInv ==
    ASSUME TypeOK, LinkInv, NEW r \in Replicas, NEW j \in Jobs, ClaimJob(r, j)
    PROVE  LinkInv'
  <1> DEFINE n == job[j].attempts + 1
             row == Job("processing", n, n)
             c == Caller("claimed", j, {}, n)
  <1>1. n \in Nat /\ n > 0
    BY JobFields
  <1>2. row \in JobRows /\ c \in Callers
    BY <1>1, JobType, CallerType, KeyFacts DEF JobStatuses, Steps
  <1>3. Grows
    BY SameStore DEF ClaimJob
  <1>4. Goto(r, c) /\ job' = [job EXCEPT ![j] = row]
    BY DEF ClaimJob
  <1>5. caller'[r] = c /\ \A p \in Replicas \ {r} : caller'[p] = caller[p]
    BY <1>2, <1>4, GotoAfter
  <1>6. Progress(r)'
    BY <1>1, <1>5, KeyFacts DEF Progress, Caller
  <1>7. \A p \in Replicas : Progress(p)'
    BY <1>3, <1>5, <1>6, ProgressFrame DEF LinkInv
  <1>8. row.status = "processing"
    BY DEF Job
  <1> HIDE DEF row, c, n
  <1>9. row.status # "completed"
    BY <1>8
  <1> QED
    BY <1>2, <1>4, <1>7, <1>8, <1>9, JobInv DEF ClaimJob

LEMMA LeaseExpiresInv ==
    ASSUME TypeOK, LinkInv, NEW j \in Jobs, LeaseExpires(j)
    PROVE  LinkInv'
  <1> DEFINE row == [job[j] EXCEPT !.lapsed = TRUE]
  <1>1. row \in JobRows /\ row.status = job[j].status /\ row.token = job[j].token
    BY JobFields DEF JobRows
  <1>2. Grows
    BY SameStore DEF LeaseExpires
  <1>3. \A p \in Replicas : Progress(p)'
    BY <1>2, ProgressFrame DEF LinkInv, LeaseExpires
  <1>4. job' = [job EXCEPT ![j] = row] /\ job[j].status = "processing"
    BY DEF LeaseExpires
  <1> HIDE DEF row
  <1> QED
    BY <1>1, <1>3, <1>4, JobInv DEF LeaseExpires

LEMMA InspectJobInv ==
    ASSUME TypeOK, LinkInv, NEW r \in Replicas, InspectJob(r)
    PROVE  LinkInv'
  <1>1. Progress(r) /\ caller[r].key \in Jobs /\ caller[r].key \in Keys
    BY KeyFacts DEF InspectJob, LinkInv, Progress
  <1>2. CASE caller[r].key \in BadJobs
    <2>1. GiveUp(r, "failed") /\ Grows /\ StoreInv'
      BY <1>2, SameStore, StoreFrame DEF InspectJob, LinkInv
    <2> QED
      BY <2>1, GiveUpInv DEF InspectJob, JobStatuses
  <1>3. CASE caller[r].key \notin BadJobs
    <2> DEFINE step == IF RowsOf(caller[r].key) = {} THEN "reserving" ELSE "persisting"
    <2>1. step \in Steps
      BY DEF Steps
    <2>2. Goto(r, At(r, step)) /\ UNCHANGED job
      BY <1>3 DEF InspectJob
    <2>3. At(r, step) \in Callers /\ caller'[r] = At(r, step)
      BY <2>1, <2>2, AtType, GotoAfter
    <2>4. caller'[r].step = step /\ caller'[r].key = caller[r].key
          /\ caller'[r].token = caller[r].token
      BY <2>1, <2>3, AtType
    <2>5. PICK k \in Keys : k = caller[r].key
      BY <1>1
    <2>6. RowsOf(k)' = RowsOf(k)
      BY DEF InspectJob, RowsOf
    <2>7. step = "persisting" => HasRows(k)'
      BY <2>5, <2>6 DEF HasRows
    <2>8. step \in {"reserving", "persisting"}
      OBVIOUS
    <2> HIDE DEF step
    <2>9. Progress(r)'
      BY <1>1, <2>4, <2>5, <2>7, <2>8, ProgressOf DEF Progress
    <2> USE DEF step
    <2> QED
      BY <2>2, <2>3, <2>9, ControlInv DEF InspectJob
  <1> QED
    BY <1>2, <1>3

LEMMA ReserveInv ==
    ASSUME TypeOK, LinkInv, NEW r \in Replicas, Reserve(r)
    PROVE  LinkInv'
  <1>0. PICK k : k = caller[r].key
    OBVIOUS
  <1>1. PICK codes \in SUBSET FreeCodes :
           Allocate(k, codes) /\ Goto(r, Caller("publishing", k, codes, caller[r].token))
    BY <1>0 DEF Reserve
  <1> DEFINE c == Caller("publishing", k, codes, caller[r].token)
  <1>2. k \in Keys /\ (k \in Jobs => caller[r].token > 0)
    BY <1>0 DEF Reserve, LinkInv, Progress
  <1>3. c \in Callers
    BY <1>2, CallerFields, CallerType DEF Steps, FreeCodes
  <1>4. caller'[r] = c /\ \A p \in Replicas \ {r} : caller'[p] = caller[p]
    BY <1>1, <1>3, GotoAfter
  <1>5. /\ Grows /\ RowsOf(k)' = codes /\ codes # {}
        /\ LeadsToOwner' /\ Sized' /\ NoCodeBurned'
    BY <1>1, <1>2, AllocateGrows DEF Reserve
  <1>6. caller'[r].step = "publishing" /\ caller'[r].key = k
        /\ caller'[r].codes = codes /\ caller'[r].token = caller[r].token
    BY <1>4 DEF Caller
  <1>7. Progress(r)'
    BY <1>2, <1>5, <1>6, ProgressOf DEF HasRows
  <1>8. \A p \in Replicas : Progress(p)'
    BY <1>4, <1>5, <1>7, ProgressFrame DEF LinkInv
  <1>9. PublishedIsMapped' /\ \A d \in publisher' : owner'[d] # Nobody
    BY <1>5 DEF Reserve, Grows, LinkInv, StoreInv, PublishedIsMapped, TypeOK
  <1>10. \A j \in Jobs : Leased(j)'
    BY <1>5, LeasedFrame DEF Reserve, LinkInv
  <1>11. \A q \in Requests : Answered(q)'
    BY <1>5, AnsweredFrame DEF Reserve, LinkInv
  <1> QED
    BY <1>5, <1>8, <1>9, <1>10, <1>11 DEF LinkInv, StoreInv

LEMMA ReserveFailsInv ==
    ASSUME TypeOK, LinkInv, NEW r \in Replicas, ReserveFails(r)
    PROVE  LinkInv'
  <1>0. PICK k : k = caller[r].key
    OBVIOUS
  <1>1. k \in Keys /\ (k \in Jobs => caller[r].token > 0)
    BY <1>0 DEF ReserveFails, LinkInv, Progress
  <1>2. CASE RowsOf(k) = {}
    <2>1. PICK s \in JobStatuses : GiveUp(r, s) /\ s # "completed"
      BY <1>0, <1>2, FailedStatusType DEF ReserveFails, JobStatuses
    <2>2. Grows /\ StoreInv'
      BY SameStore, StoreFrame DEF ReserveFails, LinkInv
    <2> QED
      BY <2>1, <2>2, GiveUpInv DEF ReserveFails
  <1>3. CASE RowsOf(k) # {}
    <2> DEFINE c == IF k \in Jobs THEN At(r, "persisting")
                    ELSE Caller("publishing", k, RowsOf(k), 0)
    <2>1. Goto(r, c) /\ UNCHANGED job
      BY <1>0, <1>3 DEF ReserveFails
    <2>2. c \in Callers
      BY <1>1, AtType, CallerType, RowFacts DEF Steps
    <2>3. caller'[r] = c
      BY <2>1, <2>2, GotoAfter
    <2>4. RowsOf(k)' = RowsOf(k)
      BY DEF ReserveFails, RowsOf
    <2>5. Progress(r)'
      <3>1. CASE k \in Jobs
        <4>1. caller'[r].step = "persisting" /\ caller'[r].key = k
              /\ caller'[r].token = caller[r].token
          BY <1>0, <2>3, <3>1, AtType DEF Steps
        <4> QED
          BY <1>1, <1>3, <2>4, <3>1, <4>1, ProgressOf DEF HasRows
      <3>2. CASE k \notin Jobs
        <4>1. caller'[r].step = "publishing" /\ caller'[r].key = k
              /\ caller'[r].codes = RowsOf(k)
          BY <2>3, <3>2 DEF Caller
        <4> QED
          BY <1>1, <1>3, <2>4, <3>2, <4>1, ProgressOf DEF HasRows
      <3> QED
        BY <3>1, <3>2
    <2> QED
      BY <2>1, <2>2, <2>5, ControlInv DEF ReserveFails
  <1> QED
    BY <1>2, <1>3

LEMMA PersistProgressInv ==
    ASSUME TypeOK, LinkInv, NEW r \in Replicas, PersistProgress(r)
    PROVE  LinkInv'
  <1>0. PICK k : k = caller[r].key
    OBVIOUS
  <1> DEFINE c == Caller("publishing", k, RowsOf(k), caller[r].token)
  <1>1. k \in Jobs /\ k \in Keys /\ caller[r].token > 0 /\ HasRows(k)
    BY <1>0, KeyFacts DEF PersistProgress, LinkInv, Progress
  <1>2. CASE Holds(r)
    <2>1. c \in Callers
      BY <1>1, CallerType, CallerFields, RowFacts DEF Steps
    <2>2. Goto(r, c) /\ UNCHANGED job
      BY <1>0, <1>2 DEF PersistProgress
    <2>3. caller'[r] = c
      BY <2>1, <2>2, GotoAfter
    <2>4. caller'[r].step = "publishing" /\ caller'[r].key = k
          /\ caller'[r].codes = RowsOf(k) /\ caller'[r].token = caller[r].token
      BY <2>3 DEF Caller
    <2>5. RowsOf(k)' = RowsOf(k)
      BY DEF PersistProgress, RowsOf
    <2>6. Progress(r)'
      BY <1>1, <2>4, <2>5, ProgressOf DEF HasRows
    <2> QED
      BY <2>1, <2>2, <2>6, ControlInv DEF PersistProgress
  <1>3. CASE ~Holds(r)
    <2>1. GiveUp(r, FailedStatus(r)) /\ Grows /\ StoreInv'
      BY <1>3, SameStore, StoreFrame DEF PersistProgress, LinkInv
    <2> QED
      BY <2>1, FailedStatusType, GiveUpInv DEF PersistProgress
  <1> QED
    BY <1>2, <1>3

\* An upload keeps the store right, whoever sends it and however many of its
\* links are marked.
LEMMA UploadStore ==
    ASSUME TypeOK, LinkInv, NEW codes \in SUBSET Codes, UploadLinks(codes),
           NEW marked \in SUBSET codes, published' = published \cup marked,
           \A c \in marked : owner[c] # Nobody,
           UNCHANGED <<nextValue, owner>>,
           \A c \in publisher' : owner[c] # Nobody
    PROVE  Grows /\ StoreInv'
  <1>1. /\ Grows /\ LeadsToOwner'
        /\ \A c \in codes : mapping'[c] = owner[c]
        /\ \A c \in Codes : mapping[c] = owner[c] => mapping'[c] = owner[c]
    BY UploadGrows DEF LinkInv, StoreInv
  <1>2. PublishedIsMapped'
    BY <1>1 DEF LinkInv, StoreInv, PublishedIsMapped, TypeOK
  <1>3. Sized' /\ NoCodeBurned'
    BY DEF LinkInv, StoreInv, Sized, RowsOf, NoCodeBurned
  <1> QED
    BY <1>1, <1>2, <1>3 DEF StoreInv

\* So does an upload of a replica that ends early.
LEMMA InterruptedStore ==
    ASSUME TypeOK, LinkInv, NEW r \in Replicas, caller[r].step = "publishing",
           Interrupted(r), UNCHANGED <<nextValue, owner, publisher>>
    PROVE  Grows /\ StoreInv'
  <1>1. PICK done \in SUBSET caller[r].codes : \E marked \in SUBSET done :
                UploadLinks(done) /\ published' = published \cup marked
    BY DEF Interrupted
  <1>2. PICK marked \in SUBSET done : UploadLinks(done) /\ published' = published \cup marked
    BY <1>1
  <1>3. caller[r].codes = RowsOf(caller[r].key) /\ caller[r].key \in Keys
    BY DEF LinkInv, Progress
  <1>4. done \in SUBSET Codes /\ \A c \in marked : owner[c] # Nobody
    BY <1>3, KeyFacts DEF RowsOf
  <1>5. \A c \in publisher' : owner[c] # Nobody
    BY DEF LinkInv, StoreInv
  <1> QED
    BY <1>2, <1>4, <1>5, UploadStore

\* Links that lead to their owners may be marked.
LEMMA MarkStore ==
    ASSUME TypeOK, LinkInv, NEW r \in Replicas, caller[r].step = "marking",
           published' \subseteq published \cup caller[r].codes,
           UNCHANGED <<nextValue, owner, mapping, publisher>>
    PROVE  Grows /\ StoreInv'
  <1>1. PICK k : k = caller[r].key
    OBVIOUS
  <1>2. k \in Keys /\ Live(k) /\ caller[r].codes = RowsOf(k)
    BY <1>1 DEF LinkInv, Progress
  <1>3. \A c \in RowsOf(k) : mapping[c] = owner[c] /\ owner[c] # Nobody
    BY <1>2, KeyFacts DEF Live, RowsOf
  <1>4. PublishedIsMapped'
    BY <1>2, <1>3 DEF LinkInv, StoreInv, PublishedIsMapped
  <1>5. StoreInv'
    BY <1>4 DEF LinkInv, StoreInv, LeadsToOwner, Sized, RowsOf, NoCodeBurned
  <1> QED
    BY <1>5, SameStore

LEMMA PublishInv ==
    ASSUME TypeOK, LinkInv, NEW r \in Replicas, Publish(r)
    PROVE  LinkInv'
  <1>0. PICK k : k = caller[r].key
    OBVIOUS
  <1>1. /\ k \in Keys /\ HasRows(k) /\ caller[r].codes = RowsOf(k)
        /\ k \in Jobs => caller[r].token > 0
    BY <1>0 DEF Publish, LinkInv, Progress
  <1>2. caller[r].codes \in SUBSET Codes /\ UploadLinks(caller[r].codes)
    BY CallerFields DEF Publish
  <1>3. Grows /\ StoreInv'
    <2>1. published' = published \cup {} /\ {} \in SUBSET caller[r].codes
      BY DEF Publish
    <2>2. UNCHANGED <<nextValue, owner>> /\ \A c \in publisher' : owner[c] # Nobody
      BY DEF Publish, LinkInv, StoreInv
    <2> QED
      BY <1>2, <2>1, <2>2, UploadStore
  <1>4. \A c \in RowsOf(k) : mapping'[c] = k
    BY <1>1, <1>2 DEF UploadLinks, RowsOf
  <1>5. "marking" \in Steps
    BY DEF Steps
  <1>6. Goto(r, At(r, "marking")) /\ At(r, "marking") \in Callers
    BY <1>5, AtType DEF Publish
  <1>7. /\ caller'[r] = At(r, "marking")
        /\ \A p \in Replicas \ {r} : caller'[p] = caller[p]
    BY <1>6, GotoAfter
  <1>8. caller'[r].step = "marking" /\ caller'[r].key = k
        /\ caller'[r].codes = RowsOf(k) /\ caller'[r].token = caller[r].token
    BY <1>0, <1>1, <1>5, <1>7, AtType
  <1>9. Progress(r)'
    <2>1. RowsOf(k)' = RowsOf(k)
      BY DEF Publish, RowsOf
    <2>2. Live(k)'
      BY <1>4, <2>1 DEF Live
    <2> QED
      BY <1>1, <1>8, <2>1, <2>2, ProgressOf DEF HasRows
  <1>10. \A p \in Replicas : Progress(p)'
    BY <1>3, <1>7, <1>9, ProgressFrame DEF LinkInv
  <1>11. \A j \in Jobs : Leased(j)'
    BY <1>3, LeasedFrame DEF Publish, LinkInv
  <1>12. \A q \in Requests : Answered(q)'
    BY <1>3, AnsweredFrame DEF Publish, LinkInv
  <1> QED
    BY <1>3, <1>10, <1>11, <1>12 DEF LinkInv

LEMMA PublishFailsInv ==
    ASSUME TypeOK, LinkInv, NEW r \in Replicas, PublishFails(r)
    PROVE  LinkInv'
  <1>1. Grows /\ StoreInv'
    BY InterruptedStore DEF PublishFails
  <1> QED
    BY <1>1, FailedStatusType, GiveUpInv DEF PublishFails

LEMMA MarkPublishedInv ==
    ASSUME TypeOK, LinkInv, NEW r \in Replicas, MarkPublished(r)
    PROVE  LinkInv'
  <1>0. PICK k : k = caller[r].key
    OBVIOUS
  <1>1. /\ k \in Keys /\ HasRows(k) /\ Live(k) /\ caller[r].codes = RowsOf(k)
        /\ k \in Jobs => caller[r].token > 0
    BY <1>0 DEF MarkPublished, LinkInv, Progress
  <1>2. Grows /\ RowsOf(k)' = RowsOf(k)
    BY SameStore DEF MarkPublished, RowsOf
  <1>3. StoreInv'
    BY MarkStore DEF MarkPublished
  <1>4. "completing" \in Steps
    BY DEF Steps
  <1>5. /\ \A p \in Replicas : Progress(p)'
        /\ \A q \in Requests : Answered(q)'
    <2>1. CASE k \in Requests
      <3>1. /\ Goto(r, Idle)
            /\ answered' = [answered EXCEPT ![k] = answered[k] \cup {caller[r].codes}]
        BY <1>0, <2>1 DEF MarkPublished
      <3>2. caller'[r] = Idle /\ \A p \in Replicas \ {r} : caller'[p] = caller[p]
        BY <3>1, IdleType, GotoAfter
      <3>3. \A p \in Replicas : Progress(p)'
        BY <1>2, <3>2, ProgressIdle, ProgressFrame DEF LinkInv
      <3>4. answered \in [Requests -> SUBSET SUBSET Codes]
        BY DEF TypeOK
      <3>5. /\ answered'[k] = answered[k] \cup {RowsOf(k)}
            /\ \A q \in Requests \ {k} : answered'[q] = answered[q]
        BY <1>1, <2>1, <3>1, <3>4
      <3>6. Answered(k)'
        <4>1. HasRows(k)' /\ Live(k)'
          BY <1>1, <1>2, LiveGrows
        <4>2. ASSUME NEW codes \in answered'[k] PROVE codes = RowsOf(k)'
          BY <1>2, <2>1, <3>5, <4>2 DEF LinkInv, Answered
        <4> QED
          BY <4>1, <4>2 DEF Answered
      <3>7. \A q \in Requests : Answered(q)'
        BY <1>2, <3>5, <3>6, AnsweredFrame DEF LinkInv
      <3> QED
        BY <3>3, <3>7
    <2>2. CASE k \notin Requests
      <3>1. Goto(r, At(r, "completing")) /\ UNCHANGED answered
        BY <1>0, <2>2 DEF MarkPublished
      <3>2. At(r, "completing") \in Callers
        BY <1>4, AtType
      <3>3. caller'[r] = At(r, "completing") /\ \A p \in Replicas \ {r} : caller'[p] = caller[p]
        BY <3>1, <3>2, GotoAfter
      <3>4. caller'[r].step = "completing" /\ caller'[r].key = k
            /\ caller'[r].token = caller[r].token
        BY <1>0, <1>4, <3>3, AtType
      <3>5. HasRows(k)' /\ Live(k)'
        BY <1>1, <1>2, LiveGrows
      <3>6. Progress(r)'
        BY <1>1, <2>2, <3>4, <3>5, ProgressOf DEF Keys
      <3> QED
        BY <1>2, <3>1, <3>3, <3>6, ProgressFrame, AnsweredFrame DEF LinkInv
    <2> QED
      BY <2>1, <2>2
  <1>6. \A j \in Jobs : Leased(j)'
    BY <1>2, LeasedFrame DEF MarkPublished, LinkInv
  <1> QED
    BY <1>3, <1>5, <1>6 DEF LinkInv

LEMMA RestInv ==
    ASSUME TypeOK, LinkInv, NEW r \in Replicas, CompleteJob(r) \/ JobCallFails(r)
    PROVE  LinkInv'
  <1>1. UNCHANGED <<nextValue, owner, published, mapping, answered, publisher>>
    BY DEF CompleteJob, JobCallFails
  <1>2. Grows /\ StoreInv'
    BY <1>1, SameStore, StoreFrame DEF LinkInv
  <1>3. CASE CompleteJob(r)
    BY <1>1, <1>2, <1>3, GiveUpInv DEF CompleteJob, JobStatuses
  <1>4. CASE JobCallFails(r)
    BY <1>1, <1>2, <1>4, FailedStatusType, GiveUpInv DEF JobCallFails
  <1> QED
    BY <1>3, <1>4

\* A crash leaves what the replica had uploaded and marked.
LEMMA CrashStore ==
    ASSUME TypeOK, LinkInv, NEW r \in Replicas, Crash(r)
    PROVE  Grows /\ StoreInv'
  <1>1. CASE caller[r].step = "publishing" /\ Interrupted(r)
    BY <1>1, InterruptedStore DEF Crash
  <1>2. CASE caller[r].step = "marking" /\ published' = published \cup caller[r].codes
             /\ UNCHANGED mapping
    BY <1>2, MarkStore DEF Crash
  <1>3. CASE UNCHANGED <<published, mapping>>
    BY <1>3, SameStore, StoreFrame DEF Crash, LinkInv
  <1> QED
    BY <1>1, <1>2, <1>3 DEF Crash

LEMMA CrashInv ==
    ASSUME TypeOK, LinkInv, NEW r \in Replicas, Crash(r)
    PROVE  LinkInv'
  <1>1. Grows /\ StoreInv'
    BY CrashStore
  <1>2. caller'[r] = Idle /\ \A p \in Replicas \ {r} : caller'[p] = caller[p]
    BY IdleType, GotoAfter DEF Crash
  <1>3. \A p \in Replicas : Progress(p)'
    BY <1>1, <1>2, ProgressIdle, ProgressFrame DEF LinkInv
  <1>4. \A j \in Jobs : Leased(j)'
    BY <1>1, LeasedFrame DEF Crash, LinkInv
  <1>5. \A q \in Requests : Answered(q)'
    BY <1>1, AnsweredFrame DEF Crash, LinkInv
  <1> QED
    BY <1>1, <1>3, <1>4, <1>5 DEF LinkInv

LEMMA ListPendingInv ==
    ASSUME TypeOK, LinkInv, ListPending
    PROVE  LinkInv'
  <1>1. \A c \in publisher' : owner[c] # Nobody
    BY DEF ListPending, kSubset, Pending
  <1>2. StoreInv'
    BY <1>1 DEF ListPending, LinkInv, StoreInv, LeadsToOwner, Sized, RowsOf,
                PublishedIsMapped, NoCodeBurned
  <1> QED
    BY <1>2, SameStore, PublisherInv DEF ListPending

LEMMA PublishPendingInv ==
    ASSUME TypeOK, LinkInv, PublishPending
    PROVE  LinkInv'
  <1>1. publisher \in SUBSET Codes /\ UploadLinks(publisher) /\ UNCHANGED owner
    BY DEF TypeOK, PublishPending
  <1>2. /\ Grows /\ LeadsToOwner'
        /\ \A c \in publisher : mapping'[c] = owner[c] /\ owner[c] # Nobody
        /\ \A c \in Codes : mapping[c] = owner[c] => mapping'[c] = owner[c]
    BY <1>1, UploadGrows DEF LinkInv, StoreInv
  <1>3. PublishedIsMapped'
    BY <1>2 DEF PublishPending, LinkInv, StoreInv, PublishedIsMapped, TypeOK
  <1>4. StoreInv'
    BY <1>2, <1>3 DEF PublishPending, LinkInv, StoreInv, Sized, RowsOf, NoCodeBurned
  <1> QED
    BY <1>2, <1>4, PublisherInv DEF PublishPending

LEMMA PublishPendingFailsInv ==
    ASSUME TypeOK, LinkInv, PublishPendingFails
    PROVE  LinkInv'
  <1>1. PICK done \in SUBSET publisher : UploadLinks(done)
    BY DEF PublishPendingFails
  <1>2. done \in SUBSET Codes
    BY DEF TypeOK
  <1>3. Grows /\ StoreInv'
    <2>1. published' = published \cup {} /\ {} \in SUBSET done
      BY DEF PublishPendingFails
    <2>2. UNCHANGED <<nextValue, owner>> /\ \A c \in publisher' : owner[c] # Nobody
      BY DEF PublishPendingFails
    <2> QED
      BY <1>1, <1>2, <2>1, <2>2, UploadStore
  <1> QED
    BY <1>3, PublisherInv DEF PublishPendingFails

LEMMA InvInit == LinkInit => LinkInv
  <1> SUFFICES ASSUME LinkInit PROVE LinkInv
    OBVIOUS
  <1>1. \A k \in Keys : RowsOf(k) = {}
    BY KeyFacts DEF LinkInit, RowsOf
  <1>2. StoreInv
    BY <1>1, CodeFacts DEF LinkInit, StoreInv, LeadsToOwner, Sized, PublishedIsMapped,
                           NoCodeBurned
  <1>3. \A r \in Replicas : Progress(r)
    BY KeyFacts DEF LinkInit, Progress, Idle, Caller
  <1>4. \A j \in Jobs : Leased(j)
    BY DEF LinkInit, Leased, Job
  <1>5. \A q \in Requests : Answered(q)
    BY DEF LinkInit, Answered
  <1> QED
    BY <1>2, <1>3, <1>4, <1>5 DEF LinkInv

LEMMA InvStep == TypeOK /\ LinkInv /\ [LinkNext]_linkVars => LinkInv'
  <1> SUFFICES ASSUME TypeOK, LinkInv, [LinkNext]_linkVars PROVE LinkInv'
    OBVIOUS
  <1>1. ASSUME NEW r \in Replicas, Proceed(r) PROVE LinkInv'
    BY <1>1, InspectJobInv, ReserveInv, ReserveFailsInv, PersistProgressInv, PublishInv,
       PublishFailsInv, MarkPublishedInv, RestInv, CrashInv DEF Proceed
  <1>2. CASE UNCHANGED linkVars
    <2>1. Grows /\ StoreInv'
      BY <1>2, SameStore, StoreFrame DEF linkVars, LinkInv
    <2> QED
      BY <1>2, <2>1, PublisherInv DEF linkVars
  <1> QED
    BY <1>1, <1>2, ServeRequestInv, ClaimJobInv, CreateJobInv, LeaseExpiresInv,
       ListPendingInv, PublishPendingInv, PublishPendingFailsInv DEF LinkNext

-----------------------------------------------------------------------------
(* The theorems *)

\* In every behaviour, whatever fails: the columns keep their types, and the
\* strengthened invariant holds.
THEOREM TypesCorrect == LinkSpec => []TypeOK
  <1> QED
    BY TypeInit, TypeStep, PTL DEF LinkSpec

LEMMA InvAlways == LinkSpec => [](TypeOK /\ LinkInv)
  <1> QED
    BY TypeInit, TypeStep, InvInit, InvStep, PTL DEF LinkSpec

\* A campaign is answered with all the links of its request and with live
\* links only, for any number of requests, uploads and replicas, whatever
\* fails.
THEOREM AnswersAreSafe == LinkSpec => []SendSafe
  <1>1. TypeOK /\ LinkInv => SendSafe
    BY KeyFacts DEF LinkInv, StoreInv, Sized, Answered, HasRows, Live, SendSafe
  <1> QED
    BY <1>1, InvAlways, PTL

\* The marker that hides a link from the background publisher is never ahead
\* of the redirect service.
THEOREM MarkersAreTrue == LinkSpec => []PublishedIsMapped
  <1>1. LinkInv => PublishedIsMapped
    BY DEF LinkInv, StoreInv
  <1> QED
    BY <1>1, InvAlways, PTL

\* An upload is completed only with all of its links live.
THEOREM CompletionIsTrue == LinkSpec => []CompletedIsLive
  <1>1. LinkInv => CompletedIsLive
    BY KeyFacts DEF LinkInv, StoreInv, Sized, Leased, HasRows, Live, CompletedIsLive
  <1> QED
    BY <1>1, InvAlways, PTL

\* The allocator leaves no hole behind its counter.
THEOREM AllocatorIsTight == LinkSpec => []NoCodeBurned
  <1>1. LinkInv => NoCodeBurned
    BY DEF LinkInv, StoreInv
  <1> QED
    BY <1>1, InvAlways, PTL

\* Every step keeps the owners and the destinations of codes that have them.
LEMMA StepGrows ==
    ASSUME TypeOK, LinkInv, [LinkNext]_linkVars
    PROVE  Grows
  <1>1. ASSUME NEW r \in Replicas, Reserve(r) PROVE Grows
    <2>1. caller[r].key \in Keys
      BY <1>1 DEF Reserve, LinkInv, Progress
    <2> QED
      BY <1>1, <2>1, AllocateGrows DEF Reserve
  <1>2. ASSUME NEW codes \in SUBSET Codes, UploadLinks(codes), UNCHANGED owner
        PROVE  Grows
    BY <1>2, UploadGrows DEF LinkInv, StoreInv
  <1>3. ASSUME NEW r \in Replicas, Publish(r) \/ PublishFails(r) \/ Crash(r) PROVE Grows
    <2>1. Publish(r) => Grows
      BY <1>2, CallerFields DEF Publish
    <2>2. PublishFails(r) => Grows
      BY InterruptedStore DEF PublishFails
    <2> QED
      BY <1>3, <2>1, <2>2, CrashStore
  <1>4. ASSUME PublishPending \/ PublishPendingFails PROVE Grows
    BY <1>2, <1>4 DEF PublishPending, PublishPendingFails, TypeOK
  <1>5. ASSUME UNCHANGED <<owner, mapping>> PROVE Grows
    BY <1>5, SameStore
  <1>6. ASSUME NEW r \in Replicas,
               \/ InspectJob(r) \/ ReserveFails(r) \/ PersistProgress(r)
               \/ MarkPublished(r) \/ CompleteJob(r) \/ JobCallFails(r)
        PROVE  Grows
    BY <1>5, <1>6 DEF InspectJob, ReserveFails, PersistProgress, MarkPublished,
                      CompleteJob, JobCallFails
  <1>7. ASSUME NEW r \in Replicas, NEW q \in Requests, ServeRequest(r, q) PROVE Grows
    BY <1>5, <1>7 DEF ServeRequest
  <1>8. ASSUME NEW j \in Jobs,
               CreateJob(j) \/ LeaseExpires(j) \/ \E r \in Replicas : ClaimJob(r, j)
        PROVE  Grows
    BY <1>5, <1>8 DEF CreateJob, LeaseExpires, ClaimJob
  <1>9. ASSUME ListPending PROVE Grows
    BY <1>5, <1>9 DEF ListPending
  <1>10. CASE UNCHANGED linkVars
    BY <1>5, <1>10 DEF linkVars
  <1> QED
    BY <1>1, <1>3, <1>4, <1>6, <1>7, <1>8, <1>9, <1>10 DEF LinkNext, Proceed

\* No code ever changes its owner or its destination.
THEOREM CodesNeverReused == LinkSpec => CodesAreForever
  <1>1. TypeOK /\ LinkInv /\ [LinkNext]_linkVars =>
           [\A c \in Codes : /\ owner[c] # Nobody => owner'[c] = owner[c]
                             /\ mapping[c] # Nobody => mapping'[c] = mapping[c]]_linkVars
    BY StepGrows DEF Grows
  <1> QED
    BY <1>1, InvAlways, PTL DEF LinkSpec, CodesAreForever

\* A finished upload carries no lease, so no worker writes it.
LEMMA StepKeepsFinished ==
    ASSUME TypeOK, LinkInv, LinkNext, NEW j \in Jobs, job[j].status \in Terminal
    PROVE  job'[j] = job[j]
  <1>1. job[j].token = 0 /\ job \in [Jobs -> JobRows]
    BY DEF LinkInv, Leased, Terminal, TypeOK, JobRows
  <1>2. ASSUME NEW r \in Replicas, NEW s \in JobStatuses, GiveUp(r, s)
        PROVE  job'[j] = job[j]
    <2>1. caller[r].key = j => caller[r].token > 0
      BY DEF LinkInv, Progress
    <2> QED
      BY <1>1, <1>2, <2>1, GiveUpAfter
  <1>3. ASSUME NEW r \in Replicas, Proceed(r) PROVE job'[j] = job[j]
    <2>1. CASE UNCHANGED job
      BY <2>1
    <2>2. CASE \E s \in JobStatuses : GiveUp(r, s)
      BY <1>2, <2>2
    <2> QED
      BY <1>3, <2>1, <2>2, FailedStatusType
         DEF Proceed, InspectJob, Reserve, ReserveFails, PersistProgress, Publish,
             PublishFails, MarkPublished, CompleteJob, JobCallFails, Crash, JobStatuses
  <1>4. ASSUME NEW i \in Jobs,
               CreateJob(i) \/ LeaseExpires(i) \/ \E r \in Replicas : ClaimJob(r, i)
        PROVE  job'[j] = job[j]
    BY <1>1, <1>4 DEF CreateJob, LeaseExpires, ClaimJob, Due, Terminal
  <1>5. CASE UNCHANGED job
    BY <1>5
  <1> QED
    BY <1>3, <1>4, <1>5 DEF LinkNext, ServeRequest, ListPending, PublishPending,
                            PublishPendingFails

\* A worker that lost its lease changes nothing of an upload that is finished.
THEOREM FinishedUploadsStay == LinkSpec => FinishedStays
  <1>1. TypeOK /\ LinkInv /\ [LinkNext]_linkVars =>
           [\A j \in Jobs : job[j].status \in Terminal => job'[j] = job[j]]_linkVars
    BY StepKeepsFinished
  <1> QED
    BY <1>1, InvAlways, PTL DEF LinkSpec, FinishedStays

=============================================================================
