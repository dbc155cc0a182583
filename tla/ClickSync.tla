------------------------------ MODULE ClickSync ------------------------------
(***************************************************************************)
(* Clicks on published short links.  The external service (Rust,           *)
(* external-shortlink/src) redirects visitors, writes their clicks to its  *)
(* PostgreSQL table or, failing that, to a durable local spool that a      *)
(* worker replays, lets production fetch the table page by page, and purges *)
(* what was acknowledged.  Production imports each page together with its  *)
(* cursor, then acknowledges it                                            *)
(* (app/scheduler/external_short_link_scheduler.go,                        *)
(* repository/external_short_link_sync_repository.go).                     *)
(*                                                                         *)
(* A click_id is drawn from a sequence when an INSERT runs and its row is  *)
(* seen only when that transaction commits: rows may appear out of the     *)
(* order of their ids, and an id is used up by an insert that aborts or    *)
(* finds its event already stored.                                         *)
(***************************************************************************)
EXTENDS ShortLinks

CONSTANTS Events,       \* event_id of the clicks visitors make
          Importers,    \* application instances running the click scheduler
          SpoolMax,     \* spool_max_events
          ReplayBatch,  \* spool_replay_batch_size
          PageSize,     \* page size of a fetch
          MaxId,        \* bound: ids drawn
          NoCode        \* code of a click nobody made yet

ASSUME ClickSyncAssumption ==
    /\ IsFiniteSet(Events)
    /\ SpoolMax \in Nat
    /\ ReplayBatch \in Nat \ {0}
    /\ PageSize \in Nat \ {0}
    /\ MaxId \in Nat
    /\ NoCode \notin Codes

Ids == 1 .. MaxId

VARIABLES code,      \* the code each click was made on
          visit,     \* the request that made the click
          lastId,    \* last click_id drawn
          inserts,   \* transactions not decided yet: the ids of their events
          row,       \* clicks: click_id of a stored event, 0 if there is none
          spool,     \* events in the spool
          replay,    \* the replay worker
          acked,     \* click_acknowledgements.through_click_id
          cursor,    \* external_short_link_sync_state.last_click_id
          imported,  \* short_link_clicks: <<external_click_id, event>>
          importer,  \* the click scheduler of each instance
          late       \* events that appeared behind a page already read

clickVars == <<code, visit, lastId, inserts, row, spool, replay, acked,
               cursor, imported, importer, late>>
serviceVars == <<code, visit, lastId, inserts, row, spool, replay, late>>
syncVars == <<cursor, imported, importer>>
vars == <<linkVars, clickVars>>

Importer(step, at, page, more) ==
    [step |-> step, at |-> at, page |-> page, more |-> more]
Resting == Importer("idle", 0, {}, FALSE)
NoReplay == [step |-> "idle", tx |-> <<>>]

Ids0 == 0 .. MaxId
Transactions == UNION {[S -> Ids] : S \in SUBSET Events}

ClickTypeOK ==
    /\ code \in [Events -> Codes \cup {NoCode}]
    /\ visit \in [Events -> {"none", "inserting", "spooling", "done", "dropped"}]
    /\ lastId \in Ids0
    /\ inserts \subseteq Transactions
    /\ row \in [Events -> Ids0]
    /\ spool \subseteq Events
    /\ replay \in [step : {"idle", "inserting", "inserted"}, tx : Transactions]
    /\ acked \in Ids0
    /\ cursor \in Ids0
    /\ imported \subseteq Ids \X Events
    /\ importer \in [Importers -> [step : {"idle", "fetching", "importing",
                                           "acknowledging", "repeating"},
                                   at : Ids0, page : SUBSET (Ids \X Events),
                                   more : BOOLEAN]]
    /\ late \subseteq Events

ClickInit ==
    /\ code = [e \in Events |-> NoCode]
    /\ visit = [e \in Events |-> "none"]
    /\ lastId = 0
    /\ inserts = {}
    /\ row = [e \in Events |-> 0]
    /\ spool = {}
    /\ replay = NoReplay
    /\ acked = 0
    /\ cursor = 0
    /\ imported = {}
    /\ importer = [i \in Importers |-> Resting]
    /\ late = {}

-----------------------------------------------------------------------------
(* The redirect service.                                                   *)

\* A batch INSERT numbers its events in the order it lists them.
Numbered(batch) ==
    CHOOSE f \in [batch -> lastId + 1 .. lastId + Cardinality(batch)] :
        \A d, e \in batch : d # e => f[d] # f[e]

\* redirect of a mapped code: the click is inserted before the answer is sent.
Redirect(e, c) ==
    /\ visit[e] = "none"
    /\ c \in Mapped
    /\ lastId < MaxId
    /\ code' = [code EXCEPT ![e] = c]
    /\ visit' = [visit EXCEPT ![e] = "inserting"]
    /\ inserts' = inserts \cup {Numbered({e})}
    /\ lastId' = lastId + 1
    /\ UNCHANGED <<row, spool, replay, late, acked, faults, syncVars>>

\* The pages read so far reach up to this id.
Seen(i) == IF importer[i].page = {} THEN importer[i].at
           ELSE Max({p[1] : p \in importer[i].page})
SeenThrough == Max({cursor} \cup {Seen(i) : i \in Importers})

\* Mutant: a repeated event replaces its row.
InsertReplaces(tx) ==
    /\ tx \in inserts
    /\ inserts' = inserts \ {tx}
    /\ row' = [e \in Events |-> IF e \in DOMAIN tx THEN tx[e] ELSE row[e]]
    /\ visit' = [e \in Events |->
                    IF e \in DOMAIN tx /\ visit[e] = "inserting" THEN "done"
                    ELSE visit[e]]
    /\ replay' = IF replay.tx = tx THEN [replay EXCEPT !.step = "inserted"]
                 ELSE replay
    /\ UNCHANGED <<code, lastId, spool, late, acked, faults, syncVars>>

\* An insert commits: ON CONFLICT (event_id) DO NOTHING keeps the first row.
\* The request or the worker that still waits for it goes on.
InsertCommits(tx) ==
    LET new == {e \in DOMAIN tx : row[e] = 0}
    IN /\ tx \in inserts
       /\ inserts' = inserts \ {tx}
       /\ row' = [e \in Events |-> IF e \in new THEN tx[e] ELSE row[e]]
       /\ late' = late \cup {e \in new : tx[e] <= SeenThrough}
       /\ visit' = [e \in Events |->
                       IF e \in DOMAIN tx /\ visit[e] = "inserting" THEN "done"
                       ELSE visit[e]]
       /\ replay' = IF replay.tx = tx THEN [replay EXCEPT !.step = "inserted"]
                    ELSE replay
       /\ UNCHANGED <<code, lastId, spool, acked, faults, syncVars>>

\* The insert aborts, or its client gives up waiting (click_insert_timeout,
\* db_command_timeout) while the transaction may still commit.  A request
\* falls back to the spool, the worker tries again.
InsertFails(tx) ==
    /\ tx \in inserts
    /\ Fault
    /\ inserts' \in {inserts, inserts \ {tx}}
    /\ visit' = [e \in Events |->
                    IF e \in DOMAIN tx /\ visit[e] = "inserting" THEN "spooling"
                    ELSE visit[e]]
    /\ replay' = IF replay.tx = tx THEN NoReplay ELSE replay
    /\ UNCHANGED <<code, lastId, row, spool, late, acked, syncVars>>

\* spool_click: a full spool drops the click, and so does a busy or failing
\* one.
SpoolClick(e) ==
    /\ visit[e] = "spooling"
    /\ IF Cardinality(spool) < SpoolMax
       THEN spool' = spool \cup {e} /\ visit' = [visit EXCEPT ![e] = "done"]
       ELSE UNCHANGED spool /\ visit' = [visit EXCEPT ![e] = "dropped"]
    /\ UNCHANGED <<code, lastId, inserts, row, replay, late, acked, faults,
                   syncVars>>

SpoolFails(e) ==
    /\ visit[e] = "spooling"
    /\ Fault
    /\ visit' = [visit EXCEPT ![e] = "dropped"]
    /\ UNCHANGED <<code, lastId, inserts, row, spool, replay, late, acked,
                   syncVars>>

\* Mutant: the worker waits for a full batch.
ReplayFullBatches ==
    /\ replay.step = "idle"
    /\ \E batch \in kSubset(ReplayBatch, spool) :
           /\ lastId + Cardinality(batch) <= MaxId
           /\ replay' = [step |-> "inserting", tx |-> Numbered(batch)]
           /\ inserts' = inserts \cup {Numbered(batch)}
           /\ lastId' = lastId + Cardinality(batch)
    /\ UNCHANGED <<code, visit, row, spool, late, acked, faults, syncVars>>

\* spool_replay_loop: peek a batch and insert it in one transaction.
ReplayInserts ==
    /\ replay.step = "idle"
    /\ \E batch \in kSubset(Min({ReplayBatch, Cardinality(spool)}), spool) :
           /\ batch # {}
           /\ lastId + Cardinality(batch) <= MaxId
           /\ replay' = [step |-> "inserting", tx |-> Numbered(batch)]
           /\ inserts' = inserts \cup {Numbered(batch)}
           /\ lastId' = lastId + Cardinality(batch)
    /\ UNCHANGED <<code, visit, row, spool, late, acked, faults, syncVars>>

\* The batch leaves the spool after its transaction; when that fails it stays
\* and is replayed again.
ReplayRemoves ==
    /\ replay.step = "inserted"
    /\ \/ spool' = spool \ DOMAIN replay.tx /\ UNCHANGED faults
       \/ Fault /\ UNCHANGED spool
    /\ replay' = NoReplay
    /\ UNCHANGED <<code, visit, lastId, inserts, row, late, acked, syncVars>>

\* The service stops: its requests end, PostgreSQL decides their transactions.
Restart ==
    /\ Fault
    /\ visit' = [e \in Events |->
                    IF visit[e] \in {"inserting", "spooling"} THEN "dropped"
                    ELSE visit[e]]
    /\ replay' = NoReplay
    /\ UNCHANGED <<code, lastId, inserts, row, spool, late, acked, syncVars>>

\* purge_acknowledged.  The retention of a click (days) is taken to outlast
\* its replay (seconds): an event that is still in a request, in the spool or
\* in an open transaction is not old enough.
InFlight(e) == e \in spool \/ \E tx \in inserts : e \in DOMAIN tx
Settled(e) == visit[e] \in {"done", "dropped"} /\ ~InFlight(e)
\* Mutant: the retention looks at the age of a click only.
PurgeByAge(e) ==
    /\ row[e] # 0
    /\ Settled(e)
    /\ row' = [row EXCEPT ![e] = 0]
    /\ UNCHANGED <<code, visit, lastId, inserts, spool, replay, late, acked,
                   faults, syncVars>>

Purge(e) ==
    /\ row[e] \in 1 .. acked
    /\ Settled(e)
    /\ row' = [row EXCEPT ![e] = 0]
    /\ UNCHANGED <<code, visit, lastId, inserts, spool, replay, late, acked,
                   faults, syncVars>>

-----------------------------------------------------------------------------
(* The import into production.                                             *)

Become(i, s) == importer' = [importer EXCEPT ![i] = s]

ReadCursor(i) ==
    /\ importer[i].step = "idle"
    /\ Become(i, Importer("fetching", cursor, {}, FALSE))
    /\ UNCHANGED <<cursor, imported, acked, faults, serviceVars>>

\* fetch_clicks: the first rows behind the cursor, and whether more follow.
Visible(at) == {<<row[e], e>> : e \in {d \in Events : row[d] > at}}
FirstOf(S, n) ==
    {p \in S : Cardinality({q \in S : q[1] < p[1]}) < n}

\* An empty page repeats the last acknowledgement.
FetchClicks(i) ==
    LET behind == Visible(importer[i].at)
        page == FirstOf(behind, PageSize)
    IN /\ importer[i].step = "fetching"
       /\ Become(i, IF page # {}
                    THEN Importer("importing", importer[i].at, page, page # behind)
                    ELSE IF importer[i].at > 0
                         THEN Importer("repeating", importer[i].at, {}, FALSE)
                         ELSE Resting)
       /\ UNCHANGED <<cursor, imported, acked, faults, serviceVars>>

\* What production takes the redirect service to have stored of a long link:
\* net/url wants a host where RFC 3986 has it and percent signs that begin
\* escapes; it knows nothing of the limits of the service.
externalStoredLongURL(d) ==
    IF d.scheme = "other" \/ d.host # "plain" \/ ~d.escaped THEN "refused"
    ELSE WithScheme(d)
Agree(d) == Accepted(d) /\ externalStoredLongURL(d) = normalize_long_url(d)

\* ImportPage: rows (ON CONFLICT (source, external_click_id) DO NOTHING) and
\* cursor (GREATEST) commit together.  It refuses a page with a click whose
\* code has no row in production, or another destination than that row's.
Acceptable(page) ==
    \A p \in page : LET c == code[p[2]]
                    IN owner[c] # Nobody /\ mapping[c] = owner[c] /\ Agree(LongLink(c))
Stored(page) ==
    imported \cup {p \in page : \A q \in imported : q[1] # p[1]}

ImportPage(i) ==
    LET through == Seen(i)
    IN /\ importer[i].step = "importing"
       /\ Acceptable(importer[i].page)
       /\ imported' = Stored(importer[i].page)
       /\ cursor' = Max({cursor, through})
       /\ Become(i, Importer("acknowledging", through, {}, importer[i].more))
       /\ UNCHANGED <<acked, faults, serviceVars>>

\* Mutant: the cursor commits without the rows.
ImportFailsAhead(i) ==
    /\ importer[i].step = "importing"
    /\ Fault
    /\ cursor' = Max({cursor, Seen(i)})
    /\ Become(i, Resting)
    /\ UNCHANGED <<imported, acked, serviceVars>>

\* The transaction fails, or commits and its answer is lost.
ImportFails(i) ==
    /\ importer[i].step = "importing"
    /\ \/ /\ Fault
          /\ \/ UNCHANGED <<cursor, imported>>
             \/ /\ Acceptable(importer[i].page)
                /\ imported' = Stored(importer[i].page)
                /\ cursor' = Max({cursor, Seen(i)})
       \/ /\ ~Acceptable(importer[i].page)
          /\ UNCHANGED <<cursor, imported, faults>>
    /\ Become(i, Resting)
    /\ UNCHANGED <<acked, serviceVars>>

\* acknowledge_inner accepts an id it has passed, or the id of a stored click.
Known(through) == through <= acked \/ \E e \in Events : row[e] = through
Acknowledged(through) ==
    IF Known(through) THEN Max({acked, through}) ELSE acked

\* A failed acknowledgement is only logged; it may have taken effect.
Acknowledge(i) ==
    LET im == importer[i]
    IN /\ im.step \in {"acknowledging", "repeating"}
       /\ \/ acked' = Acknowledged(im.at) /\ UNCHANGED faults
          \/ Fault /\ UNCHANGED acked
       /\ Become(i, IF im.step = "acknowledging" /\ im.more
                    THEN Importer("fetching", im.at, {}, FALSE) ELSE Resting)
       /\ UNCHANGED <<cursor, imported, serviceVars>>

\* The instance stops, or a call fails.
ImporterStops(i) ==
    /\ importer[i].step # "idle"
    /\ Fault
    /\ Become(i, Resting)
    /\ UNCHANGED <<cursor, imported, acked, serviceVars>>

-----------------------------------------------------------------------------
ServiceNext ==
    \/ \E e \in Events : \/ \E c \in Codes : Redirect(e, c)
                         \/ SpoolClick(e) \/ SpoolFails(e) \/ Purge(e)
    \/ \E tx \in inserts : InsertCommits(tx) \/ InsertFails(tx)
    \/ ReplayInserts \/ ReplayRemoves \/ Restart

SyncNext ==
    \E i \in Importers : \/ ReadCursor(i) \/ FetchClicks(i) \/ ImportPage(i)
                         \/ ImportFails(i) \/ Acknowledge(i) \/ ImporterStops(i)

allocationVars == <<nextValue, owner, published, mapping, caller, job, answered,
                    publisher>>

Init == LinkInit /\ ClickInit
Next ==
    \/ LinkNext /\ UNCHANGED clickVars
    \/ ServiceNext /\ UNCHANGED allocationVars
    \/ SyncNext /\ UNCHANGED allocationVars

Spec == Init /\ [][Next]_vars

-----------------------------------------------------------------------------
(* Properties.                                                             *)

Imported(e) == \E p \in imported : p[2] = e

\* A click the service took responsibility for, by a committed insert or in
\* its spool, is somewhere until production has it: no restart, replay,
\* acknowledgement or purge drops it.  The exception is a row that committed
\* behind a page already read.
NoClickLost ==
    \A e \in Events : visit[e] = "done" =>
        InFlight(e) \/ row[e] # 0 \/ Imported(e) \/ e \in late

\* The cursor never stands behind a click that is not imported, again but for
\* the rows that appeared there afterwards: page and cursor commit together.
NothingSkipped ==
    \A e \in Events : row[e] \in 1 .. cursor =>
        <<row[e], e>> \in imported \/ e \in late

\* The service is told to let go of clicks only up to what production has
\* committed, with any number of instances importing side by side.
AckBehindCursor == acked <= cursor

\* A visit counts once, though its insert may have committed behind a lost
\* answer and been replayed, once or more, from the spool: "so replay cannot
\* duplicate events" (external-shortlink/README.md:42).
NoDuplicateClick ==
    \A p, q \in imported : p[2] = q[2] => p = q

\* The acknowledgement of a page is accepted: the click it names is still
\* stored, or another instance acknowledged it or a later one.
AckAccepted ==
    \A i \in Importers :
        importer[i].step \in {"acknowledging", "repeating"} => Known(importer[i].at)

\* A click is only ever on a code that production holds, and leads where its
\* row says, since links are stored before they are uploaded: what can make
\* the import refuse a page is a destination that the redirect service stored
\* and externalStoredLongURL refuses.
OnlyDestinationsBlock ==
    \A i \in Importers : importer[i].step = "importing" =>
        \A p \in importer[i].page : LET c == code[p[2]]
                                    IN owner[c] # Nobody /\ mapping[c] = owner[c]

\* No page is refused.  This is not what the code ensures: it takes that the
\* destination externalStoredLongURL derives is the one the redirect service
\* stored (external_short_link_sync_repository.go:195), for every link.
ImportNeverBlocked ==
    \A i \in Importers : importer[i].step = "importing" => Acceptable(importer[i].page)

\* PostgreSQL decides every transaction and the loops keep running.
ClickFairness ==
    /\ WF_inserts((\E tx \in inserts : InsertCommits(tx)) /\ UNCHANGED allocationVars)
    /\ WF_visit((\E e \in Events : SpoolClick(e)) /\ UNCHANGED allocationVars)
    /\ WF_replay((ReplayInserts \/ ReplayRemoves) /\ UNCHANGED allocationVars)
    /\ \A i \in Importers :
           WF_importer(/\ \/ ReadCursor(i) \/ FetchClicks(i) \/ ImportPage(i)
                          \/ ImportFails(i) \/ Acknowledge(i)
                       /\ UNCHANGED allocationVars)

FairSpec == Spec /\ ClickFairness

\* Every click the service took reaches production once calls stop failing,
\* unless a click on a link whose destination the import refuses is stored: a
\* page with it is refused at every attempt, and what follows with it.
Blocking(d) == row[d] # 0 /\ ~Agree(LongLink(code[d]))
EveryClickArrives ==
    \A e \in Events : visit[e] = "done" ~>
        Imported(e) \/ e \in late \/ \E d \in Events : Blocking(d)

=============================================================================
