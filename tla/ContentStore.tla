---------------------------- MODULE ContentStore ----------------------------
(***************************************************************************)
(* The content service's database: articles (contents), who has them       *)
(* (user_contents), where a user's feed items go (source_routes), the two  *)
(* triggers that mark and unmark orphans, and the daily cleanup.           *)
(*                                                                         *)
(* A write is a transaction with a statement and a commit of its own.      *)
(* PostgreSQL runs them READ COMMITTED: a statement, and each query of a   *)
(* trigger, sees what is committed when it starts.                         *)
(***************************************************************************)
EXTENDS Integers, FiniteSets, FiniteSetsExt

CONSTANTS
  Users,
  FeedItems,       \* dedup keys of RSS articles, <<hash, feed>>
  Pages,           \* dedup keys of saved pages, <<hash, url>>
  Ingest,          \* the service that delivers feed items, a caller like a user
  Ids,             \* row ids of contents, in the order they are drawn
  BatchSize,       \* CleanupJob.batchSize
  FeedRetention, OrphanRetention, \* in ticks of the clock
  MaxTime, MaxRequests, MaxFaults \* bounds

Keys    == FeedItems \cup Pages
Callers == Users \cup {Ingest}

ASSUME ContentStoreAssumption ==
  /\ FeedItems \cap Pages = {} /\ Ingest \notin Users
  /\ {"unborn", "gone"} \cap Keys = {} \* no dedup key
  /\ Ids \subseteq Nat \ {0} /\ IsFiniteSet(Ids)
  /\ BatchSize \in Nat \ {0}
  /\ {FeedRetention, OrphanRetention, MaxTime, MaxRequests, MaxFaults} \subseteq Nat

Never == -1 \* orphaned_at IS NULL
Times == 0..MaxTime
Pairs == Users \X Ids

Link == [list : {"feed", "reads"}, archived : BOOLEAN, favorite : BOOLEAN, added : Times]
Unlinked == [list |-> "none"]

VARIABLES
  contents,   \* each id: not inserted yet, a row, or deleted
  links,      \* user_contents, by <<user_id, content_id>>
  routes,     \* source_routes of the feed; no row means Reads
  req,        \* the request each caller has in progress
  job,        \* the cleanup job
  now, requests, faults,
  overlapped  \* history: articles two transactions have worked on at once

vars == <<contents, links, routes, req, job, now, requests, faults, overlapped>>

Unborn == [key |-> "unborn"]
Gone   == [key |-> "gone"]
Row    == [key : Keys, orphaned : {Never} \cup Times]

IsRow(i)   == contents[i] \notin {Unborn, Gone}
HasLink(p) == links[p] # Unlinked
LinksOf(i) == {p \in Users \X {i} : HasLink(p)}
RowsOf(k)  == {i \in Ids : contents[i].key = k}

-----------------------------------------------------------------------------
(* Transactions.  A caller's open transaction is part of its request, the  *)
(* expiry's of the job.                                                    *)

Nobody == [stage |-> "idle"]

Inserting(c) == IF req[c].stage = "inserting" THEN req[c].rows ELSE {}
Deleting(c)  == IF req[c].stage = "deleting" THEN req[c].rows ELSE {}
Picked       == IF job.stage \in {"expire", "expiring"} THEN job.picked ELSE {}
Doomed       == IF job.stage = "orphans" THEN job.picked ELSE {}

\* A row another transaction has written cannot be written before it ends.
Unlocked(rows) ==
  /\ \A c \in Callers : rows \cap (Inserting(c) \cup Deleting(c)) = {}
  /\ job.stage = "expiring" => rows \cap job.picked = {}

Articles(rows) == {p[2] : p \in rows}

BusyInserting == UNION {Articles(Inserting(c)) : c \in Callers}
BusyDeleting  == (UNION {Articles(Deleting(c)) : c \in Callers})
                   \cup Articles(Picked) \cup Doomed

Overlap(ids, others) == overlapped' = overlapped \cup (ids \cap others)

\* Altered: the row being deleted still counts; other links do not.
MarksOrphansTooEarly(rows) == {i \in Articles(rows) : LinksOf(i) = {}}
MarksOrphansUnasked(rows)  == Articles(rows)

\* mark_content_orphaned, after each deleted row: is no other link visible?
MarksOrphans(rows) == {i \in Articles(rows) : LinksOf(i) \subseteq rows}

\* clear_orphaned_status, after each inserted row.
ClearsOrphans(rows) == {i \in Articles(rows) : contents[i].orphaned # Never}

SetOrphaned(ids, t) ==
  contents' = [i \in Ids |-> IF i \in ids /\ IsRow(i)
                             THEN [contents[i] EXCEPT !.orphaned = t] ELSE contents[i]]

-----------------------------------------------------------------------------
(* Creating content: a lookup by dedup key, then the insert.               *)

Begin(c, r) ==
  /\ req[c] = Nobody /\ requests < MaxRequests
  /\ requests' = requests + 1
  /\ req' = [req EXCEPT ![c] = r]

\* GetByContentHashAndFeedID and ...AndURL: no row is not an error.
LookUp(c, k) ==
  /\ \/ \E i \in RowsOf(k) : Begin(c, [stage |-> "link", id |-> i])
     \/ RowsOf(k) = {} /\ Begin(c, [stage |-> "create", key |-> k])
  /\ UNCHANGED <<contents, links, routes, job, now, faults, overlapped>>

\* CreateFromURL of a page a user saves.
SavePage(u) == \E k \in Pages : LookUp(u, k)

\* BulkCreateFromHTML of an item the fetcher delivers.
BulkCreateContent == \E k \in FeedItems : LookUp(Ingest, k)

Fresh == {i \in Ids : contents[i] = Unborn /\ \A j \in Ids : j < i => contents[j] # Unborn}

\* Altered: no unique index, as before migration 000004.
InsertUnchecked(k, i) ==
  i \in Fresh /\ contents' = [contents EXCEPT ![i] = [key |-> k, orphaned |-> Never]]

\* A row that holds the dedup key by now is returned in place of the new one.
Upsert(k, i) ==
  IF RowsOf(k) # {}
  THEN i \in RowsOf(k) /\ UNCHANGED contents
  ELSE i \in Fresh /\ contents' = [contents EXCEPT ![i] = [key |-> k, orphaned |-> Never]]

Create(c) ==
  /\ req[c].stage = "create"
  /\ \E i \in Ids : /\ Upsert(req[c].key, i)
                    /\ req' = [req EXCEPT ![c] = [stage |-> "link", id |-> i]]
  /\ UNCHANGED <<links, routes, job, now, requests, faults, overlapped>>

\* Every column by id, the dedup key's too: the unique index refuses a key
\* that another row of the source holds.
Update(i, k) ==
  /\ \E S \in {FeedItems, Pages} : {contents[i].key, k} \subseteq S
  /\ RowsOf(k) \subseteq {i}
  /\ contents' = [contents EXCEPT ![i].key = k]

\* New HTML has a new hash; the readers and the orphan mark stay.
UpdateContent(i) ==
  /\ IsRow(i) /\ requests < MaxRequests
  /\ requests' = requests + 1
  /\ \E k \in Keys \ {contents[i].key} : Update(i, k)
  /\ UNCHANGED <<links, routes, req, job, now, faults, overlapped>>

-----------------------------------------------------------------------------
(* Linking it to users.                                                    *)

EndRequest(c) == req' = [req EXCEPT ![c] = Nobody]

\* GetByUserAndContent, and 409 when the user has it and has not archived it.
CheckExisting(u) ==
  LET p == <<u, req[u].id>> IN
  /\ u \in Users /\ req[u].stage = "link"
  /\ IF ~HasLink(p)
     THEN req' = [req EXCEPT ![u] = [stage |-> "add", id |-> p[2]]]
     ELSE IF links[p].archived
     THEN req' = [req EXCEPT ![u] = [stage |-> "unarchive", id |-> p[2]]]
     ELSE EndRequest(u)
  /\ UNCHANGED <<contents, links, routes, job, now, requests, faults, overlapped>>

\* The submission of a content id starts by seeing that the content exists.
SaveById(u) ==
  /\ \E i \in Ids : IsRow(i) /\ Begin(u, [stage |-> "link", id |-> i])
  /\ UNCHANGED <<contents, links, routes, job, now, faults, overlapped>>

\* The statement of an insert: rows the conflict clause leaves out are not in
\* it, and the foreign key fails when the article is gone.
Insert(c, i, rows, list) ==
  IF IsRow(i) /\ rows # {}
  THEN /\ Unlocked(rows)
       /\ req' = [req EXCEPT ![c] = [stage |-> "inserting", rows |-> rows, list |-> list,
                                     clears |-> ClearsOrphans(rows)]]
       /\ Overlap({i}, BusyDeleting)
  ELSE EndRequest(c) /\ UNCHANGED overlapped

\* createOrUnarchive without an archived row: Create, which lands in Reads
\* and fails when the pair exists by now.
AddLink(u) ==
  /\ req[u].stage = "add"
  /\ LET p == <<u, req[u].id>> IN
       Insert(u, p[2], IF HasLink(p) THEN {} ELSE {p}, [v \in Users |-> "reads"])
  /\ UNCHANGED <<contents, links, routes, job, now, requests, faults>>

\* One transaction for all: the insert resolves each user's route, and leaves
\* a pair that exists alone.
BulkCreate(c, i, us) == Insert(c, i, {p \in us \X {i} : ~HasLink(p)}, routes)

BulkAddToUsers ==
  /\ req[Ingest].stage = "link"
  /\ \E us \in SUBSET Users \ {{}} : BulkCreate(Ingest, req[Ingest].id, us)
  /\ UNCHANGED <<contents, links, routes, job, now, requests, faults>>

CommitInsert(c) ==
  /\ req[c].stage = "inserting"
  /\ LET r == req[c] IN
     /\ links' = [p \in Pairs |->
          IF p \in r.rows
          THEN [list |-> r.list[p[1]], archived |-> FALSE, favorite |-> FALSE, added |-> now]
          ELSE links[p]]
     /\ SetOrphaned(r.clears, Never)
  /\ EndRequest(c)
  /\ UNCHANGED <<routes, job, now, requests, faults, overlapped>>

\* UpdateMetadata by row id: an update that finds no row is an error.  One
\* that meets a row picked for deletion goes first, and the row goes too.
UpdateMetadata(p, link) ==
  /\ Unlocked({p})
  /\ links' = [links EXCEPT ![p] = link]
  /\ Overlap({p[2]}, IF p \in Picked THEN {p[2]} ELSE {})

\* createOrUnarchive with an archived row: the status, and nothing else.
Unarchive(u) ==
  /\ req[u].stage = "unarchive"
  /\ LET p == <<u, req[u].id>> IN
       IF HasLink(p) THEN UpdateMetadata(p, [links[p] EXCEPT !.archived = FALSE])
                     ELSE UNCHANGED <<links, overlapped>>
  /\ EndRequest(u)
  /\ UNCHANGED <<contents, routes, job, now, requests, faults>>

\* PATCH of one field.  An item moved into Reads is newly saved there.
UpdateUserContent(u) ==
  /\ req[u] = Nobody /\ requests < MaxRequests
  /\ requests' = requests + 1
  /\ \E p \in {u} \X Ids :
       /\ HasLink(p)
       /\ \/ UpdateMetadata(p, [links[p] EXCEPT !.archived = ~@])
          \/ UpdateMetadata(p, [links[p] EXCEPT !.favorite = ~@])
          \/ UpdateMetadata(p, [links[p] EXCEPT !.list = "feed"])
          \/ UpdateMetadata(p, [links[p] EXCEPT
               !.list = "reads", !.added = IF links[p].list # "reads" THEN now ELSE @])
  /\ UNCHANGED <<contents, routes, req, job, now, faults>>

SetSourceList(u) ==
  /\ requests < MaxRequests
  /\ requests' = requests + 1
  /\ \E list \in {"feed", "reads"} : routes' = [routes EXCEPT ![u] = list]
  /\ UNCHANGED <<contents, links, req, job, now, faults, overlapped>>

Delete(u, p) ==
  /\ HasLink(p) /\ Unlocked({p})
  /\ Begin(u, [stage |-> "deleting", rows |-> {p}, marks |-> MarksOrphans({p})])
  /\ Overlap({p[2]}, BusyInserting \cup BusyDeleting)

DeleteUserContent(u) ==
  /\ \E p \in {u} \X Ids : Delete(u, p)
  /\ UNCHANGED <<contents, links, routes, job, now, faults>>

Without(rows) == links' = [p \in Pairs |-> IF p \in rows THEN Unlinked ELSE links[p]]

CommitDelete(u) ==
  /\ req[u].stage = "deleting"
  /\ Without(req[u].rows)
  /\ SetOrphaned(req[u].marks, now)
  /\ EndRequest(u)
  /\ UNCHANGED <<routes, job, now, requests, faults, overlapped>>

-----------------------------------------------------------------------------
(* The cleanup job: two drains, each a loop of batches that ends when a    *)
(* batch deletes nothing or fails.  The inner SELECT of a batch reads the  *)
(* statement's snapshot, the outer DELETE the rows' latest versions, and   *)
(* it checks no more than their ids.                                       *)

Old(t, retention) == t # Never /\ t < now - retention

\* list = 'feed' AND is_favorite = false AND added_at < cutoff
Expired(p) == /\ links[p] # Unlinked
              /\ links[p].list = "feed" /\ ~links[p].favorite
              /\ Old(links[p].added, FeedRetention)

\* orphaned_at IS NOT NULL AND orphaned_at < cutoff
Reclaimable(i) == IsRow(i) /\ Old(contents[i].orphaned, OrphanRetention)

\* Altered: a batch size of 0 is taken as it is.
EmptyBatches(S) == {B \in SUBSET S : Cardinality(B) = 0}

Batches(S) == {B \in SUBSET S : Cardinality(B) = Min({BatchSize, Cardinality(S)})}

AtWork(stage, picked) == job' = [stage |-> stage, picked |-> picked]

\* Run: the feed items first, so that what they orphan is left to later runs.
StartCleanup == job.stage = "idle" /\ AtWork("drain", {})

SelectExpired ==
  /\ job.stage = "drain"
  /\ \E B \in Batches({p \in Pairs : Expired(p)}) :
       IF B = {} THEN AtWork("drainOrphans", {}) /\ UNCHANGED overlapped
       ELSE AtWork("expire", B) /\ Overlap(Articles(B), BusyInserting \cup BusyDeleting)

DeleteExpired ==
  LET rows == {p \in job.picked : HasLink(p)} IN
  /\ job.stage = "expire"
  /\ Unlocked(job.picked)
  /\ IF rows = {} THEN AtWork("drainOrphans", {}) /\ UNCHANGED overlapped
     ELSE /\ job' = [stage |-> "expiring", picked |-> rows, marks |-> MarksOrphans(rows)]
          /\ Overlap(Articles(rows), BusyInserting \cup UNION {Articles(Deleting(u)) : u \in Users})

CommitExpired ==
  /\ job.stage = "expiring"
  /\ Without(job.picked)
  /\ SetOrphaned(job.marks, now)
  /\ AtWork("drain", {})

SelectOrphaned ==
  /\ job.stage = "drainOrphans"
  /\ \E B \in Batches({i \in Ids : Reclaimable(i)}) :
       IF B = {} THEN AtWork("idle", {}) /\ UNCHANGED overlapped
       ELSE AtWork("orphans", B) /\ Overlap(B, BusyInserting)

\* The foreign key cascades to the links there are.
DeleteOrphaned ==
  /\ job.stage = "orphans"
  /\ job.picked \cap (BusyInserting \cup UNION {Articles(Deleting(u)) : u \in Users}) = {}
  /\ contents' = [i \in Ids |-> IF i \in job.picked THEN Gone ELSE contents[i]]
  /\ Without({p \in Pairs : p[2] \in job.picked})
  /\ AtWork("drainOrphans", {})

\* A statement fails and its drain ends, or the worker dies: the transaction
\* is rolled back either way.
CleanupFails ==
  /\ job.stage # "idle" /\ faults < MaxFaults
  /\ faults' = faults + 1
  /\ \E stage \in {"idle", "drainOrphans"} : AtWork(stage, {})

Cleanup ==
  \/ StartCleanup /\ UNCHANGED <<contents, links, faults, overlapped>>
  \/ (SelectExpired \/ DeleteExpired \/ SelectOrphaned) /\ UNCHANGED <<contents, links, faults>>
  \/ (CommitExpired \/ DeleteOrphaned) /\ UNCHANGED <<faults, overlapped>>

CleanupStep == Cleanup /\ UNCHANGED <<routes, req, now, requests>>
CleanupFailure == CleanupFails /\ UNCHANGED <<contents, links, routes, req, now, requests, overlapped>>

-----------------------------------------------------------------------------
(* A request and a run of the job take far less than a retention period.   *)
Tick ==
  /\ now < MaxTime /\ job.stage = "idle" /\ \A c \in Callers : req[c] = Nobody
  /\ now' = now + 1
  /\ UNCHANGED <<contents, links, routes, req, job, requests, faults, overlapped>>

Finish(c) == \/ Create(c) \/ CheckExisting(c) \/ AddLink(c) \/ Unarchive(c)
             \/ (c = Ingest /\ BulkAddToUsers)
             \/ CommitInsert(c) \/ CommitDelete(c)

Init ==
  /\ contents = [i \in Ids |-> Unborn]
  /\ links = [p \in Pairs |-> Unlinked]
  /\ routes = [u \in Users |-> "reads"]
  /\ req = [c \in Callers |-> Nobody]
  /\ job = [stage |-> "idle", picked |-> {}]
  /\ now = 0 /\ requests = 0 /\ faults = 0 /\ overlapped = {}

Next ==
  \/ \E u \in Users : \/ SavePage(u) \/ SaveById(u) \/ UpdateUserContent(u)
                      \/ SetSourceList(u) \/ DeleteUserContent(u)
  \/ BulkCreateContent
  \/ \E i \in Ids : UpdateContent(i)
  \/ \E c \in Callers : Finish(c)
  \/ CleanupStep \/ CleanupFailure \/ Tick

\* Requests run to their end, cron starts the job, and days pass.
Fairness ==
  WF_vars(\E c \in Callers : Finish(c)) /\ WF_vars(CleanupStep) /\ WF_vars(Tick)

Spec == Init /\ [][Next]_vars /\ Fairness

-----------------------------------------------------------------------------
(* Properties.  What holds of an article only as long as no two            *)
(* transactions work on it at once says so: i \in overlapped.              *)

Stages == {"idle", "create", "link", "add", "unarchive", "inserting", "deleting"}

\* Every variable has its type, and what the tables promise holds however
\* requests race: a link is to an article that is there (the foreign key), and
\* an article is stored once (the dedup indexes, and the insert that returns
\* the row it collides with).
TypeOK ==
  /\ contents \in [Ids -> Row \cup {Unborn, Gone}]
  /\ links \in [Pairs -> Link \cup {Unlinked}]
  /\ routes \in [Users -> {"feed", "reads"}]
  /\ \A c \in Callers : req[c].stage \in Stages
  /\ job.stage \in {"idle", "drain", "expire", "expiring", "drainOrphans", "orphans"}
  /\ now \in Times /\ requests \in 0..MaxRequests /\ faults \in 0..MaxFaults
  /\ overlapped \subseteq Ids
  /\ \A p \in Pairs : HasLink(p) => IsRow(p[2])
  /\ \A k \in Keys : Cardinality(RowsOf(k)) <= 1

\* A marked article has no reader: in 90 days the cleanup would take it from
\* him.  And when the last reader goes, by a delete or by expiry, the article
\* is left marked, or nothing would ever reclaim it.
MarksFollowReaders ==
  [][\A i \in Ids \ overlapped' :
       IsRow(i)' =>
         /\ contents'[i].orphaned # Never => LinksOf(i)' = {}
         /\ LinksOf(i) # {} /\ LinksOf(i)' = {} => contents'[i].orphaned # Never]_vars

\* What a reader has, only he deletes, or the cleanup when it sat in Feed for
\* its time and is no favorite: deleting orphans takes nothing from anybody.
SavedStays ==
  [][\A p \in Pairs :
       HasLink(p) /\ ~HasLink(p)'
         => \/ req[p[1]].stage = "deleting"
            \/ Expired(p)
            \/ p[2] \in overlapped]_vars

\* The drains catch up: time and again nothing is overdue, whatever fails.
CleanupCatchesUp ==
  []<>(/\ \A p \in Pairs : ~Expired(p)
       /\ \A i \in Ids : ~Reclaimable(i))

\* "saved pages always go to Reads": what a user saves is in Reads when the
\* request is answered.
SavedPageInReads ==
  [][\A u \in Users : \A i \in Ids :
       /\ \/ req[u].stage = "inserting" /\ <<u, i>> \in req[u].rows
          \/ req[u].stage = "unarchive" /\ req[u].id = i /\ HasLink(<<u, i>>)
       /\ req'[u] = Nobody
       => links'[<<u, i>>].list = "reads"]_vars
=============================================================================
