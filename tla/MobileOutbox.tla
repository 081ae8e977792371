---------------------------- MODULE MobileOutbox ----------------------------
(***************************************************************************)
(* The mobile app's write path for one article: ArticleMutations writes    *)
(* the local store, then sends the write to the server itself, and queues  *)
(* it in the outbox only when that fails.  SyncTrigger drains the outbox,  *)
(* and a refresh of the Reads list upserts the server's state into the     *)
(* store.  All three run interleaved at their awaits.                      *)
(*                                                                         *)
(* A write is a number: the n-th the user makes.  What it sets the field   *)
(* to only matters for the status, where it may be an archive.             *)
(***************************************************************************)
EXTENDS Naturals, Sequences, FiniteSets

CONSTANTS
  Fields,     \* fields of the article, "status" among them
  MaxWrites,  \* bound on the user's writes
  MaxFailures \* bound on failed requests

ASSUME MobileOutboxAssumption ==
  /\ "status" \in Fields /\ IsFiniteSet(Fields)
  /\ MaxWrites \in Nat /\ MaxFailures \in Nat

VARIABLES
  present,  \* has the store a row for the article?
  store,    \* the user-state columns of that row
  rows,     \* outbox, by created_at
  server,   \* the user's content on the server
  live,     \* writes that ArticleMutations is sending
  todo,     \* rows that the drain in progress read
  arrived,  \* did the drain's current request reach the server?
  sync,     \* the list page being upserted
  writes, newest, archives, \* the user's writes, the last one per field,
                            \* and those that archive
  hasty,    \* fields written while an earlier write was on its way, or whose
            \* write the end of the app cut off
  failures

vars == <<present, store, rows, server, live, todo, arrived, sync, writes,
          newest, archives, hasty, failures>>
userVars  == <<writes, newest, archives, hasty>>
storeVars == <<present, store>>
drainVars == <<todo, arrived>>

Writes == 0..MaxWrites
NoSync == [listed |-> FALSE, page |-> [f \in Fields |-> 0], open |-> FALSE]

Archived(n)  == n \in archives
Row(f, n)    == [field |-> f, payload |-> n]
HasRow(f)    == \E i \in 1..Len(rows) : rows[i].field = f
Busy(f)      == \/ HasRow(f)
                \/ \E w \in live : w.field = f
                \/ \E i \in 1..Len(todo) : todo[i].field = f
Failure      == failures < MaxFailures /\ failures' = failures + 1

-----------------------------------------------------------------------------
(* Outbox.                                                                 *)

Appended(f, n) == Append(rows, Row(f, n))

\* ENQUEUE_SQL: a later write of the field takes the earlier one's place.
Enqueued(f, n) ==
  IF HasRow(f)
  THEN [i \in 1..Len(rows) |-> IF rows[i].field = f THEN Row(f, n) ELSE rows[i]]
  ELSE Append(rows, Row(f, n))

\* DELETE by the key, which at most one row has.
Position(f) == CHOOSE i \in 1..Len(rows) : rows[i].field = f
Deleted(f) ==
  IF HasRow(f)
  THEN [i \in 1..(Len(rows) - 1) |-> rows[IF i < Position(f) THEN i ELSE i + 1]]
  ELSE rows

\* SyncTrigger.run does not start a second drain.
DrainStart ==
  /\ todo = <<>> /\ rows # <<>>
  /\ todo' = rows /\ arrived' = FALSE
  /\ UNCHANGED <<storeVars, rows, server, live, sync, userVars, failures>>

DrainArrives ==
  /\ todo # <<>> /\ ~arrived
  /\ server' = [server EXCEPT ![Head(todo).field] = Head(todo).payload]
  /\ arrived' = TRUE
  /\ UNCHANGED <<storeVars, rows, live, todo, sync, userVars, failures>>

DrainKeepsRow ==
  /\ todo # <<>> /\ arrived
  /\ todo' = Tail(todo) /\ arrived' = FALSE
  /\ UNCHANGED <<storeVars, rows, server, live, sync, userVars, failures>>

\* The row is deleted by its key, whatever its payload is by now.
DrainAnswered ==
  /\ todo # <<>> /\ arrived
  /\ rows' = Deleted(Head(todo).field)
  /\ todo' = Tail(todo) /\ arrived' = FALSE
  /\ UNCHANGED <<storeVars, server, live, sync, userVars, failures>>

DrainSkips ==
  /\ todo # <<>>
  /\ todo' = Tail(todo) /\ arrived' = FALSE
  /\ Failure
  /\ UNCHANGED <<storeVars, rows, server, live, sync, userVars>>

\* No answer, a 401 or a 5xx stops the drain, whether or not the request got
\* through.
DrainHalts ==
  /\ todo # <<>>
  /\ todo' = <<>> /\ arrived' = FALSE
  /\ Failure
  /\ UNCHANGED <<storeVars, rows, server, live, sync, userVars>>

-----------------------------------------------------------------------------
(* ArticleMutations.                                                       *)

NewWrite(f) ==
  /\ present /\ writes < MaxWrites
  /\ writes' = writes + 1
  /\ newest' = [newest EXCEPT ![f] = writes + 1]
  /\ hasty' = IF Busy(f) THEN hasty \cup {f} ELSE hasty
  /\ live' = live \cup {[field |-> f, payload |-> writes + 1, arrived |-> FALSE]}

\* setFavorite, saveScrollPosition, markCompleted.
Write(f) ==
  /\ NewWrite(f)
  /\ store' = [store EXCEPT ![f] = writes + 1]
  /\ UNCHANGED <<present, rows, server, drainVars, sync, archives, failures>>

Archive ==
  /\ NewWrite("status")
  /\ archives' = archives \cup {writes + 1}
  /\ present' = FALSE
  /\ UNCHANGED <<store, rows, server, drainVars, sync, failures>>

LiveArrives(w) ==
  /\ w \in live /\ ~w.arrived
  /\ server' = [server EXCEPT ![w.field] = w.payload]
  /\ live' = (live \ {w}) \cup {[w EXCEPT !.arrived = TRUE]}
  /\ UNCHANGED <<storeVars, rows, drainVars, sync, userVars, failures>>

LiveAnswered(w) ==
  /\ w \in live /\ w.arrived
  /\ live' = live \ {w}
  /\ UNCHANGED <<storeVars, rows, server, drainVars, sync, userVars, failures>>

LiveForgotten(w) ==
  /\ w \in live
  /\ live' = live \ {w}
  /\ Failure
  /\ UNCHANGED <<storeVars, rows, server, drainVars, sync, userVars>>

\* withOutboxOnRetryableError.
LiveFails(w) ==
  /\ w \in live
  /\ live' = live \ {w}
  /\ rows' = Enqueued(w.field, w.payload)
  /\ Failure
  /\ UNCHANGED <<storeVars, server, drainVars, sync, userVars>>

-----------------------------------------------------------------------------
(* ReadsScreen: fetch the list, then ArticleStore.upsertMany.              *)

SyncFetch ==
  /\ ~sync.open
  /\ sync' = [listed |-> ~Archived(server["status"]), page |-> server,
              open |-> TRUE]
  /\ UNCHANGED <<storeVars, rows, server, live, drainVars, userVars, failures>>

InsertOrIgnore ==
  /\ sync.open
  /\ sync' = NoSync
  /\ IF sync.listed /\ ~present
     THEN present' = TRUE /\ store' = sync.page
     ELSE UNCHANGED storeVars
  /\ UNCHANGED <<rows, server, live, drainVars, userVars, failures>>

\* UPSERT_SQL.  A queued archive keeps the article out; any other queued
\* write of the article freezes the user's columns of an existing row.
UpsertMany ==
  /\ sync.open
  /\ sync' = NoSync
  /\ IF /\ sync.listed
        /\ \A i \in 1..Len(rows) : ~Archived(rows[i].payload)
     THEN /\ present' = TRUE
          /\ store' = IF present /\ rows # <<>> THEN store ELSE sync.page
     ELSE UNCHANGED storeVars
  /\ UNCHANGED <<rows, server, live, drainVars, userVars, failures>>

-----------------------------------------------------------------------------
\* The app is killed and started again: what is in SQLite stays, what is in
\* memory or on its way is gone.
Kill ==
  /\ live # {} \/ todo # <<>> \/ sync.open
  /\ live' = {} /\ todo' = <<>> /\ arrived' = FALSE /\ sync' = NoSync
  /\ hasty' = hasty \cup {w.field : w \in live}
  /\ Failure
  /\ UNCHANGED <<storeVars, rows, server, writes, newest, archives>>

-----------------------------------------------------------------------------
Init ==
  /\ present = TRUE
  /\ store = [f \in Fields |-> 0] /\ server = [f \in Fields |-> 0]
  /\ rows = <<>> /\ live = {}
  /\ todo = <<>> /\ arrived = FALSE
  /\ sync = NoSync
  /\ writes = 0 /\ newest = [f \in Fields |-> 0] /\ archives = {}
  /\ hasty = {}
  /\ failures = 0

Drain == DrainStart \/ DrainArrives \/ DrainAnswered \/ DrainHalts
Live  == \E w \in live : LiveArrives(w) \/ LiveAnswered(w) \/ LiveFails(w)
Sync  == SyncFetch \/ UpsertMany
User  == Archive \/ \E f \in Fields : Write(f)

Next == Drain \/ Live \/ Sync \/ User \/ Kill

Spec == Init /\ [][Next]_vars

\* The user keeps coming back to the app and to the list: each time, requests
\* get an answer or fail, and the queue is drained.
FairSpec == Spec /\ WF_vars(Drain) /\ WF_vars(Live) /\ WF_vars(Sync)

-----------------------------------------------------------------------------
(* Properties.                                                             *)

Requests == [field : Fields, payload : Writes, arrived : BOOLEAN]
Queues   == UNION {[1..n -> [field : Fields, payload : Writes]] :
                     n \in 0..Cardinality(Fields)}

\* The variables have their types, and no field is queued twice.
TypeOK ==
  /\ present \in BOOLEAN /\ arrived \in BOOLEAN
  /\ {store, server, newest} \subseteq [Fields -> Writes]
  /\ rows \in Queues /\ todo \in Queues
  /\ \A i, j \in 1..Len(rows) : rows[i].field = rows[j].field => i = j
  /\ live \in SUBSET Requests
  /\ sync \in [listed : BOOLEAN, page : [Fields -> Writes], open : BOOLEAN]
  /\ writes \in Writes /\ archives \in SUBSET Writes
  /\ hasty \in SUBSET Fields
  /\ failures \in 0..MaxFailures

\* A queued write never reaches the server ahead of an earlier one that is
\* still queued, even when new ones join or replace queued ones meanwhile.
InQueueOrder ==
  [][DrainArrives => rows # <<>> /\ rows[1].field = Head(todo).field]_vars

\* Once nothing is on its way or queued, the server has the user's last word
\* on every field whose writes the user let get through one by one, also when
\* the app was killed in the middle of a drain.  A write in haste may be
\* overtaken by the one before, live or queued; a live write that the end of
\* the app cuts off may be lost.
ServerHasNewest ==
  live = {} /\ rows = <<>> /\ todo = <<>> =>
    \A f \in Fields \ hasty : server[f] = newest[f]

\* Docs: a write that fails is queued rather than lost.  So the write that
\* leaves the queue is the one the drain has sent.
QueuedWriteIsSent ==
  [][\A i \in 1..Len(rows) :
       (\A j \in 1..Len(rows') : rows'[j].field # rows[i].field) =>
         todo # <<>> /\ Head(todo) = rows[i]]_vars

\* An outage is made up for: the queue is empty again some day.
QueueDrains == rows # <<>> ~> rows = <<>>

\* Whatever refreshes did to the store in between, it ends up as the server
\* has it, for an article that is still listed.
StoreConverges ==
  <>[](present /\ ~Archived(server["status"]) => store = server)

=============================================================================
