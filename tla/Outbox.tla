------------------------------- MODULE Outbox -------------------------------
(***************************************************************************)
(* The RSS fetcher's content_outbox table and the OutboxWorker pool that   *)
(* delivers its rows to the Content Service.                               *)
(*                                                                         *)
(* The table outlives the process; the poller's batch, the bounded queue   *)
(* and the workers do not.  Rows are claimed with a lease, so the table    *)
(* never says who holds a row: what a worker holds is a snapshot, and      *)
(* every write it makes later is by id only.                               *)
(*                                                                         *)
(* Time is abstract: `due' is next_retry_at <= now(), `leased' is          *)
(* lease_expires_at >= now(), and time passes in BecomeDue and             *)
(* LeaseExpires.                                                           *)
(***************************************************************************)
EXTENDS Naturals, Sequences, FiniteSets

CONSTANTS
  Entries,      \* ids of the rows the item processor will ever insert
  Users,        \* the subscribers
  Recipients,   \* [Entries -> SUBSET Users], the row's user_ids
  EmptyPages,   \* entries whose article page came back with an empty body
  Workers,      \* worker goroutines (OutboxWorkerConfig.WorkerCount)
  NoEntry,      \* what an idle worker holds
  MaxRetries,   \* content_outbox.max_retries
  BatchSize,    \* OutboxWorkerConfig.BatchSize
  QueueSize,    \* capacity of outboxQueue
  BulkLimit,    \* items AddContentToUsers accepts in one request
  FlakyService, \* may a request to the Content Service fail or time out?
  LeaseOutlivesDelivery,
                \* does every claim reach its last write within the lease?
  MaxFaults     \* bound on crashes, stops, panics and database errors

ASSUME OutboxAssumption ==
  /\ Workers # {}
  /\ NoEntry \notin Entries
  /\ Recipients \in [Entries -> (SUBSET Users) \ {{}}]
  /\ EmptyPages \subseteq Entries
  /\ MaxRetries \in Nat \ {0}
  /\ BatchSize \in Nat \ {0}
  /\ QueueSize \in Nat \ {0}
  /\ BulkLimit \in Nat
  /\ FlakyService \in BOOLEAN
  /\ LeaseOutlivesDelivery \in BOOLEAN
  /\ MaxFaults \in Nat

VARIABLES
  status,   \* delivery_status of each row; "absent" before Create, "purged"
            \* once the outbox cleanup deleted it, "gone" once its feed item
            \* was deleted and the row with it
  retries,  \* retry_count
  due,      \* next_retry_at has passed
  leased,   \* lease_expires_at has not passed
  stamped,  \* entries whose feed item carries the content id
  stored,   \* entries whose article is in the Content Service
  granted,  \* users whose list received the entry's article
  phase,    \* the pool: "up", "stopping", "draining" or "down"
  batch,    \* entries the poller claimed and has not queued yet
  queue,    \* outboxQueue
  wpc,      \* where each worker is in processOutboxEntry
  wentry,   \* the entry it works on
  faults    \* faults so far

rowVars     == <<status, retries, due, leased>>
contentVars == <<stored, granted>>
workerVars  == <<wpc, wentry>>
vars == <<status, retries, due, leased, stamped, stored, granted,
          phase, batch, queue, wpc, wentry, faults>>

Statuses == {"absent", "pending", "sending", "delivered", "failed",
             "purged", "gone"}
Busy     == {"create", "add", "mark", "stamp", "fail"}

RowExists(e) == status[e] \in {"pending", "sending", "delivered", "failed"}

InQueue(e)  == \E i \in 1..Len(queue) : queue[i] = e
InFlight(e) == e \in batch \/ InQueue(e) \/ \E w \in Workers : wentry[w] = e

Fault   == faults < MaxFaults /\ faults' = faults + 1
NoFault == UNCHANGED faults

-----------------------------------------------------------------------------
(* OutboxRepository                                                        *)

\* Insert a row that is due at once.
Create(e) ==
  /\ status[e] = "absent"
  /\ status'  = [status EXCEPT ![e] = "pending"]
  /\ due'     = [due EXCEPT ![e] = TRUE]
  /\ UNCHANGED <<retries, leased>>

\* X6, before the lease: only pending rows are selected.
ClaimIgnoringSending ==
  {e \in Entries : due[e] /\ retries[e] < MaxRetries /\ status[e] = "pending"}

ClaimIgnoringLease ==
  {e \in Entries : /\ due[e] /\ retries[e] < MaxRetries
                   /\ status[e] \in {"pending", "sending"}}

\* The selector of GetPendingEntries.
Claimable ==
  {e \in Entries : /\ due[e]
                   /\ retries[e] < MaxRetries
                   /\ \/ status[e] = "pending"
                      \/ status[e] = "sending" /\ ~leased[e]}

\* One statement claims as many of the claimable rows as the LIMIT allows.
GetPendingEntries(S) ==
  /\ S \subseteq Claimable
  /\ \/ Cardinality(S) = BatchSize
     \/ S = Claimable /\ Cardinality(S) < BatchSize
  /\ status' = [e \in Entries |-> IF e \in S THEN "sending" ELSE status[e]]
  /\ leased' = [e \in Entries |-> e \in S \/ leased[e]]
  /\ UNCHANGED <<retries, due>>

\* Give up claims without touching delivery_status.
ReleaseClaims(S) ==
  /\ leased' = [e \in Entries |-> leased[e] /\ e \notin S]
  /\ UNCHANGED <<status, retries, due>>

\* UpdateDeliveryStatus(delivered): by id, whatever the row's status is now.
UpdateDeliveryStatus(e) ==
  /\ RowExists(e)
  /\ status' = [status EXCEPT ![e] = "delivered"]
  /\ UNCHANGED <<retries, due, leased>>

IncrementRetryCountOffByOne(e) ==
  /\ RowExists(e)
  /\ LET last == retries[e] + 1 > MaxRetries IN
     /\ status' = [status EXCEPT ![e] = IF last THEN "failed" ELSE "pending"]
     /\ leased' = [leased EXCEPT ![e] = last /\ @]
  /\ retries' = [retries EXCEPT ![e] = @ + 1]
  /\ due'     = [due EXCEPT ![e] = FALSE]

\* A failed attempt: by id too, so it applies to a row that another worker
\* has meanwhile delivered, or has claimed again.
IncrementRetryCount(e) ==
  /\ RowExists(e)
  /\ LET last == retries[e] + 1 >= MaxRetries IN
     /\ status' = [status EXCEPT ![e] = IF last THEN "failed" ELSE "pending"]
     /\ leased' = [leased EXCEPT ![e] = last /\ @]
  /\ retries' = [retries EXCEPT ![e] = @ + 1]
  /\ due'     = [due EXCEPT ![e] = FALSE]

\* DeleteOldDeliveredEntries takes delivered rows only.
DeleteOldDeliveredEntries(e) ==
  /\ status[e] = "delivered"
  /\ status' = [status EXCEPT ![e] = "purged"]
  /\ UNCHANGED <<retries, due, leased>>

-----------------------------------------------------------------------------
(* The Content Service, as a request to it can end.                        *)

\* Both endpoints are idempotent: content is deduplicated, and a user who has
\* the article already is skipped.
BulkCreateContent(e) == stored' = stored \cup {e} /\ UNCHANGED granted

AddContentToUsers(e) ==
  /\ granted' = [granted EXCEPT ![e] = @ \cup Recipients[e]]
  /\ UNCHANGED stored

\* buildContentItem refuses a payload without HTML.
Buildable(e) == e \notin EmptyPages

\* AddContentToUsers refuses more items than one bulk request may carry.
FitsBulkRequest(e) == Cardinality(Recipients[e]) <= BulkLimit

\* doWithRetry gives up: the last attempt failed, yet an attempt whose answer
\* was lost may have taken effect.
GivesUp(Effect) ==
  /\ FlakyService
  /\ Effect \/ UNCHANGED contentVars

-----------------------------------------------------------------------------
(* The poller.  The pool stops in two moves: Stop closes stopCh, and when   *)
(* the poller has returned it closes outboxQueue.                          *)

PollerRuns == phase \in {"up", "stopping"}

\* A tick with no batch in hand.  A statement that commits while its answer
\* is lost leaves the rows claimed by nobody.
Poll ==
  /\ PollerRuns /\ batch = {}
  /\ \E S \in SUBSET Claimable :
       /\ GetPendingEntries(S)
       /\ \/ batch' = S /\ NoFault
          \/ S # {} /\ batch' = {} /\ Fault
  /\ UNCHANGED <<stamped, contentVars, phase, queue, workerVars>>

Enqueue(e) ==
  /\ PollerRuns /\ e \in batch
  /\ Len(queue) < QueueSize
  /\ queue' = Append(queue, e)
  /\ batch' = batch \ {e}
  /\ UNCHANGED <<rowVars, stamped, contentVars, phase, workerVars, faults>>

\* `default' is taken only when neither the queue nor stopCh is ready.
ReleaseFull(e) ==
  /\ phase = "up" /\ e \in batch
  /\ Len(queue) = QueueSize
  /\ \/ ReleaseClaims({e}) /\ NoFault
     \/ UNCHANGED rowVars /\ Fault
  /\ batch' = batch \ {e}
  /\ UNCHANGED <<stamped, contentVars, phase, queue, workerVars>>

\* Stopping in mid-batch: give every claim back, or fail to for some.
ReleaseUnqueued ==
  /\ phase = "stopping" /\ batch # {}
  /\ \/ ReleaseClaims(batch) /\ NoFault
     \/ Fault /\ \E R \in SUBSET batch : ReleaseClaims(R)
  /\ batch' = {}
  /\ UNCHANGED <<stamped, contentVars, phase, queue, workerVars>>

\* recover() in the tick drops the rest of the batch.
PollPanic ==
  /\ PollerRuns /\ batch # {} /\ Fault
  /\ batch' = {}
  /\ UNCHANGED <<rowVars, stamped, contentVars, phase, queue, workerVars>>

PollerExit ==
  /\ phase = "stopping" /\ batch = {}
  /\ phase' = "draining"
  /\ UNCHANGED <<rowVars, stamped, contentVars, batch, queue, workerVars,
                 faults>>

-----------------------------------------------------------------------------
(* A worker and processOutboxEntry, one action per call to another          *)
(* component.                                                              *)

Goto(w, pc) == wpc' = [wpc EXCEPT ![w] = pc] /\ UNCHANGED wentry
Finish(w)   == /\ wpc' = [wpc EXCEPT ![w] = "idle"]
               /\ wentry' = [wentry EXCEPT ![w] = NoEntry]

Take(w) ==
  /\ phase # "down" /\ wpc[w] = "idle" /\ queue # <<>>
  /\ wentry' = [wentry EXCEPT ![w] = Head(queue)]
  /\ wpc'    = [wpc EXCEPT ![w] = "create"]
  /\ queue'  = Tail(queue)
  /\ UNCHANGED <<rowVars, stamped, contentVars, phase, batch, faults>>

\* With stopCh closed select may prefer it to a queue that still has entries.
WorkerExit(w) ==
  /\ phase \in {"stopping", "draining"} /\ wpc[w] = "idle"
  /\ Goto(w, "exited")
  /\ UNCHANGED <<rowVars, stamped, contentVars, phase, batch, queue, faults>>

StepCreate(w) ==
  /\ wpc[w] = "create"
  /\ LET e == wentry[w] IN
     \/ Buildable(e) /\ BulkCreateContent(e) /\ Goto(w, "add")
     \/ Buildable(e) /\ GivesUp(BulkCreateContent(e)) /\ Goto(w, "fail")
     \/ ~Buildable(e) /\ UNCHANGED contentVars /\ Goto(w, "fail")
  /\ UNCHANGED <<rowVars, stamped, phase, batch, queue, faults>>

StepAddIgnoringError(w) ==
  /\ wpc[w] = "add"
  /\ LET e == wentry[w] IN
     \/ FitsBulkRequest(e) /\ AddContentToUsers(e) /\ Goto(w, "mark")
     \/ FitsBulkRequest(e) /\ GivesUp(AddContentToUsers(e)) /\ Goto(w, "mark")
     \/ ~FitsBulkRequest(e) /\ UNCHANGED contentVars /\ Goto(w, "fail")
  /\ UNCHANGED <<rowVars, stamped, phase, batch, queue, faults>>

StepAdd(w) ==
  /\ wpc[w] = "add"
  /\ LET e == wentry[w] IN
     \/ FitsBulkRequest(e) /\ AddContentToUsers(e) /\ Goto(w, "mark")
     \/ FitsBulkRequest(e) /\ GivesUp(AddContentToUsers(e)) /\ Goto(w, "fail")
     \/ ~FitsBulkRequest(e) /\ UNCHANGED contentVars /\ Goto(w, "fail")
  /\ UNCHANGED <<rowVars, stamped, phase, batch, queue, faults>>

\* An error here, the row deleted meanwhile or the database failing before or
\* after the commit, ends the attempt without counting it.
StepMark(w) ==
  /\ wpc[w] = "mark"
  /\ LET e == wentry[w] IN
     \/ UpdateDeliveryStatus(e) /\ Goto(w, "stamp") /\ NoFault
     \/ UpdateDeliveryStatus(e) /\ Finish(w) /\ Fault
     \/ RowExists(e) /\ UNCHANGED rowVars /\ Finish(w) /\ Fault
     \/ ~RowExists(e) /\ UNCHANGED rowVars /\ Finish(w) /\ NoFault
  /\ UNCHANGED <<stamped, contentVars, phase, batch, queue>>

\* Best-effort write-back of the content id to the feed item.
StepStamp(w) ==
  /\ wpc[w] = "stamp"
  /\ LET e == wentry[w] IN
     \/ status[e] # "gone" /\ stamped' = stamped \cup {e} /\ NoFault
     \/ status[e] # "gone" /\ UNCHANGED stamped /\ Fault
     \/ status[e] = "gone" /\ UNCHANGED stamped /\ NoFault
  /\ Finish(w)
  /\ UNCHANGED <<rowVars, contentVars, phase, batch, queue>>

\* handleDeliveryFailure
StepFail(w) ==
  /\ wpc[w] = "fail"
  /\ LET e == wentry[w] IN
     \/ IncrementRetryCount(e) /\ NoFault
     \/ RowExists(e) /\ UNCHANGED rowVars /\ Fault
     \/ ~RowExists(e) /\ UNCHANGED rowVars /\ NoFault
  /\ Finish(w)
  /\ UNCHANGED <<stamped, contentVars, phase, batch, queue>>

\* recover() in processOutboxEntry keeps the worker and drops the entry.
Panic(w) ==
  /\ wpc[w] \in Busy /\ Fault
  /\ Finish(w)
  /\ UNCHANGED <<rowVars, stamped, contentVars, phase, batch, queue>>

-----------------------------------------------------------------------------
(* The process.                                                            *)

AllIdle == /\ wpc'    = [w \in Workers |-> "idle"]
           /\ wentry' = [w \in Workers |-> NoEntry]

Stop ==
  /\ phase = "up" /\ Fault
  /\ phase' = "stopping"
  /\ UNCHANGED <<rowVars, stamped, contentVars, batch, queue, workerVars>>

\* wg.Wait returns; what is still in the channel goes with it.
PoolStopped ==
  /\ phase = "draining"
  /\ \A w \in Workers : wpc[w] = "exited"
  /\ phase' = "down" /\ queue' = <<>>
  /\ UNCHANGED <<rowVars, stamped, contentVars, batch, workerVars, faults>>

Crash ==
  /\ phase # "down" /\ Fault
  /\ phase' = "down" /\ batch' = {} /\ queue' = <<>> /\ AllIdle
  /\ UNCHANGED <<rowVars, stamped, contentVars>>

Start ==
  /\ phase = "down"
  /\ phase' = "up" /\ AllIdle
  /\ UNCHANGED <<rowVars, stamped, contentVars, batch, queue, faults>>

-----------------------------------------------------------------------------
(* The item processor, the cleanup jobs and the clock.                     *)

processVars == <<phase, batch, queue, workerVars>>

CreateEntry(e) ==
  /\ Create(e)
  /\ UNCHANGED <<stamped, contentVars, processVars, faults>>

CleanupDelivered(e) ==
  /\ DeleteOldDeliveredEntries(e)
  /\ UNCHANGED <<stamped, contentVars, processVars, faults>>

\* The feed item is deleted and its outbox rows with it (ON DELETE CASCADE):
\* by the item cleanup, or with its feed.  A row that is still owed goes the
\* same way, which counts as a fault.
DeleteItem(e) ==
  /\ \/ status[e] \in {"delivered", "failed", "purged"} /\ NoFault
     \/ status[e] \in {"pending", "sending"} /\ Fault
  /\ status' = [status EXCEPT ![e] = "gone"]
  /\ stamped' = stamped \ {e}
  /\ UNCHANGED <<retries, due, leased, contentVars, processVars>>

\* Ten minutes pass.
LeaseExpires(e) ==
  /\ status[e] = "sending" /\ leased[e]
  /\ LeaseOutlivesDelivery => ~InFlight(e)
  /\ leased' = [leased EXCEPT ![e] = FALSE]
  /\ UNCHANGED <<status, retries, due, stamped, contentVars, processVars,
                 faults>>

\* The delay of calculateNextRetry passes.
BecomeDue(e) ==
  /\ status[e] = "pending" /\ ~due[e]
  /\ due' = [due EXCEPT ![e] = TRUE]
  /\ UNCHANGED <<status, retries, leased, stamped, contentVars, processVars,
                 faults>>

-----------------------------------------------------------------------------
Init ==
  /\ status  = [e \in Entries |-> "absent"]
  /\ retries = [e \in Entries |-> 0]
  /\ due     = [e \in Entries |-> FALSE]
  /\ leased  = [e \in Entries |-> FALSE]
  /\ stamped = {} /\ stored = {}
  /\ granted = [e \in Entries |-> {}]
  /\ phase = "up" /\ batch = {} /\ queue = <<>>
  /\ wpc     = [w \in Workers |-> "idle"]
  /\ wentry  = [w \in Workers |-> NoEntry]
  /\ faults = 0

PollerStep == \/ Poll
              \/ ReleaseUnqueued
              \/ \E e \in Entries : Enqueue(e) \/ ReleaseFull(e)

WorkerStep(w) == \/ Take(w) \/ WorkerExit(w)
                 \/ StepCreate(w) \/ StepAdd(w) \/ StepMark(w)
                 \/ StepStamp(w) \/ StepFail(w)

EntryStep(e) == \/ CreateEntry(e) \/ CleanupDelivered(e) \/ DeleteItem(e)
                \/ LeaseExpires(e) \/ BecomeDue(e)

Next == \/ PollerStep \/ PollPanic \/ PollerExit
        \/ \E w \in Workers : WorkerStep(w) \/ Panic(w)
        \/ Stop \/ PoolStopped \/ Crash \/ Start
        \/ \E e \in Entries : EntryStep(e)

Spec == Init /\ [][Next]_vars

\* The ticker keeps ticking, goroutines are scheduled, a stopped container is
\* restarted, and time passes.  A select that finds stopCh closed at every
\* turn does not prefer the ticker for ever, hence SF.
Fairness ==
  /\ WF_vars(PollerStep) /\ SF_vars(PollerExit)
  /\ WF_vars(PoolStopped) /\ WF_vars(Start)
  /\ \A w \in Workers : WF_vars(WorkerStep(w))
  /\ \A e \in Entries : WF_vars(LeaseExpires(e)) /\ WF_vars(BecomeDue(e))

FairSpec == Spec /\ Fairness

-----------------------------------------------------------------------------
(* Properties.                                                             *)

\* The variables have their types; in particular the channel never holds
\* more than its capacity, so the poller never blocks on it, and a worker
\* holds an entry exactly while it works.
TypeOK ==
  /\ status \in [Entries -> Statuses]
  /\ retries \in [Entries -> Nat]
  /\ due \in [Entries -> BOOLEAN]
  /\ leased \in [Entries -> BOOLEAN]
  /\ stamped \in SUBSET Entries
  /\ stored \in SUBSET Entries
  /\ granted \in [Entries -> SUBSET Users]
  /\ phase \in {"up", "stopping", "draining", "down"}
  /\ batch \in SUBSET Entries
  /\ queue \in Seq(Entries) /\ Len(queue) <= QueueSize
  /\ wpc \in [Workers -> Busy \cup {"idle", "exited"}]
  /\ wentry \in [Workers -> Entries \cup {NoEntry}]
  /\ \A w \in Workers : wpc[w] \in Busy <=> wentry[w] # NoEntry
  /\ faults \in 0..MaxFaults

\* Nothing is reported delivered that was not: a delivered row and a stamped
\* feed item mean that every user of the row has the article, whatever else
\* timed out, crashed or ran twice on the way.
DeliveredWasGranted ==
  \A e \in Entries :
    status[e] \in {"delivered", "purged"} \/ e \in stamped =>
      e \in stored /\ granted[e] = Recipients[e]

\* The status and the retry count agree, late writes of an expired claim
\* included: a row the poller is to take up again has retries left (the
\* selector would skip it for ever otherwise), and a row is given up only
\* after max_retries counted failures.
NotStranded ==
  \A e \in Entries :
    /\ status[e] \in {"pending", "sending"} => retries[e] < MaxRetries
    /\ status[e] = "failed" => retries[e] >= MaxRetries

\* No entry is delivered by two workers at the same time, which is what the
\* lease is for.
OneDelivererAtATime ==
  \A v, w \in Workers : v # w /\ wentry[v] # NoEntry => wentry[v] # wentry[w]

\* A claim is exclusive: batch, queue and workers together hold an entry at
\* most once.  Only a claim can see to that: the queue does not deduplicate.
ExclusiveClaim ==
  /\ OneDelivererAtATime
  /\ \A i, j \in 1..Len(queue) : i # j => queue[i] # queue[j]
  /\ \A w \in Workers : wentry[w] \notin batch /\ ~InQueue(wentry[w])
  /\ \A e \in batch : ~InQueue(e)

\* Every entry comes to rest, delivered or given up, in spite of crashes,
\* stops, panics and lost writes: none is left in 'sending'.
EventuallySettled ==
  \A e \in Entries :
    <>[](status[e] \in {"absent", "delivered", "failed", "purged", "gone"})

\* While the Content Service answers, each user of an entry gets the article
\* (unless the feed item is deleted first).
EveryRecipientServed ==
  \A e \in Entries :
    status[e] = "pending" ~> granted[e] = Recipients[e] \/ status[e] = "gone"

-----------------------------------------------------------------------------
(* What the outbox promises to the feed items, see DeliveryContract: a     *)
(* claim and its lease are invisible from outside.                         *)

Promise(s) ==
  CASE s = "absent"                  -> "none"
    [] s \in {"pending", "sending"}   -> "owed"
    [] s \in {"delivered", "purged"}  -> "done"
    [] s = "failed"                  -> "abandoned"
    [] s = "gone"                    -> "forgotten"

ContractState == [e \in Entries |-> Promise(status[e])]

Contract == INSTANCE DeliveryContract WITH
  state <- ContractState, attempts <- retries, given <- granted

\* While every claim outlives its delivery, the pool keeps the contract: at
\* most max_retries counted attempts, a delivered entry is never reopened,
\* an abandoned one never delivered, and none is closed before every user
\* was given the article.
KeepsContract == Contract!Spec

=============================================================================
