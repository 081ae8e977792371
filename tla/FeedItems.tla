----------------------------- MODULE FeedItems -----------------------------
(***************************************************************************)
(* The feed_items table, the content extraction job that turns each item   *)
(* into an outbox row, and the item cleanup.                               *)
(*                                                                         *)
(* The outbox appears as its contract: module Outbox implements it.  What  *)
(* the two share is the feed item, which the outbox worker stamps by id    *)
(* after a delivery while the extraction job may still be writing to it.   *)
(* No transaction spans the two tables.                                    *)
(***************************************************************************)
EXTENDS Naturals, FiniteSets

CONSTANTS
  Items,          \* guids the feeds list
  Users,
  Eligible,       \* [Items -> SUBSET Users], who subscribed before the item
  None,           \* no item in hand
  MaxRetries,     \* ItemProcessorConfig.MaxRetries
  MaxDeliveries,  \* content_outbox.max_retries
  BatchSize,      \* ContentExtractionJobConfig.BatchSize
  Flaky,          \* may the web and the Content Service fail?
  MaxDiscoveries, \* bound on how often an item is (re)discovered
  MaxFaults       \* bound on crashes and database errors

ASSUME FeedItemsAssumption ==
  /\ Eligible \in [Items -> SUBSET Users]
  /\ None \notin Items
  /\ MaxRetries \in Nat
  /\ MaxDeliveries \in Nat \ {0}
  /\ BatchSize \in Nat \ {0}
  /\ Flaky \in BOOLEAN
  /\ MaxDiscoveries \in Nat /\ MaxFaults \in Nat

VARIABLES
  istatus,     \* processing_status; "absent" before Create, after a delete
  iretries,    \* retry_count
  ileased,     \* lease_expires_at has not passed
  icontent,    \* items whose content_service_id is set
  discoveries, \* how often each item was inserted
  todo,        \* claimed items of the batch not taken up yet
  cur,         \* the item in hand
  tries,       \* retry_count of each claimed item, as read by the claim
  pc,          \* where processItem is
  state, attempts, given, \* the outbox, see DeliveryContract
  stamping,    \* rows whose worker has yet to stamp the item
  faults

itemVars   == <<istatus, iretries, ileased, icontent>>
jobVars    == <<todo, cur, tries, pc>>
outboxVars == <<state, attempts, given, stamping>>
vars == <<itemVars, discoveries, jobVars, outboxVars, faults>>

\* The n-th outbox row an item gets; every further one costs a fault or a
\* rediscovery.
RowNumbers == 1..(MaxDiscoveries + MaxFaults)
Rows == Items \X RowNumbers

Outbox == INSTANCE DeliveryContract WITH
  Entries <- Rows, Recipients <- [r \in Rows |-> Eligible[r[1]]],
  MaxRetries <- MaxDeliveries

RowsOf(i)  == {i} \X RowNumbers
Exists(r)  == state[r] \in {"owed", "done", "abandoned"}
InHand(i)  == i \in todo \/ cur = i
Fault      == faults < MaxFaults /\ faults' = faults + 1
NoFault    == UNCHANGED faults

-----------------------------------------------------------------------------
(* FeedItemRepository                                                      *)

Create(i) ==
  /\ istatus[i] = "absent"
  /\ istatus'  = [istatus EXCEPT ![i] = "pending"]
  /\ iretries' = [iretries EXCEPT ![i] = 0]
  /\ ileased'  = [ileased EXCEPT ![i] = FALSE]
  /\ icontent' = icontent \ {i}

ClaimPendingOnly == {i \in Items : istatus[i] = "pending"}

\* The selector of GetPendingItems; unlike the outbox's it has no retry guard.
Claimable ==
  {i \in Items : \/ istatus[i] = "pending"
                 \/ istatus[i] = "processing" /\ ~ileased[i]}

GetPendingItems(S) ==
  /\ S \subseteq Claimable
  /\ \/ Cardinality(S) = BatchSize
     \/ S = Claimable /\ Cardinality(S) < BatchSize
  /\ istatus' = [i \in Items |-> IF i \in S THEN "processing" ELSE istatus[i]]
  /\ ileased' = [i \in Items |-> i \in S \/ ileased[i]]
  /\ UNCHANGED <<iretries, icontent>>

\* By id, whatever the status is; the content id is written too, NULL or not.
UpdateProcessingStatus(i, s, content) ==
  /\ istatus[i] # "absent"
  /\ istatus'  = [istatus EXCEPT ![i] = s]
  /\ icontent' = IF content THEN icontent \cup {i} ELSE icontent \ {i}
  /\ UNCHANGED <<iretries, ileased>>

\* The status stays: it is the lease that makes the item claimable again.
IncrementRetryCount(i) ==
  /\ istatus[i] # "absent"
  /\ iretries' = [iretries EXCEPT ![i] = @ + 1]
  /\ ileased'  = [ileased EXCEPT ![i] = FALSE]
  /\ UNCHANGED <<istatus, icontent>>

-----------------------------------------------------------------------------
(* ItemProcessor.  ContentExtractionJob runs one batch after the other, so *)
(* a lease that expires under a long batch has nobody to race with.        *)

Claim ==
  /\ pc = "idle" /\ todo = {}
  /\ \E S \in SUBSET Claimable :
       /\ GetPendingItems(S)
       /\ \/ todo' = S /\ NoFault
          \/ S # {} /\ todo' = {} /\ Fault
       /\ tries' = [i \in Items |-> IF i \in S THEN iretries[i] ELSE tries[i]]
  /\ UNCHANGED <<discoveries, cur, pc, outboxVars>>

Goto(label)   == pc' = label /\ UNCHANGED <<todo, cur, tries>>
NextInBatch == pc' = "idle" /\ cur' = None /\ UNCHANGED <<todo, tries>>

\* fetchArticleContent.  A failure is no error while the feed's own
\* description can stand in.
Fetch(i) ==
  /\ pc = "idle" /\ i \in todo
  /\ todo' = todo \ {i} /\ cur' = i
  /\ pc' \in {"subscribers"} \cup IF Flaky THEN {"error"} ELSE {}
  /\ UNCHANGED <<itemVars, discoveries, tries, outboxVars, faults>>

Subscribers ==
  /\ pc = "subscribers"
  /\ \/ Eligible[cur] # {} /\ Goto("insert") /\ UNCHANGED itemVars /\ NoFault
     \/ /\ Eligible[cur] = {}
        /\ UpdateProcessingStatus(cur, "completed", FALSE)
        /\ NextInBatch /\ NoFault
     \/ Goto("error") /\ UNCHANGED itemVars /\ Fault
  /\ UNCHANGED <<discoveries, outboxVars>>

\* OutboxRepository.Create, into the item's next row.
InsertRow ==
  \E r \in RowsOf(cur) :
    /\ \A q \in RowsOf(cur) : q[2] < r[2] => state[q] # "none"
    /\ Outbox!Accept(r)
    /\ UNCHANGED stamping

InsertIgnoringError ==
  /\ pc = "insert"
  /\ \/ InsertRow /\ Goto("complete") /\ NoFault
     \/ InsertRow /\ Goto("complete") /\ Fault
     \/ UNCHANGED outboxVars /\ Goto("complete") /\ Fault
  /\ UNCHANGED <<itemVars, discoveries>>

Insert ==
  /\ pc = "insert"
  /\ \/ InsertRow /\ Goto("complete") /\ NoFault
     \/ InsertRow /\ Goto("error") /\ Fault
     \/ UNCHANGED outboxVars /\ Goto("error") /\ Fault
  /\ UNCHANGED <<itemVars, discoveries>>

CompleteKeepingStatus ==
  /\ pc = "complete"
  /\ UpdateProcessingStatus(cur, "processing", FALSE) /\ NextInBatch
  /\ UNCHANGED <<discoveries, outboxVars, faults>>

Complete ==
  /\ pc = "complete"
  /\ \/ UpdateProcessingStatus(cur, "completed", FALSE) /\ NextInBatch /\ NoFault
     \/ UpdateProcessingStatus(cur, "completed", FALSE) /\ Goto("error") /\ Fault
     \/ UNCHANGED itemVars /\ Goto("error") /\ Fault
  /\ UNCHANGED <<discoveries, outboxVars>>

HandleErrorOnceMore ==
  /\ pc = "error"
  /\ \/ tries[cur] <= MaxRetries /\ IncrementRetryCount(cur) /\ NoFault
     \/ /\ tries[cur] > MaxRetries
        /\ UpdateProcessingStatus(cur, "failed", FALSE) /\ NoFault
     \/ UNCHANGED itemVars /\ Fault
  /\ NextInBatch
  /\ UNCHANGED <<discoveries, outboxVars>>

\* The decision uses the count read by the claim.
HandleError ==
  /\ pc = "error"
  /\ \/ tries[cur] < MaxRetries /\ IncrementRetryCount(cur) /\ NoFault
     \/ /\ tries[cur] >= MaxRetries
        /\ UpdateProcessingStatus(cur, "failed", FALSE) /\ NoFault
     \/ UNCHANGED itemVars /\ Fault
  /\ NextInBatch
  /\ UNCHANGED <<discoveries, outboxVars>>

-----------------------------------------------------------------------------
(* The outbox worker, seen through the contract.                           *)

Deliver(r) ==
  /\ Outbox!Give(r) /\ given'[r] # given[r]
  /\ UNCHANGED <<itemVars, discoveries, jobVars, stamping, faults>>

MarkDelivered(r) ==
  /\ Outbox!Complete(r)
  /\ stamping' = stamping \cup {r}
  /\ UNCHANGED <<itemVars, discoveries, jobVars, faults>>

FailDelivery(r) ==
  /\ Flaky /\ Outbox!FailAttempt(r)
  /\ UNCHANGED <<itemVars, discoveries, jobVars, stamping, faults>>

\* The write-back of processOutboxEntry, which is best effort.
Stamp(r) ==
  /\ r \in stamping
  /\ stamping' = stamping \ {r}
  /\ \/ UpdateProcessingStatus(r[1], "completed", TRUE) /\ NoFault
     \/ UNCHANGED itemVars /\ Fault
  /\ UNCHANGED <<discoveries, jobVars, state, attempts, given>>

-----------------------------------------------------------------------------
(* Feed polling, cleanup, time and crashes.                                *)

\* A poll finds a guid that has no row, be it new or deleted in the meantime.
Discover(i) ==
  /\ discoveries[i] < MaxDiscoveries
  /\ Create(i)
  /\ discoveries' = [discoveries EXCEPT ![i] = @ + 1]
  /\ UNCHANGED <<jobVars, outboxVars, faults>>

\* DeleteOldCompletedItems, DeleteOldFailedItems.  The rows go with the item;
\* days after the last write they are settled, unless the outbox was down all
\* the time, and no batch holds the item.
CleanupItem(i) ==
  /\ istatus[i] \in {"completed", "failed"} /\ ~InHand(i)
  /\ IF \E r \in RowsOf(i) : state[r] = "owed" THEN Fault ELSE NoFault
  /\ istatus'  = [istatus EXCEPT ![i] = "absent"]
  /\ icontent' = icontent \ {i}
  /\ state' = [r \in Rows |-> IF r[1] = i /\ Exists(r) THEN "forgotten"
                                                       ELSE state[r]]
  /\ stamping' = stamping \ RowsOf(i)
  /\ UNCHANGED <<iretries, ileased, discoveries, jobVars, attempts, given>>

LeaseExpires(i) ==
  /\ istatus[i] = "processing" /\ ileased[i]
  /\ ileased' = [ileased EXCEPT ![i] = FALSE]
  /\ UNCHANGED <<istatus, iretries, icontent, discoveries, jobVars,
                 outboxVars, faults>>

\* The process dies, or processItem panics: the job does not recover.
Crash ==
  /\ pc # "idle" \/ todo # {} \/ stamping # {}
  /\ Fault
  /\ todo' = {} /\ cur' = None /\ pc' = "idle" /\ stamping' = {}
  /\ UNCHANGED <<itemVars, discoveries, tries, state, attempts, given>>

-----------------------------------------------------------------------------
Init ==
  /\ istatus  = [i \in Items |-> "absent"]
  /\ iretries = [i \in Items |-> 0]
  /\ ileased  = [i \in Items |-> FALSE]
  /\ icontent = {}
  /\ discoveries = [i \in Items |-> 0]
  /\ todo = {} /\ cur = None /\ pc = "idle"
  /\ tries = [i \in Items |-> 0]
  /\ Outbox!Init /\ stamping = {}
  /\ faults = 0

JobStep == \/ Claim \/ Subscribers \/ Insert \/ Complete \/ HandleError
           \/ \E i \in Items : Fetch(i)

RowStep(r) == \/ Deliver(r) \/ MarkDelivered(r) \/ FailDelivery(r) \/ Stamp(r)

Next == \/ JobStep \/ Crash
        \/ \E r \in Rows : RowStep(r)
        \/ \E i \in Items : Discover(i) \/ CleanupItem(i) \/ LeaseExpires(i)

Spec == Init /\ [][Next]_vars

\* The job ticks, leases run out, and the outbox keeps delivering (what
\* EventuallySettled says of module Outbox).
Fairness ==
  /\ WF_vars(JobStep)
  /\ \A r \in Rows : WF_vars(RowStep(r))
  /\ \A i \in Items : WF_vars(LeaseExpires(i))

FairSpec == Spec /\ Fairness

-----------------------------------------------------------------------------
(* Properties.                                                             *)

Statuses == {"absent", "pending", "processing", "completed", "failed"}

\* The variables have their types, and the job has an item in hand exactly
\* while it is inside processItem.
TypeOK ==
  /\ istatus \in [Items -> Statuses]
  /\ iretries \in [Items -> 0..MaxRetries]
  /\ ileased \in [Items -> BOOLEAN]
  /\ icontent \in SUBSET Items
  /\ discoveries \in [Items -> 0..MaxDiscoveries]
  /\ todo \in SUBSET Items
  /\ cur \in Items \cup {None} /\ (cur = None <=> pc = "idle")
  /\ tries \in [Items -> 0..MaxRetries]
  /\ pc \in {"idle", "subscribers", "insert", "complete", "error"}
  /\ state \in [Rows -> {"none", "owed", "done", "abandoned", "forgotten"}]
  /\ attempts \in [Rows -> 0..MaxDeliveries]
  /\ given \in [Rows -> SUBSET Users]
  /\ stamping \in SUBSET Rows
  /\ faults \in 0..MaxFaults

\* A completed item that anybody should get has an outbox row: the job's two
\* writes are in the order that loses nothing when it stops in between.
CompletedHasRow ==
  \A i \in Items :
    istatus[i] = "completed" /\ Eligible[i] # {} =>
      \E r \in RowsOf(i) : Exists(r)

\* The price of that order: an item may get a second row, but only by a crash
\* or a failed write, never by a lease that expired or an ordinary retry.
DuplicatesCostFaults ==
  \A i \in Items : Cardinality({r \in RowsOf(i) : Exists(r)}) <= 1 + faults

\* An item is given up only after its first try and MaxRetries retries, and
\* the count read at the claim is still the row's when it decides so.
GivenUpAfterRetries ==
  \A i \in Items :
    /\ istatus[i] = "failed" => iretries[i] = MaxRetries
    /\ cur = i => tries[i] = iretries[i]

\* Every discovered item is taken up and leaves the queue, in spite of
\* crashes in any step of it.
EveryItemSettles ==
  \A i \in Items :
    istatus[i] \in {"pending", "processing"} ~>
      istatus[i] \in {"completed", "failed", "absent"}

\* From discovery to reading list: every eligible user gets the article,
\* unless the item is deleted, or it or its row is given up after its retries.
EveryUserServed ==
  \A i \in Items :
    istatus[i] = "pending" ~>
      \/ \A u \in Eligible[i] : \E r \in RowsOf(i) : u \in given[r]
      \/ istatus[i] \in {"absent", "failed"}
      \/ \E r \in RowsOf(i) : state[r] = "abandoned"

\* A delivered item carries the content id its delivery wrote to it.
DeliveredIsStamped ==
  \A i \in Items :
    /\ faults = 0 /\ ~InHand(i)
    /\ \E r \in RowsOf(i) : state[r] = "done" /\ r \notin stamping
    => i \in icontent

=============================================================================
