---------------------------- MODULE FeedPolling ----------------------------
(***************************************************************************)
(* The feeds table and the goroutines that write it: the poll scheduler,   *)
(* the pool of feed workers, the daily tier manager, and EnableFeed in the *)
(* API process.                                                            *)
(*                                                                         *)
(* A poll is the *models.Feed that a claim returns: a snapshot of the row, *)
(* carried through the queue to a worker, which writes columns back from   *)
(* it by id.  The tier manager keeps snapshots of its own.                 *)
(***************************************************************************)
EXTENDS Naturals, FiniteSets

CONSTANTS
  Feeds, Guids,
  Polls,            \* claimed feeds in memory at a time (a bound)
  None,             \* no feed
  QueueSize,        \* FeedWorkerConfig.QueueSize
  WorkerCount,      \* FeedWorkerConfig.WorkerCount
  BatchSize,        \* PollSchedulerConfig.BatchSize
  ErrorLimit,       \* errors that disable a feed (7)
  Broken,           \* feeds that can no longer be fetched
  Flaky,            \* may the other feeds fail?
  LeaseOutlivesPoll,\* is a poll over before its 10 minute lease?
  TierUpdates,      \* bound on the runs of the tier manager
  MaxEnables,       \* bound on the EnableFeed requests
  MaxFaults         \* bound on crashes and database errors

ASSUME FeedPollingAssumption ==
  /\ None \notin Feeds /\ IsFiniteSet(Polls)
  /\ {QueueSize, WorkerCount, BatchSize, ErrorLimit} \subseteq Nat \ {0}
  /\ Broken \subseteq Feeds
  /\ Flaky \in BOOLEAN /\ LeaseOutlivesPoll \in BOOLEAN
  /\ {TierUpdates, MaxEnables, MaxFaults} \subseteq Nat

VARIABLES
  status, tier,  \* the columns of the same name
  due,           \* next_poll_at has passed
  leased,        \* lease_expires_at has not
  lastPub,       \* how long ago last_published_at is
  errors,        \* consecutive_error_days
  stored,        \* rows of feed_items
  at, of,        \* where each poll is, and its feed
  seen,          \* the tier and the errors of the feed when claimed
  toStore, news, \* items of the fetched document yet to look up; any new?
  tierRows,      \* the tier manager's snapshots yet to look at
  updates,       \* runs of the tier manager
  enabling,      \* how far EnableFeed is
  enables,       \* EnableFeed requests per feed
  published,     \* what the feed's document lists
  found,         \* how long ago a poll last found something new
  failures,      \* failed fetches since the last EnableFeed
  streak,        \* failed fetches since the last good one
  faults

rowVars    == <<status, tier, due, leased, lastPub, errors>>
pollVars   == <<at, of, seen, toStore, news>>
tierVars   == <<tierRows, updates>>
enableVars == <<enabling, enables>>
ghostVars  == <<found, failures, streak>>
vars == <<rowVars, stored, pollVars, tierVars, enableVars, published,
          ghostVars, faults>>

Tiers  == {"active", "moderate", "quiet"}
Ages   == {"never", "week", "month", "older"}
AtWork == {"fetch", "items", "error", "disable", "reschedule"}

InHand(f)     == \E p \in Polls : of[p] = f
Queued        == {p \in Polls : at[p] = "queued"}
Working       == {p \in Polls : at[p] \in AtWork}
Goto(p, label) == at' = [at EXCEPT ![p] = label]
Fault         == faults < MaxFaults /\ faults' = faults + 1
NoFault       == UNCHANGED faults

\* The poll is over.
Drop(p) ==
  /\ Goto(p, "free")
  /\ of' = [of EXCEPT ![p] = None]
  /\ toStore' = [toStore EXCEPT ![p] = {}]
  /\ news' = [news EXCEPT ![p] = FALSE]
  /\ UNCHANGED seen

-----------------------------------------------------------------------------
(* FeedRepository: single-row updates by id.                               *)

\* No tier's interval is shorter than an hour, so the feed is not due.
UpdatePollingInfo(f, age, t, now) ==
  /\ lastPub' = [lastPub EXCEPT ![f] = age]
  /\ tier' = [tier EXCEPT ![f] = t]
  /\ due' = [due EXCEPT ![f] = now]
  /\ UNCHANGED <<status, leased, errors>>

UpdateErrorInfo(f, n) ==
  /\ errors' = [errors EXCEPT ![f] = n]
  /\ UNCHANGED <<status, tier, due, leased, lastPub>>

UpdateStatus(f, s) ==
  /\ status' = [status EXCEPT ![f] = s]
  /\ UNCHANGED <<tier, due, leased, lastPub, errors>>

ReleaseClaim(f) ==
  /\ leased' = [leased EXCEPT ![f] = FALSE]
  /\ UNCHANGED <<status, tier, due, lastPub, errors>>

DueIgnoringLease == {f \in Feeds : status[f] = "active" /\ due[f]}

\* The selector of GetFeedsDueForPolling.
Due == {f \in Feeds : status[f] = "active" /\ due[f] /\ ~leased[f]}

GetFeedsDueForPolling(S) ==
  /\ S \subseteq Due
  /\ \/ Cardinality(S) = BatchSize
     \/ S = Due /\ Cardinality(S) < BatchSize
  /\ leased' = [f \in Feeds |-> f \in S \/ leased[f]]
  /\ UNCHANGED <<status, tier, due, lastPub, errors>>

-----------------------------------------------------------------------------
(* PollScheduler.pollFeeds and FeedWorker.Submit.                          *)

\* The answer may be lost after the statement committed.
Claim ==
  /\ \A p \in Polls : at[p] # "claimed"
  /\ \E S \in (SUBSET Due) \ {{}} :
       /\ GetFeedsDueForPolling(S)
       /\ \/ /\ \E slot \in [S -> {p \in Polls : at[p] = "free"}] :
                  /\ \A f, g \in S : slot[f] = slot[g] => f = g
                  /\ at' = [p \in Polls |->
                       IF \E f \in S : slot[f] = p THEN "claimed" ELSE at[p]]
                  /\ of' = [p \in Polls |->
                       IF \E f \in S : slot[f] = p
                       THEN CHOOSE f \in S : slot[f] = p ELSE of[p]]
                  /\ seen' = [p \in Polls |->
                       IF \E f \in S : slot[f] = p
                       THEN [tier |-> tier[of'[p]], errors |-> errors[of'[p]]]
                       ELSE seen[p]]
             /\ UNCHANGED <<toStore, news>> /\ NoFault
          \/ UNCHANGED pollVars /\ Fault
  /\ UNCHANGED <<stored, tierVars, enableVars, published, ghostVars>>

Submit(p) ==
  /\ at[p] = "claimed"
  /\ \/ /\ Cardinality(Queued) < QueueSize
        /\ Goto(p, "queued")
        /\ UNCHANGED <<rowVars, of, seen, toStore, news>> /\ NoFault
     \/ /\ Cardinality(Queued) >= QueueSize
        /\ Drop(p)
        /\ \/ ReleaseClaim(of[p]) /\ NoFault
           \/ UNCHANGED rowVars /\ Fault
  /\ UNCHANGED <<stored, tierVars, enableVars, published, ghostVars>>

-----------------------------------------------------------------------------
(* FeedWorker and FeedFetcher.ProcessFeed.                                 *)

Take(p) ==
  /\ at[p] = "queued" /\ Cardinality(Working) < WorkerCount
  /\ Goto(p, "fetch")
  /\ UNCHANGED <<rowVars, stored, of, seen, toStore, news, tierVars,
                 enableVars, published, ghostVars, faults>>

FetchSucceeds(p) ==
  /\ at[p] = "fetch" /\ of[p] \notin Broken
  /\ Goto(p, "items")
  /\ toStore' = [toStore EXCEPT ![p] = published[of[p]]]
  /\ streak' = [streak EXCEPT ![of[p]] = 0]
  /\ UNCHANGED <<rowVars, stored, of, seen, news, tierVars, enableVars,
                 published, found, failures, faults>>

\* Timeouts, bad statuses and documents that do not parse.
FetchFails(p) ==
  /\ at[p] = "fetch" /\ (Flaky \/ of[p] \in Broken)
  /\ Goto(p, "error")
  /\ failures' = [failures EXCEPT ![of[p]] =
                   IF @ < ErrorLimit THEN @ + 1 ELSE @]
  /\ streak' = [streak EXCEPT ![of[p]] =
                   IF @ < ErrorLimit THEN @ + 1 ELSE @]
  /\ UNCHANGED <<rowVars, stored, of, seen, toStore, news, tierVars,
                 enableVars, published, found, faults>>

StopAtKnownItem(p, g) ==
  /\ at[p] = "items" /\ g \in toStore[p]
  /\ IF <<of[p], g>> \in stored
     THEN /\ toStore' = [toStore EXCEPT ![p] = {}]
          /\ UNCHANGED <<stored, news>> /\ NoFault
     ELSE /\ toStore' = [toStore EXCEPT ![p] = @ \ {g}]
          /\ stored' = stored \cup {<<of[p], g>>}
          /\ news' = [news EXCEPT ![p] = TRUE] /\ NoFault
  /\ UNCHANGED <<rowVars, at, of, seen, tierVars, enableVars, published,
                 ghostVars>>

\* processFeedItem.  The unique index on the guid makes the lookup and the
\* insert of two polls at once come out as if one went first; an error skips
\* the item.
StoreItem(p, g) ==
  /\ at[p] = "items" /\ g \in toStore[p]
  /\ toStore' = [toStore EXCEPT ![p] = @ \ {g}]
  /\ \/ /\ <<of[p], g>> \notin stored
        /\ stored' = stored \cup {<<of[p], g>>}
        /\ news' = [news EXCEPT ![p] = TRUE] /\ NoFault
     \/ <<of[p], g>> \in stored /\ UNCHANGED <<stored, news>> /\ NoFault
     \/ UNCHANGED <<stored, news>> /\ Fault
  /\ UNCHANGED <<rowVars, at, of, seen, tierVars, enableVars, published,
                 ghostVars>>

PromoteTier(t) == IF t = "quiet" THEN "moderate" ELSE "active"

\* UpdateFeedPollingAfterSuccess, from the tier the claim saw.  No news
\* writes NULL over last_published_at; nothing resets the errors.
Finish(p) ==
  /\ at[p] = "items" /\ toStore[p] = {}
  /\ Drop(p)
  /\ \/ /\ NoFault
        /\ IF news[p]
           THEN UpdatePollingInfo(of[p], "week", PromoteTier(seen[p].tier), FALSE)
           ELSE UpdatePollingInfo(of[p], "never", seen[p].tier, FALSE)
     \/ UNCHANGED rowVars /\ Fault
  /\ found' = IF news[p] THEN [found EXCEPT ![of[p]] = "week"] ELSE found
  /\ UNCHANGED <<stored, tierVars, enableVars, published, failures, streak>>

\* Capped one above the limit: only >= ErrorLimit is ever asked.
OneMoreError(p) ==
  IF seen[p].errors > ErrorLimit THEN seen[p].errors ELSE seen[p].errors + 1

RecordErrorKeepingCount(p) ==
  /\ at[p] = "error"
  /\ UpdateErrorInfo(of[p], 1)
  /\ Goto(p, IF OneMoreError(p) >= ErrorLimit THEN "disable" ELSE "reschedule")
  /\ NoFault
  /\ UNCHANGED <<stored, of, seen, toStore, news, tierVars, enableVars,
                 published, ghostVars>>

\* UpdateFeedPollingAfterError: one more than the claim saw.
RecordError(p) ==
  /\ at[p] = "error"
  /\ \/ /\ UpdateErrorInfo(of[p], OneMoreError(p))
        /\ Goto(p, IF OneMoreError(p) >= ErrorLimit THEN "disable"
                                                    ELSE "reschedule")
        /\ NoFault
     \/ UNCHANGED rowVars /\ Goto(p, "reschedule") /\ Fault
  /\ UNCHANGED <<stored, of, seen, toStore, news, tierVars, enableVars,
                 published, ghostVars>>

\* Disabling on the limit exactly, so a failed update is not made up for.
DisableOnce(p) ==
  /\ at[p] = "disable"
  /\ \/ OneMoreError(p) = ErrorLimit /\ UpdateStatus(of[p], "disabled") /\ NoFault
     \/ OneMoreError(p) > ErrorLimit /\ UNCHANGED rowVars /\ NoFault
     \/ UNCHANGED rowVars /\ Fault
  /\ Goto(p, "reschedule")
  /\ UNCHANGED <<stored, of, seen, toStore, news, tierVars, enableVars,
                 published, ghostVars>>

Disable(p) ==
  /\ at[p] = "disable"
  /\ \/ UpdateStatus(of[p], "disabled") /\ NoFault
     \/ UNCHANGED rowVars /\ Fault
  /\ Goto(p, "reschedule")
  /\ UNCHANGED <<stored, of, seen, toStore, news, tierVars, enableVars,
                 published, ghostVars>>

\* The end of handleFetchError.
Reschedule(p) ==
  /\ at[p] = "reschedule"
  /\ Drop(p)
  /\ \/ UpdatePollingInfo(of[p], "never", seen[p].tier, FALSE) /\ NoFault
     \/ UNCHANGED rowVars /\ Fault
  /\ UNCHANGED <<stored, tierVars, enableVars, published, ghostVars>>

-----------------------------------------------------------------------------
(* TierManager.updateTiers.                                                *)

DetermineTierByActivity(age) ==
  CASE age = "week" -> "active"
    [] age \in {"month", "never"} -> "moderate"
    [] OTHER -> "quiet"

NoRow == [lastPub |-> "never", tier |-> "none"]

GetFeedsForTierUpdate ==
  /\ updates < TierUpdates /\ updates' = updates + 1
  /\ \A f \in Feeds : tierRows[f] = NoRow
  /\ tierRows' = [f \in Feeds |->
       IF status[f] = "active" THEN [lastPub |-> lastPub[f], tier |-> tier[f]]
                               ELSE NoRow]
  /\ UNCHANGED <<rowVars, stored, pollVars, enableVars, published, ghostVars,
                 faults>>

\* The columns that did not change are written back from the snapshot.
UpdateFeedTier(f) ==
  LET row == tierRows[f]
      new == DetermineTierByActivity(row.lastPub)
  IN /\ row # NoRow
     /\ tierRows' = [tierRows EXCEPT ![f] = NoRow]
     /\ \/ new = row.tier /\ UNCHANGED rowVars /\ NoFault
        \/ /\ new # row.tier
           /\ UpdatePollingInfo(f, row.lastPub, new, FALSE) /\ NoFault
        \/ new # row.tier /\ UNCHANGED rowVars /\ Fault
     /\ UNCHANGED <<stored, pollVars, updates, enableVars, published, ghostVars>>

-----------------------------------------------------------------------------
(* FeedService.EnableFeed: three updates, any of which may be the last.    *)

EnableStatus(f) ==
  /\ enables[f] < MaxEnables /\ enabling[f] = "no"
  /\ status[f] # "active"
  /\ UpdateStatus(f, "active")
  /\ enables' = [enables EXCEPT ![f] = @ + 1]
  /\ enabling' = [enabling EXCEPT ![f] = "errors"]
  /\ failures' = [failures EXCEPT ![f] = 0]
  /\ UNCHANGED <<stored, pollVars, tierVars, published, found, streak, faults>>

EnableErrors(f) ==
  /\ enabling[f] = "errors"
  /\ \/ /\ UpdateErrorInfo(f, 0) /\ NoFault
        /\ enabling' = [enabling EXCEPT ![f] = "poll"]
     \/ /\ UNCHANGED rowVars /\ Fault
        /\ enabling' = [enabling EXCEPT ![f] = "no"]
  /\ UNCHANGED <<stored, pollVars, tierVars, enables, published, ghostVars>>

EnablePoll(f) ==
  /\ enabling[f] = "poll"
  /\ \/ UpdatePollingInfo(f, "never", "active", TRUE) /\ NoFault
     \/ UNCHANGED rowVars /\ Fault
  /\ enabling' = [enabling EXCEPT ![f] = "no"]
  /\ UNCHANGED <<stored, pollVars, tierVars, enables, published, ghostVars>>

-----------------------------------------------------------------------------
(* Publishers, time and crashes.                                           *)

Publish(f, g) ==
  /\ g \notin published[f]
  /\ published' = [published EXCEPT ![f] = @ \cup {g}]
  /\ UNCHANGED <<rowVars, stored, pollVars, tierVars, enableVars, ghostVars,
                 faults>>

\* Next_poll_at is at least an hour away, the lease ten minutes.
BecomeDue(f) ==
  /\ ~due[f] /\ ~InHand(f)
  /\ due' = [due EXCEPT ![f] = TRUE]
  /\ leased' = [leased EXCEPT ![f] = FALSE]
  /\ UNCHANGED <<status, tier, lastPub, errors, stored, pollVars, tierVars,
                 enableVars, published, ghostVars, faults>>

LeaseExpires(f) ==
  /\ leased[f] /\ (LeaseOutlivesPoll => ~InHand(f))
  /\ ReleaseClaim(f)
  /\ UNCHANGED <<stored, pollVars, tierVars, enableVars, published, ghostVars,
                 faults>>

Older(age) == CASE age = "week" -> "month"
                [] age = "month" -> "older"
                [] OTHER -> age

\* Weeks go by, with every active feed polled in the meantime.
WeeksPass ==
  /\ \A f \in Feeds : ~InHand(f) /\ tierRows[f] = NoRow /\ enabling[f] = "no"
  /\ \A f \in Feeds : status[f] = "active" => ~due[f]
  /\ \E f \in Feeds : Older(found[f]) # found[f]
  /\ lastPub' = [f \in Feeds |-> Older(lastPub[f])]
  /\ found'   = [f \in Feeds |-> Older(found[f])]
  /\ due'     = [f \in Feeds |-> TRUE]
  /\ leased'  = [f \in Feeds |-> FALSE]
  /\ UNCHANGED <<status, tier, errors, stored, pollVars, tierVars, enableVars,
                 published, failures, streak, faults>>

\* A panic in a worker ends the process: only the scheduler recovers.
Crash ==
  /\ \E f \in Feeds : InHand(f) \/ tierRows[f] # NoRow
  /\ Fault
  /\ at' = [p \in Polls |-> "free"] /\ of' = [p \in Polls |-> None]
  /\ toStore' = [p \in Polls |-> {}] /\ news' = [p \in Polls |-> FALSE]
  /\ tierRows' = [f \in Feeds |-> NoRow]
  /\ UNCHANGED <<rowVars, stored, seen, updates, enableVars, published,
                 ghostVars>>

-----------------------------------------------------------------------------
\* Feeds as Subscribe creates them.
Init ==
  /\ status = [f \in Feeds |-> "active"]
  /\ tier = [f \in Feeds |-> "active"]
  /\ due = [f \in Feeds |-> TRUE] /\ leased = [f \in Feeds |-> FALSE]
  /\ lastPub = [f \in Feeds |-> "never"]
  /\ errors = [f \in Feeds |-> 0]
  /\ stored = {}
  /\ at = [p \in Polls |-> "free"] /\ of = [p \in Polls |-> None]
  /\ seen = [p \in Polls |-> [tier |-> "active", errors |-> 0]]
  /\ toStore = [p \in Polls |-> {}] /\ news = [p \in Polls |-> FALSE]
  /\ tierRows = [f \in Feeds |-> NoRow] /\ updates = 0
  /\ enabling = [f \in Feeds |-> "no"] /\ enables = [f \in Feeds |-> 0]
  /\ published = [f \in Feeds |-> {}]
  /\ found = [f \in Feeds |-> "never"]
  /\ failures = [f \in Feeds |-> 0] /\ streak = [f \in Feeds |-> 0]
  /\ faults = 0

PollStep(p) ==
  \/ Submit(p) \/ Take(p) \/ FetchSucceeds(p) \/ FetchFails(p)
  \/ \E g \in Guids : StoreItem(p, g)
  \/ Finish(p) \/ RecordError(p) \/ Disable(p) \/ Reschedule(p)

EnableStep(f) == EnableStatus(f) \/ EnableErrors(f) \/ EnablePoll(f)

Next ==
  \/ Claim \/ GetFeedsForTierUpdate \/ WeeksPass \/ Crash
  \/ \E p \in Polls : PollStep(p)
  \/ \E f \in Feeds : \/ UpdateFeedTier(f) \/ EnableStep(f)
                      \/ BecomeDue(f) \/ LeaseExpires(f)
                      \/ \E g \in Guids : Publish(f, g)

Spec == Init /\ [][Next]_vars

\* The scheduler ticks, the workers work, time passes.
Fairness ==
  /\ WF_vars(Claim)
  /\ \A p \in Polls : WF_vars(PollStep(p))
  /\ \A f \in Feeds : WF_vars(BecomeDue(f)) /\ WF_vars(LeaseExpires(f))

FairSpec == Spec /\ Fairness

-----------------------------------------------------------------------------
(* Properties.                                                             *)

\* The variables have their types, a poll has a feed exactly while it is
\* somewhere between the claim and the last write, and neither the queue nor
\* the pool of workers holds more than it may.
TypeOK ==
  /\ status \in [Feeds -> {"active", "disabled"}]
  /\ tier \in [Feeds -> Tiers]
  /\ due \in [Feeds -> BOOLEAN] /\ leased \in [Feeds -> BOOLEAN]
  /\ lastPub \in [Feeds -> Ages] /\ found \in [Feeds -> Ages]
  /\ errors \in [Feeds -> 0..(ErrorLimit + 1)]
  /\ stored \in SUBSET (Feeds \X Guids)
  /\ at \in [Polls -> {"free", "claimed", "queued"} \cup AtWork]
  /\ of \in [Polls -> Feeds \cup {None}]
  /\ \A p \in Polls : of[p] = None <=> at[p] = "free"
  /\ Cardinality(Queued) <= QueueSize /\ Cardinality(Working) <= WorkerCount
  /\ seen \in [Polls -> [tier : Tiers, errors : 0..(ErrorLimit + 1)]]
  /\ toStore \in [Polls -> SUBSET Guids] /\ news \in [Polls -> BOOLEAN]
  /\ tierRows \in [Feeds -> [lastPub : Ages, tier : Tiers] \cup {NoRow}]
  /\ updates \in 0..TierUpdates
  /\ enabling \in [Feeds -> {"no", "errors", "poll"}]
  /\ enables \in [Feeds -> 0..MaxEnables]
  /\ published \in [Feeds -> SUBSET Guids]
  /\ failures \in [Feeds -> 0..ErrorLimit]
  /\ streak \in [Feeds -> 0..ErrorLimit]
  /\ faults \in 0..MaxFaults

\* While leases outlive polls, no two polls of a feed are under way at once,
\* through full queues, crashes, re-tiering and EnableFeed.
ExclusivePolling ==
  \A p, q \in Polls : of[p] = of[q] /\ of[p] # None => p = q

\* The count that is written back from the claim's snapshot misses no failed
\* fetch and invents none, as long as nobody else wrote it.
ErrorsAreCounted ==
  \A f \in Feeds :
    faults = 0 /\ enables[f] = 0 /\ ~InHand(f) =>
      IF errors[f] < ErrorLimit THEN failures[f] = errors[f]
                                ELSE status[f] = "disabled"

\* Whatever an active feed publishes is stored, in spite of skipped items,
\* lost claims and crashes, unless errors get the feed disabled.
EveryItemStored ==
  \A f \in Feeds, g \in Guids :
    g \in published[f] ~> <<f, g>> \in stored \/ status[f] = "disabled"

\* A feed that is gone for good is disabled at last, even when the update
\* that says so fails at first.
BrokenFeedsRetire ==
  \A f \in Broken : status[f] = "active" ~> status[f] = "disabled"

\* Docs: after 7 consecutive days of errors a feed is disabled.  So no good
\* fetch comes in between.
DisabledByConsecutiveErrors ==
  \A f \in Feeds : status[f] = "disabled" => streak[f] >= ErrorLimit

\* Docs: a feed that last published over 30 days ago is quiet, once the tier
\* manager has looked at it.
DormantIsQuiet ==
  [][\A f \in Feeds :
       UpdateFeedTier(f) /\ found[f] = "older" /\ NoFault =>
         tier'[f] = "quiet"]_vars

=============================================================================
