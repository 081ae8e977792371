------------------------- MODULE FeedPollingProofs -------------------------
(* Proofs about FeedPolling, for any number of feeds, polls and workers.   *)
EXTENDS FeedPolling, FiniteSetTheorems, TLAPS

USE FeedPollingAssumption

-----------------------------------------------------------------------------
(* The inductive invariant.                                                *)

PollTypes ==
  /\ leased \in [Feeds -> BOOLEAN]
  /\ at \in [Polls -> {"free", "claimed", "queued"} \cup AtWork]
  /\ of \in [Polls -> Feeds \cup {None}]
  /\ \A p \in Polls : of[p] = None <=> at[p] = "free"

\* A poll keeps its feed's lease until it ends, so that the selector passes
\* the feed over.  Being due says nothing: EnableFeed makes a feed due under
\* a poll, and a poll's own last write may fail.
HeldIsLeased == \A p \in Polls : of[p] # None => leased[of[p]]

PollInv == PollTypes /\ HeldIsLeased /\ ExclusivePolling

-----------------------------------------------------------------------------
(* One lemma per kind of step: a poll moves on, ends, or begins.           *)

LEMMA PollMovesOn ==
  ASSUME PollInv, NEW p \in Polls, at[p] # "free",
         NEW label \in {"claimed", "queued"} \cup AtWork, Goto(p, label),
         UNCHANGED <<of, leased>>
  PROVE  PollInv'
<1>1. PollTypes'
  BY DEF PollInv, PollTypes, Goto, AtWork
<1> QED BY <1>1 DEF PollInv, HeldIsLeased, ExclusivePolling

\* A poll that ends may give its feed's lease back: nobody else has the feed.
LEMMA PollEnds ==
  ASSUME PollInv, NEW p \in Polls, at[p] # "free", Drop(p),
         UNCHANGED leased \/ ReleaseClaim(of[p])
  PROVE  PollInv'
<1>1. /\ at' = [at EXCEPT ![p] = "free"]
      /\ of' = [of EXCEPT ![p] = None]
  BY DEF Drop, Goto
<1>2. of[p] \in Feeds
  BY DEF PollInv, PollTypes
<1>3. /\ leased' \in [Feeds -> BOOLEAN]
      /\ \A f \in Feeds : leased[f] => leased'[f] \/ f = of[p]
  BY <1>2 DEF ReleaseClaim, PollInv, PollTypes
<1>4. PollTypes'
  BY <1>1, <1>3 DEF PollInv, PollTypes
<1>5. \A q \in Polls : of'[q] # None => q # p /\ of'[q] = of[q]
  BY <1>1 DEF PollInv, PollTypes
<1>6. ExclusivePolling'
  BY <1>5 DEF PollInv, ExclusivePolling
<1>7. HeldIsLeased'
  <2> SUFFICES ASSUME NEW q \in Polls, of'[q] # None PROVE leased'[of'[q]]
    BY DEF HeldIsLeased
  <2>1. q # p /\ of'[q] = of[q] /\ of[q] \in Feeds /\ leased[of[q]]
    BY <1>5 DEF PollInv, PollTypes, HeldIsLeased
  <2>2. of[q] # of[p]
    BY <2>1 DEF PollInv, ExclusivePolling
  <2> QED BY <1>3, <2>1, <2>2
<1> QED BY <1>4, <1>6, <1>7 DEF PollInv

\* Time, the tier manager, EnableFeed and crashes.
LEMMA LeaseOfFreeFeedEnds ==
  ASSUME PollInv, UNCHANGED <<at, of>>, leased' \in [Feeds -> BOOLEAN],
         \A f \in Feeds : leased[f] /\ InHand(f) => leased'[f]
  PROVE  PollInv'
<1>1. PollTypes' /\ ExclusivePolling'
  BY DEF PollInv, PollTypes, ExclusivePolling
<1>2. HeldIsLeased'
  <2> SUFFICES ASSUME NEW q \in Polls, of[q] # None PROVE leased'[of[q]]
    BY DEF HeldIsLeased
  <2>1. of[q] \in Feeds /\ leased[of[q]] /\ InHand(of[q])
    BY DEF PollInv, PollTypes, HeldIsLeased, InHand
  <2> QED BY <2>1
<1> QED BY <1>1, <1>2 DEF PollInv

LEMMA ClaimKeepsInv ==
  ASSUME PollInv, Claim
  PROVE  PollInv'
<1>1. PICK S \in (SUBSET Due) \ {{}} :
        /\ GetFeedsDueForPolling(S)
        /\ \/ \E slot \in [S -> {p \in Polls : at[p] = "free"}] :
                /\ \A f, g \in S : slot[f] = slot[g] => f = g
                /\ at' = [p \in Polls |->
                     IF \E f \in S : slot[f] = p THEN "claimed" ELSE at[p]]
                /\ of' = [p \in Polls |->
                     IF \E f \in S : slot[f] = p
                     THEN CHOOSE f \in S : slot[f] = p ELSE of[p]]
           \/ UNCHANGED pollVars
  BY DEF Claim
<1>2. S \subseteq Feeds /\ \A f \in S : ~leased[f]
  BY DEF Due
<1>3. /\ leased' \in [Feeds -> BOOLEAN]
      /\ \A f \in Feeds : leased[f] \/ f \in S => leased'[f]
  BY <1>1 DEF GetFeedsDueForPolling, PollInv, PollTypes
<1>4. CASE UNCHANGED pollVars
  BY <1>3, <1>4, LeaseOfFreeFeedEnds DEF pollVars
<1>5. CASE ~ UNCHANGED pollVars
  <2>1. PICK slot \in [S -> {p \in Polls : at[p] = "free"}] :
          /\ \A f, g \in S : slot[f] = slot[g] => f = g
          /\ at' = [p \in Polls |->
               IF \E f \in S : slot[f] = p THEN "claimed" ELSE at[p]]
          /\ of' = [p \in Polls |->
               IF \E f \in S : slot[f] = p
               THEN CHOOSE f \in S : slot[f] = p ELSE of[p]]
    BY <1>1, <1>5
  <2> DEFINE New(p) == \E f \in S : slot[f] = p
  <2>2. ASSUME NEW p \in Polls, New(p)
        PROVE  of'[p] \in S /\ slot[of'[p]] = p /\ at'[p] = "claimed"
    BY <2>1, <2>2
  <2>3. ASSUME NEW p \in Polls, ~New(p)
        PROVE  of'[p] = of[p] /\ at'[p] = at[p]
    BY <2>1, <2>3
  <2> HIDE DEF New
  <2>4. PollTypes'
    <3>1. at' \in [Polls -> {"free", "claimed", "queued"} \cup AtWork]
      BY <2>1 DEF PollInv, PollTypes
    <3>2. of' \in [Polls -> Feeds \cup {None}]
      <4>1. \A p \in Polls : of'[p] \in Feeds \cup {None}
        BY <1>2, <2>2, <2>3 DEF PollInv, PollTypes
      <4> QED BY <2>1, <4>1
    <3>3. \A p \in Polls : of'[p] = None <=> at'[p] = "free"
      BY <1>2, <2>2, <2>3 DEF PollInv, PollTypes
    <3> QED BY <1>3, <3>1, <3>2, <3>3 DEF PollTypes
  <2>5. \A p \in Polls : ~New(p) /\ of[p] # None =>
          of[p] \in Feeds /\ leased[of[p]] /\ of[p] \notin S
    BY <1>2 DEF PollInv, PollTypes, HeldIsLeased
  <2>6. HeldIsLeased'
    BY <1>2, <1>3, <2>2, <2>3, <2>5 DEF HeldIsLeased
  <2>7. ExclusivePolling'
    <3> SUFFICES ASSUME NEW p \in Polls, NEW q \in Polls,
                        of'[p] = of'[q], of'[p] # None
                 PROVE  p = q
      BY DEF ExclusivePolling
    <3>1. CASE New(p) /\ New(q)
      BY <2>2, <3>1
    <3>2. CASE ~New(p) /\ ~New(q)
      BY <2>3, <3>2 DEF PollInv, ExclusivePolling
    <3>3. CASE New(p) /\ ~New(q)
      <4>1. of'[p] \in S BY <2>2, <3>3
      <4>2. of[q] # None /\ of'[q] = of[q] BY <2>3, <3>3
      <4> QED BY <2>5, <3>3, <4>1, <4>2
    <3>4. CASE ~New(p) /\ New(q)
      <4>1. of'[q] \in S BY <2>2, <3>4
      <4>2. of[p] # None /\ of'[p] = of[p] BY <2>3, <3>4
      <4> QED BY <2>5, <3>4, <4>1, <4>2
    <3> QED BY <3>1, <3>2, <3>3, <3>4
  <2> QED BY <2>4, <2>6, <2>7 DEF PollInv
<1> QED BY <1>4, <1>5

-----------------------------------------------------------------------------
LEMMA PollStepKeepsInv ==
  ASSUME PollInv, NEW p \in Polls, PollStep(p)
  PROVE  PollInv'
<1>1. CASE Submit(p)
  <2>1. CASE Goto(p, "queued") /\ UNCHANGED <<rowVars, of>>
    BY <1>1, <2>1, PollMovesOn DEF Submit, rowVars
  <2>2. CASE Drop(p) /\ (ReleaseClaim(of[p]) \/ UNCHANGED rowVars)
    BY <1>1, <2>2, PollEnds DEF Submit, rowVars
  <2> QED BY <1>1, <2>1, <2>2 DEF Submit
<1>2. CASE Take(p)
  BY <1>2, PollMovesOn DEF Take, AtWork, rowVars
<1>3. CASE FetchSucceeds(p)
  BY <1>3, PollMovesOn DEF FetchSucceeds, AtWork, rowVars
<1>4. CASE FetchFails(p)
  BY <1>4, PollMovesOn DEF FetchFails, AtWork, rowVars
<1>5. CASE \E g \in Guids : StoreItem(p, g)
  <2>1. UNCHANGED <<at, of, leased>>
    BY <1>5 DEF StoreItem, rowVars
  <2> QED BY <2>1 DEF PollInv, PollTypes, HeldIsLeased, ExclusivePolling
<1>6. CASE Finish(p)
  BY <1>6, PollEnds DEF Finish, UpdatePollingInfo, rowVars
<1>7. CASE RecordError(p)
  <2>1. UNCHANGED <<of, leased>>
    BY <1>7 DEF RecordError, UpdateErrorInfo, rowVars
  <2>2. \/ Goto(p, "disable") \/ Goto(p, "reschedule")
    BY <1>7 DEF RecordError
  <2> QED BY <1>7, <2>1, <2>2, PollMovesOn DEF RecordError, AtWork
<1>8. CASE Disable(p)
  BY <1>8, PollMovesOn DEF Disable, UpdateStatus, AtWork, rowVars
<1>9. CASE Reschedule(p)
  BY <1>9, PollEnds DEF Reschedule, UpdatePollingInfo, rowVars
<1> QED BY <1>1, <1>2, <1>3, <1>4, <1>5, <1>6, <1>7, <1>8, <1>9 DEF PollStep

\* Steps of others than the polls.
LEMMA OtherStepKeepsInv ==
  ASSUME PollInv, LeaseOutlivesPoll,
         \/ GetFeedsForTierUpdate \/ WeeksPass \/ Crash \/ UNCHANGED vars
         \/ \E f \in Feeds :
              \/ UpdateFeedTier(f) \/ EnableStep(f) \/ BecomeDue(f)
              \/ LeaseExpires(f) \/ \E g \in Guids : Publish(f, g)
  PROVE  PollInv'
<1>1. CASE Crash
  <2>1. /\ at' = [p \in Polls |-> "free"] /\ of' = [p \in Polls |-> None]
        /\ leased' = leased
    BY <1>1 DEF Crash, rowVars
  <2> QED BY <2>1 DEF PollInv, PollTypes, HeldIsLeased, ExclusivePolling
<1>2. CASE WeeksPass
  BY <1>2, LeaseOfFreeFeedEnds DEF WeeksPass, pollVars
<1>3. ASSUME NEW f \in Feeds, BecomeDue(f) \/ LeaseExpires(f)
      PROVE  PollInv'
  <2>1. leased' = [leased EXCEPT ![f] = FALSE] /\ ~InHand(f)
    BY <1>3 DEF BecomeDue, LeaseExpires, ReleaseClaim
  <2>2. UNCHANGED <<at, of>>
    BY <1>3 DEF BecomeDue, LeaseExpires, pollVars
  <2>3. /\ leased' \in [Feeds -> BOOLEAN]
        /\ \A h \in Feeds : leased[h] /\ InHand(h) => leased'[h]
    BY <2>1 DEF PollInv, PollTypes
  <2> QED BY <2>2, <2>3, LeaseOfFreeFeedEnds
<1>4. ASSUME \/ GetFeedsForTierUpdate \/ UNCHANGED vars
             \/ \E f \in Feeds : \/ UpdateFeedTier(f) \/ EnableStep(f)
                                 \/ \E g \in Guids : Publish(f, g)
      PROVE  PollInv'
  <2>1. UNCHANGED <<at, of, leased>>
    BY <1>4 DEF GetFeedsForTierUpdate, UpdateFeedTier, EnableStep,
         EnableStatus, EnableErrors, EnablePoll, Publish, UpdatePollingInfo,
         UpdateStatus, UpdateErrorInfo, vars, pollVars, rowVars
  <2> QED BY <2>1 DEF PollInv, PollTypes, HeldIsLeased, ExclusivePolling
<1> QED BY <1>1, <1>2, <1>3, <1>4

\* While leases outlive polls, no feed is polled twice at once, by however
\* many workers, through full queues, crashes, re-tiering and EnableFeed.
THEOREM PollsAreExclusive ==
  ASSUME LeaseOutlivesPoll
  PROVE  Spec => []ExclusivePolling
<1>1. Init => PollInv
  BY DEF Init, PollInv, PollTypes, HeldIsLeased, ExclusivePolling
<1>2. PollInv /\ [Next]_vars => PollInv'
  BY ClaimKeepsInv, PollStepKeepsInv, OtherStepKeepsInv DEF Next
<1>3. PollInv => ExclusivePolling
  BY DEF PollInv
<1> QED BY <1>1, <1>2, <1>3, PTL DEF Spec

-----------------------------------------------------------------------------
(* The types, and the room in the queue and in the pool.                   *)

RowTypes ==
  /\ status \in [Feeds -> {"active", "disabled"}]
  /\ tier \in [Feeds -> Tiers]
  /\ due \in [Feeds -> BOOLEAN]
  /\ lastPub \in [Feeds -> Ages]
  /\ errors \in [Feeds -> 0..(ErrorLimit + 1)]

Luggage ==
  /\ seen \in [Polls -> [tier : Tiers, errors : 0..(ErrorLimit + 1)]]
  /\ toStore \in [Polls -> SUBSET Guids]
  /\ news \in [Polls -> BOOLEAN]

Room == Cardinality(Queued) <= QueueSize /\ Cardinality(Working) <= WorkerCount

TierTypes ==
  /\ tierRows \in [Feeds -> [lastPub : Ages, tier : Tiers] \cup {NoRow}]
  /\ updates \in 0..TierUpdates

EnableTypes ==
  /\ enabling \in [Feeds -> {"no", "errors", "poll"}]
  /\ enables \in [Feeds -> 0..MaxEnables]

GhostTypes ==
  /\ stored \in SUBSET (Feeds \X Guids)
  /\ published \in [Feeds -> SUBSET Guids]
  /\ found \in [Feeds -> Ages]
  /\ failures \in [Feeds -> 0..ErrorLimit]
  /\ streak \in [Feeds -> 0..ErrorLimit]

Types == /\ RowTypes /\ PollTypes /\ Luggage /\ Room
         /\ TierTypes /\ EnableTypes /\ GhostTypes /\ faults \in 0..MaxFaults

\* The parts are the type invariant.
LEMMA TypesAreTypeOK == Types <=> TypeOK
<1> QED BY DEF Types, RowTypes, PollTypes, Luggage, Room, TierTypes,
           EnableTypes, GhostTypes, TypeOK

-----------------------------------------------------------------------------
(* The count of errors.                                                    *)

Counted(f) == IF errors[f] < ErrorLimit THEN failures[f] = errors[f]
                                        ELSE status[f] = "disabled"

Untouched(f) == faults = 0 /\ enables[f] = 0

\* The claim's snapshot stays the row's count until the poll writes it.
OnTrack(p, f) ==
  /\ at[p] \in {"claimed", "queued", "fetch", "items", "error"} =>
       seen[p].errors = errors[f] /\ errors[f] < ErrorLimit
  /\ at[p] \in {"claimed", "queued", "fetch", "items"} =>
       failures[f] = errors[f]
  /\ at[p] = "error" => failures[f] = errors[f] + 1
  /\ at[p] = "disable" => errors[f] >= ErrorLimit
  /\ at[p] = "reschedule" => Counted(f)

CountOf(f) ==
  Untouched(f) => /\ enabling[f] = "no"
                  /\ ~InHand(f) => Counted(f)
                  /\ \A p \in Polls : of[p] = f => OnTrack(p, f)

CountInv == \A f \in Feeds : CountOf(f)

-----------------------------------------------------------------------------
(* The types are kept.                                                     *)

\* What a poll's errors are written as is a count.
LEMMA OneMoreErrorCounts ==
  ASSUME Luggage, NEW p \in Polls
  PROVE  OneMoreError(p) \in 0..(ErrorLimit + 1)
<1>1. seen[p].errors \in 0..(ErrorLimit + 1) /\ ErrorLimit \in Nat
  BY FeedPollingAssumption DEF Luggage
<1> QED BY <1>1 DEF OneMoreError

\* Any update of the repository, or none.
LEMMA RowWrite ==
  ASSUME RowTypes, leased \in [Feeds -> BOOLEAN],
         NEW f \in Feeds, NEW age \in Ages, NEW t \in Tiers, NEW now \in BOOLEAN,
         NEW n \in 0..(ErrorLimit + 1), NEW s \in {"active", "disabled"},
         \/ UpdatePollingInfo(f, age, t, now) \/ UpdateErrorInfo(f, n)
         \/ UpdateStatus(f, s) \/ ReleaseClaim(f) \/ UNCHANGED rowVars
  PROVE  RowTypes' /\ leased' \in [Feeds -> BOOLEAN]
<1>1. CASE UpdatePollingInfo(f, age, t, now)
  BY <1>1 DEF RowTypes, UpdatePollingInfo
<1>2. CASE UpdateErrorInfo(f, n)
  BY <1>2 DEF RowTypes, UpdateErrorInfo
<1>3. CASE UpdateStatus(f, s)
  BY <1>3 DEF RowTypes, UpdateStatus
<1>4. CASE ReleaseClaim(f)
  BY <1>4 DEF RowTypes, ReleaseClaim
<1>5. CASE UNCHANGED rowVars
  BY <1>5 DEF RowTypes, rowVars
<1> QED BY <1>1, <1>2, <1>3, <1>4, <1>5

\* Nobody is queued or taken: there is room as before.
LEMMA RoomStays ==
  ASSUME Room, \A q \in Polls : at'[q] = "queued" => at[q] = "queued",
         \A q \in Polls : at'[q] \in AtWork => at[q] \in AtWork
  PROVE  Room'
<1>1. Queued' \subseteq Queued /\ Working' \subseteq Working
  BY DEF Queued, Working
<1>2. IsFiniteSet(Queued) /\ IsFiniteSet(Working)
  BY FS_Subset, FeedPollingAssumption DEF Queued, Working
<1>3. /\ Cardinality(Queued) \in Nat /\ Cardinality(Working) \in Nat
      /\ Cardinality(Queued') <= Cardinality(Queued)
      /\ Cardinality(Working') <= Cardinality(Working)
      /\ Cardinality(Queued') \in Nat /\ Cardinality(Working') \in Nat
  BY <1>1, <1>2, FS_Subset, FS_CardinalityType
<1>4. QueueSize \in Nat /\ WorkerCount \in Nat
  BY FeedPollingAssumption
<1> QED BY <1>3, <1>4 DEF Room

\* One more in the queue.
LEMMA RoomInQueue ==
  ASSUME Room, PollTypes, NEW p \in Polls, at[p] = "claimed",
         Goto(p, "queued"), Cardinality(Queued) < QueueSize
  PROVE  Room'
<1>1. Queued' = Queued \cup {p} /\ Working' = Working
  BY DEF Queued, Working, Goto, PollTypes, AtWork
<1>2. IsFiniteSet(Queued) /\ p \notin Queued
  BY FS_Subset, FeedPollingAssumption DEF Queued
<1>3. Cardinality(Queued') = Cardinality(Queued) + 1
      /\ Cardinality(Queued) \in Nat
  BY <1>1, <1>2, FS_AddElement, FS_CardinalityType
<1>4. QueueSize \in Nat
  BY FeedPollingAssumption
<1>5. Cardinality(Queued') <= QueueSize
  BY <1>3, <1>4
<1> QED BY <1>1, <1>5 DEF Room

\* One more at work.
LEMMA RoomAtWork ==
  ASSUME Room, PollTypes, NEW p \in Polls, Take(p)
  PROVE  Room'
<1>1. Working' = Working \cup {p} /\ Queued' \subseteq Queued
  BY DEF Queued, Working, Goto, PollTypes, AtWork, Take
<1>2. IsFiniteSet(Queued) /\ IsFiniteSet(Working) /\ p \notin Working
  BY FS_Subset, FeedPollingAssumption DEF Queued, Working, Take, AtWork
<1>3. Cardinality(Working') = Cardinality(Working) + 1
      /\ Cardinality(Working) \in Nat /\ Cardinality(Queued) \in Nat
      /\ Cardinality(Queued') <= Cardinality(Queued)
      /\ Cardinality(Queued') \in Nat
  BY <1>1, <1>2, FS_AddElement, FS_CardinalityType, FS_Subset
<1>4. QueueSize \in Nat /\ WorkerCount \in Nat
  BY FeedPollingAssumption
<1>5. Cardinality(Working) < WorkerCount
  BY DEF Take
<1> QED BY <1>3, <1>4, <1>5 DEF Room

\* What a step of a poll does to the polls: it moves on or it is over.
LEMMA PollWrite ==
  ASSUME PollTypes, Luggage, NEW p \in Polls, at[p] # "free",
         leased' \in [Feeds -> BOOLEAN],
         \/ Drop(p)
         \/ /\ UNCHANGED <<of, seen, toStore, news>>
            /\ \E label \in {"claimed", "queued"} \cup AtWork : Goto(p, label)
  PROVE  PollTypes' /\ Luggage'
<1>1. CASE Drop(p)
  BY <1>1 DEF PollTypes, Luggage, Drop, Goto
<1>2. ASSUME NEW label \in {"claimed", "queued"} \cup AtWork, Goto(p, label),
             UNCHANGED <<of, seen, toStore, news>>
      PROVE  PollTypes' /\ Luggage'
  <2>1. Luggage'
    BY <1>2 DEF Luggage
  <2>2. label # "free"
    BY DEF AtWork
  <2> QED BY <1>2, <2>1, <2>2 DEF PollTypes, Goto
<1> QED BY <1>1, <1>2

\* A poll that moves on or ends, neither into the queue nor into the pool.
LEMMA RoomMovesOn ==
  ASSUME Room, PollTypes, NEW p \in Polls, at[p] # "free",
         \/ Drop(p)
         \/ at[p] \in AtWork /\ \E label \in AtWork : Goto(p, label)
  PROVE  Room'
<1>1. \A q \in Polls : at'[q] = "queued" => at[q] = "queued"
  BY DEF PollTypes, Drop, Goto, AtWork
<1>2. \A q \in Polls : at'[q] \in AtWork => at[q] \in AtWork
  BY DEF PollTypes, Drop, Goto, AtWork
<1> QED BY <1>1, <1>2, RoomStays

\* Faults are counted up to their bound.
LEMMA FaultCounts ==
  ASSUME faults \in 0..MaxFaults, Fault \/ NoFault
  PROVE  faults' \in 0..MaxFaults /\ (faults' = 0 => faults = 0)
<1>1. MaxFaults \in Nat
  BY FeedPollingAssumption
<1> QED BY <1>1 DEF Fault, NoFault

\* A claim fills free polls with the feeds claimed, or loses its answer.
LEMMA ClaimKeepsTypes ==
  ASSUME Types, Claim
  PROVE  Types'
<1>1. PICK S \in (SUBSET Due) \ {{}} :
        /\ GetFeedsDueForPolling(S)
        /\ \/ \E slot \in [S -> {p \in Polls : at[p] = "free"}] :
                /\ at' = [p \in Polls |->
                     IF \E f \in S : slot[f] = p THEN "claimed" ELSE at[p]]
                /\ of' = [p \in Polls |->
                     IF \E f \in S : slot[f] = p
                     THEN CHOOSE f \in S : slot[f] = p ELSE of[p]]
                /\ seen' = [p \in Polls |->
                     IF \E f \in S : slot[f] = p
                     THEN [tier |-> tier[of'[p]], errors |-> errors[of'[p]]]
                     ELSE seen[p]]
                /\ UNCHANGED <<toStore, news>>
           \/ UNCHANGED pollVars
  BY DEF Claim
<1>2. S \subseteq Feeds
  BY DEF Due
<1>3. RowTypes' /\ leased' \in [Feeds -> BOOLEAN]
  BY <1>1 DEF GetFeedsDueForPolling, Types, RowTypes, PollTypes
<1>4. TierTypes' /\ EnableTypes' /\ GhostTypes'
  BY DEF Claim, Types, TierTypes, EnableTypes, GhostTypes, tierVars,
         enableVars, ghostVars
<1>5. Fault \/ NoFault
  BY DEF Claim
<1>6. faults' \in 0..MaxFaults
  BY <1>5, FaultCounts DEF Types
<1>7. CASE UNCHANGED pollVars
  <2>1. PollTypes' /\ Luggage' /\ Room'
    BY <1>3, <1>7 DEF pollVars, Types, PollTypes, Luggage, Room, Queued, Working
  <2> QED BY <1>3, <1>4, <1>6, <2>1 DEF Types
<1>8. CASE ~ UNCHANGED pollVars
  <2>1. PICK slot \in [S -> {p \in Polls : at[p] = "free"}] :
          /\ at' = [p \in Polls |->
               IF \E f \in S : slot[f] = p THEN "claimed" ELSE at[p]]
          /\ of' = [p \in Polls |->
               IF \E f \in S : slot[f] = p
               THEN CHOOSE f \in S : slot[f] = p ELSE of[p]]
          /\ seen' = [p \in Polls |->
               IF \E f \in S : slot[f] = p
               THEN [tier |-> tier[of'[p]], errors |-> errors[of'[p]]]
               ELSE seen[p]]
          /\ UNCHANGED <<toStore, news>>
    BY <1>1, <1>8
  <2> DEFINE New(p) == \E f \in S : slot[f] = p
  <2>2. ASSUME NEW p \in Polls, New(p)
        PROVE  /\ of'[p] \in Feeds /\ at'[p] = "claimed"
               /\ seen'[p] = [tier |-> tier[of'[p]], errors |-> errors[of'[p]]]
    BY <1>2, <2>1, <2>2
  <2>3. ASSUME NEW p \in Polls, ~New(p)
        PROVE  of'[p] = of[p] /\ at'[p] = at[p] /\ seen'[p] = seen[p]
    BY <2>1, <2>3
  <2>4. /\ at' = [p \in Polls |-> at'[p]]
        /\ of' = [p \in Polls |-> of'[p]]
        /\ seen' = [p \in Polls |-> seen'[p]]
    BY <2>1
  <2> HIDE DEF New
  <2>5. PollTypes'
    <3>1. \A p \in Polls :
            at'[p] \in {"free", "claimed", "queued"} \cup AtWork
      BY <2>2, <2>3 DEF Types, PollTypes
    <3>2. \A p \in Polls : of'[p] \in Feeds \cup {None}
      BY <2>2, <2>3 DEF Types, PollTypes
    <3>3. \A p \in Polls : of'[p] = None <=> at'[p] = "free"
      BY <2>2, <2>3, FeedPollingAssumption DEF Types, PollTypes
    <3> QED BY <1>3, <2>4, <3>1, <3>2, <3>3 DEF PollTypes
  <2>6. Luggage'
    <3>1. ASSUME NEW p \in Polls
          PROVE  seen'[p] \in [tier : Tiers, errors : 0..(ErrorLimit + 1)]
      <4>1. CASE New(p)
        <5>1. /\ tier[of'[p]] \in Tiers
              /\ errors[of'[p]] \in 0..(ErrorLimit + 1)
          BY <2>2, <4>1 DEF Types, RowTypes
        <5>2. \A t \in Tiers, n \in 0..(ErrorLimit + 1) :
                [tier |-> t, errors |-> n]
                  \in [tier : Tiers, errors : 0..(ErrorLimit + 1)]
          OBVIOUS
        <5>3. [tier |-> tier[of'[p]], errors |-> errors[of'[p]]]
                \in [tier : Tiers, errors : 0..(ErrorLimit + 1)]
          BY <5>1, <5>2
        <5>4. seen'[p] = [tier |-> tier[of'[p]], errors |-> errors[of'[p]]]
          BY <2>2, <4>1
        <5> QED BY <5>3, <5>4
      <4>2. CASE ~New(p)
        BY <2>3, <4>2 DEF Types, Luggage
      <4> QED BY <4>1, <4>2
    <3> QED BY <2>1, <2>4, <3>1 DEF Types, Luggage
  <2>7. Room'
    <3>1. \A q \in Polls : /\ at'[q] = "queued" => at[q] = "queued"
                           /\ at'[q] \in AtWork => at[q] \in AtWork
      BY <2>2, <2>3 DEF AtWork
    <3> QED BY <3>1, RoomStays DEF Types
  <2> QED BY <1>3, <1>4, <1>6, <2>5, <2>6, <2>7 DEF Types
<1> QED BY <1>7, <1>8

\* A worker's step writes one row at most and moves one poll.
LEMMA PollStepKeepsTypes ==
  ASSUME Types, NEW p \in Polls, PollStep(p)
  PROVE  Types'
<1> USE DEF Types
<1> DEFINE f == of[p]
<1>1. at[p] # "free"
  BY DEF PollStep, Submit, Take, FetchSucceeds, FetchFails, StoreItem, Finish,
         RecordError, Disable, Reschedule
<1>2. f \in Feeds
  BY <1>1 DEF PollTypes
<1>3. TierTypes' /\ EnableTypes'
  BY DEF PollStep, Submit, Take, FetchSucceeds, FetchFails, StoreItem, Finish,
         RecordError, Disable, Reschedule, TierTypes, EnableTypes, tierVars,
         enableVars
<1>4. Fault \/ NoFault
  BY DEF PollStep, Submit, Take, FetchSucceeds, FetchFails, StoreItem, Finish,
         RecordError, Disable, Reschedule, NoFault
<1>5. faults' \in 0..MaxFaults
  BY <1>4, FaultCounts
<1>6. seen[p].tier \in Tiers
  BY DEF Luggage
<1>7. OneMoreError(p) \in 0..(ErrorLimit + 1)
  BY OneMoreErrorCounts
<1>8. RowTypes' /\ leased' \in [Feeds -> BOOLEAN]
  <2>1. leased \in [Feeds -> BOOLEAN]
    BY DEF PollTypes
  <2>2. \/ UNCHANGED rowVars \/ ReleaseClaim(f)
        \/ \E age \in Ages, t \in Tiers, now \in BOOLEAN :
             UpdatePollingInfo(f, age, t, now)
        \/ \E n \in 0..(ErrorLimit + 1) : UpdateErrorInfo(f, n)
        \/ \E s \in {"active", "disabled"} : UpdateStatus(f, s)
    <3>1. CASE \/ Submit(p) \/ Take(p) \/ FetchSucceeds(p) \/ FetchFails(p)
               \/ \E g \in Guids : StoreItem(p, g)
      BY <3>1 DEF Submit, Take, FetchSucceeds, FetchFails, StoreItem, rowVars
    <3>2. CASE Finish(p)
      <4>1. PromoteTier(seen[p].tier) \in Tiers
        BY DEF PromoteTier, Tiers
      <4>2. "week" \in Ages /\ "never" \in Ages /\ FALSE \in BOOLEAN
        BY DEF Ages
      <4> QED BY <1>6, <3>2, <4>1, <4>2 DEF Finish
    <3>3. CASE RecordError(p)
      BY <1>7, <3>3 DEF RecordError
    <3>4. CASE Disable(p)
      BY <3>4 DEF Disable
    <3>5. CASE Reschedule(p)
      <4>1. "never" \in Ages /\ FALSE \in BOOLEAN
        BY DEF Ages
      <4> QED BY <1>6, <3>5, <4>1 DEF Reschedule
    <3> QED BY <3>1, <3>2, <3>3, <3>4, <3>5 DEF PollStep
  <2>3. "never" \in Ages /\ "active" \in Tiers /\ 0 \in 0..(ErrorLimit + 1)
    BY FeedPollingAssumption DEF Ages, Tiers
  <2> QED BY <1>2, <2>1, <2>2, <2>3, RowWrite
<1>9. GhostTypes'
  <2>1. CASE FetchSucceeds(p) \/ FetchFails(p)
    <3>1. ErrorLimit \in Nat
      BY FeedPollingAssumption
    <3> QED BY <1>2, <2>1, <3>1 DEF FetchSucceeds, FetchFails, GhostTypes
  <2>2. CASE \E g \in Guids : StoreItem(p, g)
    <3>1. PICK g \in Guids : StoreItem(p, g)
      BY <2>2
    <3>2. stored' \in SUBSET (Feeds \X Guids)
      BY <1>2, <3>1 DEF StoreItem, GhostTypes
    <3> QED BY <3>1, <3>2 DEF StoreItem, GhostTypes, ghostVars
  <2>3. CASE Finish(p)
    BY <1>2, <2>3 DEF Finish, GhostTypes, Ages
  <2>4. CASE \/ Submit(p) \/ Take(p) \/ RecordError(p) \/ Disable(p)
             \/ Reschedule(p)
    BY <2>4 DEF Submit, Take, RecordError, Disable, Reschedule, GhostTypes,
         ghostVars
  <2> QED BY <2>1, <2>2, <2>3, <2>4 DEF PollStep
<1>10. PollTypes' /\ Luggage' /\ Room'
  <2>1. CASE Submit(p)
    <3>1. CASE /\ Cardinality(Queued) < QueueSize /\ Goto(p, "queued")
               /\ UNCHANGED <<of, seen, toStore, news>>
      <4>1. Room'
        BY <2>1, <3>1, RoomInQueue DEF Submit
      <4> QED BY <1>1, <1>8, <3>1, <4>1, PollWrite
    <3>2. CASE Drop(p)
      BY <1>1, <1>8, <3>2, PollWrite, RoomMovesOn
    <3> QED BY <2>1, <3>1, <3>2 DEF Submit
  <2>2. CASE Take(p)
    <3>1. Room'
      BY <2>2, RoomAtWork
    <3>2. Goto(p, "fetch") /\ UNCHANGED <<of, seen, toStore, news>>
      BY <2>2 DEF Take
    <3> QED BY <1>1, <1>8, <3>1, <3>2, PollWrite DEF AtWork
  <2>3. CASE FetchSucceeds(p)
    <3>1. at[p] \in AtWork /\ "items" \in AtWork /\ Goto(p, "items")
      BY <2>3 DEF FetchSucceeds, AtWork
    <3>2. Room'
      BY <1>1, <3>1, RoomMovesOn
    <3>3. PollTypes'
      BY <1>1, <1>8, <2>3 DEF FetchSucceeds, PollTypes, Goto, AtWork
    <3>4. Luggage'
      BY <1>2, <2>3 DEF FetchSucceeds, Luggage, GhostTypes
    <3> QED BY <3>2, <3>3, <3>4
  <2>4. CASE FetchFails(p) \/ RecordError(p) \/ Disable(p)
    <3>1. at[p] \in AtWork /\ UNCHANGED <<of, seen, toStore, news>>
      BY <2>4 DEF FetchFails, RecordError, Disable, AtWork
    <3>2. \E label \in AtWork : Goto(p, label)
      BY <2>4 DEF FetchFails, RecordError, Disable, AtWork
    <3> QED BY <1>1, <1>8, <3>1, <3>2, PollWrite, RoomMovesOn
  <2>5. CASE \E g \in Guids : StoreItem(p, g)
    <3>1. PICK g \in Guids : StoreItem(p, g)
      BY <2>5
    <3>2. UNCHANGED <<at, of, seen>>
      BY <3>1 DEF StoreItem
    <3>3. Luggage'
      BY <3>1, <3>2 DEF StoreItem, Luggage
    <3> QED BY <1>8, <3>2, <3>3 DEF PollTypes, Room, Queued, Working
  <2>6. CASE Finish(p) \/ Reschedule(p)
    <3>1. Drop(p)
      BY <2>6 DEF Finish, Reschedule
    <3> QED BY <1>1, <1>8, <3>1, PollWrite, RoomMovesOn
  <2> QED BY <2>1, <2>2, <2>3, <2>4, <2>5, <2>6 DEF PollStep
<1> QED BY <1>3, <1>5, <1>8, <1>9, <1>10

\* The tier manager and EnableFeed.
LEMMA TierStepKeepsTypes ==
  ASSUME Types,
         \/ GetFeedsForTierUpdate
         \/ \E f \in Feeds : UpdateFeedTier(f) \/ EnableStep(f)
  PROVE  Types'
<1> USE DEF Types
<1>1. PollTypes' /\ Luggage' /\ Room'
  <2>1. UNCHANGED pollVars /\ UNCHANGED leased
    BY DEF GetFeedsForTierUpdate, UpdateFeedTier, EnableStep, EnableStatus,
           EnableErrors, EnablePoll, UpdatePollingInfo, UpdateStatus,
           UpdateErrorInfo, rowVars
  <2> QED BY <2>1 DEF pollVars, PollTypes, Luggage, Room, Queued, Working
<1>2. Fault \/ NoFault
  BY DEF GetFeedsForTierUpdate, UpdateFeedTier, EnableStep, EnableStatus,
         EnableErrors, EnablePoll, NoFault
<1>3. faults' \in 0..MaxFaults
  BY <1>2, FaultCounts
<1>4. GhostTypes'
  <2>1. CASE \E f \in Feeds : EnableStatus(f)
    <3>1. 0 \in 0..ErrorLimit
      BY FeedPollingAssumption
    <3> QED BY <2>1, <3>1 DEF EnableStatus, GhostTypes
  <2>2. CASE ~ \E f \in Feeds : EnableStatus(f)
    BY <2>2 DEF GetFeedsForTierUpdate, UpdateFeedTier, EnableStep,
           EnableErrors, EnablePoll, GhostTypes, ghostVars
  <2> QED BY <2>1, <2>2
<1>5. CASE GetFeedsForTierUpdate
  <2>1. RowTypes' /\ EnableTypes'
    BY <1>5 DEF GetFeedsForTierUpdate, rowVars, enableVars, RowTypes, EnableTypes
  <2>2. TierTypes'
    <3>1. TierUpdates \in Nat
      BY FeedPollingAssumption
    <3>2. updates' \in 0..TierUpdates
      BY <1>5, <3>1 DEF GetFeedsForTierUpdate, TierTypes
    <3>3. \A f \in Feeds : [lastPub |-> lastPub[f], tier |-> tier[f]]
                             \in [lastPub : Ages, tier : Tiers]
      BY DEF RowTypes
    <3> QED BY <1>5, <3>2, <3>3 DEF GetFeedsForTierUpdate, TierTypes
  <2> QED BY <1>1, <1>3, <1>4, <2>1, <2>2
<1>6. ASSUME NEW f \in Feeds, UpdateFeedTier(f)
      PROVE  Types'
  <2>1. EnableTypes'
    BY <1>6 DEF UpdateFeedTier, enableVars, EnableTypes
  <2>2. TierTypes'
    BY <1>6 DEF UpdateFeedTier, TierTypes
  <2>3. tierRows[f].lastPub \in Ages
    BY DEF TierTypes, NoRow, Ages
  <2>4. DetermineTierByActivity(tierRows[f].lastPub) \in Tiers
    BY DEF DetermineTierByActivity, Tiers
  <2>5. RowTypes'
    <3>1. \/ UNCHANGED rowVars
          \/ UpdatePollingInfo(f, tierRows[f].lastPub,
               DetermineTierByActivity(tierRows[f].lastPub), FALSE)
      BY <1>6 DEF UpdateFeedTier
    <3>2. 0 \in 0..(ErrorLimit + 1) /\ FALSE \in BOOLEAN
      BY FeedPollingAssumption
    <3> QED BY <2>3, <2>4, <3>1, <3>2, RowWrite DEF PollTypes
  <2> QED BY <1>1, <1>3, <1>4, <2>1, <2>2, <2>5
<1>7. ASSUME NEW f \in Feeds, EnableStep(f)
      PROVE  Types'
  <2>1. TierTypes'
    BY <1>7 DEF EnableStep, EnableStatus, EnableErrors, EnablePoll, tierVars,
         TierTypes
  <2>2. EnableTypes'
    <3>1. MaxEnables \in Nat
      BY FeedPollingAssumption
    <3>2. /\ enabling \in [Feeds -> {"no", "errors", "poll"}]
          /\ enables \in [Feeds -> 0..MaxEnables]
      BY DEF EnableTypes
    <3>3. CASE EnableStatus(f)
      <4>1. enables[f] + 1 \in 0..MaxEnables
        BY <3>1, <3>2, <3>3 DEF EnableStatus
      <4>2. enables' \in [Feeds -> 0..MaxEnables]
        BY <3>2, <3>3, <4>1 DEF EnableStatus
      <4> QED BY <3>2, <3>3, <4>2 DEF EnableStatus, EnableTypes
    <3>4. CASE EnableErrors(f) \/ EnablePoll(f)
      BY <3>2, <3>4 DEF EnableErrors, EnablePoll, EnableTypes
    <3> QED BY <1>7, <3>3, <3>4 DEF EnableStep
  <2>3. RowTypes'
    <3>1. /\ "never" \in Ages /\ "active" \in Tiers /\ TRUE \in BOOLEAN
          /\ 0 \in 0..(ErrorLimit + 1) /\ "active" \in {"active", "disabled"}
      BY FeedPollingAssumption DEF Ages, Tiers
    <3>2. \/ UNCHANGED rowVars \/ UpdateStatus(f, "active")
          \/ UpdateErrorInfo(f, 0) \/ UpdatePollingInfo(f, "never", "active", TRUE)
      BY <1>7 DEF EnableStep, EnableStatus, EnableErrors, EnablePoll
    <3> QED BY <3>1, <3>2, RowWrite DEF PollTypes
  <2> QED BY <1>1, <1>3, <1>4, <2>1, <2>2, <2>3
<1> QED BY <1>5, <1>6, <1>7

\* Publishers, time and crashes.
LEMMA WorldKeepsTypes ==
  ASSUME Types,
         \/ WeeksPass \/ Crash \/ UNCHANGED vars
         \/ \E f \in Feeds : \/ BecomeDue(f) \/ LeaseExpires(f)
                             \/ \E g \in Guids : Publish(f, g)
  PROVE  Types'
<1> USE DEF Types
<1>1. CASE Crash
  <2>1. Room'
    <3>1. \A q \in Polls : at'[q] = "free"
      BY <1>1 DEF Crash
    <3> QED BY <3>1, RoomStays DEF AtWork
  <2>2. PollTypes' /\ Luggage'
    BY <1>1 DEF Crash, rowVars, PollTypes, Luggage
  <2>3. TierTypes' /\ RowTypes' /\ EnableTypes' /\ GhostTypes'
    BY <1>1 DEF Crash, rowVars, TierTypes, RowTypes, EnableTypes, GhostTypes,
         enableVars, ghostVars
  <2>4. faults' \in 0..MaxFaults
    BY <1>1, FaultCounts DEF Crash
  <2> QED BY <2>1, <2>2, <2>3, <2>4
<1>2. CASE ~Crash
  <2>1. UNCHANGED pollVars /\ UNCHANGED <<tierVars, enableVars, faults>>
    BY <1>2 DEF WeeksPass, BecomeDue, LeaseExpires, Publish, vars
  <2>2. leased' \in [Feeds -> BOOLEAN]
    BY <1>2 DEF WeeksPass, BecomeDue, LeaseExpires, ReleaseClaim, Publish, vars,
         rowVars, PollTypes
  <2>3. PollTypes' /\ Luggage' /\ Room' /\ TierTypes' /\ EnableTypes'
    BY <2>1, <2>2 DEF pollVars, PollTypes, Luggage, Room, Queued, Working,
         tierVars, TierTypes, enableVars, EnableTypes
  <2>4. \A age \in Ages : Older(age) \in Ages
    BY DEF Older, Ages
  <2>5. RowTypes'
    <3>1. CASE WeeksPass
      <4>1. lastPub' \in [Feeds -> Ages] /\ due' \in [Feeds -> BOOLEAN]
        BY <2>4, <3>1 DEF WeeksPass, RowTypes
      <4> QED BY <3>1, <4>1 DEF WeeksPass, RowTypes
    <3>2. CASE \E f \in Feeds : BecomeDue(f)
      BY <3>2 DEF BecomeDue, RowTypes
    <3>3. CASE \/ UNCHANGED vars
               \/ \E f \in Feeds : \/ LeaseExpires(f)
                                   \/ \E g \in Guids : Publish(f, g)
      <4>1. UNCHANGED <<status, tier, due, lastPub, errors>>
        BY <3>3 DEF LeaseExpires, ReleaseClaim, Publish, vars, rowVars
      <4> QED BY <4>1 DEF RowTypes
    <3> QED BY <1>2, <3>1, <3>2, <3>3
  <2>6. GhostTypes'
    BY <1>2, <2>4 DEF WeeksPass, BecomeDue, LeaseExpires, Publish, vars,
         GhostTypes, ghostVars
  <2> QED BY <2>1, <2>3, <2>5, <2>6
<1> QED BY <1>1, <1>2

\* The feeds start well typed.
LEMMA InitTypes ==
  ASSUME Init
  PROVE  Types
<1>1. /\ 0 \in 0..(ErrorLimit + 1) /\ 0 \in 0..ErrorLimit
      /\ 0 \in 0..MaxEnables /\ 0 \in 0..TierUpdates /\ 0 \in 0..MaxFaults
  BY FeedPollingAssumption
<1>2. Room
  <2>1. Queued = {} /\ Working = {}
    BY DEF Init, Queued, Working, AtWork
  <2> QED BY <2>1, FS_EmptySet, FeedPollingAssumption DEF Room
<1>3. RowTypes /\ EnableTypes
  BY <1>1 DEF Init, RowTypes, EnableTypes, Tiers, Ages
<1>4. PollTypes
  BY DEF Init, PollTypes
<1>5. Luggage
  BY <1>1 DEF Init, Luggage, Tiers
<1>6. TierTypes /\ GhostTypes
  BY <1>1 DEF Init, TierTypes, GhostTypes, Ages
<1> QED BY <1>1, <1>2, <1>3, <1>4, <1>5, <1>6 DEF Types, Init

\* The steps together.
LEMMA NextTypes ==
  ASSUME Types, [Next]_vars
  PROVE  Types'
<1> QED BY ClaimKeepsTypes, PollStepKeepsTypes, TierStepKeepsTypes,
           WorldKeepsTypes DEF Next

\* Every variable keeps its type, a poll has a feed exactly while it is under
\* way, and neither the queue nor the pool of workers overflows, for however
\* many feeds and polls, and even where leases run out under their polls.
THEOREM TypeCorrect == Spec => []TypeOK
<1>1. Init => Types
  BY InitTypes
<1>2. Types /\ [Next]_vars => Types'
  BY NextTypes
<1>3. Types => TypeOK
  BY TypesAreTypeOK
<1> QED BY <1>1, <1>2, <1>3, PTL DEF Spec

-----------------------------------------------------------------------------
(* The count is kept.                                                      *)

\* A feed's count is kept where its row and its polls are left alone.
LEMMA CountFrame ==
  ASSUME NEW f \in Feeds, CountOf(f), Untouched(f)' => Untouched(f),
         errors'[f] = errors[f], failures'[f] = failures[f],
         status'[f] = status[f], enabling'[f] = enabling[f],
         InHand(f) => InHand(f)',
         \A q \in Polls : of'[q] = f =>
           of[q] = f /\ at'[q] = at[q] /\ seen'[q] = seen[q]
  PROVE  CountOf(f)'
<1> SUFFICES ASSUME Untouched(f)' PROVE CountOf(f)'
  BY DEF CountOf
<1>1. /\ enabling[f] = "no" /\ (~InHand(f) => Counted(f))
      /\ \A q \in Polls : of[q] = f => OnTrack(q, f)
  BY DEF CountOf
<1>2. Counted(f)' <=> Counted(f)
  BY DEF Counted
<1>3. ASSUME NEW q \in Polls, of'[q] = f PROVE OnTrack(q, f)'
  <2>1. OnTrack(q, f) /\ at'[q] = at[q] /\ seen'[q] = seen[q]
    BY <1>1, <1>3
  <2> QED BY <1>2, <2>1 DEF OnTrack
<1> QED BY <1>1, <1>2, <1>3 DEF CountOf

\* Nothing that happens brings a feed back to how Subscribe left it.
LEMMA UntouchedBefore ==
  ASSUME Types, Types', [Next]_vars, NEW f \in Feeds, Untouched(f)'
  PROVE  Untouched(f) /\ enables[f] = enables'[f] /\ NoFault
<1>1. faults' = 0 /\ enables'[f] = 0 /\ faults \in Nat /\ enables[f] \in Nat
  BY FeedPollingAssumption DEF Untouched, Types, EnableTypes
<1>2. Fault \/ NoFault
  BY DEF Next, Claim, GetFeedsForTierUpdate, WeeksPass, Crash, PollStep, Submit,
         Take, FetchSucceeds, FetchFails, StoreItem, Finish, RecordError, Disable,
         Reschedule, UpdateFeedTier, EnableStep, EnableStatus, EnableErrors,
         EnablePoll, BecomeDue, LeaseExpires, Publish, NoFault, vars
<1>3. NoFault /\ faults = 0
  BY <1>1, <1>2 DEF Fault, NoFault
<1>4. enables[f] = 0
  <2>1. ASSUME NEW h \in Feeds, EnableStatus(h) PROVE enables[f] = 0
    <3>1. enables' = [enables EXCEPT ![h] = @ + 1]
          /\ enables \in [Feeds -> 0..MaxEnables]
      BY <2>1 DEF EnableStatus, Types, EnableTypes
    <3>2. CASE h = f
      BY <1>1, <3>1, <3>2
    <3>3. CASE h # f
      BY <1>1, <3>1, <3>3
    <3> QED BY <3>2, <3>3
  <2>2. CASE ~ \E h \in Feeds : EnableStatus(h)
    <3>1. UNCHANGED enables
      BY <2>2 DEF Next, Claim, GetFeedsForTierUpdate, WeeksPass, Crash, PollStep,
         Submit, Take, FetchSucceeds, FetchFails, StoreItem, Finish, RecordError,
         Disable, Reschedule, UpdateFeedTier, EnableStep, EnableErrors,
         EnablePoll, BecomeDue, LeaseExpires, Publish, vars, enableVars
    <3> QED BY <1>1, <3>1
  <2> QED BY <2>1, <2>2
<1> QED BY <1>1, <1>3, <1>4 DEF Untouched

\* A claim takes the count of a feed that nobody has in hand.
LEMMA ClaimKeepsCount ==
  ASSUME Types, Types', PollInv, PollInv', CountInv, Claim, NEW f \in Feeds
  PROVE  CountOf(f)'
<1> SUFFICES ASSUME Untouched(f)' PROVE CountOf(f)'
  BY DEF CountOf
<1>1. Untouched(f) /\ NoFault
  BY UntouchedBefore DEF Next
<1>2. /\ enabling[f] = "no" /\ (~InHand(f) => Counted(f))
      /\ \A q \in Polls : of[q] = f => OnTrack(q, f)
  BY <1>1 DEF CountInv, CountOf
<1>3. UNCHANGED <<errors, status, enabling, failures>>
  BY DEF Claim, GetFeedsDueForPolling, enableVars, ghostVars
<1>4. Counted(f)' <=> Counted(f)
  BY <1>3 DEF Counted
<1>5. PICK S \in (SUBSET Due) \ {{}} :
        /\ GetFeedsDueForPolling(S)
        /\ \E slot \in [S -> {p \in Polls : at[p] = "free"}] :
                /\ \A g, h \in S : slot[g] = slot[h] => g = h
                /\ at' = [p \in Polls |->
                     IF \E g \in S : slot[g] = p THEN "claimed" ELSE at[p]]
                /\ of' = [p \in Polls |->
                     IF \E g \in S : slot[g] = p
                     THEN CHOOSE g \in S : slot[g] = p ELSE of[p]]
                /\ seen' = [p \in Polls |->
                     IF \E g \in S : slot[g] = p
                     THEN [tier |-> tier[of'[p]], errors |-> errors[of'[p]]]
                     ELSE seen[p]]
  <2>1. faults \in Nat
    BY FeedPollingAssumption DEF Types
  <2>2. ~Fault
    BY <1>1, <2>1 DEF Fault, NoFault
  <2> QED BY <2>2 DEF Claim
<1>6. PICK slot \in [S -> {p \in Polls : at[p] = "free"}] :
        /\ \A g, h \in S : slot[g] = slot[h] => g = h
        /\ at' = [p \in Polls |->
             IF \E g \in S : slot[g] = p THEN "claimed" ELSE at[p]]
        /\ of' = [p \in Polls |->
             IF \E g \in S : slot[g] = p
             THEN CHOOSE g \in S : slot[g] = p ELSE of[p]]
        /\ seen' = [p \in Polls |->
             IF \E g \in S : slot[g] = p
             THEN [tier |-> tier[of'[p]], errors |-> errors[of'[p]]]
             ELSE seen[p]]
  BY <1>5
<1>7. \A g \in S : g \in Feeds /\ ~leased[g] /\ status[g] = "active"
  BY DEF Due
<1> DEFINE New(p) == \E g \in S : slot[g] = p
<1>8. ASSUME NEW p \in Polls, New(p)
      PROVE  /\ of'[p] \in S /\ slot[of'[p]] = p /\ at'[p] = "claimed"
             /\ seen'[p].errors = errors[of'[p]] /\ at[p] = "free"
  BY <1>6, <1>8
<1>9. ASSUME NEW p \in Polls, ~New(p)
      PROVE  of'[p] = of[p] /\ at'[p] = at[p] /\ seen'[p] = seen[p]
  BY <1>6, <1>9
<1>10. \A g \in S : ~InHand(g)
  BY <1>7, FeedPollingAssumption DEF InHand, PollInv, HeldIsLeased
<1> HIDE DEF New
<1>11. ASSUME ~InHand(f)' PROVE Counted(f)'
  <2>1. ASSUME NEW q \in Polls, of[q] = f PROVE FALSE
    <3>1. at[q] # "free"
      BY <2>1, FeedPollingAssumption DEF Types, PollTypes
    <3>2. of'[q] = f
      BY <1>8, <1>9, <2>1, <3>1
    <3> QED BY <1>11, <3>2 DEF InHand
  <2> QED BY <1>2, <1>4, <2>1 DEF InHand
<1>12. ASSUME NEW q \in Polls, of'[q] = f PROVE OnTrack(q, f)'
  <2>1. CASE New(q)
    <3>1. f \in S /\ at'[q] = "claimed" /\ seen'[q].errors = errors[f]
      BY <1>8, <1>12, <2>1
    <3>2. status[f] = "active" /\ Counted(f)
      BY <1>2, <1>7, <1>10, <3>1
    <3>3. errors[f] < ErrorLimit /\ failures[f] = errors[f]
      BY <3>2 DEF Counted
    <3> QED BY <1>3, <3>1, <3>3 DEF OnTrack
  <2>2. CASE ~New(q)
    <3>1. OnTrack(q, f) /\ at'[q] = at[q] /\ seen'[q] = seen[q]
      BY <1>2, <1>9, <1>12, <2>2
    <3> QED BY <1>3, <1>4, <3>1 DEF OnTrack
  <2> QED BY <2>1, <2>2
<1>13. enabling'[f] = "no"
  BY <1>2, <1>3
<1> QED BY <1>11, <1>12, <1>13 DEF CountOf

\* A step of a poll leaves the count of other feeds alone.
LEMMA PollStepKeepsOthers ==
  ASSUME Types, Types', CountInv, NEW p \in Polls, PollStep(p),
         NEW f \in Feeds, f # of[p]
  PROVE  CountOf(f)'
<1>1. of[p] \in Feeds
  <2>1. at[p] # "free"
    BY DEF PollStep, Submit, Take, FetchSucceeds, FetchFails, StoreItem, Finish,
           RecordError, Disable, Reschedule
  <2> QED BY <2>1 DEF Types, PollTypes
<1>2. Untouched(f)' => Untouched(f)
  BY UntouchedBefore DEF Next
<1>3. /\ errors'[f] = errors[f] /\ status'[f] = status[f]
  BY <1>1 DEF PollStep, Submit, Take, FetchSucceeds, FetchFails, StoreItem, Finish,
       RecordError, Disable, Reschedule, ReleaseClaim, UpdatePollingInfo,
       UpdateErrorInfo, UpdateStatus, rowVars, Types, RowTypes
<1>4. failures'[f] = failures[f] /\ enabling'[f] = enabling[f]
  BY <1>1 DEF PollStep, Submit, Take, FetchSucceeds, FetchFails, StoreItem, Finish,
       RecordError, Disable, Reschedule, ghostVars, enableVars, Types, GhostTypes
<1>5. \A q \in Polls : q # p => /\ of'[q] = of[q] /\ at'[q] = at[q]
                                /\ seen'[q] = seen[q]
  BY DEF PollStep, Submit, Take, FetchSucceeds, FetchFails, StoreItem, Finish,
       RecordError, Disable, Reschedule, Drop, Goto, Types, PollTypes, Luggage
<1>6. of'[p] \in {of[p], None}
  BY DEF PollStep, Submit, Take, FetchSucceeds, FetchFails, StoreItem, Finish,
       RecordError, Disable, Reschedule, Drop, Types, PollTypes
<1>7. f # None
  BY FeedPollingAssumption
<1>8. InHand(f) => InHand(f)'
  BY <1>5 DEF InHand
<1>9. \A q \in Polls : of'[q] = f =>
        of[q] = f /\ at'[q] = at[q] /\ seen'[q] = seen[q]
  BY <1>5, <1>6, <1>7
<1>10. CountOf(f)
  BY DEF CountInv
<1> QED BY <1>2, <1>3, <1>4, <1>8, <1>9, <1>10, CountFrame

\* The poll of a feed carries the count along, and writes it in its place.
LEMMA PollStepKeepsCount ==
  ASSUME Types, Types', PollInv, PollInv', CountInv, NEW p \in Polls, PollStep(p),
         NEW f \in Feeds, f = of[p]
  PROVE  CountOf(f)'
<1> SUFFICES ASSUME Untouched(f)' PROVE CountOf(f)'
  BY DEF CountOf
<1>1. Untouched(f) /\ NoFault
  BY UntouchedBefore DEF Next
<1>2. ~Fault
  <2>1. faults \in Nat
    BY FeedPollingAssumption DEF Types
  <2> QED BY <1>1, <2>1 DEF Fault, NoFault
<1>3. f # None
  BY FeedPollingAssumption
<1>4. enabling[f] = "no" /\ OnTrack(p, f)
  BY <1>1 DEF CountInv, CountOf
<1>5. UNCHANGED enabling
  BY DEF PollStep, Submit, Take, FetchSucceeds, FetchFails, StoreItem, Finish,
       RecordError, Disable, Reschedule, enableVars
<1>6. \A q \in Polls : q # p => of[q] # f /\ of'[q] = of[q]
  <2>1. \A q \in Polls : of[q] = f => q = p
    BY <1>3 DEF PollInv, ExclusivePolling
  <2>2. \A q \in Polls : q # p => of'[q] = of[q]
    BY DEF PollStep, Submit, Take, FetchSucceeds, FetchFails, StoreItem, Finish,
         RecordError, Disable, Reschedule, Drop, Types, PollTypes
  <2> QED BY <2>1, <2>2
<1>7. /\ errors[f] \in 0..(ErrorLimit + 1) /\ failures[f] \in 0..ErrorLimit
      /\ errors \in [Feeds -> 0..(ErrorLimit + 1)]
      /\ failures \in [Feeds -> 0..ErrorLimit]
      /\ status \in [Feeds -> {"active", "disabled"}]
      /\ at \in [Polls -> {"free", "claimed", "queued"} \cup AtWork]
      /\ of \in [Polls -> Feeds \cup {None}]
      /\ ErrorLimit \in Nat
  BY FeedPollingAssumption DEF Types, RowTypes, GhostTypes, PollTypes
<1>8. \/ of'[p] = f /\ OnTrack(p, f)'
      \/ of'[p] = None /\ Counted(f)'
  <2>1. ASSUME Drop(p), UNCHANGED <<errors, failures, status>>,
               at[p] \in {"claimed", "items", "reschedule"}
        PROVE  of'[p] = None /\ Counted(f)'
    <3>1. of'[p] = None
      BY <1>7, <2>1 DEF Drop
    <3>2. Counted(f)
      BY <1>4, <2>1 DEF OnTrack, Counted
    <3> QED BY <2>1, <3>1, <3>2 DEF Counted
  <2>2. ASSUME NEW label \in {"queued", "fetch", "items"}, Goto(p, label),
               UNCHANGED <<of, errors, failures, seen>>,
               at[p] \in {"claimed", "queued", "fetch"}
        PROVE  of'[p] = f /\ OnTrack(p, f)'
    <3>1. at'[p] = label /\ of'[p] = f
      BY <1>7, <2>2 DEF Goto
    <3> QED BY <1>4, <2>2, <3>1 DEF OnTrack
  <2>3. CASE Submit(p)
    BY <1>2, <2>1, <2>2, <2>3 DEF Submit, ReleaseClaim, rowVars, ghostVars
  <2>4. CASE Take(p)
    BY <2>2, <2>4 DEF Take, rowVars, ghostVars
  <2>5. CASE FetchSucceeds(p)
    BY <2>2, <2>5 DEF FetchSucceeds, rowVars
  <2>6. CASE FetchFails(p)
    <3>1. /\ at'[p] = "error" /\ of'[p] = f
          /\ UNCHANGED <<errors, seen>>
      BY <1>7, <2>6 DEF FetchFails, Goto, rowVars
    <3>2. /\ errors[f] < ErrorLimit /\ failures[f] = errors[f]
          /\ seen[p].errors = errors[f]
      BY <1>4, <2>6 DEF FetchFails, OnTrack
    <3>3. failures'[f] = failures[f] + 1
      BY <1>7, <2>6, <3>2 DEF FetchFails
    <3> QED BY <3>1, <3>2, <3>3 DEF OnTrack
  <2>7. CASE \E h \in Guids : StoreItem(p, h)
    <3>1. UNCHANGED <<at, of, seen, errors, failures, status>>
      BY <2>7 DEF StoreItem, rowVars, ghostVars
    <3> QED BY <1>4, <3>1 DEF OnTrack, Counted
  <2>8. CASE Finish(p)
    <3>1. UNCHANGED <<errors, failures, status>> /\ Drop(p) /\ at[p] = "items"
      BY <2>8 DEF Finish, UpdatePollingInfo, rowVars
    <3> QED BY <2>1, <3>1
  <2>9. CASE RecordError(p)
    <3>1. /\ errors[f] < ErrorLimit /\ failures[f] = errors[f] + 1
          /\ seen[p].errors = errors[f] /\ of'[p] = f
          /\ UNCHANGED <<failures, status>>
      BY <1>2, <1>4, <2>9 DEF RecordError, OnTrack, UpdateErrorInfo, ghostVars
    <3>2. OneMoreError(p) = errors[f] + 1
      BY <1>7, <3>1 DEF OneMoreError
    <3>3. /\ UpdateErrorInfo(f, OneMoreError(p))
          /\ Goto(p, IF OneMoreError(p) >= ErrorLimit THEN "disable"
                                                      ELSE "reschedule")
      BY <1>2, <2>9 DEF RecordError
    <3>4. errors'[f] = errors[f] + 1
      BY <1>7, <3>2, <3>3 DEF UpdateErrorInfo
    <3>5. at'[p] = IF errors[f] + 1 >= ErrorLimit THEN "disable" ELSE "reschedule"
      BY <1>7, <3>2, <3>3 DEF Goto
    <3>6. at'[p] = "disable" => errors'[f] >= ErrorLimit
      BY <1>7, <3>4, <3>5
    <3>7. at'[p] = "reschedule" => Counted(f)'
      BY <1>7, <3>1, <3>4, <3>5 DEF Counted
    <3>8. at'[p] \in {"disable", "reschedule"}
      BY <3>5
    <3> QED BY <3>1, <3>6, <3>7, <3>8 DEF OnTrack
  <2>10. CASE Disable(p)
    <3>1. /\ at'[p] = "reschedule" /\ of'[p] = f /\ errors'[f] = errors[f]
          /\ status'[f] = "disabled" /\ errors[f] >= ErrorLimit
      BY <1>2, <1>4, <1>7, <2>10 DEF Disable, OnTrack, Goto, UpdateStatus
    <3>2. Counted(f)'
      BY <1>7, <3>1 DEF Counted
    <3> QED BY <3>1, <3>2 DEF OnTrack
  <2>11. CASE Reschedule(p)
    <3>1. UNCHANGED <<errors, failures, status>> /\ Drop(p)
          /\ at[p] = "reschedule"
      BY <2>11 DEF Reschedule, UpdatePollingInfo, rowVars, ghostVars
    <3> QED BY <2>1, <3>1
  <2> QED BY <2>3, <2>4, <2>5, <2>6, <2>7, <2>8, <2>9, <2>10, <2>11 DEF PollStep
<1>9. \A q \in Polls : of'[q] = f => q = p
  BY <1>6
<1>10. ~InHand(f)' => of'[p] # f
  BY DEF InHand
<1>11. ASSUME NEW q \in Polls, of'[q] = f PROVE OnTrack(q, f)'
  <2>1. q = p
    BY <1>9, <1>11
  <2> QED BY <1>3, <1>8, <1>11, <2>1
<1>12. ASSUME ~InHand(f)' PROVE Counted(f)'
  BY <1>8, <1>10, <1>12
<1> QED BY <1>4, <1>5, <1>11, <1>12 DEF CountOf

\* The tier manager, EnableFeed, time and crashes: none of them writes the
\* count of a feed that has only been polled.
LEMMA OtherStepKeepsCount ==
  ASSUME Types, Types', CountInv, NEW f \in Feeds,
         \/ GetFeedsForTierUpdate \/ WeeksPass \/ Crash \/ UNCHANGED vars
         \/ \E h \in Feeds :
              \/ UpdateFeedTier(h) \/ EnableStep(h) \/ BecomeDue(h)
              \/ LeaseExpires(h) \/ \E g \in Guids : Publish(h, g)
  PROVE  CountOf(f)'
<1> SUFFICES ASSUME Untouched(f)' PROVE CountOf(f)'
  BY DEF CountOf
<1>1. Untouched(f) /\ NoFault /\ enables[f] = enables'[f]
  BY UntouchedBefore DEF Next
<1>2. ~Fault /\ ~Crash
  <2>1. faults \in Nat
    BY FeedPollingAssumption DEF Types
  <2> QED BY <1>1, <2>1 DEF Fault, NoFault, Crash
<1>3. enabling[f] = "no" /\ CountOf(f)
  BY <1>1 DEF CountInv, CountOf
<1>4. UNCHANGED pollVars
  BY <1>2 DEF GetFeedsForTierUpdate, WeeksPass, UpdateFeedTier, EnableStep,
       EnableStatus, EnableErrors, EnablePoll, BecomeDue, LeaseExpires, Publish,
       vars
<1>5. ~EnableStep(f)
  <2>1. ~EnableErrors(f) /\ ~EnablePoll(f)
    BY <1>3 DEF EnableErrors, EnablePoll
  <2>2. ~EnableStatus(f)
    <3>1. enables[f] \in Nat /\ enables \in [Feeds -> 0..MaxEnables]
      BY FeedPollingAssumption DEF Types, EnableTypes
    <3> QED BY <1>1, <3>1 DEF EnableStatus
  <2> QED BY <2>1, <2>2 DEF EnableStep
<1>6. /\ errors'[f] = errors[f] /\ failures'[f] = failures[f]
      /\ status'[f] = status[f] /\ enabling'[f] = enabling[f]
  <2>1. CASE \E h \in Feeds : EnableStep(h)
    <3>1. PICK h \in Feeds : EnableStep(h)
      BY <2>1
    <3>2. h # f
      BY <1>5, <3>1
    <3> QED BY <3>1, <3>2 DEF EnableStep, EnableStatus, EnableErrors, EnablePoll,
              UpdateStatus, UpdateErrorInfo, UpdatePollingInfo, rowVars,
              ghostVars, Types, RowTypes, EnableTypes, GhostTypes
  <2>2. CASE ~ \E h \in Feeds : EnableStep(h)
    BY <1>2, <2>2 DEF GetFeedsForTierUpdate, WeeksPass, UpdateFeedTier, BecomeDue,
       LeaseExpires, ReleaseClaim, Publish, UpdatePollingInfo, vars, rowVars,
       ghostVars, enableVars
  <2> QED BY <2>1, <2>2
<1>7. (InHand(f) => InHand(f)')
      /\ \A q \in Polls : of'[q] = f =>
           of[q] = f /\ at'[q] = at[q] /\ seen'[q] = seen[q]
  BY <1>4 DEF pollVars, InHand
<1> QED BY <1>1, <1>3, <1>6, <1>7, CountFrame

\* While leases outlive polls, the errors written back from the claims'
\* snapshots miss no failed fetch and invent none, and the limit disables.
THEOREM CountIsExact ==
  ASSUME LeaseOutlivesPoll
  PROVE  Spec => []ErrorsAreCounted
<1> DEFINE Inv == Types /\ PollInv /\ CountInv
<1>1. Init => Inv
  <2> SUFFICES ASSUME Init PROVE Inv
    OBVIOUS
  <2>1. Types
    BY InitTypes
  <2>2. PollInv
    BY DEF Init, PollInv, PollTypes, HeldIsLeased, ExclusivePolling
  <2>3. CountInv
    <3> SUFFICES ASSUME NEW f \in Feeds PROVE CountOf(f)
      BY DEF CountInv
    <3>1. Counted(f) /\ enabling[f] = "no"
      BY FeedPollingAssumption DEF Init, Counted
    <3>2. \A p \in Polls : of[p] # f
      BY FeedPollingAssumption DEF Init
    <3> QED BY <3>1, <3>2 DEF CountOf
  <2> QED BY <2>1, <2>2, <2>3
<1>2. Inv /\ [Next]_vars => Inv'
  <2> SUFFICES ASSUME Inv, [Next]_vars PROVE Inv'
    OBVIOUS
  <2>1. Types'
    BY NextTypes
  <2>2. PollInv'
    BY ClaimKeepsInv, PollStepKeepsInv, OtherStepKeepsInv DEF Next
  <2>3. ASSUME NEW f \in Feeds PROVE CountOf(f)'
    <3>1. CASE Claim
      BY <2>1, <2>2, <3>1, ClaimKeepsCount
    <3>2. ASSUME NEW p \in Polls, PollStep(p) PROVE CountOf(f)'
      <4>1. CASE f = of[p]
        BY <2>1, <2>2, <3>2, <4>1, PollStepKeepsCount
      <4>2. CASE f # of[p]
        BY <2>1, <3>2, <4>2, PollStepKeepsOthers
      <4> QED BY <4>1, <4>2
    <3>3. CASE ~Claim /\ ~ \E p \in Polls : PollStep(p)
      BY <2>1, <3>3, OtherStepKeepsCount DEF Next
    <3> QED BY <3>1, <3>2, <3>3
  <2> QED BY <2>1, <2>2, <2>3 DEF CountInv
<1>3. Inv => ErrorsAreCounted
  BY DEF CountInv, CountOf, Untouched, Counted, ErrorsAreCounted
<1> QED BY <1>1, <1>2, <1>3, PTL DEF Spec

=============================================================================
