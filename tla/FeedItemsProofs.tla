-------------------------- MODULE FeedItemsProofs --------------------------
(* Proofs about FeedItems, for any number of items, users and faults.      *)
EXTENDS FeedItems, FiniteSetTheorems, TLAPS

USE FeedItemsAssumption

-----------------------------------------------------------------------------
(* What the arguments need of the types: less than TypeOK, whose ranges    *)
(* they do not use.                                                        *)

JobTypes ==
  /\ istatus \in [Items -> Statuses]
  /\ iretries \in [Items -> Nat]
  /\ tries \in [Items -> Nat]
  /\ todo \in SUBSET Items
  /\ cur \in Items \cup {None} /\ (cur = None <=> pc = "idle")
  /\ DOMAIN state = Rows
  /\ stamping \in SUBSET Rows

LEMMA RowOwner ==
  /\ \A r \in Rows : r[1] \in Items /\ r \in RowsOf(r[1])
  /\ \A i \in Items : \A r \in RowsOf(i) : r \in Rows /\ r[1] = i
BY DEF Rows, RowsOf

\* A row's state changes by the actions of the contract or by the cascade.
LEMMA OutboxTypes ==
  ASSUME DOMAIN state = Rows, NEW r \in Rows,
         \/ Outbox!Accept(r) \/ Outbox!Give(r) \/ Outbox!Complete(r)
         \/ Outbox!FailAttempt(r) \/ UNCHANGED state
  PROVE  /\ DOMAIN state' = Rows
         /\ \A q \in Rows : Exists(q) => Exists(q)'
         /\ Outbox!Accept(r) \/ Outbox!Complete(r) => Exists(r)'
<1>1. CASE Outbox!Accept(r) BY <1>1 DEF Outbox!Accept, Exists
<1>2. CASE Outbox!Give(r)
  BY <1>2 DEF Outbox!Give, Outbox!Accept, Outbox!Complete, Exists
<1>3. CASE Outbox!Complete(r) BY <1>3 DEF Outbox!Complete, Exists
<1>4. CASE Outbox!FailAttempt(r) BY <1>4 DEF Outbox!FailAttempt, Exists
<1>5. CASE UNCHANGED state
  BY <1>5 DEF Outbox!Accept, Outbox!Complete, Exists
<1> QED BY <1>1, <1>2, <1>3, <1>4, <1>5

-----------------------------------------------------------------------------
(* The inductive invariants.                                               *)

\* The job completes an item only with the row inserted, and the outbox
\* stamps an item only through a row that is still there.
RowInv ==
  /\ CompletedHasRow
  /\ pc = "complete" => \E r \in RowsOf(cur) : Exists(r)
  /\ \A r \in stamping : Exists(r)

\* An item of the batch has a row, so that none can be rediscovered under the
\* job, and the count read by the claim stays the row's until it is decided.
CountInv ==
  /\ cur \notin todo
  /\ pc = "idle" /\ todo = {} => cur = None
  /\ \A i \in Items : InHand(i) => istatus[i] # "absent" /\ tries[i] = iretries[i]
  /\ \A i \in Items : iretries[i] <= MaxRetries
  /\ \A i \in Items : istatus[i] = "failed" => iretries[i] = MaxRetries

ItemInv == JobTypes /\ RowInv /\ CountInv

-----------------------------------------------------------------------------
(* One lemma per action.                                                   *)

LEMMA ClaimKeeps ==
  ASSUME ItemInv, Claim
  PROVE  ItemInv'
<1> USE DEF ItemInv, JobTypes
<1>1. PICK S \in SUBSET Claimable :
        /\ GetPendingItems(S)
        /\ todo' = S \/ todo' = {}
        /\ tries' = [i \in Items |-> IF i \in S THEN iretries[i] ELSE tries[i]]
  BY DEF Claim
<1>2. pc = "idle" /\ todo = {} /\ cur = None
      /\ UNCHANGED <<cur, pc, state, stamping, iretries, icontent>>
  BY <1>1 DEF Claim, outboxVars, GetPendingItems
<1>3. istatus' = [i \in Items |-> IF i \in S THEN "processing" ELSE istatus[i]]
      /\ S \subseteq Items
  BY <1>1 DEF GetPendingItems, Claimable
<1>4. JobTypes'
  BY <1>1, <1>2, <1>3 DEF Statuses
<1>5. RowInv'
  BY <1>2, <1>3 DEF RowInv, CompletedHasRow, Exists, RowsOf
<1>6. CountInv'
  BY <1>1, <1>2, <1>3 DEF CountInv, InHand
<1> QED BY <1>4, <1>5, <1>6

\* The job's item moves on without a write to its row.
LEMMA JobMovesOn ==
  ASSUME ItemInv, UNCHANGED <<istatus, iretries, tries, stamping>>,
         DOMAIN state' = Rows, \A q \in Rows : Exists(q) => Exists(q)',
         \/ UNCHANGED <<todo, cur, pc>>
         \/ /\ pc # "idle" /\ pc' \in {"insert", "error"}
            /\ UNCHANGED <<todo, cur>>
         \/ /\ pc # "idle" /\ pc' = "complete" /\ UNCHANGED <<todo, cur>>
            /\ (\E r \in RowsOf(cur) : Exists(r))'
         \/ /\ pc # "idle" /\ pc' = "idle" /\ cur' = None /\ todo' = todo
         \/ \E i \in todo : /\ pc = "idle" /\ pc' \in {"subscribers", "error"}
                            /\ cur' = i /\ todo' = todo \ {i}
  PROVE  ItemInv'
<1> USE DEF ItemInv
<1>1. JobTypes'
  BY DEF JobTypes
<1>2. RowInv'
  <2>1. CompletedHasRow'
    BY RowOwner DEF RowInv, CompletedHasRow, RowsOf
  <2>2. (pc = "complete" => \E r \in RowsOf(cur) : Exists(r))'
    BY RowOwner DEF RowInv, RowsOf, JobTypes
  <2>3. (\A r \in stamping : Exists(r))'
    BY DEF RowInv, JobTypes
  <2> QED BY <2>1, <2>2, <2>3 DEF RowInv
<1>3. CountInv'
  BY DEF CountInv, InHand, JobTypes
<1> QED BY <1>1, <1>2, <1>3

\* A write by id, of the job to its own item or of the outbox worker to any.
LEMMA StatusWritten ==
  ASSUME ItemInv, NEW i \in Items, NEW s \in {"completed", "failed"}, NEW c,
         UpdateProcessingStatus(i, s, c),
         s = "completed" => Eligible[i] = {} \/ \E r \in RowsOf(i) : Exists(r),
         s = "failed" => iretries[i] = MaxRetries,
         UNCHANGED <<todo, tries, state>>, stamping' \subseteq stamping,
         \/ UNCHANGED <<cur, pc>>
         \/ pc # "idle" /\ pc' = "idle" /\ cur' = None
         \/ pc # "idle" /\ pc' = "error" /\ UNCHANGED cur
  PROVE  ItemInv'
<1> USE DEF ItemInv
<1>1. /\ istatus' = [istatus EXCEPT ![i] = s] /\ UNCHANGED iretries
      /\ \A q \in Rows : Exists(q)' <=> Exists(q)
  BY DEF UpdateProcessingStatus, Exists
<1>2. JobTypes'
  BY <1>1 DEF JobTypes, Statuses
<1>3. RowInv'
  <2>1. CompletedHasRow'
    BY <1>1, RowOwner DEF RowInv, CompletedHasRow, RowsOf, JobTypes
  <2>2. (pc = "complete" => \E r \in RowsOf(cur) : Exists(r))'
    BY <1>1, RowOwner DEF RowInv, RowsOf, JobTypes
  <2>3. (\A r \in stamping : Exists(r))'
    BY <1>1 DEF RowInv, JobTypes
  <2> QED BY <2>1, <2>2, <2>3 DEF RowInv
<1>4. CountInv'
  BY <1>1 DEF CountInv, InHand, JobTypes
<1> QED BY <1>2, <1>3, <1>4

\* The retry: the row's count is still what the claim read, below the limit.
LEMMA RetryCounted ==
  ASSUME ItemInv, pc = "error", tries[cur] < MaxRetries,
         IncrementRetryCount(cur), NextInBatch, UNCHANGED outboxVars
  PROVE  ItemInv'
<1> USE DEF ItemInv
<1>1. /\ iretries' = [iretries EXCEPT ![cur] = @ + 1]
      /\ pc' = "idle" /\ cur' = None
      /\ UNCHANGED <<istatus, todo, tries, state, stamping>>
  BY DEF IncrementRetryCount, NextInBatch, outboxVars
<1>2. cur \in Items /\ tries[cur] = iretries[cur] /\ cur \notin todo
  BY DEF JobTypes, CountInv, InHand
<1>3. JobTypes'
  BY <1>1, <1>2 DEF JobTypes
<1>4. RowInv'
  BY <1>1 DEF RowInv, CompletedHasRow, Exists
<1>5. CountInv'
  BY <1>1, <1>2 DEF CountInv, InHand, JobTypes
<1> QED BY <1>3, <1>4, <1>5

LEMMA JobStepKeeps ==
  ASSUME ItemInv, JobStep
  PROVE  ItemInv'
<1> USE DEF ItemInv, itemVars, outboxVars
<1>0. cur \in Items \/ pc = "idle"
  BY DEF JobTypes
<1>1. CASE Claim
  BY <1>1, ClaimKeeps
<1>2. CASE \E i \in Items : Fetch(i)
  BY <1>2, JobMovesOn DEF Fetch, JobTypes, Exists
<1>3. CASE Subscribers
  <2>1. CASE (Goto("insert") \/ Goto("error")) /\ UNCHANGED itemVars
    <3>1. /\ UNCHANGED <<istatus, iretries, tries, stamping, state, todo, cur>>
          /\ pc # "idle" /\ pc' \in {"insert", "error"}
      BY <1>3, <2>1 DEF Subscribers, Goto
    <3> QED BY <3>1, JobMovesOn DEF JobTypes, Exists
  <2>2. CASE /\ Eligible[cur] = {} /\ NextInBatch
             /\ UpdateProcessingStatus(cur, "completed", FALSE)
    BY <1>0, <1>3, <2>2, StatusWritten DEF Subscribers, NextInBatch
  <2> QED BY <1>3, <2>1, <2>2 DEF Subscribers
<1>4. CASE Insert
  <2>1. CASE InsertRow /\ (Goto("complete") \/ Goto("error"))
    <3>1. PICK r \in RowsOf(cur) : Outbox!Accept(r) /\ UNCHANGED stamping
      BY <2>1 DEF InsertRow
    <3>2. /\ r \in Rows /\ DOMAIN state' = Rows
          /\ \A q \in Rows : Exists(q) => Exists(q)'
          /\ Exists(r)'
      BY <1>0, <1>4, <3>1, RowOwner, OutboxTypes DEF Insert, JobTypes
    <3>3. cur' = cur => (\E q \in RowsOf(cur) : Exists(q))'
      BY <3>1, <3>2 DEF RowsOf
    <3> QED BY <1>4, <2>1, <3>1, <3>2, <3>3, JobMovesOn DEF Insert, Goto
  <2>2. CASE UNCHANGED outboxVars /\ Goto("error")
    BY <1>4, <2>2, JobMovesOn DEF Insert, Goto, JobTypes, Exists
  <2> QED BY <1>4, <2>1, <2>2 DEF Insert
<1>5. CASE Complete
  <2>1. CASE UpdateProcessingStatus(cur, "completed", FALSE)
    BY <1>0, <1>5, <2>1, StatusWritten DEF Complete, NextInBatch, Goto, RowInv
  <2>2. CASE UNCHANGED itemVars /\ Goto("error")
    BY <1>5, <2>2, JobMovesOn DEF Complete, Goto, JobTypes, Exists
  <2> QED BY <1>5, <2>1, <2>2 DEF Complete
<1>6. CASE HandleError
  <2>1. CASE tries[cur] < MaxRetries /\ IncrementRetryCount(cur)
    BY <1>6, <2>1, RetryCounted DEF HandleError
  <2>2. CASE /\ tries[cur] >= MaxRetries
             /\ UpdateProcessingStatus(cur, "failed", FALSE)
    <3>1. cur \in Items /\ iretries[cur] = MaxRetries
      BY <1>0, <1>6, <2>2 DEF HandleError, CountInv, InHand, JobTypes
    <3> QED BY <1>6, <2>2, <3>1, StatusWritten DEF HandleError, NextInBatch
  <2>3. CASE UNCHANGED itemVars
    BY <1>6, <2>3, JobMovesOn DEF HandleError, NextInBatch, JobTypes, Exists
  <2> QED BY <1>6, <2>1, <2>2, <2>3 DEF HandleError
<1> QED BY <1>1, <1>2, <1>3, <1>4, <1>5, <1>6 DEF JobStep

LEMMA RowStepKeeps ==
  ASSUME ItemInv, NEW r \in Rows, RowStep(r)
  PROVE  ItemInv'
<1> USE DEF ItemInv, itemVars, jobVars
<1>1. CASE Deliver(r) \/ FailDelivery(r)
  <2>1. UNCHANGED <<itemVars, jobVars, stamping>>
    BY <1>1 DEF Deliver, FailDelivery
  <2>2. DOMAIN state' = Rows /\ \A q \in Rows : Exists(q) => Exists(q)'
    BY <1>1, OutboxTypes DEF Deliver, FailDelivery, JobTypes
  <2> QED BY <2>1, <2>2, JobMovesOn
<1>2. CASE MarkDelivered(r)
  <2>1. UNCHANGED <<itemVars, jobVars>> /\ stamping' = stamping \cup {r}
    BY <1>2 DEF MarkDelivered
  <2>2. /\ DOMAIN state' = Rows /\ \A q \in Rows : Exists(q) => Exists(q)'
        /\ Exists(r)'
    BY <1>2, OutboxTypes DEF MarkDelivered, JobTypes
  <2>3. RowInv'
    <3>1. CompletedHasRow'
      BY <2>1, <2>2, RowOwner DEF RowInv, CompletedHasRow, RowsOf
    <3>2. (pc = "complete" => \E q \in RowsOf(cur) : Exists(q))'
      BY <2>1, <2>2, RowOwner DEF RowInv, RowsOf, JobTypes
    <3>3. (\A q \in stamping : Exists(q))'
      BY <2>1, <2>2 DEF RowInv, JobTypes
    <3> QED BY <3>1, <3>2, <3>3 DEF RowInv
  <2> QED BY <2>1, <2>2, <2>3 DEF JobTypes, CountInv, InHand
<1>3. CASE Stamp(r)
  <2>1. CASE UpdateProcessingStatus(r[1], "completed", TRUE)
    <3>1. r[1] \in Items /\ \E q \in RowsOf(r[1]) : Exists(q)
      BY <1>3, RowOwner DEF Stamp, RowInv
    <3> QED BY <1>3, <2>1, <3>1, StatusWritten DEF Stamp
  <2>2. CASE UNCHANGED itemVars
    BY <1>3, <2>2 DEF Stamp, JobTypes, RowInv, CompletedHasRow, CountInv,
         InHand, Exists
  <2> QED BY <1>3, <2>1, <2>2 DEF Stamp
<1> QED BY <1>1, <1>2, <1>3 DEF RowStep

LEMMA OtherStepKeeps ==
  ASSUME ItemInv,
         \/ Crash \/ UNCHANGED vars
         \/ \E i \in Items : Discover(i) \/ CleanupItem(i) \/ LeaseExpires(i)
  PROVE  ItemInv'
<1> USE DEF ItemInv
<1>1. CASE Crash
  BY <1>1 DEF Crash, itemVars, JobTypes, RowInv, CompletedHasRow, CountInv,
       InHand, Exists
<1>2. CASE UNCHANGED vars
  BY <1>2 DEF vars, itemVars, jobVars, outboxVars, JobTypes, RowInv,
       CompletedHasRow, CountInv, InHand, Exists
<1>3. ASSUME NEW i \in Items, Discover(i)
      PROVE  ItemInv'
  <2>1. /\ istatus[i] = "absent" /\ ~InHand(i)
        /\ istatus' = [istatus EXCEPT ![i] = "pending"]
        /\ iretries' = [iretries EXCEPT ![i] = 0]
        /\ UNCHANGED <<todo, cur, tries, pc, state, stamping>>
    BY <1>3 DEF Discover, Create, CountInv, jobVars, outboxVars
  <2>2. JobTypes'
    BY <2>1 DEF JobTypes, Statuses
  <2>3. RowInv'
    BY <2>1 DEF RowInv, CompletedHasRow, Exists, JobTypes
  <2>4. CountInv'
    BY <2>1 DEF CountInv, InHand, JobTypes
  <2> QED BY <2>2, <2>3, <2>4
<1>4. ASSUME NEW i \in Items, CleanupItem(i)
      PROVE  ItemInv'
  <2>1. /\ ~InHand(i)
        /\ istatus' = [istatus EXCEPT ![i] = "absent"]
        /\ state' = [r \in Rows |-> IF r[1] = i /\ Exists(r) THEN "forgotten"
                                                            ELSE state[r]]
        /\ stamping' = stamping \ RowsOf(i)
        /\ UNCHANGED <<iretries, todo, cur, tries, pc>>
    BY <1>4 DEF CleanupItem, jobVars
  <2>2. \A r \in Rows : r[1] # i /\ Exists(r) => Exists(r)'
    BY <2>1 DEF Exists
  <2>3. JobTypes'
    BY <2>1 DEF JobTypes, Statuses
  <2>4. CompletedHasRow'
    <3> SUFFICES ASSUME NEW j \in Items, istatus'[j] = "completed",
                        Eligible[j] # {}
                 PROVE  \E r \in RowsOf(j) : Exists(r)'
      BY DEF CompletedHasRow, RowsOf
    <3>1. j # i /\ istatus[j] = "completed"
      BY <2>1 DEF JobTypes
    <3> QED BY <2>2, <3>1, RowOwner DEF RowInv, CompletedHasRow
  <2>5. (pc = "complete" => \E r \in RowsOf(cur) : Exists(r))'
    <3> SUFFICES ASSUME pc = "complete"
                 PROVE  \E r \in RowsOf(cur) : Exists(r)'
      BY <2>1 DEF RowsOf
    <3>1. cur \in Items /\ cur # i
      BY <2>1 DEF JobTypes, InHand
    <3> QED BY <2>2, <3>1, RowOwner DEF RowInv
  <2>6. (\A r \in stamping : Exists(r))'
    BY <2>1, <2>2, RowOwner DEF RowInv, JobTypes
  <2>7. CountInv'
    BY <2>1 DEF CountInv, InHand, JobTypes
  <2> QED BY <2>3, <2>4, <2>5, <2>6, <2>7 DEF RowInv
<1>5. ASSUME NEW i \in Items, LeaseExpires(i)
      PROVE  ItemInv'
  BY <1>5 DEF LeaseExpires, jobVars, outboxVars, JobTypes, RowInv,
       CompletedHasRow, CountInv, InHand, Exists
<1> QED BY <1>1, <1>2, <1>3, <1>4, <1>5

-----------------------------------------------------------------------------
\* Every step keeps the table, the batch in memory and the outbox consistent.
LEMMA ItemInvHolds == Spec => []ItemInv
<1>1. Init => ItemInv
  BY DEF Init, Outbox!Init, ItemInv, JobTypes, Statuses, RowInv,
       CompletedHasRow, CountInv, InHand, Exists
<1>2. ItemInv /\ [Next]_vars => ItemInv'
  BY JobStepKeeps, RowStepKeeps, OtherStepKeeps DEF Next
<1> QED BY <1>1, <1>2, PTL DEF Spec

\* No item is completed whose article is not owed to, or already with, its
\* subscribers, through crashes and failed writes of the job at any point.
THEOREM CompletedItemsHaveRows == Spec => []CompletedHasRow
<1>1. ItemInv => CompletedHasRow
  BY DEF ItemInv, RowInv
<1> QED BY <1>1, ItemInvHolds, PTL

\* An item is given up after exactly MaxRetries counted retries, although the
\* decision uses a count that was read when the batch was claimed.
THEOREM RetriesAreUsedUp == Spec => []GivenUpAfterRetries
<1>1. ItemInv => GivenUpAfterRetries
  BY DEF ItemInv, JobTypes, CountInv, GivenUpAfterRetries, InHand
<1> QED BY <1>1, ItemInvHolds, PTL

-----------------------------------------------------------------------------
(* The ranges of the variables.                                            *)

Contract ==
  /\ state \in [Rows -> {"none", "owed", "done", "abandoned", "forgotten"}]
  /\ attempts \in [Rows -> 0..MaxDeliveries]
  /\ given \in [Rows -> SUBSET Users]

Ranges ==
  /\ ileased \in [Items -> BOOLEAN] /\ icontent \in SUBSET Items
  /\ discoveries \in [Items -> 0..MaxDiscoveries]
  /\ tries \in [Items -> 0..MaxRetries]
  /\ pc \in {"idle", "subscribers", "insert", "complete", "error"}
  /\ Contract
  /\ faults \in 0..MaxFaults

\* The actions of the contract keep its types.
LEMMA ContractKept ==
  ASSUME Contract, NEW r \in Rows,
         \/ Outbox!Accept(r) \/ Outbox!Give(r) \/ Outbox!Complete(r) \/ Outbox!FailAttempt(r)
  PROVE  Contract'
<1> USE DEF Contract
<1>1. CASE Outbox!Accept(r) BY <1>1 DEF Outbox!Accept
<1>2. CASE Outbox!Give(r)
  <2>1. Eligible[r[1]] \in SUBSET Users BY RowOwner
  <2> QED BY <1>2, <2>1 DEF Outbox!Give
<1>3. CASE Outbox!Complete(r) BY <1>3 DEF Outbox!Complete
<1>4. CASE Outbox!FailAttempt(r) BY <1>4 DEF Outbox!FailAttempt
<1> QED BY <1>1, <1>2, <1>3, <1>4

\* Every step keeps the ranges.
LEMMA RangesStep ==
  ASSUME ItemInv, Ranges, [Next]_vars
  PROVE  Ranges'
<1> USE DEF Ranges, ItemInv, itemVars, jobVars, outboxVars, Fault, NoFault
<1>j. /\ istatus \in [Items -> Statuses] /\ cur \in Items \cup {None} /\ (cur = None <=> pc = "idle")
      /\ todo \in SUBSET Items
      /\ \A i \in Items : iretries[i] \in 0..MaxRetries
  BY DEF JobTypes, CountInv
<1>c. UNCHANGED <<state, attempts, given>> => Contract' BY DEF Contract
<1>s. ASSUME NEW i \in Items, NEW s, NEW c, UpdateProcessingStatus(i, s, c)
      PROVE  ileased' \in [Items -> BOOLEAN] /\ icontent' \in SUBSET Items
  BY <1>s DEF UpdateProcessingStatus
<1>q. ASSUME UNCHANGED <<discoveries, tries, state, attempts, given>>,
             ileased' \in [Items -> BOOLEAN] /\ icontent' \in SUBSET Items,
             UNCHANGED faults \/ (faults < MaxFaults /\ faults' = faults + 1),
             UNCHANGED pc \/ pc' \in {"idle", "insert", "error"}
      PROVE  Ranges'
  <2>1. faults' \in 0..MaxFaults BY <1>q
  <2>2. pc' \in {"idle", "subscribers", "insert", "complete", "error"} BY <1>q
  <2> QED BY <1>c, <1>q, <2>1, <2>2
<1>1. CASE Claim
  <2>1. PICK S \in SUBSET Claimable :
          /\ GetPendingItems(S)
          /\ tries' = [i \in Items |-> IF i \in S THEN iretries[i] ELSE tries[i]]
          /\ UNCHANGED faults \/ (faults < MaxFaults /\ faults' = faults + 1)
    BY <1>1 DEF Claim
  <2>2. ileased' \in [Items -> BOOLEAN] /\ icontent' = icontent
    <3>1. ileased' = [i \in Items |-> i \in S \/ ileased[i]] /\ icontent' = icontent
      BY <2>1 DEF GetPendingItems
    <3> QED BY <3>1
  <2>3. tries' \in [Items -> 0..MaxRetries] BY <1>j, <2>1
  <2>4. UNCHANGED <<discoveries, pc, state, attempts, given>> BY <1>1 DEF Claim
  <2> QED BY <1>c, <2>1, <2>2, <2>3, <2>4
<1>2. CASE \E i \in Items : Fetch(i)
  <2>1. UNCHANGED <<itemVars, discoveries, tries, outboxVars, faults>> /\ pc' \in {"subscribers", "error"}
    BY <1>2 DEF Fetch
  <2> QED BY <1>c, <2>1
<1>3. CASE Subscribers
  <2>1. cur \in Items /\ UNCHANGED <<discoveries, tries, outboxVars>> /\ pc' \in {"insert", "idle", "error"}
        /\ (UNCHANGED faults \/ (faults < MaxFaults /\ faults' = faults + 1))
    BY <1>3, <1>j DEF Subscribers, Goto, NextInBatch
  <2>2. UNCHANGED <<ileased, icontent>> \/ UpdateProcessingStatus(cur, "completed", FALSE)
    BY <1>3 DEF Subscribers
  <2>3. ileased' \in [Items -> BOOLEAN] /\ icontent' \in SUBSET Items BY <1>s, <2>1, <2>2
  <2> QED BY <1>q, <2>1, <2>3
<1>4. CASE Insert
  <2>1. cur \in Items /\ UNCHANGED <<itemVars, discoveries, tries>> /\ pc' \in {"complete", "error"}
        /\ (UNCHANGED faults \/ (faults < MaxFaults /\ faults' = faults + 1))
        /\ (InsertRow \/ UNCHANGED outboxVars)
    BY <1>4, <1>j DEF Insert, Goto
  <2>2. Contract'
    <3>1. CASE InsertRow
      <4>1. PICK r \in RowsOf(cur) : Outbox!Accept(r) BY <3>1 DEF InsertRow
      <4> QED BY <2>1, <4>1, RowOwner, ContractKept
    <3> QED BY <1>c, <2>1, <3>1
  <2> QED BY <2>1, <2>2
<1>5. CASE Complete
  <2>1. cur \in Items /\ UNCHANGED <<discoveries, tries, outboxVars>> /\ pc' \in {"idle", "error"}
        /\ (UNCHANGED faults \/ (faults < MaxFaults /\ faults' = faults + 1))
    BY <1>5, <1>j DEF Complete, Goto, NextInBatch
  <2>2. UNCHANGED <<ileased, icontent>> \/ UpdateProcessingStatus(cur, "completed", FALSE)
    BY <1>5 DEF Complete
  <2>3. ileased' \in [Items -> BOOLEAN] /\ icontent' \in SUBSET Items BY <1>s, <2>1, <2>2
  <2> QED BY <1>q, <2>1, <2>3
<1>6. CASE HandleError
  <2>1. cur \in Items /\ UNCHANGED <<discoveries, tries, outboxVars>> /\ pc' = "idle"
        /\ (UNCHANGED faults \/ (faults < MaxFaults /\ faults' = faults + 1))
    BY <1>6, <1>j DEF HandleError, NextInBatch
  <2>2. \/ UNCHANGED <<ileased, icontent>> \/ UpdateProcessingStatus(cur, "failed", FALSE)
        \/ IncrementRetryCount(cur)
    BY <1>6 DEF HandleError
  <2>3. IncrementRetryCount(cur) => ileased' \in [Items -> BOOLEAN] /\ icontent' = icontent
    BY DEF IncrementRetryCount
  <2>4. ileased' \in [Items -> BOOLEAN] /\ icontent' \in SUBSET Items BY <1>s, <2>1, <2>2, <2>3
  <2> QED BY <1>q, <2>1, <2>4
<1>7. ASSUME NEW r \in Rows, RowStep(r) PROVE Ranges'
  <2>1. UNCHANGED <<jobVars, discoveries>> /\ (UNCHANGED faults \/ (faults < MaxFaults /\ faults' = faults + 1))
    BY <1>7 DEF RowStep, Deliver, MarkDelivered, FailDelivery, Stamp
  <2>2. CASE Stamp(r)
    <3>1. r[1] \in Items /\ UNCHANGED <<state, attempts, given>>
          /\ (UNCHANGED <<ileased, icontent>> \/ UpdateProcessingStatus(r[1], "completed", TRUE))
      BY <2>2, RowOwner DEF Stamp
    <3>2. ileased' \in [Items -> BOOLEAN] /\ icontent' \in SUBSET Items BY <1>s, <3>1
    <3> QED BY <1>q, <2>1, <3>1, <3>2
  <2>3. CASE Deliver(r) \/ MarkDelivered(r) \/ FailDelivery(r)
    <3>1. UNCHANGED itemVars /\ Contract'
      BY <2>3, ContractKept DEF Deliver, MarkDelivered, FailDelivery
    <3> QED BY <2>1, <3>1
  <2> QED BY <1>7, <2>2, <2>3 DEF RowStep
<1>8. ASSUME NEW i \in Items, Discover(i) PROVE Ranges'
  <2>1. ileased' \in [Items -> BOOLEAN] /\ icontent' \in SUBSET Items BY <1>8 DEF Discover, Create
  <2>2. discoveries' \in [Items -> 0..MaxDiscoveries] BY <1>8 DEF Discover
  <2>3. UNCHANGED <<tries, pc, state, attempts, given, faults>> BY <1>8 DEF Discover
  <2> QED BY <1>c, <2>1, <2>2, <2>3
<1>9. ASSUME NEW i \in Items, CleanupItem(i) PROVE Ranges'
  <2>1. /\ UNCHANGED <<ileased, discoveries, tries, pc, attempts, given>> /\ icontent' = icontent \ {i}
        /\ (UNCHANGED faults \/ (faults < MaxFaults /\ faults' = faults + 1))
        /\ state' = [r \in Rows |-> IF r[1] = i /\ Exists(r) THEN "forgotten" ELSE state[r]]
    BY <1>9 DEF CleanupItem
  <2>2. Contract' BY <2>1 DEF Contract
  <2> QED BY <2>1, <2>2
<1>10. ASSUME NEW i \in Items, LeaseExpires(i) PROVE Ranges'
  BY <1>10, <1>c DEF LeaseExpires
<1>11. CASE Crash BY <1>11, <1>c DEF Crash
<1>12. CASE UNCHANGED vars BY <1>12, <1>c DEF vars
<1> QED
  BY <1>1, <1>2, <1>3, <1>4, <1>5, <1>6, <1>7, <1>8, <1>9, <1>10, <1>11, <1>12 DEF Next, JobStep

-----------------------------------------------------------------------------
(* How many rows an item has.                                              *)

RowsHad(i) == {r \in RowsOf(i) : Exists(r)}

\* An item that the job may come to insert a row for.
Pressed(i) ==
  /\ istatus[i] \in {"pending", "processing"} \/ InHand(i)
  /\ ~(cur = i /\ pc = "complete")

\* The rows the job has inserted and then forgotten, each by a fault, are
\* counted before the item can be taken up again.
CopyInv ==
  /\ DuplicatesCostFaults
  /\ \A i \in Items : Pressed(i) => Cardinality(RowsHad(i)) <= faults
  /\ \A i \in Items : istatus[i] = "absent" => RowsHad(i) = {}

\* An item has finitely many rows.
LEMMA RowsFinite ==
  ASSUME NEW i \in Items
  PROVE  IsFiniteSet(RowsHad(i)) /\ Cardinality(RowsHad(i)) \in Nat
<1>1. IsFiniteSet(RowNumbers) BY FS_Interval DEF RowNumbers
<1>2. IsFiniteSet({i}) BY FS_Singleton
<1>3. IsFiniteSet(RowsOf(i)) BY <1>1, <1>2, FS_Product DEF RowsOf
<1>4. IsFiniteSet(RowsHad(i)) BY <1>3, FS_Subset DEF RowsHad
<1> QED BY <1>4, FS_CardinalityType

\* A step that inserts no row.
LEMMA CopiesKept ==
  ASSUME Ranges, Ranges', CopyInv, \A r \in Rows : Exists(r)' = Exists(r), faults <= faults',
         \A i \in Items : Pressed(i)' => \/ Pressed(i) \/ RowsHad(i) = {} \/ faults' = faults + 1,
         \A i \in Items : istatus'[i] = "absent" => istatus[i] = "absent"
  PROVE  CopyInv'
<1>1. ASSUME NEW i \in Items
      PROVE  /\ RowsHad(i)' = RowsHad(i)
             /\ Cardinality(RowsHad(i))' = Cardinality(RowsHad(i))
  <2>1. RowsHad(i)' = RowsHad(i) BY RowOwner DEF RowsHad, RowsOf
  <2> QED BY <2>1
<1>2. faults \in Nat /\ faults' \in Nat BY DEF Ranges
<1>3. ASSUME NEW i \in Items
      PROVE  /\ Cardinality(RowsHad(i))' <= 1 + faults'
             /\ Pressed(i)' => Cardinality(RowsHad(i))' <= faults'
             /\ istatus'[i] = "absent" => RowsHad(i)' = {}
  <2>1. Cardinality(RowsHad(i)) <= 1 + faults BY DEF CopyInv, DuplicatesCostFaults, RowsHad
  <2>2. Pressed(i) => Cardinality(RowsHad(i)) <= faults BY DEF CopyInv
  <2>3. RowsHad(i) = {} => Cardinality(RowsHad(i)) = 0 BY FS_EmptySet
  <2>4. Cardinality(RowsHad(i)) \in Nat BY RowsFinite
  <2>5. Cardinality(RowsHad(i))' <= 1 + faults' BY <1>1, <1>2, <2>1, <2>4
  <2>6. Pressed(i)' => Cardinality(RowsHad(i))' <= faults'
    BY <1>1, <1>2, <2>1, <2>2, <2>3, <2>4
  <2>7. istatus'[i] = "absent" => RowsHad(i)' = {} BY <1>1 DEF CopyInv
  <2> QED BY <2>5, <2>6, <2>7
<1> QED BY <1>3 DEF CopyInv, DuplicatesCostFaults, RowsHad

\* A row more, and a fault or a job about to write the status.
LEMMA CopyInserted ==
  ASSUME ItemInv, Ranges, Ranges', CopyInv, Insert
  PROVE  CopyInv'
<1> USE DEF itemVars, outboxVars, Fault, NoFault
<1>1. /\ cur \in Items /\ pc = "insert" /\ UNCHANGED <<istatus, todo, cur>>
      /\ \/ pc' = "complete" /\ UNCHANGED faults
         \/ pc' = "error" /\ faults' = faults + 1
  BY DEF Insert, Goto, ItemInv, JobTypes
<1>2. faults \in Nat BY DEF Ranges
<1>3. CASE UNCHANGED state
  <2>1. \A i \in Items : Pressed(i)' => Pressed(i) BY <1>1 DEF Pressed, InHand
  <2> QED BY <1>1, <1>2, <1>3, <2>1, CopiesKept DEF Exists
<1>4. CASE InsertRow
  <2>1. PICK r \in RowsOf(cur) : Outbox!Accept(r) BY <1>4 DEF InsertRow
  <2>2. r \in Rows /\ r[1] = cur BY <1>1, <2>1, RowOwner
  <2>3. /\ ~Exists(r) /\ Exists(r)'
        /\ \A q \in Rows \ {r} : Exists(q)' = Exists(q)
    BY <2>1, <2>2 DEF Outbox!Accept, Exists, Ranges, Contract
  <2>4. ASSUME NEW i \in Items, i = cur PROVE RowsHad(i)' = RowsHad(i) \cup {r}
    BY <2>1, <2>2, <2>3, <2>4, RowOwner DEF RowsHad, RowsOf
  <2>5. ASSUME NEW i \in Items \ {cur} PROVE RowsHad(i)' = RowsHad(i)
    BY <2>2, <2>3, RowOwner DEF RowsHad, RowsOf
  <2>6. Cardinality(RowsHad(cur)) <= faults /\ Cardinality(RowsHad(cur)) \in Nat
    BY <1>1, RowsFinite DEF CopyInv, Pressed, InHand
  <2>7. Cardinality(RowsHad(cur) \cup {r}) = Cardinality(RowsHad(cur)) + 1
    <3>1. IsFiniteSet(RowsHad(cur)) BY <1>1, RowsFinite
    <3>2. r \notin RowsHad(cur) BY <2>3 DEF RowsHad
    <3> QED BY <3>1, <3>2, FS_AddElement
  <2>8. istatus[cur] # "absent" BY <1>1 DEF ItemInv, CountInv, InHand
  <2>9. ASSUME NEW i \in Items
        PROVE  /\ Cardinality(RowsHad(i)') <= 1 + faults'
               /\ Pressed(i)' => Cardinality(RowsHad(i)') <= faults'
               /\ istatus'[i] = "absent" => RowsHad(i)' = {}
    <3>1. CASE i = cur
      <4>1. Cardinality(RowsHad(i)') <= 1 + faults /\ Cardinality(RowsHad(i)') \in Nat
        <5>1. RowsHad(i)' = RowsHad(cur) \cup {r} BY <2>4, <3>1
        <5> QED BY <1>2, <2>6, <2>7, <5>1
      <4>2. Pressed(i)' => faults' = faults + 1 BY <1>1, <3>1 DEF Pressed
      <4> QED BY <1>1, <1>2, <2>8, <3>1, <4>1, <4>2
    <3>2. CASE i # cur
      <4>1. RowsHad(i)' = RowsHad(i) BY <2>5, <3>2
      <4>2. Pressed(i)' => Pressed(i) BY <1>1, <3>2 DEF Pressed, InHand
      <4>3. /\ Cardinality(RowsHad(i)) <= 1 + faults /\ Cardinality(RowsHad(i)) \in Nat
            /\ Pressed(i) => Cardinality(RowsHad(i)) <= faults
            /\ istatus[i] = "absent" => RowsHad(i) = {}
        BY RowsFinite DEF CopyInv, DuplicatesCostFaults, RowsHad
      <4> QED BY <1>1, <1>2, <4>1, <4>2, <4>3
    <3> QED BY <3>1, <3>2
  <2> QED BY <2>9 DEF CopyInv, DuplicatesCostFaults, RowsHad
<1> QED BY <1>3, <1>4 DEF Insert

\* The rows go with the item.
LEMMA CopyDeleted ==
  ASSUME ItemInv, Ranges, Ranges', CopyInv, NEW i \in Items, CleanupItem(i)
  PROVE  CopyInv'
<1> USE DEF Fault, NoFault
<1>1. /\ ~InHand(i) /\ istatus' = [istatus EXCEPT ![i] = "absent"]
      /\ state' = [r \in Rows |-> IF r[1] = i /\ Exists(r) THEN "forgotten" ELSE state[r]]
      /\ UNCHANGED <<todo, cur, pc>> /\ (UNCHANGED faults \/ faults' = faults + 1)
  BY DEF CleanupItem, jobVars
<1>2. faults \in Nat BY DEF Ranges
<1>3. RowsHad(i)' = {}
  <2>1. \A r \in Rows : r[1] = i => ~Exists(r)'
    BY <1>1 DEF Exists
  <2> QED BY <2>1, RowOwner DEF RowsHad, RowsOf
<1>4. ASSUME NEW j \in Items \ {i} PROVE RowsHad(j)' = RowsHad(j)
  <2>1. \A r \in Rows : r[1] # i => Exists(r)' = Exists(r) BY <1>1 DEF Exists
  <2> QED BY <2>1, RowOwner DEF RowsHad, RowsOf
<1>5. ASSUME NEW j \in Items
      PROVE  /\ Cardinality(RowsHad(j)') <= 1 + faults'
             /\ Pressed(j)' => Cardinality(RowsHad(j)') <= faults'
             /\ istatus'[j] = "absent" => RowsHad(j)' = {}
  <2>1. CASE j = i
    <3>1. RowsHad(j)' = {} BY <1>3, <2>1
    <3>2. Cardinality({}) = 0 BY FS_EmptySet
    <3>3. faults' \in Nat BY DEF Ranges
    <3> QED BY <3>1, <3>2, <3>3
  <2>2. CASE j # i
    <3>1. RowsHad(j)' = RowsHad(j) BY <1>4, <2>2
    <3>2. istatus'[j] = istatus[j] BY <1>1, <2>2 DEF ItemInv, JobTypes
    <3>3. Pressed(j)' => Pressed(j) BY <1>1, <3>2 DEF Pressed, InHand
    <3>4. /\ Cardinality(RowsHad(j)) <= 1 + faults /\ Cardinality(RowsHad(j)) \in Nat
          /\ Pressed(j) => Cardinality(RowsHad(j)) <= faults
          /\ istatus[j] = "absent" => RowsHad(j) = {}
      BY RowsFinite DEF CopyInv, DuplicatesCostFaults, RowsHad
    <3> QED BY <1>1, <1>2, <3>1, <3>2, <3>3, <3>4
  <2> QED BY <2>1, <2>2
<1> QED BY <1>5 DEF CopyInv, DuplicatesCostFaults, RowsHad

\* Every step keeps the count.
LEMMA CopyStep ==
  ASSUME ItemInv, Ranges, Ranges', CopyInv, [Next]_vars
  PROVE  CopyInv'
<1> USE DEF itemVars, jobVars, outboxVars, Fault, NoFault
<1>j. /\ istatus \in [Items -> Statuses] /\ cur \in Items \cup {None} /\ (cur = None <=> pc = "idle")
      /\ todo \in SUBSET Items
      /\ \A i \in Items : InHand(i) => istatus[i] # "absent"
  BY DEF ItemInv, JobTypes, CountInv
<1>f. faults \in Nat BY DEF Ranges
<1>e. UNCHANGED state => \A r \in Rows : Exists(r)' = Exists(r) BY DEF Exists
<1>s. ASSUME NEW i \in Items, NEW s \in {"completed", "failed"}, NEW c, UpdateProcessingStatus(i, s, c)
      PROVE  /\ istatus[i] # "absent" /\ istatus'[i] = s
             /\ \A j \in Items \ {i} : istatus'[j] = istatus[j]
  BY <1>s, <1>j DEF UpdateProcessingStatus
<1>1. CASE Claim
  <2>1. PICK S \in SUBSET Claimable :
          /\ GetPendingItems(S) /\ (todo' = S \/ todo' = {})
          /\ (UNCHANGED faults \/ faults' = faults + 1)
    BY <1>1 DEF Claim
  <2>2. /\ istatus' = [j \in Items |-> IF j \in S THEN "processing" ELSE istatus[j]]
        /\ \A j \in S : istatus[j] \in {"pending", "processing"}
    BY <2>1 DEF GetPendingItems, Claimable
  <2>3. pc = "idle" /\ todo = {} /\ UNCHANGED <<cur, pc, state>> BY <1>1 DEF Claim
  <2>4. cur = None /\ None \notin Items BY <1>j, <2>3
  <2>5. \A i \in Items : Pressed(i)' => Pressed(i) BY <2>1, <2>2, <2>3, <2>4 DEF Pressed, InHand
  <2>6. \A i \in Items : istatus'[i] = "absent" => istatus[i] = "absent" BY <2>2
  <2> QED BY <1>e, <1>f, <2>1, <2>3, <2>5, <2>6, CopiesKept
<1>2. CASE \E i \in Items : Fetch(i)
  <2>1. /\ UNCHANGED <<istatus, state, faults>> /\ pc = "idle" /\ pc' # "complete"
        /\ \E i \in Items : i \in todo /\ todo' = todo \ {i} /\ cur' = i
    BY <1>2 DEF Fetch
  <2>2. \A i \in Items : Pressed(i)' => Pressed(i) BY <2>1 DEF Pressed, InHand
  <2> QED BY <1>e, <1>f, <2>1, <2>2, CopiesKept
<1>3. CASE Subscribers
  <2>1. /\ cur \in Items /\ pc = "subscribers" /\ pc' # "complete" /\ UNCHANGED <<todo, state>>
        /\ cur' \in {cur, None} /\ (UNCHANGED faults \/ faults' = faults + 1)
    BY <1>3, <1>j DEF Subscribers, Goto, NextInBatch
  <2>2. UNCHANGED istatus \/ UpdateProcessingStatus(cur, "completed", FALSE) BY <1>3 DEF Subscribers
  <2>3. \A i \in Items : /\ istatus'[i] = "absent" => istatus[i] = "absent"
                         /\ istatus'[i] \in {"pending", "processing"} => istatus'[i] = istatus[i]
    BY <1>s, <2>1, <2>2
  <2>4. \A i \in Items : Pressed(i)' => Pressed(i) BY <2>1, <2>3 DEF Pressed, InHand
  <2> QED BY <1>e, <1>f, <2>1, <2>3, <2>4, CopiesKept
<1>4. CASE Insert BY <1>4, CopyInserted
<1>5. CASE Complete
  <2>1. /\ cur \in Items /\ pc = "complete" /\ UNCHANGED <<todo, state>>
        /\ \/ pc' = "idle" /\ cur' = None /\ UNCHANGED faults
              /\ UpdateProcessingStatus(cur, "completed", FALSE)
           \/ pc' = "error" /\ UNCHANGED cur /\ faults' = faults + 1
    BY <1>5, <1>j DEF Complete, Goto, NextInBatch
  <2>2. UNCHANGED istatus \/ UpdateProcessingStatus(cur, "completed", FALSE) BY <1>5 DEF Complete
  <2>3. \A i \in Items : /\ istatus'[i] = "absent" => istatus[i] = "absent"
                         /\ istatus'[i] \in {"pending", "processing"} => istatus'[i] = istatus[i]
    BY <1>s, <2>1, <2>2
  <2>4. \A i \in Items : Pressed(i)' => Pressed(i) \/ faults' = faults + 1
    <3>1. CASE pc' = "error" BY <2>1, <3>1
    <3>2. CASE pc' = "idle"
      <4>1. cur' = None /\ istatus'[cur] = "completed" /\ cur \notin todo
        BY <1>s, <2>1, <3>2 DEF ItemInv, CountInv
      <4> QED BY <2>1, <2>3, <4>1 DEF Pressed, InHand
    <3> QED BY <2>1, <3>1, <3>2
  <2>5. faults <= faults'
    <3>1. UNCHANGED faults \/ faults' = faults + 1 BY <1>5 DEF Complete
    <3> QED BY <1>f, <3>1
  <2>6. \A i \in Items : istatus'[i] = "absent" => istatus[i] = "absent" BY <2>3
  <2>7. \A r \in Rows : Exists(r)' = Exists(r) BY <1>e, <2>1
  <2> QED BY <2>4, <2>5, <2>6, <2>7, CopiesKept
<1>6. CASE HandleError
  <2>1. /\ cur \in Items /\ pc = "error" /\ pc' = "idle" /\ cur' = None /\ UNCHANGED <<todo, state>>
        /\ (UNCHANGED faults \/ faults' = faults + 1)
    BY <1>6, <1>j DEF HandleError, NextInBatch
  <2>2. UNCHANGED istatus \/ UpdateProcessingStatus(cur, "failed", FALSE)
    BY <1>6 DEF HandleError, IncrementRetryCount
  <2>3. \A i \in Items : /\ istatus'[i] = "absent" => istatus[i] = "absent"
                         /\ istatus'[i] \in {"pending", "processing"} => istatus'[i] = istatus[i]
    BY <1>s, <2>1, <2>2
  <2>4. \A i \in Items : Pressed(i)' => Pressed(i) BY <2>1, <2>3 DEF Pressed, InHand
  <2> QED BY <1>e, <1>f, <2>1, <2>3, <2>4, CopiesKept
<1>7. ASSUME NEW r \in Rows, RowStep(r) PROVE CopyInv'
  <2>1. UNCHANGED <<todo, cur, pc>> /\ (UNCHANGED faults \/ faults' = faults + 1)
    BY <1>7 DEF RowStep, Deliver, MarkDelivered, FailDelivery, Stamp
  <2>2. \A q \in Rows : Exists(q)' = Exists(q)
    <3>1. CASE Stamp(r) BY <1>e, <3>1 DEF Stamp
    <3>2. CASE Deliver(r) BY <1>e, <3>2 DEF Deliver, Outbox!Give
    <3>3. CASE MarkDelivered(r) BY <3>3 DEF MarkDelivered, Outbox!Complete, Exists, Ranges, Contract
    <3>4. CASE FailDelivery(r) BY <3>4 DEF FailDelivery, Outbox!FailAttempt, Exists, Ranges, Contract
    <3> QED BY <1>7, <3>1, <3>2, <3>3, <3>4 DEF RowStep
  <2>3. r[1] \in Items /\ (UNCHANGED istatus \/ UpdateProcessingStatus(r[1], "completed", TRUE))
    BY <1>7, RowOwner DEF RowStep, Deliver, MarkDelivered, FailDelivery, Stamp
  <2>4. \A i \in Items : /\ istatus'[i] = "absent" => istatus[i] = "absent"
                         /\ istatus'[i] \in {"pending", "processing"} => istatus'[i] = istatus[i]
    BY <1>s, <2>3
  <2>5. \A i \in Items : Pressed(i)' => Pressed(i) BY <2>1, <2>4 DEF Pressed, InHand
  <2> QED BY <1>f, <2>1, <2>2, <2>4, <2>5, CopiesKept
<1>8. ASSUME NEW i \in Items, Discover(i) PROVE CopyInv'
  <2>1. /\ istatus[i] = "absent" /\ istatus' = [istatus EXCEPT ![i] = "pending"]
        /\ UNCHANGED <<todo, cur, pc, state, faults>>
    BY <1>8 DEF Discover, Create
  <2>2. RowsHad(i) = {} BY <2>1 DEF CopyInv
  <2>3. \A j \in Items \ {i} : istatus'[j] = istatus[j] BY <2>1
  <2>4. \A j \in Items : Pressed(j)' => Pressed(j) \/ RowsHad(j) = {}
    BY <2>1, <2>2, <2>3 DEF Pressed, InHand
  <2>5. istatus'[i] = "pending" BY <1>j, <2>1
  <2> QED BY <1>e, <1>f, <2>1, <2>3, <2>4, <2>5, CopiesKept
<1>9. ASSUME NEW i \in Items, CleanupItem(i) PROVE CopyInv' BY <1>9, CopyDeleted
<1>10. ASSUME NEW i \in Items, LeaseExpires(i) PROVE CopyInv'
  <2>1. UNCHANGED <<istatus, todo, cur, pc, state, faults>> BY <1>10 DEF LeaseExpires
  <2>2. \A j \in Items : Pressed(j)' => Pressed(j) BY <2>1 DEF Pressed, InHand
  <2> QED BY <1>e, <1>f, <2>1, <2>2, CopiesKept
<1>11. CASE Crash
  <2>1. UNCHANGED <<istatus, state>> /\ faults' = faults + 1 BY <1>11 DEF Crash
  <2> QED BY <1>e, <1>f, <2>1, CopiesKept
<1>12. CASE UNCHANGED vars
  <2>1. UNCHANGED <<istatus, todo, cur, pc, state, faults>> BY <1>12 DEF vars
  <2>2. \A j \in Items : Pressed(j)' => Pressed(j) BY <2>1 DEF Pressed, InHand
  <2> QED BY <1>e, <1>f, <2>1, <2>2, CopiesKept
<1> QED
  BY <1>1, <1>2, <1>3, <1>4, <1>5, <1>6, <1>7, <1>8, <1>9, <1>10, <1>11, <1>12 DEF Next, JobStep

\* The ranges and the counts hold of every behaviour.
LEMMA CopyInvHolds == Spec => [](ItemInv /\ Ranges /\ CopyInv)
<1>1. Init => Ranges /\ CopyInv
  <2> SUFFICES ASSUME Init PROVE Ranges /\ CopyInv OBVIOUS
  <2>1. Ranges BY DEF Init, Outbox!Init, Ranges, Contract
  <2>2. \A i \in Items : RowsHad(i) = {}
    <3>1. \A r \in Rows : ~Exists(r) BY DEF Init, Outbox!Init, Exists
    <3> QED BY <3>1, RowOwner DEF RowsHad
  <2>3. \A i \in Items : Cardinality(RowsHad(i)) = 0 BY <2>2, FS_EmptySet
  <2>4. faults = 0 BY DEF Init
  <2>5. DuplicatesCostFaults BY <2>3, <2>4 DEF DuplicatesCostFaults, RowsHad
  <2> QED BY <2>1, <2>2, <2>3, <2>4, <2>5 DEF CopyInv
<1>2. ItemInv /\ Ranges /\ CopyInv /\ [Next]_vars => Ranges' /\ CopyInv'
  BY RangesStep, CopyStep
<1> QED BY <1>1, <1>2, ItemInvHolds, PTL DEF Spec

\* Retry counts, discoveries and the outbox's attempts keep their bounds, and
\* the job has an item in hand exactly while it is inside processItem.
THEOREM TypeCorrect == Spec => []TypeOK
<1>1. ItemInv /\ Ranges => TypeOK
  <2> SUFFICES ASSUME ItemInv, Ranges PROVE TypeOK OBVIOUS
  <2>1. iretries \in [Items -> 0..MaxRetries] BY DEF ItemInv, JobTypes, CountInv
  <2> QED BY <2>1 DEF ItemInv, JobTypes, Ranges, Contract, TypeOK
<1> QED BY <1>1, CopyInvHolds, PTL

\* However batches, leases, crashes and stamps interleave, every outbox row of
\* an item beyond the first has cost a crash or a failed write.
THEOREM CopiesCostFaults == Spec => []DuplicatesCostFaults
<1>1. CopyInv => DuplicatesCostFaults BY DEF CopyInv
<1> QED BY <1>1, CopyInvHolds, PTL

=============================================================================
