---------------------------- MODULE OutboxProofs ----------------------------
(* Proofs about Outbox, for any number of entries, users and workers.      *)
EXTENDS Outbox, TLAPS

USE OutboxAssumption

-----------------------------------------------------------------------------
(* Type correctness.                                                       *)

\* What the repository's writes keep of the table's types.
RowTypes == /\ status \in [Entries -> Statuses]
            /\ retries \in [Entries -> Nat]
            /\ due \in [Entries -> BOOLEAN]
            /\ leased \in [Entries -> BOOLEAN]

LEMMA ClaimTypes ==
  ASSUME TypeOK, NEW S \in SUBSET Entries,
         GetPendingEntries(S) \/ ReleaseClaims(S) \/ UNCHANGED rowVars
  PROVE  RowTypes'
<1> USE DEF TypeOK, RowTypes, Statuses
<1>1. CASE GetPendingEntries(S) BY <1>1 DEF GetPendingEntries
<1>2. CASE ReleaseClaims(S) BY <1>2 DEF ReleaseClaims
<1>3. CASE UNCHANGED rowVars BY <1>3 DEF rowVars
<1> QED BY <1>1, <1>2, <1>3

LEMMA WriteTypes ==
  ASSUME TypeOK, NEW e \in Entries,
         \/ Create(e) \/ UpdateDeliveryStatus(e) \/ IncrementRetryCount(e)
         \/ DeleteOldDeliveredEntries(e) \/ UNCHANGED rowVars
  PROVE  RowTypes'
<1> USE DEF TypeOK, RowTypes, Statuses
<1>1. CASE Create(e) BY <1>1 DEF Create
<1>2. CASE UpdateDeliveryStatus(e) BY <1>2 DEF UpdateDeliveryStatus
<1>3. CASE IncrementRetryCount(e) BY <1>3 DEF IncrementRetryCount
<1>4. CASE DeleteOldDeliveredEntries(e) BY <1>4 DEF DeleteOldDeliveredEntries
<1>5. CASE UNCHANGED rowVars BY <1>5 DEF rowVars
<1> QED BY <1>1, <1>2, <1>3, <1>4, <1>5

LEMMA StepTypes ==
  ASSUME TypeOK, [Next]_vars
  PROVE  TypeOK'
<1> USE DEF TypeOK
<1>1. CASE Poll
  <2>1. PICK S \in SUBSET Entries :
          GetPendingEntries(S) /\ (batch' = S \/ batch' = {})
    BY <1>1 DEF Poll, Claimable
  <2>2. faults' \in 0..MaxFaults
    BY <1>1 DEF Poll, Fault, NoFault
  <2>3. RowTypes'
    BY <2>1, ClaimTypes
  <2> QED BY <1>1, <2>1, <2>2, <2>3 DEF Poll, RowTypes, contentVars, workerVars
<1>2. ASSUME NEW e \in Entries, Enqueue(e) PROVE TypeOK'
  BY <1>2 DEF Enqueue, rowVars, contentVars, workerVars
<1>3. ASSUME NEW e \in Entries, ReleaseFull(e) PROVE TypeOK'
  <2>1. ReleaseClaims({e}) \/ UNCHANGED rowVars
    BY <1>3 DEF ReleaseFull
  <2>2. faults' \in 0..MaxFaults
    BY <1>3 DEF ReleaseFull, Fault, NoFault
  <2>3. RowTypes'
    BY <2>1, ClaimTypes, {e} \in SUBSET Entries
  <2> QED BY <1>3, <2>2, <2>3 DEF ReleaseFull, RowTypes, contentVars, workerVars
<1>4. CASE ReleaseUnqueued
  <2>1. RowTypes'
    BY <1>4, ClaimTypes DEF ReleaseUnqueued
  <2>2. faults' \in 0..MaxFaults
    BY <1>4 DEF ReleaseUnqueued, Fault, NoFault
  <2> QED BY <1>4, <2>1, <2>2 DEF ReleaseUnqueued, RowTypes, contentVars, workerVars
<1>5. CASE PollPanic
  BY <1>5 DEF PollPanic, Fault, rowVars, contentVars, workerVars
<1>6. CASE PollerExit
  BY <1>6 DEF PollerExit, rowVars, contentVars, workerVars
<1>7. ASSUME NEW w \in Workers, Take(w) PROVE TypeOK'
  <2>1. /\ Head(queue) \in Entries /\ Tail(queue) \in Seq(Entries)
        /\ Len(Tail(queue)) <= QueueSize
    BY <1>7 DEF Take
  <2> QED BY <1>7, <2>1 DEF Take, Busy, rowVars, contentVars
<1>8. ASSUME NEW w \in Workers, WorkerExit(w) PROVE TypeOK'
  BY <1>8 DEF WorkerExit, Goto, Busy, rowVars, contentVars
<1>9. ASSUME NEW w \in Workers, StepCreate(w) PROVE TypeOK'
  <2>1. wentry[w] \in Entries
    BY <1>9 DEF StepCreate, Busy
  <2>2. contentVars' = contentVars \/ BulkCreateContent(wentry[w])
    BY <1>9 DEF StepCreate, GivesUp
  <2>3. Goto(w, "add") \/ Goto(w, "fail")
    BY <1>9 DEF StepCreate
  <2> QED BY <1>9, <2>1, <2>2, <2>3 DEF StepCreate, Goto, Busy,
             BulkCreateContent, rowVars, contentVars
<1>10. ASSUME NEW w \in Workers, StepAdd(w) PROVE TypeOK'
  <2>1. wentry[w] \in Entries
    BY <1>10 DEF StepAdd, Busy
  <2>2. contentVars' = contentVars \/ AddContentToUsers(wentry[w])
    BY <1>10 DEF StepAdd, GivesUp
  <2>3. Goto(w, "mark") \/ Goto(w, "fail")
    BY <1>10 DEF StepAdd
  <2>4. /\ stored' \in SUBSET Entries
        /\ granted' \in [Entries -> SUBSET Users]
    BY <2>1, <2>2 DEF AddContentToUsers, contentVars
  <2> QED BY <1>10, <2>3, <2>4 DEF StepAdd, Goto, Busy, rowVars
<1>11. ASSUME NEW w \in Workers, StepMark(w) PROVE TypeOK'
  <2>1. wentry[w] \in Entries
    BY <1>11 DEF StepMark, Busy
  <2>2. UpdateDeliveryStatus(wentry[w]) \/ UNCHANGED rowVars
    BY <1>11 DEF StepMark
  <2>3. faults' \in 0..MaxFaults
    BY <1>11 DEF StepMark, Fault, NoFault
  <2>4. (Goto(w, "stamp") \/ Finish(w)) /\ wpc[w] = "mark"
    BY <1>11 DEF StepMark
  <2>5. RowTypes'
    BY <2>1, <2>2, WriteTypes
  <2> QED BY <1>11, <2>1, <2>3, <2>4, <2>5
             DEF StepMark, RowTypes, Goto, Finish, Busy, contentVars
<1>12. ASSUME NEW w \in Workers, StepStamp(w) PROVE TypeOK'
  BY <1>12 DEF StepStamp, Finish, Busy, Fault, NoFault, rowVars, contentVars
<1>13. ASSUME NEW w \in Workers, StepFail(w) PROVE TypeOK'
  <2>1. wentry[w] \in Entries
    BY <1>13 DEF StepFail, Busy
  <2>2. IncrementRetryCount(wentry[w]) \/ UNCHANGED rowVars
    BY <1>13 DEF StepFail
  <2>3. faults' \in 0..MaxFaults
    BY <1>13 DEF StepFail, Fault, NoFault
  <2>4. RowTypes'
    BY <2>1, <2>2, WriteTypes
  <2> QED BY <1>13, <2>3, <2>4 DEF StepFail, RowTypes, Finish, Busy, contentVars
<1>14. ASSUME NEW w \in Workers, Panic(w) PROVE TypeOK'
  BY <1>14 DEF Panic, Finish, Busy, Fault, rowVars, contentVars
<1>15. CASE Stop
  BY <1>15 DEF Stop, Fault, rowVars, contentVars, workerVars
<1>16. CASE PoolStopped
  BY <1>16 DEF PoolStopped, rowVars, contentVars, workerVars
<1>17. CASE Crash
  BY <1>17 DEF Crash, AllIdle, Busy, Fault, rowVars, contentVars
<1>18. CASE Start
  BY <1>18 DEF Start, AllIdle, Busy, rowVars, contentVars
<1>19. ASSUME NEW e \in Entries, CreateEntry(e) PROVE TypeOK'
  BY <1>19, WriteTypes DEF CreateEntry, RowTypes, processVars, contentVars, workerVars
<1>20. ASSUME NEW e \in Entries, CleanupDelivered(e) PROVE TypeOK'
  BY <1>20, WriteTypes DEF CleanupDelivered, RowTypes, processVars, contentVars, workerVars
<1>21. ASSUME NEW e \in Entries, DeleteItem(e) PROVE TypeOK'
  BY <1>21 DEF DeleteItem, Fault, NoFault, Statuses, processVars,
               contentVars, workerVars
<1>22. ASSUME NEW e \in Entries, LeaseExpires(e) PROVE TypeOK'
  BY <1>22 DEF LeaseExpires, processVars, contentVars, workerVars
<1>23. ASSUME NEW e \in Entries, BecomeDue(e) PROVE TypeOK'
  BY <1>23 DEF BecomeDue, processVars, contentVars, workerVars
<1>24. CASE UNCHANGED vars
  BY <1>24 DEF vars, rowVars, contentVars, workerVars
<1> QED
  BY <1>1, <1>2, <1>3, <1>4, <1>5, <1>6, <1>7, <1>8, <1>9, <1>10, <1>11,
     <1>12, <1>13, <1>14, <1>15, <1>16, <1>17, <1>18, <1>19, <1>20, <1>21,
     <1>22, <1>23, <1>24 DEF Next, PollerStep, WorkerStep, EntryStep

\* The variables have their types, and the channel is never over capacity.
THEOREM TypeCorrect == Spec => []TypeOK
<1>1. Init => TypeOK
  BY DEF Init, TypeOK, Statuses, Busy
<1>2. TypeOK /\ [Next]_vars => TypeOK'
  BY StepTypes
<1> QED BY <1>1, <1>2, PTL DEF Spec

-----------------------------------------------------------------------------
(* The inductive invariants.                                               *)

\* A worker past a request to the Content Service saw it succeed, and what
\* succeeded stays: no later loss of the claim can take the article away.
Progress ==
  /\ \A e \in Entries : granted[e] \subseteq Recipients[e]
  /\ \A w \in Workers :
       /\ wpc[w] \in {"add", "mark", "stamp"} => wentry[w] \in stored
       /\ wpc[w] \in {"mark", "stamp"} =>
            granted[wentry[w]] = Recipients[wentry[w]]

GrantInv == Progress /\ DeliveredWasGranted

\* A row starts with no failure counted.
RetryInv == /\ \A e \in Entries : status[e] = "absent" => retries[e] = 0
            /\ NotStranded

\* Who holds an entry holds a claim the selector respects; only after the
\* entry is closed, or its row gone, may a worker hold it without.
Claimed(e) == status[e] = "gone" \/ (status[e] = "sending" /\ leased[e])

HeldMeansClaimed ==
  /\ \A e \in batch : Claimed(e)
  /\ \A i \in 1..Len(queue) : Claimed(queue[i])
  /\ \A w \in Workers :
       /\ wpc[w] \in Busy \ {"stamp"} => Claimed(wentry[w])
       /\ wpc[w] = "stamp" =>
            status[wentry[w]] \in {"delivered", "purged", "gone"}

ClaimInv == HeldMeansClaimed /\ ExclusiveClaim

-----------------------------------------------------------------------------
(* Retry accounting.  Every step makes at most one of these writes to the  *)
(* table, so an invariant of the table alone has nothing else to look at.  *)

RowWrite ==
  \/ \E S \in SUBSET Entries : GetPendingEntries(S) \/ ReleaseClaims(S)
  \/ \E e \in Entries :
       \/ Create(e) \/ UpdateDeliveryStatus(e) \/ IncrementRetryCount(e)
       \/ /\ status' = [status EXCEPT ![e] = "gone"] \* deleted with its item
          /\ UNCHANGED retries
       \/ DeleteOldDeliveredEntries(e)
  \/ UNCHANGED <<status, retries>>

LEMMA StepWritesRowOnce ==
  ASSUME TypeOK, [Next]_vars
  PROVE  RowWrite
<1> USE DEF RowWrite
<1>1. CASE Poll
  BY <1>1 DEF Poll, Claimable
<1>2. ASSUME NEW e \in Entries, Enqueue(e) \/ ReleaseFull(e) PROVE RowWrite
  <2>1. {e} \in SUBSET Entries
    OBVIOUS
  <2> QED BY <1>2, <2>1 DEF Enqueue, ReleaseFull, rowVars
<1>3. CASE ReleaseUnqueued
  BY <1>3 DEF ReleaseUnqueued, TypeOK
<1>4. CASE PollPanic \/ PollerExit \/ Stop \/ PoolStopped \/ Crash \/ Start
  BY <1>4 DEF PollPanic, PollerExit, Stop, PoolStopped, Crash, Start, rowVars
<1>5. ASSUME NEW w \in Workers, WorkerStep(w) \/ Panic(w) PROVE RowWrite
  <2>1. wpc[w] \in Busy => wentry[w] \in Entries
    BY DEF TypeOK
  <2>2. CASE StepMark(w)
    BY <2>1, <2>2 DEF StepMark, Busy, rowVars
  <2>3. CASE StepFail(w)
    BY <2>1, <2>3 DEF StepFail, Busy, rowVars
  <2> QED BY <1>5, <2>2, <2>3 DEF WorkerStep, Take, WorkerExit, StepCreate,
             StepAdd, StepStamp, Panic, rowVars
<1>6. ASSUME NEW e \in Entries, EntryStep(e) PROVE RowWrite
  BY <1>6 DEF EntryStep, CreateEntry, CleanupDelivered, DeleteItem,
              LeaseExpires, BecomeDue
<1>7. CASE UNCHANGED vars
  BY <1>7 DEF vars
<1> QED BY <1>1, <1>2, <1>3, <1>4, <1>5, <1>6, <1>7 DEF Next, PollerStep

LEMMA RowWriteKeepsRetryInv ==
  ASSUME TypeOK, RetryInv, RowWrite
  PROVE  RetryInv'
<1> USE DEF TypeOK, RetryInv, NotStranded
<1>1. ASSUME NEW S \in SUBSET Entries, GetPendingEntries(S) PROVE RetryInv'
  BY <1>1 DEF GetPendingEntries, Claimable, Statuses
<1>2. ASSUME NEW S \in SUBSET Entries, ReleaseClaims(S) PROVE RetryInv'
  BY <1>2 DEF ReleaseClaims
<1>3. ASSUME NEW e \in Entries, Create(e) PROVE RetryInv'
  BY <1>3 DEF Create
<1>4. ASSUME NEW e \in Entries, UpdateDeliveryStatus(e) PROVE RetryInv'
  BY <1>4 DEF UpdateDeliveryStatus
<1>5. ASSUME NEW e \in Entries, IncrementRetryCount(e) PROVE RetryInv'
  BY <1>5 DEF IncrementRetryCount, RowExists
<1>6. ASSUME NEW e \in Entries, DeleteOldDeliveredEntries(e) PROVE RetryInv'
  BY <1>6 DEF DeleteOldDeliveredEntries
<1>7. ASSUME NEW e \in Entries, status' = [status EXCEPT ![e] = "gone"],
             UNCHANGED retries
      PROVE  RetryInv'
  BY <1>7
<1>8. CASE UNCHANGED <<status, retries>>
  BY <1>8
<1> QED BY <1>1, <1>2, <1>3, <1>4, <1>5, <1>6, <1>7, <1>8 DEF RowWrite

\* No row is left with its retries spent while it still waits, nor given up
\* early, however many expired claims write to it.
THEOREM NeverStranded == Spec => []NotStranded
<1>1. Init => RetryInv
  BY DEF Init, RetryInv, NotStranded
<1>2. TypeOK /\ RetryInv /\ [Next]_vars => RetryInv'
  BY StepWritesRowOnce, RowWriteKeepsRetryInv
<1>3. RetryInv => NotStranded
  BY DEF RetryInv
<1> QED BY <1>1, <1>2, <1>3, TypeCorrect, PTL DEF Spec

-----------------------------------------------------------------------------
(* Delivery.                                                               *)

\* Content is never taken back by the fetcher, and a list only ever gains the
\* entry's own recipients.
LEMMA ContentGrows ==
  ASSUME TypeOK, Progress, [Next]_vars
  PROVE  /\ stored \subseteq stored'
         /\ \A e \in Entries : /\ granted[e] \subseteq granted'[e]
                               /\ granted'[e] \subseteq Recipients[e]
<1> USE DEF contentVars
<1>1. ASSUME NEW w \in Workers, StepCreate(w)
      PROVE  stored \subseteq stored' /\ UNCHANGED granted
  BY <1>1 DEF StepCreate, GivesUp, BulkCreateContent
<1>2. ASSUME NEW w \in Workers, StepAdd(w)
      PROVE  \/ UNCHANGED contentVars
             \/ wentry[w] \in Entries /\ AddContentToUsers(wentry[w])
  BY <1>2 DEF StepAdd, GivesUp, TypeOK, Busy
<1>3. \/ UNCHANGED contentVars
      \/ \E w \in Workers : StepCreate(w) \/ StepAdd(w)
  BY DEF Next, PollerStep, WorkerStep, EntryStep, Poll, ReleaseUnqueued,
         Enqueue, ReleaseFull, PollPanic, PollerExit, Take, WorkerExit,
         StepMark, StepStamp, StepFail, Panic, Stop, PoolStopped, Crash,
         Start, CreateEntry, CleanupDelivered, DeleteItem, LeaseExpires,
         BecomeDue, vars
<1>4. CASE UNCHANGED contentVars
  BY <1>4 DEF Progress
<1>5. ASSUME NEW e \in Entries, AddContentToUsers(e)
      PROVE  /\ stored \subseteq stored'
             /\ \A f \in Entries : /\ granted[f] \subseteq granted'[f]
                                   /\ granted'[f] \subseteq Recipients[f]
  BY <1>5 DEF AddContentToUsers, Progress, TypeOK
<1>6. ASSUME NEW w \in Workers, StepCreate(w)
      PROVE  /\ stored \subseteq stored'
             /\ \A e \in Entries : /\ granted[e] \subseteq granted'[e]
                                   /\ granted'[e] \subseteq Recipients[e]
  BY <1>1, <1>6 DEF Progress
<1> QED BY <1>2, <1>3, <1>4, <1>5, <1>6

\* How a worker gets past a request.
Advance(w) ==
  /\ wentry'[w] = wentry[w] /\ wentry[w] \in Entries
  /\ \/ wpc'[w] = "add" /\ BulkCreateContent(wentry[w])
     \/ wpc[w] = "add" /\ wpc'[w] = "mark" /\ AddContentToUsers(wentry[w])
     \/ wpc[w] = "mark" /\ wpc'[w] = "stamp"

LEMMA WorkerAdvances ==
  ASSUME TypeOK, [Next]_vars, NEW v \in Workers
  PROVE  \/ wpc'[v] = wpc[v] /\ wentry'[v] = wentry[v]
         \/ wpc'[v] \notin {"add", "mark", "stamp"}
         \/ Advance(v)
<1> USE DEF TypeOK, Goto, Finish, Advance, Busy
<1>1. CASE UNCHANGED workerVars
  BY <1>1 DEF workerVars
<1>2. ASSUME NEW w \in Workers, StepCreate(w)
      PROVE  \/ wpc'[v] = wpc[v] /\ wentry'[v] = wentry[v]
             \/ wpc'[v] = "fail" \/ Advance(v)
  BY <1>2 DEF StepCreate
<1>3. ASSUME NEW w \in Workers, StepAdd(w)
      PROVE  \/ wpc'[v] = wpc[v] /\ wentry'[v] = wentry[v]
             \/ wpc'[v] = "fail" \/ Advance(v)
  BY <1>3 DEF StepAdd
<1>4. ASSUME NEW w \in Workers, StepMark(w)
      PROVE  \/ wpc'[v] = wpc[v] /\ wentry'[v] = wentry[v]
             \/ wpc'[v] = "idle" \/ Advance(v)
  BY <1>4 DEF StepMark
<1>5. ASSUME NEW w \in Workers,
             Take(w) \/ WorkerExit(w) \/ StepStamp(w) \/ StepFail(w) \/ Panic(w)
      PROVE  \/ wpc'[v] = wpc[v] /\ wentry'[v] = wentry[v]
             \/ wpc'[v] \in {"idle", "create", "exited"}
  BY <1>5 DEF Take, WorkerExit, StepStamp, StepFail, Panic
<1>6. CASE Crash \/ Start
  BY <1>6 DEF Crash, Start, AllIdle
<1>7. \/ UNCHANGED workerVars \/ Crash \/ Start
      \/ \E w \in Workers : WorkerStep(w) \/ Panic(w)
  BY DEF Next, PollerStep, EntryStep, Poll, ReleaseUnqueued, Enqueue,
         ReleaseFull, PollPanic, PollerExit, Stop, PoolStopped, CreateEntry,
         CleanupDelivered, DeleteItem, LeaseExpires, BecomeDue, processVars,
         workerVars, vars
<1> QED BY <1>1, <1>2, <1>3, <1>4, <1>5, <1>6, <1>7 DEF WorkerStep

LEMMA ProgressKept ==
  ASSUME TypeOK, Progress, [Next]_vars
  PROVE  Progress'
<1> USE DEF Progress
<1>1. \A e \in Entries : /\ granted'[e] \subseteq Recipients[e]
                         /\ granted[e] \subseteq granted'[e]
  BY ContentGrows
<1>2. stored \subseteq stored'
  BY ContentGrows
<1>3. ASSUME NEW w \in Workers
      PROVE  /\ wpc'[w] \in {"add", "mark", "stamp"} => wentry'[w] \in stored'
             /\ wpc'[w] \in {"mark", "stamp"} =>
                  granted'[wentry'[w]] = Recipients[wentry'[w]]
  <2>1. CASE wpc'[w] = wpc[w] /\ wentry'[w] = wentry[w]
    <3>1. wpc[w] \in {"mark", "stamp"} => wentry[w] \in Entries
      BY DEF TypeOK, Busy
    <3> QED BY <1>1, <1>2, <2>1, <3>1
  <2>2. CASE Advance(w)
    <3>1. CASE wpc'[w] = "add" /\ BulkCreateContent(wentry[w])
      BY <2>2, <3>1 DEF Advance, BulkCreateContent
    <3>2. CASE wpc[w] = "add" /\ wpc'[w] = "mark" /\ AddContentToUsers(wentry[w])
      BY <1>1, <1>2, <2>2, <3>2 DEF Advance, AddContentToUsers, TypeOK
    <3>3. CASE wpc[w] = "mark" /\ wpc'[w] = "stamp"
      BY <1>1, <1>2, <2>2, <3>3 DEF Advance
    <3> QED BY <2>2, <3>1, <3>2, <3>3 DEF Advance
  <2> QED BY <2>1, <2>2, WorkerAdvances
<1> QED BY <1>1, <1>3

\* Only a worker that saw both requests succeed closes or stamps an entry.
LEMMA ClosedByAWorker ==
  ASSUME TypeOK, [Next]_vars, NEW e \in Entries
  PROVE  /\ status'[e] \in {"delivered", "purged"} =>
              \/ status[e] \in {"delivered", "purged"}
              \/ \E w \in Workers : wpc[w] = "mark" /\ wentry[w] = e
         /\ e \in stamped' =>
              \/ e \in stamped
              \/ \E w \in Workers : wpc[w] = "stamp" /\ wentry[w] = e
<1>1. status'[e] \in {"delivered", "purged"} =>
        \/ status[e] \in {"delivered", "purged"}
        \/ \E w \in Workers : wpc[w] = "mark" /\ wentry[w] = e
  <2> USE DEF TypeOK, Statuses, rowVars
  <2>1. ASSUME NEW w \in Workers, StepMark(w)
        PROVE  status'[e] = status[e] \/ (wpc[w] = "mark" /\ wentry[w] = e)
    BY <2>1 DEF StepMark, UpdateDeliveryStatus
  <2>2. ASSUME NEW w \in Workers, StepFail(w)
        PROVE  status'[e] = status[e] \/ status'[e] \in {"pending", "failed"}
    BY <2>2 DEF StepFail, IncrementRetryCount
  <2>3. ASSUME NEW w \in Workers, WorkerStep(w) \/ Panic(w),
               ~StepMark(w), ~StepFail(w)
        PROVE  status' = status
    BY <2>3 DEF WorkerStep, Take, WorkerExit, StepCreate, StepAdd, StepStamp,
                Panic
  <2>4. CASE Poll
    BY <2>4 DEF Poll, GetPendingEntries
  <2>5. ASSUME NEW f \in Entries, EntryStep(f)
        PROVE  \/ status'[e] = status[e]
               \/ status'[e] = "purged" /\ status[e] = "delivered"
               \/ status'[e] \in {"pending", "gone"}
    BY <2>5 DEF EntryStep, CreateEntry, CleanupDelivered, DeleteItem,
                LeaseExpires, BecomeDue, Create, DeleteOldDeliveredEntries
  <2>6. \/ UNCHANGED status \/ Poll
        \/ \E w \in Workers : WorkerStep(w) \/ Panic(w)
        \/ \E f \in Entries : EntryStep(f)
    BY DEF Next, PollerStep, ReleaseUnqueued, ReleaseClaims, Enqueue,
           ReleaseFull, PollPanic, PollerExit, Stop, PoolStopped, Crash,
           Start, vars
  <2> QED BY <2>1, <2>2, <2>3, <2>4, <2>5, <2>6
<1>2. e \in stamped' =>
        \/ e \in stamped
        \/ \E w \in Workers : wpc[w] = "stamp" /\ wentry[w] = e
  BY DEF Next, PollerStep, WorkerStep, EntryStep, Poll, ReleaseUnqueued,
         Enqueue, ReleaseFull, PollPanic, PollerExit, Take, WorkerExit,
         StepCreate, StepAdd, StepMark, StepStamp, StepFail, Panic, Stop,
         PoolStopped, Crash, Start, CreateEntry, CleanupDelivered, DeleteItem,
         LeaseExpires, BecomeDue, vars
<1> QED BY <1>1, <1>2

LEMMA StepKeepsGrants ==
  ASSUME TypeOK, GrantInv, [Next]_vars
  PROVE  GrantInv'
<1> USE DEF GrantInv
<1>1. Progress'
  BY ProgressKept
<1>2. ASSUME NEW e \in Entries,
             status'[e] \in {"delivered", "purged"} \/ e \in stamped'
      PROVE  e \in stored' /\ granted'[e] = Recipients[e]
  <2>1. e \in stored /\ granted[e] = Recipients[e]
    BY <1>2, ClosedByAWorker DEF Progress, DeliveredWasGranted
  <2> QED BY <2>1, ContentGrows
<1> QED BY <1>1, <1>2 DEF DeliveredWasGranted

\* A delivered row or a stamped item means that every recipient has the
\* article: proved without any assumption on leases, so it also covers rows
\* delivered twice, by workers that no longer held a claim.
THEOREM DeliveredIsGranted == Spec => []DeliveredWasGranted
<1>1. Init => GrantInv
  BY DEF Init, GrantInv, Progress, DeliveredWasGranted
<1>2. TypeOK /\ GrantInv /\ [Next]_vars => GrantInv'
  BY StepKeepsGrants
<1>3. GrantInv => DeliveredWasGranted
  BY DEF GrantInv
<1> QED BY <1>1, <1>2, <1>3, TypeCorrect, PTL DEF Spec

-----------------------------------------------------------------------------
(* Exclusive claims, while every claim outlives its delivery.               *)

Closed(e) == status[e] \in {"delivered", "purged", "gone"}

\* No entry passes to a new holder.
NoNewHolder ==
  /\ batch' \subseteq batch /\ queue' = queue
  /\ \A w \in Workers : wentry'[w] \in {wentry[w], NoEntry}

LEMMA StaysExclusive ==
  ASSUME TypeOK, ExclusiveClaim, NoNewHolder
  PROVE  ExclusiveClaim'
BY DEF TypeOK, ExclusiveClaim, OneDelivererAtATime, NoNewHolder, InQueue

\* Without a new holder it is enough to look at the rows of the entries that
\* are still held and at the workers that are still busy.
LEMMA StaysClaimed ==
  ASSUME TypeOK, TypeOK', ClaimInv, NoNewHolder,
         \A e \in Entries : InFlight(e)' => /\ Claimed(e) => Claimed(e)'
                                            /\ Closed(e) => Closed(e)',
         \A w \in Workers :
           wpc'[w] \in Busy => \/ wpc'[w] = wpc[w]
                               \/ /\ wpc[w] \in Busy \ {"stamp"}
                                  /\ wpc'[w] # "stamp"
  PROVE  ClaimInv'
<1>1. ExclusiveClaim'
  BY StaysExclusive DEF ClaimInv
<1>2. \A e \in batch' : Claimed(e)'
  BY DEF ClaimInv, HeldMeansClaimed, NoNewHolder, InFlight, TypeOK
<1>3. \A i \in 1..Len(queue') : Claimed(queue[i])'
  <2> SUFFICES ASSUME NEW i \in 1..Len(queue') PROVE Claimed(queue[i])'
    OBVIOUS
  <2>1. queue' = queue /\ queue[i] \in Entries /\ Claimed(queue[i])
    BY DEF ClaimInv, HeldMeansClaimed, NoNewHolder, TypeOK
  <2>2. InFlight(queue[i])'
    BY <2>1 DEF InFlight, InQueue
  <2> QED BY <2>1, <2>2
<1>4. ASSUME NEW w \in Workers, wpc'[w] \in Busy
      PROVE  /\ wpc'[w] # "stamp" => Claimed(wentry[w])'
             /\ wpc'[w] = "stamp" => Closed(wentry[w])'
  <2>1. wentry'[w] = wentry[w] /\ wentry[w] \in Entries /\ wpc[w] \in Busy
    BY <1>4 DEF NoNewHolder, TypeOK
  <2>2. InFlight(wentry[w])'
    BY <2>1 DEF InFlight
  <2>3. /\ wpc[w] # "stamp" => Claimed(wentry[w])
        /\ wpc[w] = "stamp" => Closed(wentry[w])
    BY <2>1 DEF ClaimInv, HeldMeansClaimed, Closed
  <2> QED BY <1>4, <2>1, <2>2, <2>3
<1> QED BY <1>1, <1>2, <1>3, <1>4 DEF ClaimInv, HeldMeansClaimed, Closed, Busy

\* An entry has one holder, so what is done to it is done to no other copy.
LEMMA OneHolder ==
  ASSUME TypeOK, ClaimInv, NEW e \in Entries
  PROVE  /\ e \in batch => ~InQueue(e) /\ \A w \in Workers : wentry[w] # e
         /\ InQueue(e) => e \notin batch /\ \A w \in Workers : wentry[w] # e
         /\ \A w \in Workers : wentry[w] = e =>
              /\ e \notin batch /\ ~InQueue(e)
              /\ \A v \in Workers : v # w => wentry[v] # e
BY DEF TypeOK, ClaimInv, ExclusiveClaim, OneDelivererAtATime

\* A claimable row has no holder.
LEMMA ClaimableIsFree ==
  ASSUME TypeOK, ClaimInv, NEW e \in Claimable
  PROVE  ~InFlight(e)
<1>1. status[e] \in {"pending", "sending"} /\ ~Claimed(e) /\ e \in Entries
  BY DEF Claimable, Claimed
<1>2. e \notin batch
  BY <1>1 DEF ClaimInv, HeldMeansClaimed
<1>3. ~InQueue(e)
  BY <1>1 DEF ClaimInv, HeldMeansClaimed, InQueue
<1>4. \A w \in Workers : wentry[w] # e
  BY <1>1 DEF ClaimInv, HeldMeansClaimed, TypeOK
<1> QED BY <1>2, <1>3, <1>4 DEF InFlight

LEMMA PollKeepsClaims ==
  ASSUME TypeOK, ClaimInv, Poll
  PROVE  ClaimInv'
<1>1. PICK S \in SUBSET Claimable : GetPendingEntries(S) /\ batch' \subseteq S
  BY DEF Poll
<1>2. /\ UNCHANGED <<queue, wpc, wentry>> /\ S \subseteq Entries
  BY <1>1 DEF Poll, workerVars, Claimable
<1>3. \A e \in S : ~InFlight(e)
  BY <1>1, ClaimableIsFree
<1>4. \A e \in Entries : /\ e \in S => Claimed(e)'
                         /\ Claimed(e) => Claimed(e)'
                         /\ e \notin S /\ Closed(e) => Closed(e)'
  BY <1>1 DEF GetPendingEntries, Claimed, Closed, TypeOK
<1>5. \A w \in Workers : wpc[w] = "stamp" => wentry[w] \notin S
  BY <1>3 DEF InFlight
<1>6. HeldMeansClaimed'
  BY <1>1, <1>2, <1>4, <1>5
     DEF ClaimInv, HeldMeansClaimed, TypeOK, Busy, Closed
<1>7. ExclusiveClaim'
  BY <1>1, <1>2, <1>3 DEF ClaimInv, ExclusiveClaim, OneDelivererAtATime,
                          InFlight, InQueue, TypeOK
<1> QED BY <1>6, <1>7 DEF ClaimInv

LEMMA EnqueueKeepsClaims ==
  ASSUME TypeOK, ClaimInv, NEW e \in Entries, Enqueue(e)
  PROVE  ClaimInv'
<1> DEFINE n == Len(queue)
<1>1. /\ queue' = Append(queue, e) /\ batch' = batch \ {e} /\ e \in batch
      /\ UNCHANGED <<wpc, wentry, status, leased>>
  BY DEF Enqueue, workerVars, rowVars
<1>2. /\ Len(queue') = n + 1 /\ queue'[n + 1] = e
      /\ \A i \in 1..n : queue'[i] = queue[i]
      /\ n \in Nat
  BY <1>1 DEF TypeOK
<1>3. ~InQueue(e) /\ \A w \in Workers : wentry[w] # e
  BY <1>1, OneHolder
<1>4. \A f : InQueue(f)' <=> InQueue(f) \/ f = e
  BY <1>2 DEF InQueue
<1>5. HeldMeansClaimed'
  <2>1. \A f : Claimed(f)' = Claimed(f)
    BY <1>1 DEF Claimed
  <2>2. \A i \in 1..Len(queue') : Claimed(queue'[i])
    BY <1>1, <1>2 DEF ClaimInv, HeldMeansClaimed
  <2> QED BY <1>1, <2>1, <2>2 DEF ClaimInv, HeldMeansClaimed
<1>6. \A i, j \in 1..Len(queue') : i # j => queue'[i] # queue'[j]
  BY <1>2, <1>3 DEF ClaimInv, ExclusiveClaim, InQueue
<1>7. ExclusiveClaim'
  BY <1>1, <1>3, <1>4, <1>6 DEF ClaimInv, ExclusiveClaim, OneDelivererAtATime
<1> QED BY <1>5, <1>7 DEF ClaimInv

LEMMA TakeKeepsClaims ==
  ASSUME TypeOK, ClaimInv, NEW w \in Workers, Take(w)
  PROVE  ClaimInv'
<1> DEFINE n == Len(queue)
           e == queue[1]
<1>1. /\ queue' = Tail(queue) /\ n \in Nat \ {0} /\ e \in Entries
      /\ wentry' = [wentry EXCEPT ![w] = e]
      /\ wpc' = [wpc EXCEPT ![w] = "create"]
      /\ UNCHANGED <<batch, status, leased>>
  BY DEF Take, rowVars, TypeOK
<1>2. /\ Len(queue') = n - 1
      /\ \A i \in 1..(n - 1) : queue'[i] = queue[i + 1]
  BY <1>1 DEF TypeOK
<1>3. InQueue(e)
  BY <1>1 DEF InQueue
<1>4. e \notin batch /\ \A v \in Workers : wentry[v] # e
  BY <1>1, <1>3, OneHolder
<1>5. \A f : InQueue(f)' => InQueue(f) /\ f # e
  BY <1>1, <1>2 DEF InQueue, ClaimInv, ExclusiveClaim
<1>6. HeldMeansClaimed'
  <2>1. \A f : Claimed(f)' = Claimed(f)
    BY <1>1 DEF Claimed
  <2>2. \A i \in 1..Len(queue') : Claimed(queue'[i])
    BY <1>1, <1>2 DEF ClaimInv, HeldMeansClaimed
  <2>3. Claimed(e)
    BY <1>1 DEF ClaimInv, HeldMeansClaimed
  <2>4. ASSUME NEW v \in Workers
        PROVE  /\ wpc'[v] \in Busy \ {"stamp"} => Claimed(wentry'[v])
               /\ wpc'[v] = "stamp" =>
                    status[wentry'[v]] \in {"delivered", "purged", "gone"}
    BY <1>1, <2>3 DEF ClaimInv, HeldMeansClaimed, TypeOK
  <2> QED BY <1>1, <2>1, <2>2, <2>4 DEF ClaimInv, HeldMeansClaimed
<1>7. \A i, j \in 1..Len(queue') : i # j => queue'[i] # queue'[j]
  BY <1>1, <1>2 DEF ClaimInv, ExclusiveClaim
<1>8. \A v \in Workers : wentry'[v] \notin batch' /\ ~InQueue(wentry[v])'
  BY <1>1, <1>4, <1>5 DEF ClaimInv, ExclusiveClaim, TypeOK
<1>9. OneDelivererAtATime'
  BY <1>1, <1>4 DEF ClaimInv, ExclusiveClaim, OneDelivererAtATime, TypeOK
<1>10. \A f \in batch' : ~InQueue(f)'
  BY <1>1, <1>5 DEF ClaimInv, ExclusiveClaim
<1> QED BY <1>6, <1>7, <1>8, <1>9, <1>10 DEF ClaimInv, ExclusiveClaim

\* The steps that hand an entry to nobody new.
LEMMA OtherStepsKeepClaims ==
  ASSUME TypeOK, ClaimInv, LeaseOutlivesDelivery, [Next]_vars,
         ~Poll, \A e \in Entries : ~Enqueue(e), \A w \in Workers : ~Take(w)
  PROVE  ClaimInv'
<1> USE DEF Claimed, Closed, rowVars
<1>1. TypeOK'
  BY StepTypes
<1>2. ASSUME NoNewHolder, UNCHANGED <<status, leased>>,
             \A w \in Workers :
               wpc'[w] \in Busy => \/ wpc'[w] = wpc[w]
                                   \/ /\ wpc[w] \in Busy \ {"stamp"}
                                      /\ wpc'[w] # "stamp"
      PROVE  ClaimInv'
  BY <1>1, <1>2, StaysClaimed
<1>3. ASSUME NEW e \in Entries, NoNewHolder, UNCHANGED wpc, ~InFlight(e)',
             \A f \in Entries : f # e => /\ status'[f] = status[f]
                                         /\ leased'[f] = leased[f]
      PROVE  ClaimInv'
  BY <1>1, <1>3, StaysClaimed
<1>4. ASSUME NEW e \in Entries, ReleaseFull(e) PROVE ClaimInv'
  <2>1. NoNewHolder /\ UNCHANGED wpc
    BY <1>4 DEF ReleaseFull, NoNewHolder, workerVars
  <2>2. ~InFlight(e)'
    BY <1>4, OneHolder DEF ReleaseFull, InFlight, InQueue, workerVars
  <2>3. \A f \in Entries : f # e => /\ status'[f] = status[f]
                                    /\ leased'[f] = leased[f]
    BY <1>4 DEF ReleaseFull, ReleaseClaims, TypeOK
  <2> QED BY <1>3, <2>1, <2>2, <2>3
<1>5. CASE ReleaseUnqueued
  <2>1. NoNewHolder /\ UNCHANGED <<wpc, status>> /\ batch' = {}
    BY <1>5 DEF ReleaseUnqueued, ReleaseClaims, NoNewHolder, workerVars
  <2>2. \A e \in Entries : leased'[e] = leased[e] \/ e \in batch
    BY <1>5 DEF ReleaseUnqueued, ReleaseClaims, TypeOK
  <2>3. \A e \in batch : ~InFlight(e)'
    BY <1>5, <2>1, OneHolder
       DEF ReleaseUnqueued, InFlight, InQueue, workerVars, TypeOK
  <2> QED BY <1>1, <2>1, <2>2, <2>3, StaysClaimed
<1>6. CASE PollPanic \/ PollerExit \/ Stop
  BY <1>2, <1>6 DEF PollPanic, PollerExit, Stop, NoNewHolder, workerVars
<1>7. CASE PoolStopped \/ Crash
  <2>1. UNCHANGED <<status, leased>> /\ batch' \subseteq batch /\ queue' = <<>>
    BY <1>7 DEF PoolStopped, Crash
  <2>2. \A w \in Workers : \/ wpc'[w] = wpc[w] /\ wentry'[w] = wentry[w]
                           \/ wpc'[w] = "idle" /\ wentry'[w] = NoEntry
    BY <1>7 DEF PoolStopped, Crash, AllIdle, workerVars
  <2>3. HeldMeansClaimed'
    BY <2>1, <2>2 DEF ClaimInv, HeldMeansClaimed, Busy
  <2>4. ExclusiveClaim'
    <3>1. \A f : ~InQueue(f)'
      BY <2>1 DEF InQueue
    <3>2. OneDelivererAtATime'
      BY <2>2 DEF ClaimInv, ExclusiveClaim, OneDelivererAtATime
    <3>3. \A w \in Workers : wentry'[w] \notin batch'
      BY <2>1, <2>2 DEF ClaimInv, ExclusiveClaim, TypeOK
    <3> QED BY <2>1, <3>1, <3>2, <3>3 DEF ExclusiveClaim
  <2> QED BY <2>3, <2>4 DEF ClaimInv
<1>8. CASE Start
  BY <1>2, <1>8 DEF Start, AllIdle, NoNewHolder, Busy
<1>9. ASSUME NEW w \in Workers,
             \/ WorkerExit(w) \/ StepCreate(w) \/ StepAdd(w) \/ StepStamp(w)
             \/ Panic(w)
      PROVE  ClaimInv'
  <2>1. NoNewHolder /\ UNCHANGED <<status, leased>>
    BY <1>9 DEF WorkerExit, StepCreate, StepAdd, StepStamp, Panic, Goto,
                Finish, NoNewHolder, TypeOK
  <2>2. \A v \in Workers :
          wpc'[v] \in Busy => \/ wpc'[v] = wpc[v]
                              \/ wpc[v] \in Busy \ {"stamp"} /\ wpc'[v] # "stamp"
    BY <1>9 DEF WorkerExit, StepCreate, StepAdd, StepStamp, Panic, Goto,
                Finish, Busy, TypeOK
  <2> QED BY <1>2, <2>1, <2>2
<1>10. ASSUME NEW w \in Workers, StepMark(w) \/ StepFail(w) PROVE ClaimInv'
  <2>1. PICK e \in Entries : e = wentry[w] /\ wpc[w] \in {"mark", "fail"}
    BY <1>10 DEF StepMark, StepFail, TypeOK, Busy
  <2>2. /\ NoNewHolder
        /\ \A v \in Workers : v # w => wpc'[v] = wpc[v] /\ wentry'[v] = wentry[v]
    BY <1>10 DEF StepMark, StepFail, Goto, Finish, NoNewHolder, TypeOK
  <2>3. \A f \in Entries : f # e => /\ status'[f] = status[f]
                                    /\ leased'[f] = leased[f]
    BY <1>10, <2>1 DEF StepMark, StepFail, UpdateDeliveryStatus,
                       IncrementRetryCount, TypeOK
  <2>4. CASE wentry'[w] = NoEntry
    <3>1. ~InFlight(e)'
      <4>1. /\ e \notin batch /\ ~InQueue(e)
            /\ \A v \in Workers : v # w => wentry[v] # e
        BY <2>1, OneHolder
      <4>2. e \notin batch' /\ ~InQueue(e)'
        BY <2>2, <4>1 DEF NoNewHolder, InQueue
      <4>3. \A v \in Workers : wentry'[v] # e
        BY <2>1, <2>2, <2>4, <4>1
      <4> QED BY <4>2, <4>3 DEF InFlight
    <3>2. \A v \in Workers : wpc'[v] \in Busy => wpc'[v] = wpc[v]
      BY <1>1, <2>2, <2>4 DEF TypeOK
    <3>3. \A f \in Entries : InFlight(f)' => /\ Claimed(f) => Claimed(f)'
                                             /\ Closed(f) => Closed(f)'
      BY <2>3, <3>1
    <3> QED BY <1>1, <2>2, <3>2, <3>3, StaysClaimed
  <2>5. CASE wentry'[w] # NoEntry
    <3>1. /\ wpc'[w] = "stamp" /\ wentry' = wentry
          /\ status'[e] = "delivered"
          /\ UNCHANGED <<batch, queue>>
      BY <1>10, <2>1, <2>5
         DEF StepMark, StepFail, Goto, Finish, UpdateDeliveryStatus, TypeOK
    <3>2. \A f \in Entries : f # e => Claimed(f)' = Claimed(f)
      BY <2>3
    <3>3. e \notin batch /\ ~InQueue(e) /\ \A v \in Workers : v # w => wentry[v] # e
      BY <2>1, OneHolder
    <3>4. \A f \in batch' : Claimed(f)'
      BY <3>1, <3>2, <3>3 DEF ClaimInv, HeldMeansClaimed, TypeOK
    <3>5. \A i \in 1..Len(queue') : Claimed(queue[i])'
      BY <3>1, <3>2, <3>3 DEF ClaimInv, HeldMeansClaimed, TypeOK, InQueue
    <3>6. ASSUME NEW v \in Workers
          PROVE  /\ wpc'[v] \in Busy \ {"stamp"} => Claimed(wentry[v])'
                 /\ wpc'[v] = "stamp" => Closed(wentry[v])'
      <4>1. CASE v = w
        BY <2>1, <3>1, <4>1 DEF Busy
      <4>2. CASE v # w
        BY <2>2, <2>3, <3>1, <3>3, <4>2
           DEF ClaimInv, HeldMeansClaimed, TypeOK, Busy
      <4> QED BY <4>1, <4>2
    <3>7. ExclusiveClaim'
      BY <2>2, StaysExclusive DEF ClaimInv
    <3> QED BY <3>4, <3>5, <3>6, <3>7 DEF ClaimInv, HeldMeansClaimed
  <2> QED BY <2>4, <2>5
<1>11. ASSUME NEW e \in Entries, EntryStep(e) PROVE ClaimInv'
  <2>1. UNCHANGED <<batch, queue, wpc, wentry>>
    BY <1>11 DEF EntryStep, CreateEntry, CleanupDelivered, DeleteItem,
                 LeaseExpires, BecomeDue, processVars, workerVars
  <2>2. NoNewHolder /\ InFlight(e)' = InFlight(e)
    BY <2>1 DEF NoNewHolder, InFlight, InQueue
  <2>3. \A f \in Entries : f # e => /\ status'[f] = status[f]
                                    /\ leased'[f] = leased[f]
    BY <1>11 DEF EntryStep, CreateEntry, CleanupDelivered, DeleteItem,
                 LeaseExpires, BecomeDue, Create, DeleteOldDeliveredEntries,
                 TypeOK
  <2>4. InFlight(e) => /\ Claimed(e) => Claimed(e)'
                       /\ Closed(e) => Closed(e)'
    BY <1>11 DEF EntryStep, CreateEntry, CleanupDelivered, DeleteItem,
                 LeaseExpires, BecomeDue, Create, DeleteOldDeliveredEntries,
                 TypeOK
  <2> QED BY <1>1, <2>1, <2>2, <2>3, <2>4, StaysClaimed
<1>12. CASE UNCHANGED vars
  BY <1>2, <1>12 DEF vars, NoNewHolder
<1> QED BY <1>4, <1>5, <1>6, <1>7, <1>8, <1>9, <1>10, <1>11, <1>12
        DEF Next, PollerStep, WorkerStep

LEMMA StepKeepsClaims ==
  ASSUME TypeOK, ClaimInv, LeaseOutlivesDelivery, [Next]_vars
  PROVE  ClaimInv'
BY PollKeepsClaims, EnqueueKeepsClaims, TakeKeepsClaims, OtherStepsKeepClaims

\* While every claim outlives its delivery no entry has two holders: the lease
\* alone keeps poller, queue and workers apart, across stops and crashes too.
THEOREM ClaimsAreExclusive ==
  ASSUME LeaseOutlivesDelivery
  PROVE  Spec => []ExclusiveClaim
<1>1. Init => ClaimInv
  BY DEF Init, ClaimInv, HeldMeansClaimed, ExclusiveClaim,
         OneDelivererAtATime, InQueue, Busy
<1>2. TypeOK /\ ClaimInv /\ [Next]_vars => ClaimInv'
  BY StepKeepsClaims
<1>3. ClaimInv => ExclusiveClaim
  BY DEF ClaimInv
<1> QED BY <1>1, <1>2, <1>3, TypeCorrect, PTL DEF Spec

-----------------------------------------------------------------------------
(* Refinement of DeliveryContract.                                         *)

LEMMA PromiseOfStatus ==
  /\ Promise("absent") = "none"
  /\ Promise("pending") = "owed" /\ Promise("sending") = "owed"
  /\ Promise("delivered") = "done" /\ Promise("purged") = "done"
  /\ Promise("failed") = "abandoned" /\ Promise("gone") = "forgotten"
BY DEF Promise

\* A write of a worker that holds the claim is one step of the contract.
LEMMA MarkCompletes ==
  ASSUME TypeOK, ClaimInv, GrantInv, [Next]_vars,
         NEW w \in Workers, StepMark(w)
  PROVE  Contract!Next \/ UNCHANGED Contract!cvars
<1>1. PICK e \in Entries : e = wentry[w] /\ wpc[w] = "mark"
  BY DEF StepMark, TypeOK, Busy
<1>2. UNCHANGED <<retries, granted>>
  BY DEF StepMark, UpdateDeliveryStatus, rowVars, contentVars
<1>3. CASE UNCHANGED status
  BY <1>2, <1>3 DEF Contract!cvars, ContractState
<1>4. CASE UpdateDeliveryStatus(e)
  <2>1. status[e] = "sending" /\ status' = [status EXCEPT ![e] = "delivered"]
    BY <1>1, <1>4 DEF ClaimInv, HeldMeansClaimed, Claimed, Busy,
                      UpdateDeliveryStatus, RowExists
  <2>2. ContractState[e] = "owed" /\ granted[e] = Recipients[e]
    BY <1>1, <2>1, PromiseOfStatus DEF ContractState, GrantInv, Progress
  <2>3. ContractState' = [ContractState EXCEPT ![e] = "done"]
    BY <2>1, PromiseOfStatus DEF ContractState, TypeOK
  <2>4. Contract!Complete(e)
    BY <1>2, <2>2, <2>3 DEF Contract!Complete
  <2> QED BY <2>4 DEF Contract!Next
<1> QED BY <1>1, <1>3, <1>4 DEF StepMark, rowVars

LEMMA FailCounts ==
  ASSUME TypeOK, ClaimInv, RetryInv, NEW w \in Workers, StepFail(w)
  PROVE  Contract!Next \/ UNCHANGED Contract!cvars
<1>1. PICK e \in Entries : e = wentry[w] /\ wpc[w] = "fail"
  BY DEF StepFail, TypeOK, Busy
<1>2. UNCHANGED granted
  BY DEF StepFail, contentVars
<1>3. CASE UNCHANGED rowVars
  BY <1>2, <1>3 DEF Contract!cvars, ContractState, rowVars
<1>4. CASE IncrementRetryCount(e)
  <2> DEFINE last == retries[e] + 1 >= MaxRetries
  <2>1. /\ status[e] = "sending" /\ retries[e] < MaxRetries
        /\ status' = [status EXCEPT ![e] = IF last THEN "failed" ELSE "pending"]
        /\ retries' = [retries EXCEPT ![e] = @ + 1]
    BY <1>1, <1>4 DEF ClaimInv, HeldMeansClaimed, Claimed, Busy, RetryInv,
                      NotStranded, IncrementRetryCount, RowExists
  <2>2. last <=> retries'[e] = MaxRetries
    BY <2>1 DEF TypeOK
  <2>3. ContractState[e] = "owed"
    BY <2>1, PromiseOfStatus DEF ContractState
  <2>4. ContractState' = [ContractState EXCEPT ![e] =
                            IF last THEN "abandoned" ELSE "owed"]
    BY <2>1, PromiseOfStatus DEF ContractState, TypeOK
  <2>5. Contract!FailAttempt(e)
    BY <1>2, <2>1, <2>2, <2>3, <2>4 DEF Contract!FailAttempt
  <2> QED BY <2>5 DEF Contract!Next
<1> QED BY <1>1, <1>3, <1>4 DEF StepFail

LEMMA AddGives ==
  ASSUME TypeOK, ClaimInv, GrantInv, NEW w \in Workers, StepAdd(w)
  PROVE  Contract!Next \/ UNCHANGED Contract!cvars
<1>1. PICK e \in Entries : e = wentry[w] /\ wpc[w] = "add"
  BY DEF StepAdd, TypeOK, Busy
<1>2. UNCHANGED <<retries, status, ContractState>>
  BY DEF StepAdd, rowVars, ContractState
<1>3. CASE UNCHANGED contentVars
  BY <1>2, <1>3 DEF Contract!cvars, contentVars
<1>4. CASE AddContentToUsers(e)
  <2>1. ContractState[e] \in {"owed", "forgotten"}
    BY <1>1, PromiseOfStatus
       DEF ClaimInv, HeldMeansClaimed, Claimed, Busy, ContractState
  <2>2. granted' = [granted EXCEPT ![e] = Recipients[e]]
    <3>1. granted[e] \cup Recipients[e] = Recipients[e]
      BY DEF GrantInv, Progress
    <3> QED BY <1>4, <3>1 DEF AddContentToUsers, TypeOK
  <2>3. Contract!Give(e)
    BY <1>2, <2>1, <2>2 DEF Contract!Give
  <2> QED BY <2>3 DEF Contract!Next
<1> QED BY <1>1, <1>3, <1>4 DEF StepAdd, GivesUp

LEMMA EntryStepIsContractual ==
  ASSUME TypeOK, NEW e \in Entries, EntryStep(e)
  PROVE  Contract!Next \/ UNCHANGED Contract!cvars
<1> USE DEF TypeOK, Statuses, ContractState
<1>1. UNCHANGED <<retries, granted>>
  BY DEF EntryStep, CreateEntry, CleanupDelivered, DeleteItem, LeaseExpires,
         BecomeDue, Create, DeleteOldDeliveredEntries, contentVars
<1>2. CASE CreateEntry(e)
  <2>1. Contract!Accept(e)
    BY <1>1, <1>2, PromiseOfStatus DEF CreateEntry, Create, Contract!Accept
  <2> QED BY <2>1 DEF Contract!Next
<1>3. CASE CleanupDelivered(e)
  BY <1>1, <1>3, PromiseOfStatus
     DEF CleanupDelivered, DeleteOldDeliveredEntries, Contract!cvars
<1>4. CASE DeleteItem(e)
  <2>1. Contract!Forget(e)
    BY <1>1, <1>4, PromiseOfStatus DEF DeleteItem, Contract!Forget
  <2> QED BY <2>1 DEF Contract!Next
<1>5. CASE LeaseExpires(e) \/ BecomeDue(e)
  BY <1>1, <1>5 DEF LeaseExpires, BecomeDue, Contract!cvars
<1> QED BY <1>2, <1>3, <1>4, <1>5 DEF EntryStep

LEMMA StepIsContractual ==
  ASSUME TypeOK, ClaimInv, GrantInv, RetryInv, [Next]_vars
  PROVE  Contract!Next \/ UNCHANGED Contract!cvars
<1>1. CASE Poll
  <2>1. PICK S \in SUBSET Claimable : GetPendingEntries(S)
    BY <1>1 DEF Poll
  <2>2. \A e \in S : e \in Entries /\ status[e] \in {"pending", "sending"}
    BY DEF Claimable
  <2>3. UNCHANGED ContractState
    BY <2>1, <2>2, PromiseOfStatus DEF GetPendingEntries, ContractState, TypeOK
  <2> QED BY <1>1, <2>1, <2>3
          DEF Poll, GetPendingEntries, contentVars, Contract!cvars
<1>2. CASE UNCHANGED <<status, retries, granted>>
  BY <1>2 DEF Contract!cvars, ContractState
<1>3. \/ UNCHANGED <<status, retries, granted>> \/ Poll
      \/ \E w \in Workers : StepAdd(w) \/ StepMark(w) \/ StepFail(w)
      \/ \E e \in Entries : EntryStep(e)
  BY DEF Next, PollerStep, WorkerStep, ReleaseUnqueued, ReleaseClaims,
         Enqueue, ReleaseFull, PollPanic, PollerExit, Take, WorkerExit,
         StepCreate, GivesUp, BulkCreateContent, StepStamp, Panic, Stop,
         PoolStopped, Crash, Start, vars, rowVars, contentVars
<1> QED BY <1>1, <1>2, <1>3, MarkCompletes, FailCounts, AddGives,
           EntryStepIsContractual

\* While every claim outlives its delivery, the pool, its table and its
\* crashes implement the contract.
THEOREM OutboxKeepsContract ==
  ASSUME LeaseOutlivesDelivery
  PROVE  Spec => KeepsContract
<1> DEFINE Inv == TypeOK /\ ClaimInv /\ GrantInv /\ RetryInv
<1>1. Init => Inv
  BY DEF Init, TypeOK, Statuses, Busy, ClaimInv, HeldMeansClaimed,
         ExclusiveClaim, OneDelivererAtATime, InQueue, GrantInv, Progress,
         DeliveredWasGranted, RetryInv, NotStranded
<1>2. Inv /\ [Next]_vars => Inv'
  <2> SUFFICES ASSUME Inv, [Next]_vars PROVE Inv'
    OBVIOUS
  <2>1. TypeOK' /\ ClaimInv'
    BY StepTypes, StepKeepsClaims
  <2>2. GrantInv'
    BY StepKeepsGrants
  <2>3. RetryInv'
    BY StepWritesRowOnce, RowWriteKeepsRetryInv
  <2> QED BY <2>1, <2>2, <2>3
<1>3. Init => Contract!Init
  BY PromiseOfStatus DEF Init, Contract!Init, ContractState
<1>4. Inv /\ [Next]_vars => [Contract!Next]_(Contract!cvars)
  BY StepIsContractual
<1> QED BY <1>1, <1>2, <1>3, <1>4, PTL DEF Spec, KeepsContract, Contract!Spec

=============================================================================
