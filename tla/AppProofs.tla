----------------------------- MODULE AppProofs -----------------------------
(* What the apps rely on.  Proofs about MobileOutbox, for any fields and any *)
(* number of writes and failures: the writes the mobile app makes (Spec),    *)
(* and about Subscriptions, for any users, sources, requests at a time and   *)
(* limits: the answers about a user's sources (SubscriptionsSpec).  The two  *)
(* share no variable.                                                        *)
EXTENDS MobileOutbox, Subscriptions, FiniteSetTheorems, SequenceTheorems, TLAPS

USE MobileOutboxAssumption, SubscriptionsAssumption

-----------------------------------------------------------------------------
(* MobileOutbox: the inductive invariants.                                  *)

Entry == [field : Fields, payload : Writes]

QueueTypes == rows \in Seq(Entry) /\ todo \in Seq(Entry)
ValueTypes ==
  /\ store \in [Fields -> Writes] /\ server \in [Fields -> Writes]
  /\ newest \in [Fields -> Writes]
SyncTypes == sync \in [listed : BOOLEAN, page : [Fields -> Writes], open : BOOLEAN]
LiveTypes == live \in SUBSET Requests
FlagTypes == present \in BOOLEAN /\ arrived \in BOOLEAN
UserTypes ==
  /\ writes \in Writes /\ archives \in SUBSET Writes
  /\ hasty \in SUBSET Fields /\ failures \in 0..MaxFailures

Types == QueueTypes /\ ValueTypes /\ SyncTypes /\ LiveTypes /\ FlagTypes /\ UserTypes

\* No field is queued twice, and what the drain has left to send is the front of
\* the queue, though the payloads may have been replaced.
OneRowPerField ==
  \A i, j \in 1..Len(rows) : rows[i].field = rows[j].field => i = j
DrainsFront ==
  /\ Len(todo) <= Len(rows)
  /\ \A i \in 1..Len(todo) : todo[i].field = rows[i].field

QueueInv == OneRowPerField /\ DrainsFront

\* A write in haste aside, what is on its way, queued or read by the drain is the
\* user's last write of the field; it is in one of these places, and when it is in
\* none of them the server has it.
LiveIsNewest ==
  \A w \in live : w.field \notin hasty =>
    /\ w.payload = newest[w.field]
    /\ w.arrived => server[w.field] = newest[w.field]
    /\ ~ HasRow(w.field)
    /\ \A v \in live : v.field = w.field => v = w
RowIsNewest ==
  \A i \in 1..Len(rows) : rows[i].field \notin hasty => rows[i].payload = newest[rows[i].field]
TodoIsNewest ==
  \A i \in 1..Len(todo) : todo[i].field \notin hasty => todo[i].payload = newest[todo[i].field]
SentIsNewest ==
  todo # <<>> /\ arrived /\ Head(todo).field \notin hasty =>
    server[Head(todo).field] = newest[Head(todo).field]
RestIsNewest ==
  \A f \in Fields \ hasty :
    ~ HasRow(f) /\ (\A w \in live : w.field # f) => server[f] = newest[f]

NewestInv == LiveIsNewest /\ RowIsNewest /\ TodoIsNewest /\ SentIsNewest /\ RestIsNewest

-----------------------------------------------------------------------------
(* The queue.                                                               *)

\* A function on 1..n is a sequence of length n.
LEMMA FunctionIsSeq ==
  ASSUME NEW S, NEW n \in Nat, NEW s \in [1..n -> S]
  PROVE  s \in Seq(S) /\ Len(s) = n
BY SeqDef

\* What a queued write makes of the queue: its row holds the new payload, the others
\* are as they were, and nobody's place changes.
Queued(q, f, n) ==
  /\ q \in Seq(Entry) /\ Len(rows) <= Len(q)
  /\ \A i \in 1..Len(rows) : q[i].field = rows[i].field
  /\ \A i \in 1..Len(q) : q[i].field # f => i \in 1..Len(rows) /\ q[i] = rows[i]
  /\ \A i \in 1..Len(q) : q[i].field = f => q[i].payload = n
  /\ \E i \in 1..Len(q) : q[i].field = f
  /\ \A i, j \in 1..Len(q) : q[i].field = q[j].field => i = j

\* A write that is queued takes the place of the one before, or the last.
LEMMA EnqueuedRows ==
  ASSUME QueueTypes, OneRowPerField, NEW f \in Fields, NEW n \in Writes
  PROVE  Queued(Enqueued(f, n), f, n)
<1> DEFINE q == Enqueued(f, n)
<1>1. rows \in [1..Len(rows) -> Entry] /\ Len(rows) \in Nat /\ Row(f, n) \in Entry
  BY LenProperties DEF QueueTypes, Entry, Row
<1>2. CASE HasRow(f)
  <2>1. q = [i \in 1..Len(rows) |-> IF rows[i].field = f THEN Row(f, n) ELSE rows[i]]
    BY <1>2 DEF Enqueued
  <2>2. q \in [1..Len(rows) -> Entry]
    BY <2>1, <1>1
  <2>3. q \in Seq(Entry) /\ Len(q) = Len(rows)
    BY <2>2, <1>1, FunctionIsSeq
  <2>4. \A i \in 1..Len(rows) : /\ rows[i].field = f => q[i] = Row(f, n)
                                /\ rows[i].field # f => q[i] = rows[i]
    BY <2>1
  <2>5. Row(f, n).field = f /\ Row(f, n).payload = n
    BY DEF Row
  <2> HIDE DEF q
  <2>6. \A i \in 1..Len(rows) : q[i].field = rows[i].field
    BY <2>4, <2>5
  <2>7. \E i \in 1..Len(q) : q[i].field = f
    BY <2>6, <2>3, <1>2 DEF HasRow
  <2>8. \A i, j \in 1..Len(q) : q[i].field = q[j].field => i = j
    BY <2>6, <2>3 DEF OneRowPerField
  <2>9. \A i \in 1..Len(q) : q[i].field # f => i \in 1..Len(rows) /\ q[i] = rows[i]
    BY <2>4, <2>5, <2>3
  <2>10. \A i \in 1..Len(q) : q[i].field = f => q[i].payload = n
    BY <2>4, <2>5, <2>6, <2>3
  <2> QED BY <2>3, <2>6, <2>7, <2>8, <2>9, <2>10, <1>1 DEF Queued, q
<1>3. CASE ~ HasRow(f)
  <2>1. q = Append(rows, Row(f, n))
    BY <1>3 DEF Enqueued
  <2>2. /\ q \in Seq(Entry) /\ Len(q) = Len(rows) + 1
        /\ \A i \in 1..Len(rows) : q[i] = rows[i]
        /\ q[Len(rows) + 1] = Row(f, n)
    BY <2>1, <1>1, AppendProperties DEF QueueTypes
  <2>3. Row(f, n).field = f /\ Row(f, n).payload = n
    BY DEF Row
  <2>4. \A i \in 1..Len(rows) : rows[i].field # f
    BY <1>3 DEF HasRow
  <2> HIDE DEF q
  <2>5. \A i \in 1..Len(q) : i \in 1..Len(rows) \/ i = Len(rows) + 1
    BY <2>2, <1>1
  <2>6. Len(rows) + 1 \in 1..Len(q)
    BY <2>2, <1>1
  <2>7. \A i, j \in 1..Len(q) : q[i].field = q[j].field => i = j
    BY <2>2, <2>3, <2>4, <2>5 DEF OneRowPerField
  <2>8. \A i \in 1..Len(q) : /\ q[i].field # f => i \in 1..Len(rows) /\ q[i] = rows[i]
                             /\ q[i].field = f => q[i].payload = n
    BY <2>2, <2>3, <2>4, <2>5
  <2>9. \E i \in 1..Len(q) : q[i].field = f
    BY <2>2, <2>3, <2>6
  <2> QED BY <2>2, <2>7, <2>8, <2>9, <1>1 DEF Queued, q
<1> QED BY <1>2, <1>3

\* The row the drain has sent is the first one, and its key is nobody else's, so
\* that only the first row goes.
FirstGone(q) ==
  /\ Len(rows) >= 1 /\ rows[1].field = Head(todo).field
  /\ q \in Seq(Entry) /\ Len(q) = Len(rows) - 1
  /\ \A i \in 1..Len(q) : i + 1 \in 1..Len(rows) /\ q[i] = rows[i + 1]
LEMMA DeletedRows ==
  ASSUME QueueTypes, QueueInv, todo # <<>>
  PROVE  FirstGone(Deleted(Head(todo).field))
<1> DEFINE f == Head(todo).field
<1>1. rows \in [1..Len(rows) -> Entry] /\ Len(rows) \in Nat
  BY LenProperties DEF QueueTypes
<1>2. Len(todo) \in Nat \ {0} /\ Head(todo) = todo[1]
  BY EmptySeq, HeadTailProperties DEF QueueTypes
<1>3. 1 \in 1..Len(rows) /\ rows[1].field = f
  BY <1>1, <1>2 DEF QueueInv, DrainsFront
<1>4. HasRow(f)
  BY <1>3 DEF HasRow
<1>5. Position(f) = 1
  BY <1>3 DEF Position, QueueInv, OneRowPerField
<1>6. Deleted(f) = [i \in 1..(Len(rows) - 1) |-> rows[IF i < 1 THEN i ELSE i + 1]]
  BY <1>4, <1>5 DEF Deleted
<1>7. \A i \in 1..(Len(rows) - 1) : i + 1 \in 1..Len(rows) /\ Deleted(f)[i] = rows[i + 1]
  BY <1>6, <1>1
<1>8. Deleted(f) \in [1..(Len(rows) - 1) -> Entry]
  BY <1>6, <1>7, <1>1
<1>9. Len(rows) - 1 \in Nat
  BY <1>1, <1>3
<1>10. Deleted(f) \in Seq(Entry) /\ Len(Deleted(f)) = Len(rows) - 1
  BY <1>8, <1>9, FunctionIsSeq
<1> QED BY <1>3, <1>7, <1>10, <1>1 DEF FirstGone

\* The drain goes on to its next row.
LEMMA NextToSend ==
  ASSUME QueueTypes, todo # <<>>
  PROVE  /\ Head(todo) \in Entry /\ Head(todo) = todo[1] /\ Len(todo) >= 1
         /\ Tail(todo) \in Seq(Entry) /\ Len(Tail(todo)) = Len(todo) - 1
         /\ \A i \in 1..Len(Tail(todo)) : i + 1 \in 1..Len(todo) /\ Tail(todo)[i] = todo[i + 1]
<1>1. Len(todo) \in Nat \ {0}
  BY EmptySeq DEF QueueTypes
<1> QED BY <1>1, HeadTailProperties, ElementOfSeq DEF QueueTypes

-----------------------------------------------------------------------------
(* Every step keeps the types.                                              *)

\* The app's first state.
LEMMA InitTypes == Init => Types
<1> SUFFICES ASSUME Init PROVE Types
  OBVIOUS
<1>1. 0 \in Writes /\ 0 \in 0..MaxFailures
  BY DEF Writes
<1>2. QueueTypes
  BY EmptySeq DEF Init, QueueTypes
<1>3. SyncTypes
  BY <1>1 DEF Init, SyncTypes, NoSync
<1>4. ValueTypes /\ LiveTypes /\ FlagTypes /\ UserTypes
  BY <1>1 DEF Init, ValueTypes, LiveTypes, FlagTypes, UserTypes
<1> QED BY <1>2, <1>3, <1>4 DEF Types

\* Steps of the drain.
LEMMA DrainTypes ==
  ASSUME Types, QueueInv, Drain
  PROVE  Types'
<1> USE DEF Types
<1>1. CASE DrainStart
  BY <1>1 DEF DrainStart, QueueTypes, ValueTypes, SyncTypes, LiveTypes, FlagTypes,
       UserTypes, userVars, storeVars
<1>2. CASE DrainArrives
  <2>1. Head(todo).field \in Fields /\ Head(todo).payload \in Writes
    BY <1>2, NextToSend DEF DrainArrives, Entry
  <2>2. ValueTypes'
    BY <1>2, <2>1 DEF DrainArrives, ValueTypes, userVars, storeVars
  <2> QED BY <1>2, <2>2 DEF DrainArrives, QueueTypes, SyncTypes, LiveTypes, FlagTypes,
            UserTypes, userVars, storeVars
<1>3. CASE DrainAnswered
  <2>1. QueueTypes'
    BY <1>3, NextToSend, DeletedRows DEF DrainAnswered, QueueTypes, FirstGone
  <2> QED BY <1>3, <2>1 DEF DrainAnswered, ValueTypes, SyncTypes, LiveTypes, FlagTypes,
            UserTypes, userVars, storeVars
<1>4. CASE DrainHalts
  <2>1. failures' \in 0..MaxFailures
    BY <1>4 DEF DrainHalts, Failure, UserTypes
  <2>2. QueueTypes'
    BY <1>4, EmptySeq DEF DrainHalts, QueueTypes
  <2> QED BY <1>4, <2>1, <2>2 DEF DrainHalts, ValueTypes, SyncTypes, LiveTypes, FlagTypes,
            UserTypes, userVars, storeVars
<1> QED BY <1>1, <1>2, <1>3, <1>4 DEF Drain

\* Steps of a live write.
LEMMA LiveTypesKept ==
  ASSUME Types, QueueInv, NEW w \in live, LiveArrives(w) \/ LiveAnswered(w) \/ LiveFails(w)
  PROVE  Types'
<1> USE DEF Types
<1>1. w \in Requests /\ w.field \in Fields /\ w.payload \in Writes
  BY DEF LiveTypes, Requests
<1>2. CASE LiveArrives(w)
  <2>1. [w EXCEPT !.arrived = TRUE] \in Requests
    BY <1>1 DEF Requests
  <2>2. ValueTypes'
    BY <1>2, <1>1 DEF LiveArrives, ValueTypes, userVars, storeVars
  <2>3. LiveTypes'
    BY <1>2, <2>1 DEF LiveArrives, LiveTypes
  <2> QED BY <1>2, <2>2, <2>3 DEF LiveArrives, QueueTypes, SyncTypes, FlagTypes,
            UserTypes, userVars, storeVars, drainVars
<1>3. CASE LiveAnswered(w)
  BY <1>3 DEF LiveAnswered, QueueTypes, ValueTypes, SyncTypes, LiveTypes, FlagTypes,
       UserTypes, userVars, storeVars, drainVars
<1>4. CASE LiveFails(w)
  <2>1. QueueTypes'
    BY <1>4, <1>1, EnqueuedRows DEF LiveFails, QueueTypes, QueueInv, Queued, drainVars
  <2>2. failures' \in 0..MaxFailures
    BY <1>4 DEF LiveFails, Failure, UserTypes
  <2> QED BY <1>4, <2>1, <2>2 DEF LiveFails, ValueTypes, SyncTypes, LiveTypes, FlagTypes,
            UserTypes, userVars, storeVars, drainVars
<1> QED BY <1>2, <1>3, <1>4

\* Steps of a refresh.
LEMMA SyncTypesKept ==
  ASSUME Types, Sync
  PROVE  Types'
<1> USE DEF Types
<1>1. NoSync \in [listed : BOOLEAN, page : [Fields -> Writes], open : BOOLEAN]
  BY DEF NoSync, Writes
<1>2. CASE SyncFetch
  <2>1. SyncTypes'
    BY <1>2 DEF SyncFetch, SyncTypes, ValueTypes
  <2> QED BY <1>2, <2>1 DEF SyncFetch, QueueTypes, ValueTypes, LiveTypes, FlagTypes,
            UserTypes, userVars, storeVars, drainVars
<1>3. CASE UpsertMany
  <2>1. SyncTypes'
    BY <1>3, <1>1 DEF UpsertMany, SyncTypes
  <2>2. store' \in [Fields -> Writes] /\ present' \in BOOLEAN
    BY <1>3 DEF UpsertMany, SyncTypes, ValueTypes, FlagTypes, storeVars
  <2> QED BY <1>3, <2>1, <2>2 DEF UpsertMany, QueueTypes, ValueTypes, LiveTypes, FlagTypes,
            UserTypes, userVars, drainVars
<1> QED BY <1>2, <1>3 DEF Sync

\* Writes of the user, and the end of the app.
LEMMA UserTypesKept ==
  ASSUME Types, User \/ Kill
  PROVE  Types'
<1> USE DEF Types
<1>1. ASSUME NEW f \in Fields, NewWrite(f)
      PROVE  /\ writes + 1 \in Writes /\ writes' \in Writes
             /\ newest' \in [Fields -> Writes] /\ hasty' \in SUBSET Fields
             /\ LiveTypes'
  <2>1. writes + 1 \in Writes
    BY <1>1 DEF NewWrite, UserTypes, Writes
  <2>2. newest' \in [Fields -> Writes]
    BY <1>1, <2>1 DEF NewWrite, ValueTypes
  <2>3. [field |-> f, payload |-> writes + 1, arrived |-> FALSE] \in Requests
    BY <2>1 DEF Requests
  <2>4. LiveTypes'
    BY <1>1, <2>3 DEF NewWrite, LiveTypes
  <2>5. hasty' \in SUBSET Fields
    BY <1>1 DEF NewWrite, UserTypes
  <2> QED BY <1>1, <2>1, <2>2, <2>4, <2>5 DEF NewWrite
<1>2. CASE Archive
  <2>1. NewWrite("status") /\ "status" \in Fields
    BY <1>2 DEF Archive
  <2>2. UserTypes' /\ ValueTypes' /\ LiveTypes'
    BY <1>2, <2>1, <1>1 DEF Archive, UserTypes, ValueTypes
  <2> QED BY <1>2, <2>2 DEF Archive, QueueTypes, SyncTypes, FlagTypes, drainVars
<1>3. ASSUME NEW f \in Fields, Write(f) PROVE Types'
  <2>1. NewWrite(f)
    BY <1>3 DEF Write
  <2>2. UserTypes' /\ LiveTypes'
    BY <1>3, <2>1, <1>1 DEF Write, UserTypes
  <2>3. ValueTypes'
    BY <1>3, <2>1, <1>1 DEF Write, ValueTypes
  <2> QED BY <1>3, <2>2, <2>3 DEF Write, QueueTypes, SyncTypes, FlagTypes, drainVars
<1>4. CASE Kill
  <2>1. NoSync \in [listed : BOOLEAN, page : [Fields -> Writes], open : BOOLEAN]
    BY DEF NoSync, Writes
  <2>2. hasty' \in SUBSET Fields /\ failures' \in 0..MaxFailures
    BY <1>4 DEF Kill, UserTypes, LiveTypes, Requests, Failure
  <2>3. QueueTypes'
    BY <1>4, EmptySeq DEF Kill, QueueTypes
  <2>4. LiveTypes' /\ SyncTypes'
    BY <1>4, <2>1 DEF Kill, LiveTypes, SyncTypes
  <2> QED BY <1>4, <2>2, <2>3, <2>4 DEF Kill, ValueTypes, FlagTypes, UserTypes, storeVars
<1> QED BY <1>2, <1>3, <1>4 DEF User

\* Every step of the specification.
LEMMA TypesStep ==
  ASSUME Types, QueueInv, [Next]_vars
  PROVE  Types'
<1>1. CASE Next
  BY <1>1, DrainTypes, LiveTypesKept, SyncTypesKept, UserTypesKept DEF Next, Live
<1>2. CASE UNCHANGED vars
  BY <1>2 DEF vars, Types, QueueTypes, ValueTypes, SyncTypes, LiveTypes, FlagTypes, UserTypes,
       userVars, storeVars, drainVars
<1> QED BY <1>1, <1>2

-----------------------------------------------------------------------------
(* Every step keeps the order of the queue.                                 *)

\* What the drain reads stays the front of the queue, and the queue free of
\* doubles, since rows are only replaced in place, appended, or deleted first.
LEMMA QueueStep ==
  ASSUME Types, QueueInv, [Next]_vars
  PROVE  QueueInv'
<1> USE DEF QueueInv
<1>0. Len(rows) \in Nat /\ Len(todo) \in Nat
  BY LenProperties DEF Types, QueueTypes
<1>1. CASE rows' = rows /\ todo' = todo
  BY <1>1 DEF OneRowPerField, DrainsFront
<1>2. CASE rows' = rows /\ todo' = <<>>
  <2>1. Len(todo') = 0
    BY <1>2, EmptySeq
  <2> QED BY <1>2, <1>0, <2>1 DEF OneRowPerField, DrainsFront
<1>3. CASE DrainStart
  BY <1>3, <1>0 DEF DrainStart, OneRowPerField, DrainsFront, storeVars
<1>4. CASE DrainAnswered
  <2>1. FirstGone(rows') /\ todo # <<>> /\ todo' = Tail(todo)
    BY <1>4, DeletedRows DEF DrainAnswered, Types
  <2>2. /\ Len(todo') = Len(todo) - 1 /\ Len(todo) >= 1
        /\ \A i \in 1..Len(todo') : i + 1 \in 1..Len(todo) /\ todo'[i] = todo[i + 1]
    BY <2>1, NextToSend DEF Types
  <2>3. OneRowPerField'
    <3> SUFFICES ASSUME NEW i \in 1..Len(rows'), NEW j \in 1..Len(rows'),
                        rows'[i].field = rows'[j].field
                 PROVE  i = j
      BY DEF OneRowPerField
    <3>1. /\ i + 1 \in 1..Len(rows) /\ rows'[i] = rows[i + 1]
          /\ j + 1 \in 1..Len(rows) /\ rows'[j] = rows[j + 1]
      BY <2>1 DEF FirstGone
    <3>2. i + 1 = j + 1
      BY <3>1 DEF OneRowPerField
    <3> QED BY <3>2
  <2>4. DrainsFront'
    <3>1. Len(todo') <= Len(rows')
      BY <2>1, <2>2, <1>0 DEF FirstGone, DrainsFront
    <3>2. ASSUME NEW i \in 1..Len(todo') PROVE todo'[i].field = rows'[i].field
      <4>1. i \in 1..Len(rows')
        BY <3>1, <2>1, <2>2, <1>0 DEF FirstGone
      <4>2. i + 1 \in 1..Len(todo) /\ todo'[i] = todo[i + 1] /\ rows'[i] = rows[i + 1]
        BY <4>1, <2>1, <2>2 DEF FirstGone
      <4> QED BY <4>2 DEF DrainsFront
    <3> QED BY <3>1, <3>2 DEF DrainsFront
  <2> QED BY <2>3, <2>4
<1>5. ASSUME NEW w \in live, LiveFails(w) PROVE QueueInv'
  <2>1. w.field \in Fields /\ w.payload \in Writes
    BY DEF Types, LiveTypes, Requests
  <2>2. Queued(rows', w.field, w.payload) /\ todo' = todo
    BY <1>5, <2>1, EnqueuedRows DEF LiveFails, Types, drainVars
  <2>3. OneRowPerField'
    BY <2>2 DEF Queued, OneRowPerField
  <2>4. Len(rows') \in Nat
    BY <2>2, LenProperties DEF Queued
  <2>5. \A i \in 1..Len(todo) : i \in 1..Len(rows)
    BY <1>0 DEF DrainsFront
  <2>6. DrainsFront'
    BY <2>2, <2>4, <2>5, <1>0 DEF Queued, DrainsFront
  <2> QED BY <2>3, <2>6
<1>6. CASE Next
  <2>1. CASE Drain
    BY <2>1, <1>1, <1>2, <1>3, <1>4 DEF Drain, DrainArrives, DrainHalts
  <2>2. CASE Live
    BY <2>2, <1>1, <1>5 DEF Live, LiveArrives, LiveAnswered, drainVars
  <2>3. CASE Sync
    BY <2>3, <1>1 DEF Sync, SyncFetch, UpsertMany, drainVars
  <2>4. CASE User
    BY <2>4, <1>1 DEF User, Archive, Write, drainVars
  <2>5. CASE Kill
    BY <2>5, <1>2 DEF Kill
  <2> QED BY <1>6, <2>1, <2>2, <2>3, <2>4, <2>5 DEF Next
<1>7. CASE UNCHANGED vars
  BY <1>7, <1>1 DEF vars, drainVars
<1> QED BY <1>6, <1>7

-----------------------------------------------------------------------------
(* Every step keeps the user's last word.                                   *)

\* The fields of the rows that the drain has left to send have rows.
LEMMA TodoHasRows ==
  ASSUME QueueTypes, QueueInv
  PROVE  /\ \A i \in 1..Len(todo) : HasRow(todo[i].field)
         /\ todo # <<>> => HasRow(Head(todo).field)
<1>1. Len(rows) \in Nat /\ Len(todo) \in Nat
  BY LenProperties DEF QueueTypes
<1>2. ASSUME NEW i \in 1..Len(todo) PROVE HasRow(todo[i].field)
  <2>1. i \in 1..Len(rows) /\ rows[i].field = todo[i].field
    BY <1>1 DEF QueueInv, DrainsFront
  <2> QED BY <2>1 DEF HasRow
<1>3. ASSUME todo # <<>> PROVE HasRow(Head(todo).field)
  <2>1. 1 \in 1..Len(todo) /\ Head(todo) = todo[1]
    BY <1>1, <1>3, NextToSend
  <2> QED BY <2>1, <1>2
<1> QED BY <1>2, <1>3

\* The drain sends the last write of the field of its row, unless in haste, and
\* forgets a row whose write the server has.
LEMMA DrainKeepsNewest ==
  ASSUME Types, QueueInv, NewestInv, Drain
  PROVE  NewestInv'
<1>0. Len(rows) \in Nat /\ Len(todo) \in Nat
  BY LenProperties DEF Types, QueueTypes
<1>1. CASE DrainStart
  <2>1. todo' = rows /\ arrived' = FALSE
        /\ UNCHANGED <<rows, server, live, newest, hasty>>
    BY <1>1 DEF DrainStart, userVars
  <2>2. LiveIsNewest' /\ RowIsNewest' /\ RestIsNewest' /\ SentIsNewest'
    BY <2>1 DEF NewestInv, LiveIsNewest, RowIsNewest, RestIsNewest, SentIsNewest, HasRow
  <2>3. TodoIsNewest'
    BY <2>1 DEF NewestInv, RowIsNewest, TodoIsNewest
  <2> QED BY <2>2, <2>3 DEF NewestInv
<1>2. CASE DrainArrives
  <2> DEFINE h == Head(todo)
  <2>1. /\ todo # <<>> /\ server' = [server EXCEPT ![h.field] = h.payload]
        /\ UNCHANGED <<rows, live, todo, newest, hasty>>
    BY <1>2 DEF DrainArrives, userVars
  <2>2. h.field \in Fields /\ h = todo[1] /\ 1 \in 1..Len(todo)
    BY <2>1, <1>0, NextToSend DEF Types, Entry
  <2>3. HasRow(h.field)
    BY <2>1, TodoHasRows DEF Types
  <2>4. h.field \notin hasty => h.payload = newest[h.field]
    BY <2>2 DEF NewestInv, TodoIsNewest
  <2>5. server'[h.field] = h.payload /\ \A f \in Fields \ {h.field} : server'[f] = server[f]
    BY <2>1, <2>2 DEF Types, ValueTypes
  <2> HIDE DEF h
  <2>6. RowIsNewest' /\ TodoIsNewest'
    BY <2>1 DEF NewestInv, RowIsNewest, TodoIsNewest
  <2>7. SentIsNewest'
    BY <2>1, <2>4, <2>5 DEF SentIsNewest, h
  <2>8. RestIsNewest'
    BY <2>1, <2>3, <2>5 DEF NewestInv, RestIsNewest, HasRow
  <2>9. LiveIsNewest'
    <3> SUFFICES ASSUME NEW w \in live, w.field \notin hasty
                 PROVE  /\ w.payload = newest[w.field]
                        /\ w.arrived => server'[w.field] = newest[w.field]
                        /\ ~ HasRow(w.field)
                        /\ \A v \in live : v.field = w.field => v = w
      BY <2>1 DEF LiveIsNewest, HasRow
    <3>1. /\ w.payload = newest[w.field] /\ ~ HasRow(w.field)
          /\ w.arrived => server[w.field] = newest[w.field]
          /\ \A v \in live : v.field = w.field => v = w
      BY DEF NewestInv, LiveIsNewest
    <3>2. w.field \in Fields \ {h.field}
      BY <3>1, <2>3 DEF Types, LiveTypes, Requests
    <3> QED BY <3>1, <3>2, <2>5
  <2> QED BY <2>6, <2>7, <2>8, <2>9 DEF NewestInv
<1>3. CASE DrainAnswered
  <2> DEFINE h == Head(todo)
  <2>1. /\ todo # <<>> /\ arrived /\ todo' = Tail(todo) /\ arrived' = FALSE
        /\ UNCHANGED <<server, live, newest, hasty>>
    BY <1>3 DEF DrainAnswered, userVars
  <2>2. FirstGone(rows')
    BY <1>3, <2>1, DeletedRows DEF DrainAnswered, Types
  <2>3. \A i \in 1..Len(rows') : i + 1 \in 1..Len(rows) /\ rows'[i] = rows[i + 1]
    BY <2>2 DEF FirstGone
  <2>4. \A i \in 1..Len(todo') : i + 1 \in 1..Len(todo) /\ todo'[i] = todo[i + 1]
    BY <2>1, NextToSend DEF Types
  <2>5. \A f : HasRow(f)' => HasRow(f)
    BY <2>3 DEF HasRow
  <2>6. ASSUME NEW f, HasRow(f), ~ HasRow(f)' PROVE f = h.field
    <3>1. PICK i \in 1..Len(rows) : rows[i].field = f
      BY <2>6 DEF HasRow
    <3>2. CASE i = 1
      BY <3>1, <3>2, <2>2 DEF FirstGone
    <3>3. CASE i # 1
      <4>1. i - 1 \in 1..Len(rows') /\ (i - 1) + 1 = i
        BY <3>1, <3>3, <2>2, <1>0 DEF FirstGone
      <4>2. rows'[i - 1].field = f
        BY <4>1, <3>1, <2>3
      <4> QED BY <4>1, <4>2, <2>6 DEF HasRow
    <3> QED BY <3>2, <3>3
  <2>7. RowIsNewest' /\ TodoIsNewest'
    BY <2>1, <2>3, <2>4 DEF NewestInv, RowIsNewest, TodoIsNewest
  <2>8. SentIsNewest'
    BY <2>1 DEF SentIsNewest
  <2>9. RestIsNewest'
    <3> SUFFICES ASSUME NEW f \in Fields \ hasty, ~ HasRow(f)', \A w \in live : w.field # f
                 PROVE  server[f] = newest[f]
      BY <2>1 DEF RestIsNewest
    <3>1. CASE HasRow(f)
      BY <3>1, <2>1, <2>6 DEF NewestInv, SentIsNewest
    <3>2. CASE ~ HasRow(f)
      BY <3>2 DEF NewestInv, RestIsNewest
    <3> QED BY <3>1, <3>2
  <2>10. LiveIsNewest'
    BY <2>1, <2>5 DEF NewestInv, LiveIsNewest
  <2> QED BY <2>7, <2>8, <2>9, <2>10 DEF NewestInv
<1>4. CASE DrainHalts
  <2>1. todo' = <<>> /\ UNCHANGED <<rows, server, live, newest, hasty>>
    BY <1>4 DEF DrainHalts, userVars
  <2>2. Len(todo') = 0
    BY <2>1, EmptySeq
  <2>3. LiveIsNewest' /\ RowIsNewest' /\ RestIsNewest' /\ SentIsNewest'
    BY <2>1 DEF NewestInv, LiveIsNewest, RowIsNewest, RestIsNewest, SentIsNewest, HasRow
  <2>4. TodoIsNewest'
    BY <2>2 DEF TodoIsNewest
  <2> QED BY <2>3, <2>4 DEF NewestInv
<1> QED BY <1>1, <1>2, <1>3, <1>4 DEF Drain

\* A live write is the last of its field, unless in haste: the server gets it, or
\* the queue, where no row of the field is to be replaced.
LEMMA LiveKeepsNewest ==
  ASSUME Types, QueueInv, NewestInv, NEW w \in live,
         LiveArrives(w) \/ LiveAnswered(w) \/ LiveFails(w)
  PROVE  NewestInv'
<1>0. /\ w.field \in Fields /\ w.payload \in Writes
      /\ \A v \in live : v.field \in Fields
  BY DEF Types, LiveTypes, Requests
<1>1. w.field \notin hasty =>
        /\ w.payload = newest[w.field] /\ ~ HasRow(w.field)
        /\ w.arrived => server[w.field] = newest[w.field]
        /\ \A v \in live : v.field = w.field => v = w
  BY DEF NewestInv, LiveIsNewest
<1>2. UNCHANGED <<todo, arrived, newest, hasty>>
  BY DEF LiveArrives, LiveAnswered, LiveFails, userVars, drainVars
<1>3. CASE LiveArrives(w)
  <2> DEFINE u == [w EXCEPT !.arrived = TRUE]
  <2>1. /\ live' = (live \ {w}) \cup {u} /\ rows' = rows
        /\ server' = [server EXCEPT ![w.field] = w.payload]
    BY <1>3 DEF LiveArrives
  <2>2. u.field = w.field /\ u.payload = w.payload
    BY DEF Types, LiveTypes, Requests
  <2>3. server'[w.field] = w.payload /\ \A f \in Fields \ {w.field} : server'[f] = server[f]
    BY <2>1, <1>0 DEF Types, ValueTypes
  <2>4. \A f : HasRow(f)' <=> HasRow(f)
    BY <2>1 DEF HasRow
  <2> HIDE DEF u
  <2>5. RowIsNewest' /\ TodoIsNewest'
    BY <2>1, <1>2 DEF NewestInv, RowIsNewest, TodoIsNewest
  <2>6. \A f \in Fields \ hasty : server[f] = newest[f] => server'[f] = newest[f]
    BY <2>3, <1>1
  <2>7. SentIsNewest'
    <3>1. todo # <<>> => Head(todo).field \in Fields
      BY NextToSend DEF Types, Entry
    <3> QED BY <3>1, <2>6, <1>2 DEF NewestInv, SentIsNewest
  <2>8. RestIsNewest'
    <3> SUFFICES ASSUME NEW f \in Fields \ hasty, ~ HasRow(f), \A v \in live' : v.field # f
                 PROVE  server'[f] = newest[f]
      BY <2>4, <1>2 DEF RestIsNewest
    <3>1. \A v \in live : v.field # f
      BY <2>1, <2>2
    <3> QED BY <3>1, <2>6 DEF NewestInv, RestIsNewest
  <2>9. LiveIsNewest'
    <3> SUFFICES ASSUME NEW x \in live', x.field \notin hasty
                 PROVE  /\ x.payload = newest[x.field]
                        /\ x.arrived => server'[x.field] = newest[x.field]
                        /\ ~ HasRow(x.field)
                        /\ \A v \in live' : v.field = x.field => v = x
      BY <2>4, <1>2 DEF LiveIsNewest
    <3>1. CASE x = u
      <4>1. \A v \in live' : v.field = x.field => v = x
        BY <3>1, <2>1, <2>2, <1>1
      <4>2. server'[x.field] = newest[x.field] /\ x.payload = newest[x.field] /\ ~ HasRow(x.field)
        BY <3>1, <2>2, <2>3, <1>1
      <4> QED BY <4>1, <4>2
    <3>2. CASE x # u
      <4>1. x \in live /\ x # w
        BY <3>2, <2>1
      <4>2. /\ x.payload = newest[x.field] /\ ~ HasRow(x.field)
            /\ x.arrived => server[x.field] = newest[x.field]
            /\ \A v \in live : v.field = x.field => v = x
        BY <4>1 DEF NewestInv, LiveIsNewest
      <4>3. x.field # w.field
        BY <4>1, <4>2
      <4>4. \A v \in live' : v.field = x.field => v = x
        BY <2>1, <2>2, <4>2, <4>3
      <4> QED BY <4>1, <4>2, <4>4, <2>6, <1>0
    <3> QED BY <3>1, <3>2
  <2> QED BY <2>5, <2>7, <2>8, <2>9 DEF NewestInv
<1>4. CASE LiveAnswered(w)
  <2>1. live' = live \ {w} /\ w.arrived /\ UNCHANGED <<rows, server>>
    BY <1>4 DEF LiveAnswered
  <2>2. LiveIsNewest' /\ RowIsNewest' /\ TodoIsNewest' /\ SentIsNewest'
    BY <2>1, <1>2 DEF NewestInv, LiveIsNewest, RowIsNewest, TodoIsNewest, SentIsNewest, HasRow
  <2>3. RestIsNewest'
    <3> SUFFICES ASSUME NEW f \in Fields \ hasty, ~ HasRow(f), \A v \in live \ {w} : v.field # f
                 PROVE  server[f] = newest[f]
      BY <2>1, <1>2 DEF RestIsNewest, HasRow
    <3>1. CASE w.field = f
      BY <3>1, <2>1, <1>1
    <3>2. CASE w.field # f
      BY <3>2 DEF NewestInv, RestIsNewest
    <3> QED BY <3>1, <3>2
  <2> QED BY <2>2, <2>3 DEF NewestInv
<1>5. CASE LiveFails(w)
  <2>1. live' = live \ {w} /\ rows' = Enqueued(w.field, w.payload) /\ server' = server
    BY <1>5 DEF LiveFails
  <2>2. Queued(rows', w.field, w.payload)
    BY <2>1, <1>0, EnqueuedRows DEF Types, QueueInv
  <2>3. HasRow(w.field)'
    BY <2>2 DEF Queued, HasRow
  <2>4. \A f : f # w.field => (HasRow(f)' <=> HasRow(f))
    <3> SUFFICES ASSUME NEW f, f # w.field PROVE HasRow(f)' <=> HasRow(f)
      OBVIOUS
    <3>1. Len(rows) \in Nat /\ Len(rows') \in Nat /\ Len(rows) <= Len(rows')
      BY <2>2, LenProperties DEF Queued, Types, QueueTypes
    <3>2. HasRow(f) => HasRow(f)'
      BY <3>1, <2>2 DEF HasRow, Queued
    <3>3. HasRow(f)' => HasRow(f)
      BY <2>2 DEF HasRow, Queued
    <3> QED BY <3>2, <3>3
  <2>5. TodoIsNewest' /\ SentIsNewest'
    BY <2>1, <1>2 DEF NewestInv, TodoIsNewest, SentIsNewest
  <2>6. RowIsNewest'
    <3> SUFFICES ASSUME NEW i \in 1..Len(rows'), rows'[i].field \notin hasty
                 PROVE  rows'[i].payload = newest[rows'[i].field]
      BY <1>2 DEF RowIsNewest
    <3>1. CASE rows'[i].field = w.field
      BY <3>1, <2>2, <1>1 DEF Queued
    <3>2. CASE rows'[i].field # w.field
      <4>1. i \in 1..Len(rows) /\ rows'[i] = rows[i]
        BY <3>2, <2>2 DEF Queued
      <4> QED BY <4>1 DEF NewestInv, RowIsNewest
    <3> QED BY <3>1, <3>2
  <2>7. RestIsNewest'
    <3> SUFFICES ASSUME NEW f \in Fields \ hasty, ~ HasRow(f)', \A v \in live \ {w} : v.field # f
                 PROVE  server[f] = newest[f]
      BY <2>1, <1>2 DEF RestIsNewest
    <3>1. f # w.field /\ ~ HasRow(f)
      BY <2>3, <2>4
    <3> QED BY <3>1 DEF NewestInv, RestIsNewest
  <2>8. LiveIsNewest'
    <3> SUFFICES ASSUME NEW x \in live \ {w}, x.field \notin hasty
                 PROVE  /\ x.payload = newest[x.field]
                        /\ x.arrived => server[x.field] = newest[x.field]
                        /\ ~ HasRow(x.field)'
                        /\ \A v \in live \ {w} : v.field = x.field => v = x
      BY <2>1, <1>2 DEF LiveIsNewest
    <3>1. /\ x.payload = newest[x.field] /\ ~ HasRow(x.field)
          /\ x.arrived => server[x.field] = newest[x.field]
          /\ \A v \in live : v.field = x.field => v = x
      BY DEF NewestInv, LiveIsNewest
    <3> QED BY <3>1, <2>4
  <2> QED BY <2>5, <2>6, <2>7, <2>8 DEF NewestInv
<1> QED BY <1>3, <1>4, <1>5

\* A new write is the last of its field from now on.  When an earlier one is still
\* somewhere, it is in haste.
LEMMA WriteKeepsNewest ==
  ASSUME Types, QueueInv, NewestInv, NEW g \in Fields, NewWrite(g),
         UNCHANGED <<rows, server, todo, arrived>>
  PROVE  NewestInv'
<1> DEFINE n == writes + 1
           u == [field |-> g, payload |-> n, arrived |-> FALSE]
<1>1. /\ live' = live \cup {u} /\ newest' = [newest EXCEPT ![g] = n]
      /\ hasty' = IF Busy(g) THEN hasty \cup {g} ELSE hasty
  BY DEF NewWrite
<1>2. u.field = g /\ u.payload = n /\ ~ u.arrived
  OBVIOUS
<1>3. newest'[g] = n /\ \A f \in Fields \ {g} : newest'[f] = newest[f]
  BY <1>1 DEF Types, ValueTypes
<1>4. \A f : f \notin hasty' => f \notin hasty
  BY <1>1
<1>5. g \notin hasty' => /\ ~ HasRow(g) /\ \A w \in live : w.field # g
                         /\ \A i \in 1..Len(todo) : todo[i].field # g
  BY <1>1 DEF Busy
<1>6. \A f : HasRow(f)' <=> HasRow(f)
  BY DEF HasRow
<1> HIDE DEF u, n
<1>7. RowIsNewest'
  <2> SUFFICES ASSUME NEW i \in 1..Len(rows), rows[i].field \notin hasty'
               PROVE  rows[i].payload = newest'[rows[i].field]
    BY DEF RowIsNewest
  <2>1. rows[i] \in Entry
    BY ElementOfSeq DEF Types, QueueTypes
  <2>3. rows[i].field \in Fields /\ HasRow(rows[i].field)
    BY <2>1 DEF HasRow, Entry
  <2>2. rows[i].payload = newest[rows[i].field]
    BY <1>4 DEF NewestInv, RowIsNewest
  <2> QED BY <2>3, <2>2, <1>3, <1>5
<1>8. TodoIsNewest'
  <2> SUFFICES ASSUME NEW i \in 1..Len(todo), todo[i].field \notin hasty'
               PROVE  todo[i].payload = newest'[todo[i].field]
    BY DEF TodoIsNewest
  <2>1. todo[i] \in Entry
    BY ElementOfSeq DEF Types, QueueTypes
  <2>3. todo[i].field \in Fields
    BY <2>1 DEF Entry
  <2>2. todo[i].payload = newest[todo[i].field]
    BY <1>4 DEF NewestInv, TodoIsNewest
  <2> QED BY <2>3, <2>2, <1>3, <1>5
<1>9. SentIsNewest'
  <2> SUFFICES ASSUME todo # <<>>, arrived, Head(todo).field \notin hasty'
               PROVE  server[Head(todo).field] = newest'[Head(todo).field]
    BY DEF SentIsNewest
  <2>1. Head(todo).field \in Fields /\ HasRow(Head(todo).field)
    BY NextToSend, TodoHasRows DEF Types, Entry
  <2>2. server[Head(todo).field] = newest[Head(todo).field]
    BY <1>4 DEF NewestInv, SentIsNewest
  <2> QED BY <2>1, <2>2, <1>3, <1>5
<1>10. RestIsNewest'
  <2> SUFFICES ASSUME NEW f \in Fields \ hasty', ~ HasRow(f), \A w \in live' : w.field # f
               PROVE  server[f] = newest'[f]
    BY <1>6 DEF RestIsNewest
  <2>1. f # g /\ \A w \in live : w.field # f
    BY <1>1, <1>2
  <2>2. server[f] = newest[f]
    BY <2>1, <1>4 DEF NewestInv, RestIsNewest
  <2> QED BY <2>1, <2>2, <1>3
<1>11. LiveIsNewest'
  <2> SUFFICES ASSUME NEW x \in live', x.field \notin hasty'
               PROVE  /\ x.payload = newest'[x.field]
                      /\ x.arrived => server[x.field] = newest'[x.field]
                      /\ ~ HasRow(x.field)
                      /\ \A v \in live' : v.field = x.field => v = x
    BY <1>6 DEF LiveIsNewest
  <2>1. CASE x = u
    BY <2>1, <1>1, <1>2, <1>3, <1>5
  <2>2. CASE x # u
    <3>1. x \in live /\ x.field # g /\ x.field \in Fields
      BY <2>2, <1>1, <1>2, <1>5 DEF Types, LiveTypes, Requests
    <3>2. /\ x.payload = newest[x.field] /\ ~ HasRow(x.field)
          /\ x.arrived => server[x.field] = newest[x.field]
          /\ \A v \in live : v.field = x.field => v = x
      BY <3>1, <1>4 DEF NewestInv, LiveIsNewest
    <3> QED BY <3>1, <3>2, <1>1, <1>2, <1>3
  <2> QED BY <2>1, <2>2
<1> QED BY <1>7, <1>8, <1>9, <1>10, <1>11 DEF NewestInv

\* The end of the app cuts off live writes; their fields are in haste from now on.
LEMMA KillKeepsNewest ==
  ASSUME NewestInv, Kill
  PROVE  NewestInv'
<1>1. /\ live' = {} /\ todo' = <<>> /\ UNCHANGED <<rows, server, newest>>
      /\ hasty' = hasty \cup {w.field : w \in live}
  BY DEF Kill
<1>2. Len(todo') = 0
  BY <1>1, EmptySeq
<1>3. LiveIsNewest' /\ RowIsNewest' /\ SentIsNewest'
  BY <1>1 DEF NewestInv, LiveIsNewest, RowIsNewest, SentIsNewest
<1>4. TodoIsNewest'
  BY <1>2 DEF TodoIsNewest
<1>5. RestIsNewest'
  BY <1>1 DEF NewestInv, RestIsNewest, HasRow
<1> QED BY <1>3, <1>4, <1>5 DEF NewestInv

\* Every step of the specification.
LEMMA NewestStep ==
  ASSUME Types, QueueInv, NewestInv, [Next]_vars
  PROVE  NewestInv'
<1>1. CASE UNCHANGED <<rows, server, live, todo, arrived, newest, hasty>>
  BY <1>1 DEF NewestInv, LiveIsNewest, RowIsNewest, TodoIsNewest, SentIsNewest, RestIsNewest,
       HasRow
<1>2. CASE Sync
  BY <1>2, <1>1 DEF Sync, SyncFetch, UpsertMany, drainVars, userVars
<1>3. CASE User
  BY <1>3, WriteKeepsNewest DEF User, Archive, Write, drainVars
<1>4. CASE Next
  BY <1>4, <1>2, <1>3, DrainKeepsNewest, LiveKeepsNewest, KillKeepsNewest DEF Next, Live
<1>5. CASE UNCHANGED vars
  BY <1>5, <1>1 DEF vars, drainVars, userVars
<1> QED BY <1>4, <1>5

-----------------------------------------------------------------------------
(* MobileOutbox: the theorems.                                              *)

\* The three invariants together.
LEMMA Invariants == Spec => [](Types /\ QueueInv /\ NewestInv)
<1>1. Init => Types /\ QueueInv /\ NewestInv
  <2> SUFFICES ASSUME Init PROVE QueueInv /\ NewestInv
    BY InitTypes
  <2>1. Len(rows) = 0 /\ Len(todo) = 0 /\ todo = <<>> /\ live = {}
    BY EmptySeq DEF Init
  <2>2. QueueInv
    BY <2>1 DEF QueueInv, OneRowPerField, DrainsFront
  <2>3. NewestInv
    BY <2>1 DEF Init, NewestInv, LiveIsNewest, RowIsNewest, TodoIsNewest, SentIsNewest,
         RestIsNewest
  <2> QED BY <2>2, <2>3
<1>2. Types /\ QueueInv /\ NewestInv /\ [Next]_vars => (Types /\ QueueInv /\ NewestInv)'
  BY TypesStep, QueueStep, NewestStep
<1> QED BY <1>1, <1>2, PTL DEF Spec

\* A queue without doubles has at most a row per field.
LEMMA QueueBounded ==
  ASSUME Types, QueueInv
  PROVE  rows \in Queues /\ todo \in Queues
<1> DEFINE N == Len(rows)
           fieldOf == [i \in 1..N |-> rows[i].field]
<1>1. /\ Len(rows) \in Nat /\ rows \in [1..Len(rows) -> Entry]
      /\ Len(todo) \in Nat /\ todo \in [1..Len(todo) -> Entry]
  BY LenProperties DEF Types, QueueTypes
<1>2. fieldOf \in [1..N -> Fields]
  BY <1>1 DEF Entry
<1>3. /\ IsFiniteSet(1..N) /\ Cardinality(1..N) = N
      /\ IsFiniteSet(Fields) /\ Cardinality(Fields) \in Nat
  <2>1. N \in Int /\ 1 \in Int
    BY <1>1
  <2>2. IsFiniteSet(1..N) /\ Cardinality(1..N) = IF 1 > N THEN 0 ELSE N - 1 + 1
    BY <2>1, FS_Interval
  <2> QED BY <2>2, <1>1, FS_CardinalityType
<1>4. N <= Cardinality(Fields)
  <2> SUFFICES ASSUME Cardinality(Fields) < N PROVE FALSE
    BY <1>1, <1>3
  <2>1. PICK i \in 1..N, j \in 1..N : i # j /\ fieldOf[i] = fieldOf[j]
    <3> HIDE DEF fieldOf
    <3>1. Cardinality(Fields) < Cardinality(1..N)
      BY <1>3
    <3> QED BY <3>1, <1>2, <1>3, FS_PigeonHole
  <2> QED BY <2>1 DEF QueueInv, OneRowPerField
<1>5. Len(rows) \in 0..Cardinality(Fields) /\ Len(todo) \in 0..Cardinality(Fields)
  BY <1>3, <1>4, <1>1 DEF QueueInv, DrainsFront
<1> QED BY <1>5, <1>1 DEF Queues, Entry

\* The variables have their types, no field is queued twice, and so the queue never
\* outgrows the fields, whatever requests fail (outbox.ts, enqueue).
THEOREM TypeCorrect == Spec => []TypeOK
<1>1. Types /\ QueueInv => TypeOK
  <2> SUFFICES ASSUME Types, QueueInv PROVE TypeOK
    OBVIOUS
  <2> QED BY QueueBounded DEF TypeOK, Types, ValueTypes, SyncTypes, LiveTypes, FlagTypes,
            UserTypes, QueueInv, OneRowPerField
<1> QED BY <1>1, Invariants, PTL

\* Once nothing is on its way or queued, the server has the user's last word on every
\* field that was not written in haste, however often requests failed and the app was
\* killed (mutations.ts, withOutboxOnRetryableError; syncTrigger.ts, drain).
THEOREM NewestArrives == Spec => []ServerHasNewest
<1>1. Types /\ QueueInv /\ NewestInv => ServerHasNewest
  <2> SUFFICES ASSUME NewestInv, live = {}, rows = <<>>, NEW f \in Fields \ hasty
               PROVE  server[f] = newest[f]
    BY DEF ServerHasNewest
  <2>1. ~ HasRow(f)
    BY EmptySeq DEF HasRow
  <2> QED BY <2>1 DEF NewestInv, RestIsNewest
<1> QED BY <1>1, Invariants, PTL

\* The drain sends the writes in the order in which they are queued: what it sends is
\* the first row of the queue (syncTrigger.ts, drain).
THEOREM DrainedInOrder == Spec => InQueueOrder
<1>1. Types /\ QueueInv /\ NewestInv /\ [Next]_vars =>
        [DrainArrives => rows # <<>> /\ rows[1].field = Head(todo).field]_vars
  <2> SUFFICES ASSUME Types, QueueInv, DrainArrives
               PROVE  rows # <<>> /\ rows[1].field = Head(todo).field
    OBVIOUS
  <2>1. todo # <<>> /\ Len(todo) >= 1 /\ Head(todo) = todo[1] /\ Len(todo) \in Nat
    BY NextToSend, LenProperties DEF DrainArrives, Types, QueueTypes
  <2>2. 1 \in 1..Len(todo) /\ Len(rows) >= 1
    BY <2>1, LenProperties DEF Types, QueueTypes, QueueInv, DrainsFront
  <2>3. rows # <<>>
    BY <2>2, EmptySeq
  <2> QED BY <2>1, <2>2, <2>3 DEF QueueInv, DrainsFront
<1> QED BY <1>1, Invariants, PTL DEF Spec, InQueueOrder

-----------------------------------------------------------------------------
(* Subscriptions: the inductive invariant.                                  *)

\* The stages of a request before its insert has been counted.
Uncounted == {"count", "lookup", "check", "validate", "create", "insert"}

\* What a request has with it, by its stage.
WorkType(r) ==
  /\ At(r, "idle") => work[r] = Idle
  /\ ~ At(r, "idle") => UserOf(r) \in Users
  /\ work[r].at \in Uncounted \cup {"commit", "resolve", "find", "delete", "unroute"} =>
       SourceOf(r) \in Feeds
  /\ work[r].at \in {"verify", "upsert"} => SourceOf(r) \in Sources /\ work[r].list \in Lists
  /\ work[r].at \in {"check", "insert", "commit", "resolve"} => SourceOf(r) \in feeds
  /\ work[r].at \in {"rss", "email"} => work[r].found \subseteq Feeds
  /\ At(r, "routes") => work[r].found \subseteq Sources
  /\ ~ At(r, "answered") => work[r].reply = None

SourceTables ==
  /\ feeds \subseteq Feeds /\ subs \subseteq Users \X feeds
  /\ senders \subseteq Users \X Senders
  /\ routes \in [Users \X Sources -> Lists \cup {None}]
HistoryTypes ==
  /\ overlapped \in [Users -> Nat] /\ strayed \subseteq Users \X Feeds
  /\ steady \in [Slots -> SUBSET Sources]
WorkTypes == work \in [Slots -> Requested] /\ \A r \in Slots : WorkType(r)

AppTypes ==
  /\ SourceTables /\ HistoryTypes /\ WorkTypes
  /\ asked \in 0..MaxRequests /\ faults \in 0..MaxFaults

\* An insert that overlaps another is a request's, and a request inserts once.
Before == {r \in Slots : work[r].at \in Uncounted}
OverlapInv == \A u \in Users : overlapped[u] + Cardinality(Before) <= asked

\* The feeds a user will have if all his open inserts commit.
Committing(u) == {r \in Slots : At(r, "commit") /\ UserOf(r) = u}
LimitInv ==
  \A u \in Users : CountByUserID(u) + Cardinality(Committing(u)) <= MaxFeedsPerUser + overlapped[u]

\* Whoever is about to write a route has seen the subscription, and an
\* unsubscription that has met him since is on record.
WillRoute(r, u, f) ==
  /\ UserOf(r) = u /\ SourceOf(r) = f
  /\ \/ At(r, "upsert")
     \/ At(r, "resolve") /\ work[r].list # None
RouteInv ==
  /\ RoutesFollowSubscriptions
  /\ \A u \in Users, f \in Feeds, r \in Slots : WillRoute(r, u, f) => <<u, f>> \in subs \cup strayed

\* What a request has learned of the sources that nobody else has changed since it
\* began is still so.
OnePage(u) == Cardinality(SendersOf(u)) <= PageSize
Learned(r) == LET u == UserOf(r)  s == SourceOf(r)  w == work[r] IN
  /\ w.at \in {"email", "routes"} /\ "rss" \notin w.failed =>
       \A t \in steady[r] \cap Feeds : t \in w.found <=> <<u, t>> \in subs
  /\ w.at = "routes" /\ "email" \notin w.failed /\ OnePage(u) =>
       \A t \in steady[r] \cap Senders : t \in w.found <=> <<u, t>> \in senders
  /\ w.at = "resolve" /\ s \in steady[r] => <<u, s>> \in subs
  /\ w.at = "unroute" /\ s \in steady[r] => <<u, s>> \notin subs
  /\ w.at = "upsert" /\ s \in steady[r] => Subscribed(u, s)
  /\ w.at = "answered" /\ OnePage(u) => AnswerIsTrue(r)
AnswerInv == \A r \in Slots : Learned(r)

-----------------------------------------------------------------------------
(* A request moves on.                                                      *)

\* The others stay where they are.
Alone(r) == work' \in [Slots -> Requested] /\ \A q \in Slots \ {r} : work'[q] = work[q]

\* A request becomes w,
LEMMA Placing ==
  ASSUME work \in [Slots -> Requested], NEW r \in Slots, NEW w \in Requested,
         work' = [work EXCEPT ![r] = w]
  PROVE  Alone(r) /\ work'[r] = w
BY DEF Alone

\* goes to its next stage,
LEMMA Going ==
  ASSUME work \in [Slots -> Requested], NEW r \in Slots, NEW stage \in Stages, Goto(r, stage)
  PROVE  Alone(r) /\ work'[r] = [work[r] EXCEPT !.at = stage]
<1> DEFINE w == [work[r] EXCEPT !.at = stage]
<1>1. w \in Requested
  BY DEF Requested
<1>2. work' = [work EXCEPT ![r] = w]
  BY DEF Goto
<1> QED BY <1>1, <1>2, Placing

\* or is answered.
LEMMA Answering ==
  ASSUME work \in [Slots -> Requested], NEW r \in Slots, NEW answer \in Replies, Answer(r, answer)
  PROVE  Alone(r) /\ work'[r] = [work[r] EXCEPT !.at = "answered", !.reply = answer]
<1> DEFINE v == [work[r] EXCEPT !.at = "answered"]
           w == [work[r] EXCEPT !.at = "answered", !.reply = answer]
<1>0. v \in Requested /\ w = [v EXCEPT !.reply = answer]
  BY DEF Requested, Stages
<1>1. w \in Requested
  BY <1>0 DEF Requested
<1>2. work' = [work EXCEPT ![r] = w]
  BY DEF Answer
<1> QED BY <1>1, <1>2, Placing

\* A refusal is an answer.
LEMMA Refusing ==
  ASSUME NEW r \in Slots
  PROVE  /\ Refuse(r, "already") => Answer(r, "conflict")
         /\ Refuse(r, "limit") \/ Refuse(r, "invalid") => Answer(r, "bad request")
         /\ Refuse(r, "failed") => Answer(r, "error")
         /\ Decline(r, "missing") => Answer(r, "not found")
<1>1. /\ SubscribeStatus["limit"] = 400 /\ SubscribeStatus["already"] = 409
      /\ SubscribeStatus["invalid"] = 400 /\ SubscribeStatus["failed"] = 500
      /\ UnsubscribeStatus["missing"] = 404
  BY DEF SubscribeStatus, UnsubscribeStatus
<1>2. /\ SubscribeUserToFeed(SubscribeStatus["already"]) = "conflict"
      /\ SubscribeUserToFeed(SubscribeStatus["limit"]) = "bad request"
      /\ SubscribeUserToFeed(SubscribeStatus["invalid"]) = "bad request"
      /\ SubscribeUserToFeed(SubscribeStatus["failed"]) = "error"
      /\ UnsubscribeUserFromFeed(UnsubscribeStatus["missing"]) = "not found"
  BY <1>1 DEF SubscribeUserToFeed, UnsubscribeUserFromFeed
<1>3. Refuse(r, "already") => Answer(r, "conflict")
  BY <1>2 DEF Refuse, Answer
<1>4. Refuse(r, "limit") => Answer(r, "bad request")
  BY <1>2 DEF Refuse, Answer
<1>5. Refuse(r, "invalid") => Answer(r, "bad request")
  BY <1>2 DEF Refuse, Answer
<1>6. Refuse(r, "failed") => Answer(r, "error")
  BY <1>2 DEF Refuse, Answer
<1>7. Decline(r, "missing") => Answer(r, "not found")
  BY <1>2 DEF Decline, Answer
<1> QED BY <1>3, <1>4, <1>5, <1>6, <1>7

-----------------------------------------------------------------------------
(* What a step of a request does, by its kind.                              *)

\* Nothing, but that a feed may get its row.  The request does not leave what others
\* rely on, nor come to rely on what it has not seen.
Aside(r) ==
  /\ UNCHANGED <<subs, senders, routes, overlapped, strayed>>
  /\ \A q \in Slots \ {r} : steady'[q] = steady[q]
  /\ ~ At(r, "unroute") /\ work'[r].at \notin {"commit", "resolve", "unroute"}
  /\ work'[r].at = "upsert" /\ work'[r].source \in Feeds =>
       <<work'[r].user, work'[r].source>> \in subs

\* An insert is counted,
Counted(r) ==
  /\ At(r, "insert") /\ work'[r] = [work[r] EXCEPT !.at = "commit"]
  /\ CountByUserID(UserOf(r)) < MaxFeedsPerUser
  /\ overlapped' = IF Overlaps(r) THEN [overlapped EXCEPT ![UserOf(r)] = @ + 1] ELSE overlapped
  /\ UNCHANGED <<feeds, subs, senders, routes, strayed, steady>>
\* and commits.
Committed(r) ==
  /\ At(r, "commit") /\ Key(r) \notin subs /\ subs' = subs \cup {Key(r)} /\ Disturb(r)
  /\ work'[r] = [work[r] EXCEPT !.at = "resolve"] \/ work'[r].at = "answered"
  /\ UNCHANGED <<feeds, senders, routes, overlapped, strayed>>
\* A route is written.
Routed(r) ==
  /\ \/ At(r, "upsert")
     \/ At(r, "resolve") /\ work[r].list # None
  /\ routes' = [routes EXCEPT ![Key(r)] = work[r].list] /\ Disturb(r)
  /\ work'[r].at = "answered"
  /\ UNCHANGED <<feeds, subs, senders, overlapped, strayed>>
\* A subscription goes,
Dropped(r) ==
  /\ At(r, "delete") /\ subs' = subs \ {Key(r)} /\ Disturb(r)
  /\ \/ /\ work'[r] = [work[r] EXCEPT !.at = "unroute"]
        /\ strayed' = IF Routing(r) = {} THEN strayed ELSE strayed \cup {Key(r)}
     \/ /\ work'[r].at = "answered"
        /\ strayed' = strayed \cup {Key(r)}
  /\ UNCHANGED <<feeds, senders, routes, overlapped>>
\* and then its route, or not.
Unrouted(r) ==
  /\ At(r, "unroute") /\ work'[r].at = "answered"
  /\ routes' = [routes EXCEPT ![Key(r)] = None] /\ Disturb(r)
  /\ strayed' = IF Routing(r) = {} THEN strayed \ {Key(r)} ELSE strayed
  /\ UNCHANGED <<feeds, subs, senders, overlapped>>
LeftRouted(r) ==
  /\ At(r, "unroute") /\ work'[r].at = "answered"
  /\ strayed' = strayed \cup {Key(r)}
  /\ UNCHANGED <<feeds, subs, senders, routes, overlapped, steady>>

Kind(r) == \/ Aside(r) \/ Counted(r) \/ Committed(r) \/ Routed(r)
           \/ Dropped(r) \/ Unrouted(r) \/ LeftRouted(r)

Step(r) ==
  /\ Alone(r) /\ WorkType(r)' /\ Kind(r)
  /\ feeds \subseteq feeds' /\ feeds' \subseteq Feeds
  /\ steady' \in [Slots -> SUBSET Sources]
  /\ asked' \in asked..MaxRequests /\ faults' \in 0..MaxFaults
  /\ work'[r].at \in Uncounted => work[r].at \in Uncounted \/ asked' = asked + 1

\* The sources a request may see changed are still sources.
LEMMA DisturbTypes ==
  ASSUME HistoryTypes, NEW r \in Slots, Disturb(r)
  PROVE  steady' \in [Slots -> SUBSET Sources]
BY DEF HistoryTypes, Disturb

\* A step that changes nothing but the request's stage.
LEMMA LookIsAside ==
  ASSUME AppTypes, NEW r \in Slots, Look(r), ~ At(r, "unroute"),
         work'[r].at \notin {"commit", "resolve", "unroute", "upsert"}
  PROVE  /\ Aside(r) /\ feeds \subseteq feeds' /\ feeds' \subseteq Feeds
         /\ steady' \in [Slots -> SUBSET Sources]
         /\ asked' \in asked..MaxRequests /\ faults' \in 0..MaxFaults
BY DEF AppTypes, SourceTables, HistoryTypes, Look, history, Aside

\* A look after which the request goes on with its source,
LEMMA LookGoes ==
  ASSUME AppTypes, NEW r \in Slots, Look(r), ~ At(r, "unroute"),
         NEW stage \in {"lookup", "check", "validate", "create", "insert", "delete"}, Goto(r, stage),
         UserOf(r) \in Users, SourceOf(r) \in Feeds, work[r].reply = None,
         stage # "delete" => work[r].at \in Uncounted,
         stage \in {"check", "insert"} => SourceOf(r) \in feeds
  PROVE  Step(r)
<1>1. work \in [Slots -> Requested] /\ work[r] \in Requested
  BY DEF AppTypes, WorkTypes
<1>2. Alone(r) /\ work'[r] = [work[r] EXCEPT !.at = stage]
  <2>1. stage \in Stages
    BY DEF Stages
  <2> QED BY <1>1, <2>1, Going
<1>3. feeds' = feeds
  BY DEF Look
<1>4. WorkType(r)' /\ work'[r].at = stage
  BY <1>1, <1>2, <1>3 DEF WorkType, At, UserOf, SourceOf, Requested, Uncounted
<1> QED BY <1>1, <1>2, <1>4, LookIsAside DEF Step, Kind, Uncounted

\* and one that ends it.
LEMMA LookAnswers ==
  ASSUME AppTypes, NEW r \in Slots, Look(r), ~ At(r, "unroute"), ~ At(r, "idle"),
         NEW answer \in Replies, Answer(r, answer)
  PROVE  Step(r)
<1>1. work \in [Slots -> Requested] /\ work[r] \in Requested /\ WorkType(r)
  BY DEF AppTypes, WorkTypes
<1>2. Alone(r) /\ work'[r] = [work[r] EXCEPT !.at = "answered", !.reply = answer]
  BY <1>1, Answering
<1>3. WorkType(r)' /\ work'[r].at = "answered"
  BY <1>1, <1>2 DEF WorkType, At, UserOf, SourceOf, Requested, Uncounted
<1> QED BY <1>1, <1>2, <1>3, LookIsAside DEF Step, Kind, Uncounted

\* What a request has, by its stage.
LEMMA WorkOf ==
  ASSUME AppTypes, NEW r \in Slots
  PROVE  /\ work \in [Slots -> Requested] /\ work[r] \in Requested /\ WorkType(r)
         /\ ~ At(r, "idle") => UserOf(r) \in Users
         /\ work[r].at \in Uncounted \cup {"commit", "resolve", "find", "delete", "unroute"} =>
              SourceOf(r) \in Feeds
         /\ ~ At(r, "answered") => work[r].reply = None
BY DEF AppTypes, WorkTypes, WorkType

\* The steps of a subscription up to its insert.
LEMMA CountStep ==
  ASSUME AppTypes, NEW r \in Slots, Count(r)
  PROVE  Step(r)
<1>1. Look(r) /\ At(r, "count")
  BY DEF Count
<1>2. CASE Answer(r, "bad request")
  BY <1>1, <1>2, LookAnswers DEF At, Replies
<1>3. CASE Goto(r, "lookup")
  BY <1>1, <1>3, LookGoes, WorkOf DEF At, Uncounted
<1> QED BY <1>2, <1>3, Refusing DEF Count

\* Is there a row for the feed?
LEMMA LookUpStep ==
  ASSUME AppTypes, NEW r \in Slots, LookUp(r)
  PROVE  Step(r)
<1>1. Look(r) /\ At(r, "lookup")
  BY DEF LookUp
<1>2. CASE SourceOf(r) \in feeds /\ Goto(r, "check")
  BY <1>1, <1>2, LookGoes, WorkOf DEF At, Uncounted
<1>3. CASE Goto(r, "validate")
  BY <1>1, <1>3, LookGoes, WorkOf DEF At, Uncounted
<1> QED BY <1>2, <1>3 DEF LookUp, GetByURL

\* The user has the feed already, or not.
LEMMA CheckStep ==
  ASSUME AppTypes, NEW r \in Slots, Check(r)
  PROVE  Step(r)
<1>1. Look(r) /\ At(r, "check")
  BY DEF Check
<1>2. CASE Answer(r, "conflict")
  BY <1>1, <1>2, LookAnswers DEF At, Replies
<1>3. CASE Goto(r, "insert")
  <2>1. SourceOf(r) \in feeds
    BY <1>1, WorkOf DEF WorkType, At
  <2> QED BY <1>1, <1>3, <2>1, LookGoes, WorkOf DEF At, Uncounted
<1> QED BY <1>2, <1>3, Refusing DEF Check

\* What the URL serves is a feed, or not.
LEMMA ValidateStep ==
  ASSUME AppTypes, NEW r \in Slots, ValidateAndExtractFeedMetadata(r)
  PROVE  Step(r)
<1>1. Look(r) /\ At(r, "validate")
  BY DEF ValidateAndExtractFeedMetadata
<1>2. CASE Answer(r, "bad request")
  BY <1>1, <1>2, LookAnswers DEF At, Replies
<1>3. CASE Goto(r, "create")
  BY <1>1, <1>3, LookGoes, WorkOf DEF At, Uncounted
<1> QED BY <1>2, <1>3, Refusing DEF ValidateAndExtractFeedMetadata

\* The feed gets its row, if nobody else gave it one.
LEMMA CreateFeedStep ==
  ASSUME AppTypes, NEW r \in Slots, CreateFeed(r)
  PROVE  Step(r)
<1>1. At(r, "create") /\ UNCHANGED <<subs, senders, routes, asked, faults, history, steady>>
  BY DEF CreateFeed
<1>2. CASE Answer(r, "error") /\ UNCHANGED feeds
  BY <1>1, <1>2, LookAnswers DEF At, Replies, Look
<1>3. CASE Goto(r, "insert") /\ feeds' = feeds \cup {SourceOf(r)}
  <2>1. Alone(r) /\ work'[r] = [work[r] EXCEPT !.at = "insert"]
    BY <1>3, WorkOf, Going DEF Stages
  <2>2. WorkType(r)' /\ work'[r].at = "insert"
    BY <1>1, <1>3, <2>1, WorkOf DEF WorkType, At, UserOf, SourceOf, Requested, Uncounted
  <2>3. feeds \subseteq feeds' /\ feeds' \subseteq Feeds
    BY <1>1, <1>3, WorkOf DEF AppTypes, SourceTables, At, Uncounted
  <2>4. Aside(r)
    BY <1>1, <2>2 DEF Aside, At, history
  <2> QED BY <1>1, <2>1, <2>2, <2>3, <2>4
      DEF Step, Kind, AppTypes, HistoryTypes, At, Uncounted, history
<1> QED BY <1>2, <1>3, Refusing DEF CreateFeed

\* The insert and its commit.
LEMMA CheckFeedLimitStep ==
  ASSUME AppTypes, NEW r \in Slots, CheckFeedLimit(r)
  PROVE  Step(r)
<1>1. At(r, "insert") /\ UNCHANGED <<feeds, subs, senders, routes, asked, faults, strayed, steady>>
  BY DEF CheckFeedLimit
<1>2. CASE Answer(r, "bad request") /\ UNCHANGED overlapped
  BY <1>1, <1>2, LookAnswers DEF At, Replies, Look, history
<1>3. CASE /\ CountByUserID(UserOf(r)) < MaxFeedsPerUser /\ Goto(r, "commit")
           /\ overlapped' = IF Overlaps(r) THEN [overlapped EXCEPT ![UserOf(r)] = @ + 1]
                                           ELSE overlapped
  <2>1. Alone(r) /\ work'[r] = [work[r] EXCEPT !.at = "commit"]
    BY <1>3, WorkOf, Going DEF Stages
  <2>2. WorkType(r)' /\ work'[r].at = "commit"
    BY <1>1, <1>3, <2>1, WorkOf DEF WorkType, At, UserOf, SourceOf, Requested, Uncounted
  <2>3. Counted(r)
    BY <1>1, <1>3, <2>1 DEF Counted
  <2> QED BY <1>1, <2>1, <2>2, <2>3
      DEF Step, Kind, AppTypes, HistoryTypes, SourceTables, Uncounted
<1> QED BY <1>2, <1>3, Refusing DEF CheckFeedLimit

\* A step that ends a request.
LEMMA Ends ==
  ASSUME AppTypes, NEW r \in Slots, ~ At(r, "idle"), Alone(r), Kind(r),
         work'[r].at = "answered", work'[r].user = UserOf(r),
         UNCHANGED <<feeds, asked>>, faults' \in 0..MaxFaults,
         steady' \in [Slots -> SUBSET Sources]
  PROVE  Step(r)
<1>1. WorkType(r)'
  BY WorkOf DEF WorkType, At, UserOf, SourceOf, Uncounted
<1> QED BY <1>1 DEF Step, AppTypes, SourceTables, Uncounted

\* The insert commits, and the answer may be lost.
LEMMA CommitStep ==
  ASSUME AppTypes, NEW r \in Slots, Commit(r) \/ CommitUnheard(r)
  PROVE  Step(r)
<1>1. /\ At(r, "commit") /\ faults' \in 0..MaxFaults
      /\ UNCHANGED <<feeds, senders, routes, asked, history>>
  BY DEF Commit, CommitUnheard, Fault, AppTypes
<1>2. CASE Answer(r, "error") /\ UNCHANGED <<subs, steady, faults>>
  BY <1>1, <1>2, LookAnswers DEF At, Replies, Look
<1>3. CASE Key(r) \notin subs /\ subs' = subs \cup {Key(r)} /\ Disturb(r) /\ Answer(r, "error")
  <2>1. Alone(r) /\ work'[r] = [work[r] EXCEPT !.at = "answered", !.reply = "error"]
    BY <1>3, WorkOf, Answering DEF Replies
  <2>2. work'[r].at = "answered" /\ work'[r].user = UserOf(r)
    BY <2>1, WorkOf DEF Requested, UserOf
  <2>3. Committed(r)
    BY <1>1, <1>3, <2>2 DEF Committed, history
  <2> QED BY <1>1, <1>3, <2>1, <2>2, <2>3, Ends, DisturbTypes DEF Kind, AppTypes, At
<1>4. CASE Key(r) \notin subs /\ subs' = subs \cup {Key(r)} /\ Disturb(r) /\ Goto(r, "resolve")
  <2>1. Alone(r) /\ work'[r] = [work[r] EXCEPT !.at = "resolve"]
    BY <1>4, WorkOf, Going DEF Stages
  <2>2. WorkType(r)' /\ work'[r].at = "resolve"
    BY <1>1, <2>1, WorkOf DEF WorkType, At, UserOf, SourceOf, Requested, Uncounted
  <2>3. Committed(r)
    BY <1>1, <1>4, <2>1 DEF Committed, history
  <2> QED BY <1>1, <1>4, <2>1, <2>2, <2>3, DisturbTypes
      DEF Step, Kind, AppTypes, SourceTables, Uncounted
<1> QED BY <1>2, <1>3, <1>4, Refusing DEF Commit, CommitUnheard

\* The route is written, or named.
LEMMA ResolveStep ==
  ASSUME AppTypes, NEW r \in Slots, ResolveFeedList(r)
  PROVE  Step(r)
<1>1. At(r, "resolve") /\ UNCHANGED <<feeds, subs, senders, asked, faults, history>>
  BY DEF ResolveFeedList
<1>2. CASE /\ work[r].list # None /\ Upsert(Key(r), work[r].list)
           /\ Disturb(r) /\ Answer(r, "created")
  <2>1. Alone(r) /\ work'[r] = [work[r] EXCEPT !.at = "answered", !.reply = "created"]
    BY <1>2, WorkOf, Answering DEF Replies
  <2>2. work'[r].at = "answered" /\ work'[r].user = UserOf(r)
    BY <2>1, WorkOf DEF Requested, UserOf
  <2>3. Routed(r)
    BY <1>1, <1>2, <2>2 DEF Routed, Upsert, history
  <2> QED BY <1>1, <1>2, <2>1, <2>2, <2>3, Ends, DisturbTypes DEF Kind, AppTypes, At
<1>3. CASE /\ work[r].list = None /\ UNCHANGED <<routes, steady>>
           /\ work' = [work EXCEPT ![r].at = "answered", ![r].reply = "created",
                                   ![r].list = ListOf(UserOf(r), SourceOf(r))]
  <2> DEFINE v == [work[r] EXCEPT !.at = "answered"]
             x == [v EXCEPT !.reply = "created"]
             w == [x EXCEPT !.list = ListOf(UserOf(r), SourceOf(r))]
  <2>1. ListOf(UserOf(r), SourceOf(r)) \in Lists
    BY <1>1, WorkOf DEF ListOf, AppTypes, SourceTables, At, Sources
  <2>2. v \in Requested
    BY WorkOf DEF Requested, Stages
  <2>3. x \in Requested
    BY <2>2 DEF Requested, Replies
  <2>4. w \in Requested /\ w.at = "answered" /\ w.user = UserOf(r)
    BY <2>1, <2>3, WorkOf DEF Requested, UserOf
  <2>5. work' = [work EXCEPT ![r] = w]
    BY <1>3, WorkOf
  <2> HIDE DEF w
  <2>6. Alone(r) /\ work'[r] = w
    BY <2>4, <2>5, WorkOf, Placing
  <2>7. Aside(r)
    BY <1>1, <1>3, <2>4, <2>6 DEF Aside, At, history
  <2> QED BY <1>1, <1>3, <2>4, <2>6, <2>7, Ends DEF Kind, AppTypes, HistoryTypes, At
<1> QED BY <1>2, <1>3 DEF ResolveFeedList

\* Unsubscribing.
LEMMA FindStep ==
  ASSUME AppTypes, NEW r \in Slots, Find(r)
  PROVE  Step(r)
<1>1. Look(r) /\ At(r, "find")
  BY DEF Find
<1>2. CASE Answer(r, "not found")
  BY <1>1, <1>2, LookAnswers DEF At, Replies
<1>3. CASE Goto(r, "delete")
  BY <1>1, <1>3, LookGoes, WorkOf DEF At
<1> QED BY <1>2, <1>3, Refusing DEF Find

\* The subscription goes, and the answer may be lost,
LEMMA DeleteStep ==
  ASSUME AppTypes, NEW r \in Slots, Delete(r) \/ DeleteUnheard(r)
  PROVE  Step(r)
<1>1. /\ At(r, "delete") /\ faults' \in 0..MaxFaults
      /\ UNCHANGED <<feeds, senders, routes, asked, overlapped>>
  BY DEF Delete, DeleteUnheard, Fault, AppTypes
<1>2. CASE Answer(r, "not found") /\ UNCHANGED <<subs, strayed, steady, faults>>
  BY <1>1, <1>2, LookAnswers DEF At, Replies, Look, history
<1>3. CASE DeleteByUserAndFeed(r) /\ Answer(r, "error") /\ strayed' = strayed \cup {Key(r)}
  <2>1. Alone(r) /\ work'[r] = [work[r] EXCEPT !.at = "answered", !.reply = "error"]
    BY <1>3, WorkOf, Answering DEF Replies
  <2>2. work'[r].at = "answered" /\ work'[r].user = UserOf(r)
    BY <2>1, WorkOf DEF Requested, UserOf
  <2>3. Dropped(r)
    BY <1>1, <1>3, <2>2 DEF Dropped, DeleteByUserAndFeed
  <2> QED BY <1>1, <1>3, <2>1, <2>2, <2>3, Ends, DisturbTypes
      DEF Kind, AppTypes, At, DeleteByUserAndFeed
<1>4. CASE /\ DeleteByUserAndFeed(r) /\ Goto(r, "unroute")
           /\ strayed' = IF Routing(r) = {} THEN strayed ELSE strayed \cup {Key(r)}
  <2>1. Alone(r) /\ work'[r] = [work[r] EXCEPT !.at = "unroute"]
    BY <1>4, WorkOf, Going DEF Stages
  <2>2. WorkType(r)' /\ work'[r].at = "unroute"
    BY <1>1, <2>1, WorkOf DEF WorkType, At, UserOf, SourceOf, Requested, Uncounted
  <2>3. Dropped(r)
    BY <1>1, <1>4, <2>1 DEF Dropped, DeleteByUserAndFeed
  <2> QED BY <1>1, <1>4, <2>1, <2>2, <2>3, DisturbTypes
      DEF Step, Kind, AppTypes, SourceTables, Uncounted, DeleteByUserAndFeed
<1> QED BY <1>2, <1>3, <1>4, Refusing DEF Delete, DeleteUnheard

\* and then its route.
LEMMA UnrouteStep ==
  ASSUME AppTypes, NEW r \in Slots, Unroute(r)
  PROVE  Step(r)
<1>1. /\ At(r, "unroute") /\ UNCHANGED <<feeds, subs, senders, asked, faults, overlapped>>
      /\ DeleteRoute(Key(r)) /\ Disturb(r) /\ Answer(r, "unsubscribed")
      /\ strayed' = IF Routing(r) = {} THEN strayed \ {Key(r)} ELSE strayed
  BY DEF Unroute
<1>2. Alone(r) /\ work'[r] = [work[r] EXCEPT !.at = "answered", !.reply = "unsubscribed"]
  BY <1>1, WorkOf, Answering DEF Replies
<1>3. work'[r].at = "answered" /\ work'[r].user = UserOf(r)
  BY <1>2, WorkOf DEF Requested, UserOf
<1>4. Unrouted(r)
  BY <1>1, <1>3 DEF Unrouted, DeleteRoute
<1> QED BY <1>1, <1>2, <1>3, <1>4, Ends, DisturbTypes DEF Kind, AppTypes, At

\* Choosing a list.
LEMMA VerifyStep ==
  ASSUME AppTypes, NEW r \in Slots, Verify(r)
  PROVE  Step(r)
<1>1. Look(r) /\ At(r, "verify")
  BY DEF Verify
<1>2. CASE Answer(r, "not found")
  BY <1>1, <1>2, LookAnswers DEF At, Replies
<1>3. CASE /\ Goto(r, "upsert")
           /\ \E page \in ListUserSenders(UserOf(r)) : IsSubscribed(UserOf(r), SourceOf(r), page)
  <2>1. SourceOf(r) \in Feeds => Key(r) \in subs
    BY <1>3 DEF IsSubscribed, ListUserSubscriptions, GetByUserID, Key
  <2>2. Alone(r) /\ work'[r] = [work[r] EXCEPT !.at = "upsert"]
    BY <1>3, WorkOf, Going DEF Stages
  <2>3. /\ WorkType(r)' /\ work'[r].at = "upsert"
        /\ work'[r].user = UserOf(r) /\ work'[r].source = SourceOf(r)
    BY <1>1, <2>2, WorkOf DEF WorkType, At, UserOf, SourceOf, Requested, Uncounted
  <2>4. Aside(r)
    BY <1>1, <2>1, <2>3 DEF Aside, Look, history, At, Key
  <2> QED BY <1>1, <2>2, <2>3, <2>4
      DEF Step, Kind, AppTypes, HistoryTypes, SourceTables, Uncounted, Look
<1> QED BY <1>2, <1>3 DEF Verify

\* The list chosen becomes the route.
LEMMA SetSourceListStep ==
  ASSUME AppTypes, NEW r \in Slots, SetSourceList(r)
  PROVE  Step(r)
<1>1. /\ At(r, "upsert") /\ UNCHANGED <<feeds, subs, senders, asked, faults, history>>
      /\ Upsert(Key(r), work[r].list) /\ Disturb(r) /\ Answer(r, "routed")
  BY DEF SetSourceList
<1>2. Alone(r) /\ work'[r] = [work[r] EXCEPT !.at = "answered", !.reply = "routed"]
  BY <1>1, WorkOf, Answering DEF Replies
<1>3. work'[r].at = "answered" /\ work'[r].user = UserOf(r)
  BY <1>2, WorkOf DEF Requested, UserOf
<1>4. Routed(r)
  <2>1. routes' = [routes EXCEPT ![Key(r)] = work[r].list]
    BY <1>1 DEF Upsert
  <2>2. UNCHANGED <<feeds, subs, senders, overlapped, strayed>>
    BY <1>1 DEF history
  <2> QED BY <1>1, <1>3, <2>1, <2>2 DEF Routed
<1> QED BY <1>1, <1>2, <1>3, <1>4, Ends, DisturbTypes DEF Kind, AppTypes, At

\* Listing.
LEMMA ListsUsers ==
  ASSUME AppTypes, NEW u \in Users
  PROVE  ListUserSubscriptions(u) \subseteq Feeds /\ ListUserSenders(u) \subseteq SUBSET Senders
BY DEF ListUserSubscriptions, GetByUserID, ListUserSenders, SendersOf

\* A request that goes on with what a listing has found.
LEMMA Gathers ==
  ASSUME AppTypes, NEW r \in Slots, NEW w \in Requested, w.at \in {"email", "routes"},
         w.user = UserOf(r), w.reply = None, w.found \subseteq Sources,
         w.at = "email" => w.found \subseteq Feeds,
         At(r, "rss") \/ At(r, "email"), work' = [work EXCEPT ![r] = w],
         faults' \in 0..MaxFaults,
         UNCHANGED <<feeds, subs, senders, routes, asked, history, steady>>
  PROVE  Step(r)
<1>1. Alone(r) /\ work'[r] = w
  BY WorkOf, Placing
<1>2. WorkType(r)'
  BY <1>1, WorkOf DEF WorkType, At, UserOf, SourceOf, Uncounted
<1>3. Aside(r)
  BY <1>1 DEF Aside, history, At
<1> QED BY <1>1, <1>2, <1>3 DEF Step, Kind, AppTypes, SourceTables, HistoryTypes, Uncounted

\* A listing asks the fetcher,
LEMMA FetchRSSStep ==
  ASSUME AppTypes, NEW r \in Slots, FetchRSSSubscriptions(r)
  PROVE  Step(r)
<1>1. /\ At(r, "rss") /\ faults' \in 0..MaxFaults /\ UserOf(r) \in Users
      /\ UNCHANGED <<feeds, subs, senders, routes, asked, history, steady>>
  BY WorkOf DEF FetchRSSSubscriptions, RSSUnanswered, Fault, AppTypes, At
<1>2. work[r].found \subseteq Feeds /\ work[r].reply = None
  BY <1>1, WorkOf DEF WorkType, At
<1> DEFINE v == [work[r] EXCEPT !.at = "email"]
           x == [v EXCEPT !.found = ListUserSubscriptions(UserOf(r))]
           y == [v EXCEPT !.failed = @ \cup {"rss"}]
<1>3. /\ v \in Requested /\ v.at = "email" /\ v.user = UserOf(r)
      /\ v.reply = None /\ v.found \subseteq Feeds
  BY <1>2, WorkOf DEF Requested, Stages, UserOf
<1> HIDE DEF v
<1>4. /\ x \in Requested /\ x.at = "email" /\ x.user = UserOf(r)
      /\ x.reply = None /\ x.found \subseteq Feeds
  BY <1>1, <1>3, ListsUsers DEF Requested, Sources
<1>5. /\ y \in Requested /\ y.at = "email" /\ y.user = UserOf(r)
      /\ y.reply = None /\ y.found \subseteq Feeds
  BY <1>3 DEF Requested
<1>6. work' = [work EXCEPT ![r] = x] \/ work' = [work EXCEPT ![r] = y]
  <2>1. CASE work' = [work EXCEPT ![r].at = "email", ![r].found = ListUserSubscriptions(UserOf(r))]
    BY <2>1, WorkOf DEF v
  <2>2. CASE work' = [work EXCEPT ![r].at = "email", ![r].failed = @ \cup {"rss"}]
    BY <2>2, WorkOf DEF v
  <2> QED BY <2>1, <2>2 DEF FetchRSSSubscriptions, RSSUnanswered, SkipSource
<1> HIDE DEF x, y
<1>7. Feeds \subseteq Sources
  BY DEF Sources
<1> QED BY <1>1, <1>4, <1>5, <1>6, <1>7, Gathers

\* the email service,
LEMMA FetchEmailStep ==
  ASSUME AppTypes, NEW r \in Slots, FetchEmailSubscriptions(r)
  PROVE  Step(r)
<1>1. /\ At(r, "email") /\ faults' \in 0..MaxFaults /\ UserOf(r) \in Users
      /\ UNCHANGED <<feeds, subs, senders, routes, asked, history, steady>>
  BY WorkOf DEF FetchEmailSubscriptions, EmailUnanswered, Fault, AppTypes, At
<1>2. work[r].found \subseteq Sources /\ work[r].reply = None
  BY <1>1, WorkOf DEF WorkType, At, Sources
<1> DEFINE v == [work[r] EXCEPT !.at = "routes"]
           x(page) == [v EXCEPT !.found = @ \cup page]
           y == [v EXCEPT !.failed = @ \cup {"email"}]
<1>3. /\ v \in Requested /\ v.at = "routes" /\ v.user = UserOf(r)
      /\ v.reply = None /\ v.found \subseteq Sources
  BY <1>2, WorkOf DEF Requested, Stages, UserOf
<1> HIDE DEF v
<1>4. ASSUME NEW page \in ListUserSenders(UserOf(r)), work' = [work EXCEPT ![r] = x(page)]
      PROVE  Step(r)
  <2>1. page \subseteq Sources
    BY <1>1, ListsUsers DEF Sources
  <2>2. x(page) \in Requested /\ x(page).at = "routes" /\ x(page).user = UserOf(r)
        /\ x(page).reply = None /\ x(page).found \subseteq Sources
    BY <1>3, <2>1 DEF Requested
  <2> HIDE DEF x
  <2> QED BY <1>1, <1>4, <2>2, Gathers
<1>5. /\ y \in Requested /\ y.at = "routes" /\ y.user = UserOf(r)
      /\ y.reply = None /\ y.found \subseteq Sources
  BY <1>3 DEF Requested
<1>6. \/ \E page \in ListUserSenders(UserOf(r)) : work' = [work EXCEPT ![r] = x(page)]
      \/ work' = [work EXCEPT ![r] = y]
  <2>1. ASSUME NEW page \in ListUserSenders(UserOf(r)),
               work' = [work EXCEPT ![r].at = "routes", ![r].found = @ \cup page]
        PROVE  work' = [work EXCEPT ![r] = x(page)]
    <3> DEFINE sent == [work EXCEPT ![r].at = "routes"]
    <3>1. sent = [work EXCEPT ![r] = v] /\ work \in [Slots -> Requested]
      BY WorkOf DEF v
    <3>2. work' = [sent EXCEPT ![r].found = @ \cup page]
      BY <2>1
    <3> HIDE DEF sent
    <3>3. sent \in [Slots -> Requested] /\ sent[r] = v
      BY <1>3, <3>1
    <3>4. work' = [sent EXCEPT ![r] = x(page)]
      BY <3>2, <3>3
    <3> HIDE DEF x
    <3> QED BY <3>1, <3>3, <3>4
  <2>2. ASSUME work' = [work EXCEPT ![r].at = "routes", ![r].failed = @ \cup {"email"}]
        PROVE  work' = [work EXCEPT ![r] = y]
    BY <2>2, WorkOf DEF v
  <2> QED BY <2>1, <2>2 DEF FetchEmailSubscriptions, EmailUnanswered, SkipSource
<1> HIDE DEF x, y
<1> QED BY <1>1, <1>4, <1>5, <1>6, Gathers

\* and stamps what it has found.
LEMMA ListAllStep ==
  ASSUME AppTypes, NEW r \in Slots, ListAllSubscriptions(r)
  PROVE  Step(r)
<1>1. At(r, "routes") /\ Look(r) /\ UserOf(r) \in Users
  BY WorkOf DEF ListAllSubscriptions, At
<1>2. work[r].found \subseteq Sources
  BY <1>1, WorkOf DEF WorkType, At
<1> DEFINE stamped == Stamped(work[r].found, ListByUser(UserOf(r)))
           v == [work[r] EXCEPT !.at = "answered"]
           x == [v EXCEPT !.reply = "listed"]
           w == [x EXCEPT !.found = stamped]
<1>3. stamped \subseteq Sources \X Lists
  <2>1. \A s \in work[r].found : ListByUser(UserOf(r))[s] \in Lists \cup {None}
    BY <1>1, <1>2 DEF ListByUser, AppTypes, SourceTables
  <2> QED BY <1>2, <2>1 DEF Stamped
<1> HIDE DEF stamped
<1>4. x \in Requested /\ x.at = "answered" /\ x.user = UserOf(r)
  <2>1. v \in Requested /\ v.at = "answered" /\ v.user = UserOf(r)
    BY WorkOf DEF Requested, Stages, UserOf
  <2> QED BY <2>1 DEF Requested, Replies
<1> HIDE DEF x
<1>5. w \in Requested /\ w.at = "answered" /\ w.user = UserOf(r)
  BY <1>3, <1>4 DEF Requested
<1>6. work' = [work EXCEPT ![r] = w]
  BY WorkOf DEF ListAllSubscriptions, x, stamped
<1> HIDE DEF w
<1>7. Alone(r) /\ work'[r] = w
  BY <1>5, <1>6, WorkOf, Placing
<1>8. Aside(r)
  BY <1>1, <1>5, <1>7 DEF Aside, Look, history, At
<1> QED BY <1>1, <1>5, <1>7, <1>8, Ends DEF Look, Kind, AppTypes, HistoryTypes, At

\* A request that fails, and one that is over.
LEMMA FailStep ==
  ASSUME AppTypes, NEW r \in Slots, Fail(r)
  PROVE  Step(r)
<1>1. /\ ~ At(r, "idle") /\ Answer(r, "error") /\ faults' \in 0..MaxFaults
      /\ strayed' = IF At(r, "unroute") THEN strayed \cup {Key(r)} ELSE strayed
      /\ UNCHANGED <<feeds, subs, senders, routes, asked, overlapped, steady>>
  BY DEF Fail, Fault, AppTypes, At
<1>2. Alone(r) /\ work'[r] = [work[r] EXCEPT !.at = "answered", !.reply = "error"]
  BY <1>1, WorkOf, Answering DEF Replies
<1>3. work'[r].at = "answered" /\ work'[r].user = UserOf(r)
  BY <1>2, WorkOf DEF Requested, UserOf
<1>4. Aside(r) \/ LeftRouted(r)
  BY <1>1, <1>3 DEF Aside, LeftRouted
<1> QED BY <1>1, <1>2, <1>3, <1>4, Ends DEF Kind, AppTypes, HistoryTypes

\* The slot is free again.
LEMMA FinishStep ==
  ASSUME AppTypes, NEW r \in Slots, Finish(r)
  PROVE  Step(r)
<1>1. /\ At(r, "answered") /\ work' = [work EXCEPT ![r] = Idle]
      /\ steady' = [steady EXCEPT ![r] = {}]
      /\ UNCHANGED <<feeds, subs, senders, routes, asked, faults, history>>
  BY DEF Finish
<1>2. Idle \in Requested /\ Idle.at = "idle" /\ Idle.reply = None
  BY DEF Idle, Requested, Stages
<1>3. Alone(r) /\ work'[r] = Idle
  BY <1>1, <1>2, WorkOf, Placing
<1>4. WorkType(r)'
  BY <1>2, <1>3 DEF WorkType, At, Uncounted
<1>5. Aside(r) /\ steady' \in [Slots -> SUBSET Sources]
  BY <1>1, <1>2, <1>3 DEF Aside, At, history, AppTypes, HistoryTypes
<1> QED BY <1>1, <1>2, <1>3, <1>4, <1>5
    DEF Step, Kind, AppTypes, SourceTables, Uncounted

\* A new request.
LEMMA Starts ==
  ASSUME AppTypes, NEW r \in Slots, At(r, "idle"), asked < MaxRequests, asked' = asked + 1,
         NEW w \in Requested, work' = [work EXCEPT ![r] = w], w.user \in Users,
         w.at \in {"count", "find", "verify", "rss", "answered"},
         w.at \in {"count", "find"} => w.source \in Feeds,
         w.at = "verify" => w.source \in Sources /\ w.list \in Lists,
         w.at = "rss" => w.found = {}, w.at # "answered" => w.reply = None,
         steady' = [steady EXCEPT ![r] = Sources],
         UNCHANGED <<feeds, subs, senders, routes, faults, history>>
  PROVE  Step(r)
<1>1. Alone(r) /\ work'[r] = w
  BY WorkOf, Placing
<1>2. WorkType(r)'
  BY <1>1 DEF WorkType, At, UserOf, SourceOf, Uncounted
<1>3. Aside(r) /\ steady' \in [Slots -> SUBSET Sources]
  BY <1>1 DEF Aside, At, history, AppTypes, HistoryTypes
<1> QED BY <1>1, <1>2, <1>3 DEF Step, Kind, AppTypes, SourceTables, Uncounted

\* A request that goes to its first statement,
LEMMA BeginStep ==
  ASSUME AppTypes, NEW r \in Slots, NEW u \in Users, NEW s \in Sources \cup {None},
         NEW list \in Lists \cup {None}, NEW stage \in {"count", "find", "verify", "rss"},
         stage \in {"count", "find"} => s \in Feeds,
         stage = "verify" => s \in Sources /\ list \in Lists, Begin(r, u, s, list, stage)
  PROVE  Step(r)
<1> DEFINE w == [Idle EXCEPT !.at = stage, !.user = u, !.source = s, !.list = list]
<1>1. w \in Requested
  BY DEF Idle, Requested, Stages
<1>2. w.user = u /\ w.at = stage /\ w.source = s /\ w.list = list /\ w.found = {} /\ w.reply = None
  BY DEF Idle
<1>3. /\ At(r, "idle") /\ asked < MaxRequests /\ asked' = asked + 1
      /\ work' = [work EXCEPT ![r] = w] /\ steady' = [steady EXCEPT ![r] = Sources]
      /\ UNCHANGED <<feeds, subs, senders, routes, faults, history>>
  BY DEF Begin
<1> HIDE DEF w
<1> QED BY <1>1, <1>2, <1>3, Starts

\* or is refused at once.
LEMMA AskStep ==
  ASSUME AppTypes, NEW r \in Slots, Ask(r)
  PROVE  Step(r)
<1>1. PICK u \in Users :
        \/ \E f \in Feeds, list \in Lists \cup {None} : Submit(r, u, f, list)
        \/ \E f \in Feeds : Unsubscribe(r, u, f)
        \/ \E s \in Sources, list \in Lists : Choose(r, u, s, list)
        \/ List(r, u)
  BY DEF Ask
<1>2. ASSUME NEW f \in Feeds, NEW list \in Lists \cup {None}, Submit(r, u, f, list)
      PROVE  Step(r)
  <2>1. CASE Begin(r, u, f, list, "count")
    BY <2>1, BeginStep DEF Sources
  <2>2. CASE /\ At(r, "idle") /\ asked < MaxRequests /\ asked' = asked + 1
             /\ work' = [work EXCEPT ![r] = [Idle EXCEPT !.at = "answered", !.user = u,
                                               !.source = f, !.reply = "bad request"]]
             /\ steady' = [steady EXCEPT ![r] = Sources]
             /\ UNCHANGED <<feeds, subs, senders, routes, faults, history>>
    <3> DEFINE w == [Idle EXCEPT !.at = "answered", !.user = u, !.source = f, !.reply = "bad request"]
    <3>1. w \in Requested /\ w.user = u /\ w.at = "answered"
      BY DEF Idle, Requested, Stages, Replies, Sources
    <3> HIDE DEF w
    <3>2. work' = [work EXCEPT ![r] = w]
      BY <2>2 DEF w
    <3> QED BY <2>2, <3>1, <3>2, Starts
  <2> QED BY <1>2, <2>1, <2>2 DEF Submit
<1>3. ASSUME NEW f \in Feeds, Unsubscribe(r, u, f)
      PROVE  Step(r)
  BY <1>3, BeginStep DEF Unsubscribe, Sources
<1>4. ASSUME NEW s \in Sources, NEW list \in Lists, Choose(r, u, s, list)
      PROVE  Step(r)
  BY <1>4, BeginStep DEF Choose
<1>5. CASE List(r, u)
  BY <1>5, BeginStep DEF List
<1> QED BY <1>1, <1>2, <1>3, <1>4, <1>5

\* Every step of a request is of one of the kinds.
LEMMA RequestSteps ==
  ASSUME AppTypes, NEW r \in Slots, Ask(r) \/ Serve(r) \/ Finish(r)
  PROVE  Step(r)
BY AskStep, FinishStep, CountStep, LookUpStep, CheckStep, ValidateStep, CreateFeedStep,
   CheckFeedLimitStep, CommitStep, ResolveStep, FindStep, DeleteStep, UnrouteStep, VerifyStep,
   SetSourceListStep, FetchRSSStep, FetchEmailStep, ListAllStep, FailStep
   DEF Serve

\* A sender that writes for the first time.
LEMMA ReceiveSteps ==
  ASSUME AppTypes, NEW u \in Users, NEW s \in Senders, Receive(u, s)
  PROVE  /\ senders' = senders \cup {<<u, s>>}
         /\ UNCHANGED <<feeds, subs, routes, work, asked, faults, overlapped, strayed>>
         /\ AppTypes'
<1>1. /\ senders' = senders \cup {<<u, s>>}
      /\ steady' = [q \in Slots |-> IF UserOf(q) = u THEN steady[q] \ {s} ELSE steady[q]]
      /\ UNCHANGED <<feeds, subs, routes, work, asked, faults, overlapped, strayed>>
  BY DEF Receive, history
<1>2. SourceTables' /\ HistoryTypes'
  BY <1>1 DEF AppTypes, SourceTables, HistoryTypes
<1>3. WorkTypes'
  BY <1>1 DEF AppTypes, WorkTypes, WorkType, At, UserOf, SourceOf
<1> QED BY <1>1, <1>2, <1>3 DEF AppTypes

\* The types hold after every step of a request.
LEMMA StepTypes ==
  ASSUME AppTypes, NEW r \in Slots, Step(r)
  PROVE  AppTypes'
<1>1. Key(r) = <<UserOf(r), SourceOf(r)>>
  BY DEF Key
<1>2. WorkTypes'
  <2>1. WorkType(r)' /\ Alone(r) /\ feeds \subseteq feeds'
    BY DEF Step
  <2>2. ASSUME NEW q \in Slots \ {r}
        PROVE  WorkType(q)'
    <3>1. work'[q] = work[q] /\ WorkType(q)
      BY <2>1, WorkOf DEF Alone
    <3> QED BY <2>1, <3>1 DEF WorkType, At, UserOf, SourceOf
  <2> QED BY <2>1, <2>2 DEF WorkTypes, Alone
<1>3. CASE Aside(r) \/ Counted(r)
  <2>1. UNCHANGED <<subs, senders, routes, strayed>> /\ overlapped' \in [Users -> Nat]
    BY <1>3 DEF Aside, Counted, AppTypes, HistoryTypes
  <2> QED BY <1>2, <2>1 DEF Step, AppTypes, SourceTables, HistoryTypes
<1>4. CASE Committed(r)
  <2>1. /\ UserOf(r) \in Users /\ SourceOf(r) \in feeds /\ subs' = subs \cup {Key(r)}
        /\ UNCHANGED <<senders, routes, overlapped, strayed>>
    BY <1>4, WorkOf DEF Committed, WorkType, At
  <2>2. feeds \subseteq feeds' /\ subs \subseteq Users \X feeds
    BY DEF Step, AppTypes, SourceTables
  <2>3. subs' \subseteq Users \X feeds'
    BY <1>1, <2>1, <2>2
  <2> QED BY <1>2, <2>1, <2>3 DEF Step, AppTypes, SourceTables, HistoryTypes
<1>5. CASE Routed(r)
  <2>1. work[r].list \in Lists /\ routes' = [routes EXCEPT ![Key(r)] = work[r].list]
        /\ UNCHANGED <<subs, senders, overlapped, strayed>>
    BY <1>5, WorkOf DEF Routed, WorkType, At, Requested
  <2>2. routes' \in [Users \X Sources -> Lists \cup {None}]
    BY <2>1 DEF AppTypes, SourceTables
  <2>3. subs' \subseteq Users \X feeds'
    BY <2>1 DEF Step, AppTypes, SourceTables
  <2> QED BY <1>2, <2>1, <2>2, <2>3 DEF Step, AppTypes, SourceTables, HistoryTypes
<1>6. CASE Dropped(r) \/ Unrouted(r) \/ LeftRouted(r)
  <2>1. Key(r) \in Users \X Feeds
    BY <1>1, <1>6, WorkOf DEF Dropped, Unrouted, LeftRouted, At
  <2>2. /\ subs' \subseteq subs /\ strayed' \subseteq Users \X Feeds
        /\ routes' \in [Users \X Sources -> Lists \cup {None}]
        /\ UNCHANGED <<senders, overlapped>>
    BY <1>6, <2>1 DEF Dropped, Unrouted, LeftRouted, AppTypes, SourceTables, HistoryTypes
  <2> QED BY <1>2, <2>2 DEF Step, AppTypes, SourceTables, HistoryTypes
<1> QED BY <1>3, <1>4, <1>5, <1>6 DEF Step, Kind

-----------------------------------------------------------------------------
(* Counting.                                                                *)

\* The sizes of the subsets of a finite set.
LEMMA Sizes ==
  ASSUME NEW T, IsFiniteSet(T), NEW S \in SUBSET T
  PROVE  /\ IsFiniteSet(S) /\ Cardinality(S) \in Nat
         /\ \A R \in SUBSET S : Cardinality(R) <= Cardinality(S)
         /\ \A x \in T : Cardinality(S \cup {x}) <= Cardinality(S) + 1
         /\ \A x \in S : Cardinality(S \ {x}) = Cardinality(S) - 1
<1>1. IsFiniteSet(S) /\ Cardinality(S) \in Nat
  BY FS_Subset, FS_CardinalityType
<1>2. \A R \in SUBSET S : Cardinality(R) <= Cardinality(S)
  BY <1>1, FS_Subset
<1>3. \A x \in T : Cardinality(S \cup {x}) <= Cardinality(S) + 1
  <2>1. ASSUME NEW x \in T
        PROVE  Cardinality(S \cup {x}) <= Cardinality(S) + 1
    <3> DEFINE n == Cardinality(S)
               m == Cardinality(S \cup {x})
    <3>1. m = IF x \in S THEN n ELSE n + 1
      BY <1>1, FS_AddElement, Zenon
    <3>2. n \in Nat
      BY <1>1
    <3> HIDE DEF n, m
    <3>3. m <= n + 1
      BY <3>1, <3>2
    <3> QED BY <3>3 DEF n, m
  <2> QED BY <2>1
<1>4. \A x \in S : Cardinality(S \ {x}) = Cardinality(S) - 1
  BY <1>1, FS_RemoveElement
<1> QED BY <1>1, <1>2, <1>3, <1>4

\* The feeds are some of the sources,
LEMMA FeedsFinite == IsFiniteSet(Feeds)
BY FS_Subset DEF Sources

\* and so are the senders.
LEMMA SendersFinite == IsFiniteSet(Senders)
BY FS_Subset DEF Sources

\* An insert that overlaps another was waiting before.
LEMMA StepOverlaps ==
  ASSUME AppTypes, OverlapInv, NEW r \in Slots, Step(r)
  PROVE  OverlapInv'
<1>1. /\ Before \in SUBSET Slots /\ Before' \in SUBSET Slots
      /\ asked \in Nat /\ asked' \in Nat /\ asked <= asked'
      /\ \A q \in Slots \ {r} : q \in Before' <=> q \in Before
  BY DEF Before, AppTypes, Step, Alone
<1>2. CASE Counted(r)
  <2>1. r \in Before /\ Before' = Before \ {r}
    BY <1>1, <1>2, WorkOf DEF Counted, Before, At, Uncounted, Requested
  <2>2. Cardinality(Before') = Cardinality(Before) - 1 /\ Cardinality(Before) \in Nat
    BY <1>1, <2>1, Sizes
  <2>3. \A u \in Users : overlapped'[u] <= overlapped[u] + 1 /\ overlapped'[u] \in Nat
    BY <1>2 DEF Counted, AppTypes, HistoryTypes
  <2> QED BY <1>1, <2>2, <2>3 DEF OverlapInv, AppTypes, HistoryTypes
<1>3. CASE overlapped' = overlapped
  <2>1. CASE Before' \in SUBSET Before
    <3>1. Cardinality(Before') <= Cardinality(Before) /\ Cardinality(Before) \in Nat
          /\ Cardinality(Before') \in Nat
      BY <1>1, <2>1, Sizes
    <3> QED BY <1>1, <1>3, <3>1 DEF OverlapInv, AppTypes, HistoryTypes
  <2>2. CASE r \in Before' /\ r \notin Before
    <3>1. Before' = Before \cup {r} /\ asked' = asked + 1
      BY <1>1, <2>2 DEF Step, Before
    <3>2. Cardinality(Before') <= Cardinality(Before) + 1 /\ Cardinality(Before) \in Nat
          /\ Cardinality(Before') \in Nat
      BY <1>1, <3>1, Sizes
    <3> QED BY <1>1, <1>3, <3>1, <3>2 DEF OverlapInv, AppTypes, HistoryTypes
  <2> QED BY <1>1, <2>1, <2>2
<1> QED BY <1>2, <1>3
    DEF Step, Kind, Aside, Committed, Routed, Dropped, Unrouted, LeftRouted

\* The trigger lets one past the limit only if another was not yet committed.
LEMMA StepLimit ==
  ASSUME AppTypes, LimitInv, NEW r \in Slots, Step(r)
  PROVE  LimitInv'
<1> SUFFICES ASSUME NEW u \in Users
             PROVE  (CountByUserID(u) + Cardinality(Committing(u)) <= MaxFeedsPerUser + overlapped[u])'
  BY DEF LimitInv
<1>1. /\ GetByUserID(u) \in SUBSET Feeds /\ GetByUserID(u)' \in SUBSET Feeds
      /\ Committing(u) \in SUBSET Slots /\ Committing(u)' \in SUBSET Slots
      /\ \A q \in Slots \ {r} : q \in Committing(u)' <=> q \in Committing(u)
  BY DEF GetByUserID, Committing, At, UserOf, Step, Alone
<1>2. /\ CountByUserID(u) \in Nat /\ CountByUserID(u)' \in Nat
      /\ Cardinality(Committing(u)) \in Nat /\ Cardinality(Committing(u)') \in Nat
      /\ overlapped[u] \in Nat
  BY <1>1, Sizes, FeedsFinite DEF CountByUserID, AppTypes, HistoryTypes
<1>3. CountByUserID(u) + Cardinality(Committing(u)) <= MaxFeedsPerUser + overlapped[u]
  BY DEF LimitInv
<1>4. ASSUME subs' \subseteq subs, overlapped' = overlapped, ~ At(r, "commit")', CountByUserID(u)' \in Nat
      PROVE  (CountByUserID(u) + Cardinality(Committing(u)) <= MaxFeedsPerUser + overlapped[u])'
  <2>1. GetByUserID(u)' \in SUBSET GetByUserID(u) /\ Committing(u)' \in SUBSET Committing(u)
    BY <1>1, <1>4 DEF GetByUserID, Committing
  <2>2. CountByUserID(u)' <= CountByUserID(u) /\ Cardinality(Committing(u)') <= Cardinality(Committing(u))
    BY <1>1, <2>1, Sizes, FeedsFinite DEF CountByUserID
  <2> QED BY <1>2, <1>3, <1>4, <2>2
<1>5. CASE Counted(r)
  <2>1. /\ At(r, "insert") /\ work'[r].at = "commit" /\ work'[r].user = UserOf(r)
        /\ CountByUserID(UserOf(r)) < MaxFeedsPerUser /\ CountByUserID(u)' = CountByUserID(u)
        /\ overlapped' = IF Overlaps(r) THEN [overlapped EXCEPT ![UserOf(r)] = @ + 1] ELSE overlapped
    BY <1>5, WorkOf DEF Counted, Requested, UserOf, CountByUserID, GetByUserID
  <2>2. CASE u = UserOf(r)
    <3>1. Committing(u)' = Committing(u) \cup {r}
      BY <1>1, <2>1, <2>2 DEF Committing, At, UserOf
    <3>2. Cardinality(Committing(u)') <= Cardinality(Committing(u)) + 1
      BY <1>1, <3>1, Sizes
    <3>3. CASE Overlaps(r)
      <4>1. overlapped'[u] = overlapped[u] + 1
        BY <2>1, <2>2, <3>3 DEF AppTypes, HistoryTypes
      <4> QED BY <1>2, <1>3, <2>1, <3>2, <4>1
    <3>4. CASE ~ Overlaps(r)
      <4>1. Committing(u) = {}
        BY <2>1, <2>2, <3>4 DEF Overlaps, Committing, At
      <4>2. Cardinality(Committing(u)) = 0
        BY <4>1, FS_EmptySet
      <4> QED BY <1>2, <2>1, <2>2, <3>2, <3>4, <4>2
    <3> QED BY <3>3, <3>4
  <2>3. CASE u # UserOf(r)
    <3>1. Committing(u)' = Committing(u) /\ overlapped'[u] = overlapped[u]
      BY <1>1, <2>1, <2>3 DEF Committing, At, UserOf, AppTypes, HistoryTypes
    <3> QED BY <1>2, <1>3, <2>1, <3>1
  <2> QED BY <2>2, <2>3
<1>6. CASE Committed(r)
  <2>1. /\ At(r, "commit") /\ work'[r].at # "commit" /\ subs' = subs \cup {<<UserOf(r), SourceOf(r)>>}
        /\ overlapped' = overlapped
    BY <1>6, WorkOf DEF Committed, Requested, Key
  <2>2. CASE u = UserOf(r)
    <3>1. SourceOf(r) \in Feeds
      BY <2>1, WorkOf DEF At
    <3>2. GetByUserID(u)' = GetByUserID(u) \cup {SourceOf(r)}
      BY <2>1, <2>2, <3>1 DEF GetByUserID
    <3>3. CountByUserID(u)' <= CountByUserID(u) + 1
      BY <1>1, <3>1, <3>2, Sizes, FeedsFinite DEF CountByUserID
    <3>4. r \in Committing(u) /\ Committing(u)' = Committing(u) \ {r}
      BY <1>1, <2>1, <2>2 DEF Committing, At, UserOf
    <3>5. Cardinality(Committing(u)') = Cardinality(Committing(u)) - 1
      BY <1>1, <3>4, Sizes
    <3> QED BY <1>2, <1>3, <2>1, <3>3, <3>5
  <2>3. CASE u # UserOf(r)
    <3>1. GetByUserID(u)' = GetByUserID(u)
      BY <2>1, <2>3 DEF GetByUserID
    <3>2. Committing(u)' = Committing(u)
      BY <1>1, <2>1, <2>3 DEF Committing, At, UserOf
    <3> QED BY <1>2, <1>3, <2>1, <3>1, <3>2 DEF CountByUserID
  <2> QED BY <2>2, <2>3
<1>7. CASE Aside(r) \/ Routed(r) \/ Dropped(r) \/ Unrouted(r) \/ LeftRouted(r)
  <2>1. subs' \subseteq subs /\ overlapped' = overlapped
    BY <1>7 DEF Aside, Routed, Dropped, Unrouted, LeftRouted
  <2>2. ~ At(r, "commit")'
    BY <1>7, WorkOf DEF Aside, Routed, Dropped, Unrouted, LeftRouted, At, Requested
  <2> QED BY <1>2, <1>4, <2>1, <2>2
<1> QED BY <1>5, <1>6, <1>7 DEF Step, Kind

-----------------------------------------------------------------------------
(* Routes.                                                                  *)

\* An unsubscription on its way to a route is on its way still, if it is not r.
LEMMA OthersUnroute ==
  ASSUME NEW r \in Slots, Alone(r), NEW key, NEW q \in Slots \ {r}, At(q, "unroute"), Key(q) = key
  PROVE  \E p \in Slots : (At(p, "unroute") /\ Key(p) = key)'
BY DEF Alone, At, Key, UserOf, SourceOf

\* The writers after a step, but for the one that takes it.
LEMMA OthersWrite ==
  ASSUME NEW r \in Slots, Alone(r), NEW u, NEW f, NEW q \in Slots \ {r}, WillRoute(q, u, f)'
  PROVE  WillRoute(q, u, f)
BY DEF Alone, WillRoute, At, UserOf, SourceOf

\* Every step leaves each route with a subscription, with a request on the way to it,
\* or on record.
LEMMA StepRoutes ==
  ASSUME AppTypes, RouteInv, NEW r \in Slots, Step(r)
  PROVE  RouteInv'
<1>0. Alone(r) /\ Kind(r) /\ Key(r) = <<UserOf(r), SourceOf(r)>>
  BY DEF Step, Key
<1> DEFINE Astray(key) == routes[key] # None /\ key \notin subs /\ key \notin strayed
           Leaving(key) == \E q \in Slots : At(q, "unroute") /\ Key(q) = key
<1>1. ASSUME NEW u \in Users, NEW f \in Feeds, Astray(<<u, f>>)'
      PROVE  Leaving(<<u, f>>)'
  <2>1. ASSUME Astray(<<u, f>>), ~ At(r, "unroute") \/ Key(r) # <<u, f>>
        PROVE  Leaving(<<u, f>>)'
    <3>1. PICK q \in Slots : At(q, "unroute") /\ Key(q) = <<u, f>>
      BY <2>1 DEF RouteInv, RoutesFollowSubscriptions
    <3>2. q # r
      BY <2>1, <3>1
    <3> QED BY <1>0, <3>1, <3>2, OthersUnroute
  <2>2. CASE Aside(r) \/ Counted(r)
    <3>1. Astray(<<u, f>>) /\ ~ At(r, "unroute")
      BY <1>1, <2>2 DEF Aside, Counted, At
    <3> QED BY <2>1, <3>1
  <2>3. CASE Committed(r)
    <3>1. Astray(<<u, f>>) /\ ~ At(r, "unroute")
      BY <1>1, <2>3 DEF Committed, At
    <3> QED BY <2>1, <3>1
  <2>4. CASE Routed(r)
    <3>1. ~ At(r, "unroute") /\ subs' = subs /\ strayed' = strayed
          /\ routes' = [routes EXCEPT ![Key(r)] = work[r].list]
      BY <2>4 DEF Routed, At
    <3>2. Key(r) # <<u, f>>
      <4>1. SUFFICES ASSUME Key(r) = <<u, f>>
                     PROVE  FALSE
        OBVIOUS
      <4>2. WillRoute(r, u, f)
        BY <1>0, <2>4, <4>1 DEF WillRoute, Routed
      <4> QED BY <1>1, <3>1, <4>2 DEF RouteInv
    <3>3. Astray(<<u, f>>)
      BY <1>1, <3>1, <3>2 DEF AppTypes, SourceTables, Sources
    <3> QED BY <2>1, <3>1, <3>3
  <2>5. CASE Dropped(r)
    <3>1. CASE Key(r) = <<u, f>>
      <4>1. work'[r] = [work[r] EXCEPT !.at = "unroute"]
        BY <1>1, <2>5, <3>1 DEF Dropped
      <4>2. (At(r, "unroute") /\ Key(r) = <<u, f>>)'
        BY <1>0, <3>1, <4>1, WorkOf DEF Requested, At, Key, UserOf, SourceOf
      <4> QED BY <4>2
    <3>2. CASE Key(r) # <<u, f>>
      <4>1. Astray(<<u, f>>)
        BY <1>1, <2>5, <3>2 DEF Dropped
      <4> QED BY <2>1, <3>2, <4>1
    <3> QED BY <3>1, <3>2
  <2>6. CASE Unrouted(r)
    <3>1. routes' = [routes EXCEPT ![Key(r)] = None] /\ subs' = subs
          /\ (strayed' = strayed \/ strayed' = strayed \ {Key(r)})
      BY <2>6 DEF Unrouted
    <3>2. Key(r) # <<u, f>>
      BY <1>1, <3>1 DEF AppTypes, SourceTables, Sources
    <3>3. Astray(<<u, f>>)
      BY <1>1, <3>1, <3>2 DEF AppTypes, SourceTables, Sources
    <3> QED BY <2>1, <3>2, <3>3
  <2>7. CASE LeftRouted(r)
    <3>1. Astray(<<u, f>>) /\ Key(r) # <<u, f>>
      BY <1>1, <2>7 DEF LeftRouted
    <3> QED BY <2>1, <3>1
  <2> QED BY <1>0, <2>2, <2>3, <2>4, <2>5, <2>6, <2>7 DEF Kind
<1>2. ASSUME NEW u \in Users, NEW f \in Feeds, NEW q \in Slots, WillRoute(q, u, f)'
      PROVE  <<u, f>> \in (subs \cup strayed)'
  <2>1. CASE q # r
    <3>1. WillRoute(q, u, f)
      BY <1>0, <1>2, <2>1, OthersWrite
    <3>2. <<u, f>> \in subs \cup strayed
      BY <3>1 DEF RouteInv
    <3>3. Key(r) = <<u, f>> => q \in Routing(r)
      BY <1>0, <2>1, <3>1 DEF Routing, WillRoute
    <3>4. CASE Dropped(r) \/ Unrouted(r)
      BY <3>2, <3>3, <3>4 DEF Dropped, Unrouted
    <3>5. CASE Aside(r) \/ Counted(r) \/ Committed(r) \/ Routed(r) \/ LeftRouted(r)
      BY <3>2, <3>5 DEF Aside, Counted, Committed, Routed, LeftRouted
    <3> QED BY <1>0, <3>4, <3>5 DEF Kind
  <2>2. CASE q = r
    <3>1. (UserOf(r) = u /\ SourceOf(r) = f /\ (At(r, "upsert") \/ At(r, "resolve")))'
      BY <1>2, <2>2 DEF WillRoute
    <3>2. CASE Aside(r)
      BY <3>1, <3>2 DEF Aside, At, UserOf, SourceOf
    <3>3. CASE Committed(r)
      <4>1. work'[r] = [work[r] EXCEPT !.at = "resolve"]
        BY <3>1, <3>3 DEF Committed, At
      <4>2. Key(r) = <<u, f>>
        BY <1>0, <3>1, <4>1, WorkOf DEF Requested, UserOf, SourceOf
      <4> QED BY <3>3, <4>2 DEF Committed
    <3>4. CASE Counted(r) \/ Routed(r) \/ Dropped(r) \/ Unrouted(r) \/ LeftRouted(r)
      BY <3>1, <3>4, WorkOf DEF Counted, Routed, Dropped, Unrouted, LeftRouted, At, Requested
    <3> QED BY <1>0, <3>2, <3>3, <3>4 DEF Kind
  <2> QED BY <2>1, <2>2
<1>3. RoutesFollowSubscriptions'
  BY <1>1 DEF RoutesFollowSubscriptions
<1> QED BY <1>2, <1>3 DEF RouteInv

-----------------------------------------------------------------------------
(* Answers.                                                                 *)

\* What q knows of sources nobody else has changed is not changed by a step of others.
Undisturbed(q) ==
  /\ work'[q] = work[q]
  /\ \A t \in steady'[q] :
       /\ t \in steady[q]
       /\ <<UserOf(q), t>> \in subs' <=> <<UserOf(q), t>> \in subs
       /\ <<UserOf(q), t>> \in senders' <=> <<UserOf(q), t>> \in senders
       /\ routes'[<<UserOf(q), t>>] = routes[<<UserOf(q), t>>]
  /\ OnePage(UserOf(q))' => OnePage(UserOf(q))

\* A step of a request disturbs no other in what it knows,
LEMMA StepDisturbs ==
  ASSUME AppTypes, NEW r \in Slots, Step(r), NEW q \in Slots \ {r}, ~ At(q, "idle")
  PROVE  Undisturbed(q)
<1>1. work'[q] = work[q] /\ UserOf(q) \in Users /\ Kind(r) /\ Key(r) = <<UserOf(r), SourceOf(r)>>
      /\ steady[q] \in SUBSET Sources /\ steady'[q] \in SUBSET Sources
  BY WorkOf DEF Step, Alone, Key, AppTypes, HistoryTypes
<1>2. senders' = senders /\ UserOf(q)' = UserOf(q)
  BY <1>1 DEF Kind, Aside, Counted, Committed, Routed, Dropped, Unrouted, LeftRouted, UserOf
<1>3. OnePage(UserOf(q))' => OnePage(UserOf(q))
  BY <1>2 DEF OnePage, SendersOf
<1>4. CASE Aside(r) \/ Counted(r) \/ LeftRouted(r)
  <2>1. steady'[q] = steady[q] /\ subs' = subs /\ routes' = routes
    BY <1>4 DEF Aside, Counted, LeftRouted
  <2> QED BY <1>1, <1>2, <1>3, <2>1 DEF Undisturbed
<1>5. CASE Committed(r) \/ Routed(r) \/ Dropped(r) \/ Unrouted(r)
  <2>1. /\ Disturb(r)
        /\ subs' = subs \/ subs' = subs \cup {Key(r)} \/ subs' = subs \ {Key(r)}
        /\ routes' = routes \/ \E list : routes' = [routes EXCEPT ![Key(r)] = list]
    BY <1>5 DEF Committed, Routed, Dropped, Unrouted
  <2>2. ASSUME NEW t \in steady'[q]
        PROVE  t \in steady[q] /\ t \in Sources /\ <<UserOf(q), t>> # Key(r)
    BY <1>1, <2>1 DEF Disturb
  <2>3. ASSUME NEW t \in steady'[q]
        PROVE  routes'[<<UserOf(q), t>>] = routes[<<UserOf(q), t>>]
    BY <1>1, <2>1, <2>2, <2>3 DEF AppTypes, SourceTables
  <2> QED BY <1>1, <1>2, <1>3, <2>1, <2>2, <2>3 DEF Undisturbed
<1> QED BY <1>1, <1>4, <1>5 DEF Kind

\* nor does a new sender.
LEMMA ReceiveDisturbs ==
  ASSUME AppTypes, NEW u \in Users, NEW s \in Senders, Receive(u, s), NEW q \in Slots
  PROVE  Undisturbed(q)
<1>1. /\ senders' = senders \cup {<<u, s>>} /\ UNCHANGED <<subs, routes, work>>
      /\ UserOf(q)' = UserOf(q)
  BY ReceiveSteps DEF UserOf
<1>2. ASSUME NEW t \in steady'[q]
      PROVE  t \in steady[q] /\ <<UserOf(q), t>> # <<u, s>>
  BY <1>2 DEF Receive
<1>3. OnePage(UserOf(q))' => OnePage(UserOf(q))
  <2> DEFINE S == SendersOf(UserOf(q))
             T == SendersOf(UserOf(q))'
  <2>1. S \in SUBSET T /\ T \in SUBSET Senders /\ IsFiniteSet(Senders)
    BY <1>1, SendersFinite DEF SendersOf
  <2>2. Cardinality(S) <= Cardinality(T) /\ Cardinality(S) \in Nat /\ Cardinality(T) \in Nat
    BY <2>1, Sizes
  <2> QED BY <2>2 DEF OnePage
<1> QED BY <1>1, <1>2, <1>3 DEF Undisturbed

\* Who is undisturbed knows what he knew.
LEMMA Undisturbed_Learned ==
  ASSUME NEW q \in Slots, Undisturbed(q), Learned(q)
  PROVE  Learned(q)'
<1> DEFINE u == UserOf(q)
           s == SourceOf(q)
           w == work[q]
<1>1. /\ work'[q] = w /\ UserOf(q)' = u /\ SourceOf(q)' = s
      /\ \A t \in steady'[q] :
           /\ t \in steady[q]
           /\ <<u, t>> \in subs' <=> <<u, t>> \in subs
           /\ <<u, t>> \in senders' <=> <<u, t>> \in senders
           /\ routes'[<<u, t>>] = routes[<<u, t>>]
      /\ OnePage(u)' => OnePage(u)
  BY DEF Undisturbed, UserOf, SourceOf
<1>2. \A t \in steady'[q] : Subscribed(u, t)' = Subscribed(u, t) /\ ListOf(u, t)' = ListOf(u, t)
  BY <1>1 DEF Subscribed, ListOf
<1>3. AnswerIsTrue(q) => AnswerIsTrue(q)'
  BY <1>1, <1>2 DEF AnswerIsTrue
<1> QED BY <1>1, <1>2, <1>3 DEF Learned

\* A request that has learned nothing, or says nothing about its source.
LEMMA Unlearned ==
  ASSUME NEW r \in Slots,
         \/ work'[r].at \in {"idle", "count", "lookup", "check", "validate", "create", "insert",
                             "commit", "find", "delete", "verify", "rss"}
         \/ work'[r].at = "answered" /\ work'[r].reply \in {"bad request", "error"}
  PROVE  Learned(r)'
BY DEF Learned, AnswerIsTrue

\* It goes on,
LEMMA GoesUnlearned ==
  ASSUME AppTypes, NEW r \in Slots,
         NEW stage \in {"lookup", "check", "validate", "create", "insert", "commit", "delete"},
         Goto(r, stage)
  PROVE  Learned(r)'
<1>1. stage \in Stages
  BY DEF Stages
<1>2. work'[r] = [work[r] EXCEPT !.at = stage]
  BY <1>1, WorkOf, Going
<1>3. work'[r].at = stage
  BY <1>2, WorkOf DEF Requested
<1> QED BY <1>3, Unlearned

\* or is refused.
LEMMA AnswersUnlearned ==
  ASSUME AppTypes, NEW r \in Slots, NEW answer \in {"bad request", "error"}, Answer(r, answer)
  PROVE  Learned(r)'
<1>1. work'[r] = [work[r] EXCEPT !.at = "answered", !.reply = answer]
  BY WorkOf, Answering DEF Replies
<1>2. work'[r].at = "answered" /\ work'[r].reply = answer
  BY <1>1, WorkOf DEF Requested
<1> QED BY <1>2, Unlearned

\* A request that speaks of its source alone.
LEMMA SpeaksOfSource ==
  ASSUME NEW r \in Slots, work'[r].at = "answered", work'[r].reply # "listed",
         NEW u, NEW s, u = work'[r].user, s = work'[r].source,
         OnePage(u)' /\ s \in steady'[r] =>
            /\ work'[r].reply = "not found" => ~ Subscribed(u, s)'
            /\ work'[r].reply = "conflict" => Subscribed(u, s)'
            /\ work'[r].reply \in {"created", "routed"} =>
                 Subscribed(u, s)' /\ ListOf(u, s)' = work'[r].list
            /\ work'[r].reply = "unsubscribed" => ~ Subscribed(u, s)' /\ routes'[<<u, s>>] = None
  PROVE  Learned(r)'
BY DEF Learned, AnswerIsTrue, UserOf, SourceOf

\* Where a feed is looked up, and where a sender.
LEMMA SubscribedTo ==
  ASSUME AppTypes, NEW u \in Users
  PROVE  /\ \A f \in Feeds : /\ Subscribed(u, f) <=> <<u, f>> \in subs
                             /\ Subscribed(u, f) <=> f \in ListUserSubscriptions(u)
         /\ \A s \in Senders : Subscribed(u, s) <=> s \in SendersOf(u)
BY DEF Subscribed, AppTypes, SourceTables, ListUserSubscriptions, GetByUserID, SendersOf

\* A page that is not full holds them all.
LEMMA WholePage ==
  ASSUME NEW u, OnePage(u), NEW page \in ListUserSenders(u)
  PROVE  page = SendersOf(u)
<1>1. SUFFICES ASSUME page # SendersOf(u)
               PROVE  FALSE
  OBVIOUS
<1>2. page \in SUBSET SendersOf(u) /\ Cardinality(page) = PageSize
  BY <1>1 DEF ListUserSenders
<1>3. IsFiniteSet(SendersOf(u))
  <2>1. SendersOf(u) \in SUBSET Senders
    BY DEF SendersOf
  <2> QED BY <2>1, SendersFinite, FS_Subset
<1>4. PICK x \in SendersOf(u) : x \notin page
  BY <1>1, <1>2
<1>5. page \in SUBSET (SendersOf(u) \ {x})
  BY <1>2, <1>4
<1>6. IsFiniteSet(SendersOf(u) \ {x}) /\ Cardinality(SendersOf(u) \ {x}) = Cardinality(SendersOf(u)) - 1
      /\ Cardinality(SendersOf(u)) \in Nat
  BY <1>3, <1>4, Sizes
<1>7. Cardinality(page) <= Cardinality(SendersOf(u) \ {x})
  BY <1>5, <1>6, FS_Subset
<1> QED BY <1>2, <1>6, <1>7 DEF OnePage

\* Subscribing.
LEMMA CheckLearns ==
  ASSUME AppTypes, NEW r \in Slots, Check(r)
  PROVE  Learned(r)'
<1>1. At(r, "check") /\ UNCHANGED <<subs, senders>>
  BY DEF Check, Look
<1>2. CASE GetByUserAndFeed(UserOf(r), SourceOf(r)) /\ Answer(r, "conflict")
  <2>1. work'[r] = [work[r] EXCEPT !.at = "answered", !.reply = "conflict"]
    BY <1>2, WorkOf, Answering DEF Replies
  <2>2. Subscribed(UserOf(r), SourceOf(r))'
    BY <1>1, <1>2, <2>1, WorkOf DEF GetByUserAndFeed, Subscribed, UserOf, SourceOf, Requested
  <2> QED BY <2>1, <2>2, WorkOf, SpeaksOfSource DEF Requested, UserOf, SourceOf
<1>3. CASE Goto(r, "insert")
  BY <1>3, GoesUnlearned
<1> QED BY <1>2, <1>3, Refusing DEF Check

\* Once it has committed, the subscription is there.
LEMMA CommitLearns ==
  ASSUME AppTypes, NEW r \in Slots, Commit(r) \/ CommitUnheard(r)
  PROVE  Learned(r)'
<1>1. CASE Answer(r, "error")
  BY <1>1, AnswersUnlearned
<1>2. CASE Goto(r, "resolve") /\ subs' = subs \cup {Key(r)}
  <2>1. work'[r] = [work[r] EXCEPT !.at = "resolve"]
    BY <1>2, WorkOf, Going DEF Stages
  <2>2. work'[r].at = "resolve" /\ <<UserOf(r), SourceOf(r)>>' \in subs'
    BY <1>2, <2>1, WorkOf DEF Requested, UserOf, SourceOf, Key
  <2> QED BY <2>2 DEF Learned
<1> QED BY <1>1, <1>2, Refusing DEF Commit, CommitUnheard

\* The list in the answer is the one in the table.
LEMMA ResolveLearns ==
  ASSUME AppTypes, NEW r \in Slots, Learned(r), ResolveFeedList(r)
  PROVE  Learned(r)'
<1> DEFINE u == UserOf(r)
           s == SourceOf(r)
<1>1. /\ At(r, "resolve") /\ UNCHANGED <<subs, senders>>
      /\ u \in Users /\ s \in Sources
  BY WorkOf DEF ResolveFeedList, At, Sources
<1>2. CASE /\ work[r].list # None /\ Upsert(Key(r), work[r].list)
           /\ Disturb(r) /\ Answer(r, "created")
  <2>1. work'[r] = [work[r] EXCEPT !.at = "answered", !.reply = "created"]
    BY <1>2, WorkOf, Answering DEF Replies
  <2>2. /\ work'[r].at = "answered" /\ work'[r].user = u /\ work'[r].source = s
        /\ work'[r].list = work[r].list /\ work'[r].reply = "created"
    BY <2>1, WorkOf DEF Requested, UserOf, SourceOf
  <2>3. steady'[r] = steady[r]
    BY <1>2 DEF Disturb, AppTypes, HistoryTypes
  <2>4. ListOf(u, s)' = work[r].list
    <3>1. routes' = [routes EXCEPT ![<<u, s>>] = work[r].list]
      BY <1>2 DEF Upsert, Key
    <3>2. routes'[<<u, s>>] = work[r].list
      BY <1>1, <3>1 DEF AppTypes, SourceTables
    <3>3. u' = u /\ s' = s
      BY <2>2 DEF UserOf, SourceOf
    <3> QED BY <1>2, <3>2, <3>3 DEF ListOf
  <2>5. s \in steady'[r] => Subscribed(u, s)'
    BY <1>1, <2>2, <2>3 DEF Learned, At, Subscribed, UserOf, SourceOf
  <2> QED BY <2>2, <2>4, <2>5, SpeaksOfSource DEF UserOf, SourceOf
<1>3. CASE /\ work[r].list = None /\ UNCHANGED <<routes, steady>>
           /\ work' = [work EXCEPT ![r].at = "answered", ![r].reply = "created",
                                   ![r].list = ListOf(UserOf(r), SourceOf(r))]
  <2>1. /\ work'[r].at = "answered" /\ work'[r].user = u /\ work'[r].source = s
        /\ work'[r].list = ListOf(u, s) /\ work'[r].reply = "created"
    BY <1>3, WorkOf DEF Requested, UserOf, SourceOf
  <2>2. u' = u /\ s' = s /\ routes' = routes /\ steady' = steady
    BY <1>3, <2>1 DEF UserOf, SourceOf
  <2>3. ListOf(u, s)' = ListOf(u, s)
    BY <2>2 DEF ListOf
  <2>4. s \in steady[r] => <<u, s>> \in subs
    BY <1>1 DEF Learned, At
  <2>5. s \in steady'[r] => Subscribed(u, s)'
    BY <1>1, <2>2, <2>4 DEF Subscribed
  <2> QED BY <2>1, <2>2, <2>3, <2>5, SpeaksOfSource
<1> QED BY <1>2, <1>3 DEF ResolveFeedList

\* Unsubscribing.
LEMMA FindLearns ==
  ASSUME AppTypes, NEW r \in Slots, Find(r)
  PROVE  Learned(r)'
<1> DEFINE u == UserOf(r)
           s == SourceOf(r)
<1>1. At(r, "find") /\ UNCHANGED <<subs, senders>> /\ u \in Users /\ s \in Feeds
  BY WorkOf DEF Find, Look, At
<1>2. CASE ~ GetByUserAndFeed(u, s) /\ Answer(r, "not found")
  <2>1. work'[r] = [work[r] EXCEPT !.at = "answered", !.reply = "not found"]
    BY <1>2, WorkOf, Answering DEF Replies
  <2>2. /\ work'[r].at = "answered" /\ work'[r].reply = "not found"
        /\ work'[r].user = u /\ work'[r].source = s
    BY <2>1, WorkOf DEF Requested, UserOf, SourceOf
  <2>3. ~ Subscribed(u, s)
    BY <1>1, <1>2, SubscribedTo DEF GetByUserAndFeed
  <2>4. u' = u /\ s' = s
    BY <2>2 DEF UserOf, SourceOf
  <2>5. ~ Subscribed(u, s)'
    BY <1>1, <2>3, <2>4 DEF Subscribed
  <2> QED BY <2>2, <2>4, <2>5, SpeaksOfSource
<1>3. CASE Goto(r, "delete")
  BY <1>3, GoesUnlearned
<1> QED BY <1>2, <1>3, Refusing DEF Find

\* Once it is deleted, the subscription is gone,
LEMMA DeleteLearns ==
  ASSUME AppTypes, NEW r \in Slots, Delete(r) \/ DeleteUnheard(r)
  PROVE  Learned(r)'
<1> DEFINE u == UserOf(r)
           s == SourceOf(r)
<1>1. At(r, "delete") /\ UNCHANGED senders /\ u \in Users /\ s \in Feeds /\ Key(r) = <<u, s>>
  BY WorkOf DEF Delete, DeleteUnheard, At, Key
<1>2. CASE Key(r) \notin subs /\ Answer(r, "not found") /\ UNCHANGED subs
  <2>1. work'[r] = [work[r] EXCEPT !.at = "answered", !.reply = "not found"]
    BY <1>2, WorkOf, Answering DEF Replies
  <2>2. /\ work'[r].at = "answered" /\ work'[r].reply = "not found"
        /\ work'[r].user = u /\ work'[r].source = s
    BY <2>1, WorkOf DEF Requested, UserOf, SourceOf
  <2>3. ~ Subscribed(u, s)
    BY <1>1, <1>2, SubscribedTo
  <2>4. u' = u /\ s' = s
    BY <2>2 DEF UserOf, SourceOf
  <2>5. ~ Subscribed(u, s)'
    BY <1>1, <1>2, <2>3, <2>4 DEF Subscribed
  <2> QED BY <2>2, <2>4, <2>5, SpeaksOfSource
<1>3. CASE DeleteByUserAndFeed(r) /\ Goto(r, "unroute")
  <2>1. work'[r] = [work[r] EXCEPT !.at = "unroute"]
    BY <1>3, WorkOf, Going DEF Stages
  <2>2. work'[r].at = "unroute" /\ UserOf(r)' = u /\ SourceOf(r)' = s
    BY <2>1, WorkOf DEF Requested, UserOf, SourceOf
  <2>3. <<u, s>> \notin subs'
    BY <1>1, <1>3 DEF DeleteByUserAndFeed
  <2> QED BY <2>2, <2>3 DEF Learned
<1>4. CASE Answer(r, "error")
  BY <1>4, AnswersUnlearned
<1> QED BY <1>2, <1>3, <1>4, Refusing DEF Delete, DeleteUnheard

\* and then so is the route.
LEMMA UnrouteLearns ==
  ASSUME AppTypes, NEW r \in Slots, Learned(r), Unroute(r)
  PROVE  Learned(r)'
<1> DEFINE u == UserOf(r)
           s == SourceOf(r)
<1>1. /\ At(r, "unroute") /\ UNCHANGED <<subs, senders>> /\ u \in Users /\ s \in Feeds
      /\ Disturb(r) /\ Answer(r, "unsubscribed") /\ routes' = [routes EXCEPT ![<<u, s>>] = None]
  BY WorkOf DEF Unroute, DeleteRoute, Key, At
<1>2. work'[r] = [work[r] EXCEPT !.at = "answered", !.reply = "unsubscribed"]
  BY <1>1, WorkOf, Answering DEF Replies
<1>3. /\ work'[r].at = "answered" /\ work'[r].reply = "unsubscribed"
      /\ work'[r].user = u /\ work'[r].source = s
  BY <1>2, WorkOf DEF Requested, UserOf, SourceOf
<1>4. u' = u /\ s' = s /\ steady'[r] = steady[r]
  BY <1>1, <1>3 DEF UserOf, SourceOf, Disturb, AppTypes, HistoryTypes
<1>5. routes'[<<u, s>>] = None
  BY <1>1 DEF AppTypes, SourceTables, Sources
<1>6. s \in steady[r] => <<u, s>> \notin subs
  BY <1>1 DEF Learned, At
<1>7. s \in steady[r] => ~ Subscribed(u, s)
  BY <1>1, <1>6, SubscribedTo
<1>8. s \in steady'[r] => ~ Subscribed(u, s)'
  BY <1>1, <1>4, <1>7 DEF Subscribed
<1> QED BY <1>3, <1>4, <1>5, <1>8, SpeaksOfSource

\* Choosing a list.
LEMMA VerifyLearns ==
  ASSUME AppTypes, NEW r \in Slots, Verify(r)
  PROVE  Learned(r)'
<1> DEFINE u == UserOf(r)
           s == SourceOf(r)
<1>1. At(r, "verify") /\ UNCHANGED <<subs, senders>> /\ u \in Users /\ s \in Sources
  BY WorkOf DEF Verify, Look, At, WorkType
<1>2. PICK page \in ListUserSenders(u) :
        IF IsSubscribed(u, s, page) THEN Goto(r, "upsert") ELSE Answer(r, "not found")
  BY DEF Verify
<1>3. CASE IsSubscribed(u, s, page) /\ Goto(r, "upsert")
  <2>1. work'[r] = [work[r] EXCEPT !.at = "upsert"]
    BY <1>3, WorkOf, Going DEF Stages
  <2>2. work'[r].at = "upsert" /\ u' = u /\ s' = s
    BY <2>1, WorkOf DEF Requested, UserOf, SourceOf
  <2>3. page \subseteq SendersOf(u)
    BY DEF ListUserSenders
  <2>4. Subscribed(u, s)
    BY <1>1, <1>3, <2>3, SubscribedTo DEF IsSubscribed, Sources
  <2>5. Subscribed(u, s)'
    BY <1>1, <2>2, <2>4 DEF Subscribed
  <2> QED BY <2>2, <2>5 DEF Learned
<1>4. CASE ~ IsSubscribed(u, s, page) /\ Answer(r, "not found")
  <2>1. work'[r] = [work[r] EXCEPT !.at = "answered", !.reply = "not found"]
    BY <1>4, WorkOf, Answering DEF Replies
  <2>2. /\ work'[r].at = "answered" /\ work'[r].reply = "not found"
        /\ work'[r].user = u /\ work'[r].source = s
    BY <2>1, WorkOf DEF Requested, UserOf, SourceOf
  <2>3. u' = u /\ s' = s
    BY <2>2 DEF UserOf, SourceOf
  <2>4. OnePage(u)' => OnePage(u)
    BY <1>1, <2>3 DEF OnePage, SendersOf
  <2>5. OnePage(u) => ~ Subscribed(u, s)
    BY <1>1, <1>4, WholePage, SubscribedTo DEF IsSubscribed, Sources
  <2>6. OnePage(u)' => ~ Subscribed(u, s)'
    BY <1>1, <2>3, <2>4, <2>5 DEF Subscribed
  <2> QED BY <2>2, <2>3, <2>6, SpeaksOfSource
<1> QED BY <1>2, <1>3, <1>4

\* What is chosen is what the answer names.
LEMMA SetSourceListLearns ==
  ASSUME AppTypes, NEW r \in Slots, Learned(r), SetSourceList(r)
  PROVE  Learned(r)'
<1> DEFINE u == UserOf(r)
           s == SourceOf(r)
<1>1. /\ At(r, "upsert") /\ UNCHANGED <<subs, senders>>
      /\ u \in Users /\ s \in Sources /\ work[r].list \in Lists
      /\ Disturb(r) /\ Answer(r, "routed") /\ routes' = [routes EXCEPT ![<<u, s>>] = work[r].list]
  BY WorkOf DEF SetSourceList, Upsert, Key, At, WorkType
<1>2. work'[r] = [work[r] EXCEPT !.at = "answered", !.reply = "routed"]
  BY <1>1, WorkOf, Answering DEF Replies
<1>3. /\ work'[r].at = "answered" /\ work'[r].reply = "routed" /\ work'[r].list = work[r].list
      /\ work'[r].user = u /\ work'[r].source = s
  BY <1>2, WorkOf DEF Requested, UserOf, SourceOf
<1>4. u' = u /\ s' = s /\ steady'[r] = steady[r]
  BY <1>1, <1>3 DEF UserOf, SourceOf, Disturb, AppTypes, HistoryTypes
<1>5. routes'[<<u, s>>] = work[r].list
  BY <1>1 DEF AppTypes, SourceTables
<1>6. ListOf(u, s)' = work[r].list
  BY <1>1, <1>4, <1>5 DEF ListOf
<1>7. s \in steady[r] => Subscribed(u, s)
  BY <1>1 DEF Learned, At
<1>8. s \in steady'[r] => Subscribed(u, s)'
  BY <1>1, <1>4, <1>7 DEF Subscribed
<1> QED BY <1>3, <1>4, <1>6, <1>8, SpeaksOfSource

\* Listing.
LEMMA FetchRSSLearns ==
  ASSUME AppTypes, NEW r \in Slots, FetchRSSSubscriptions(r)
  PROVE  Learned(r)'
<1> DEFINE u == UserOf(r)
<1>1. At(r, "rss") /\ UNCHANGED <<subs, senders, steady>> /\ u \in Users
  BY WorkOf DEF FetchRSSSubscriptions, At
<1>2. CASE work' = [work EXCEPT ![r].at = "email", ![r].found = ListUserSubscriptions(u)]
  <2>1. work'[r].at = "email" /\ work'[r].user = u /\ work'[r].found = ListUserSubscriptions(u)
    BY <1>2, WorkOf DEF Requested, UserOf
  <2>2. \A t \in Feeds : t \in work'[r].found <=> <<UserOf(r)', t>> \in subs'
    BY <1>1, <2>1, SubscribedTo DEF UserOf
  <2> QED BY <2>1, <2>2 DEF Learned
<1>3. CASE work' = [work EXCEPT ![r].at = "email", ![r].failed = @ \cup {"rss"}]
  <2>1. work'[r].at = "email" /\ "rss" \in work'[r].failed
    BY <1>3, WorkOf DEF Requested
  <2> QED BY <2>1 DEF Learned
<1> QED BY <1>2, <1>3 DEF FetchRSSSubscriptions, RSSUnanswered, SkipSource

\* A page holds all senders, or some are missing and the user has too many.
LEMMA FetchEmailLearns ==
  ASSUME AppTypes, NEW r \in Slots, Learned(r), FetchEmailSubscriptions(r)
  PROVE  Learned(r)'
<1> DEFINE u == UserOf(r)
<1>1. At(r, "email") /\ UNCHANGED <<subs, senders, steady>> /\ u \in Users
      /\ work[r].found \subseteq Feeds
  BY WorkOf DEF FetchEmailSubscriptions, At, WorkType
<1>2. "rss" \notin work[r].failed =>
        \A t \in steady[r] \cap Feeds : t \in work[r].found <=> <<u, t>> \in subs
  BY <1>1 DEF Learned, At
<1>3. ASSUME NEW page \in ListUserSenders(u),
             work' = [work EXCEPT ![r].at = "routes", ![r].found = @ \cup page]
      PROVE  Learned(r)'
  <2>1. /\ work'[r].at = "routes" /\ work'[r].user = u
        /\ work'[r].found = work[r].found \cup page /\ work'[r].failed = work[r].failed
    BY <1>3, WorkOf DEF Requested, UserOf
  <2>2. UserOf(r)' = u /\ page \subseteq Senders
    BY <1>1, <2>1, ListsUsers DEF UserOf
  <2>3. "rss" \notin work'[r].failed =>
          \A t \in steady'[r] \cap Feeds : t \in work'[r].found <=> <<UserOf(r)', t>> \in subs'
    BY <1>1, <1>2, <2>1, <2>2
  <2>4. OnePage(UserOf(r))' =>
          \A t \in Senders : t \in work'[r].found <=> <<UserOf(r)', t>> \in senders'
    <3>1. OnePage(UserOf(r))' => OnePage(u)
      BY <1>1, <2>2 DEF OnePage, SendersOf
    <3>2. OnePage(u) => page = SendersOf(u)
      BY WholePage
    <3> QED BY <1>1, <2>1, <2>2, <3>1, <3>2 DEF SendersOf
  <2> QED BY <2>1, <2>3, <2>4 DEF Learned
<1>4. CASE work' = [work EXCEPT ![r].at = "routes", ![r].failed = @ \cup {"email"}]
  <2>1. /\ work'[r].at = "routes" /\ work'[r].user = u /\ work'[r].found = work[r].found
        /\ work'[r].failed = work[r].failed \cup {"email"}
    BY <1>4, WorkOf DEF Requested, UserOf
  <2>2. UserOf(r)' = u
    BY <2>1 DEF UserOf
  <2>3. "rss" \notin work'[r].failed =>
          \A t \in steady'[r] \cap Feeds : t \in work'[r].found <=> <<UserOf(r)', t>> \in subs'
    BY <1>1, <1>2, <2>1, <2>2
  <2> QED BY <2>1, <2>3 DEF Learned
<1> QED BY <1>3, <1>4 DEF FetchEmailSubscriptions, EmailUnanswered, SkipSource

\* Stamping gives each source found its list, and no other source one.
LEMMA StampedWith ==
  ASSUME NEW u \in Users, NEW found \in SUBSET Sources, NEW t \in Sources
  PROVE  {e \in Stamped(found, ListByUser(u)) : e[1] = t}
           = IF t \in found THEN {<<t, ListOf(u, t)>>} ELSE {}
<1> DEFINE list == ListByUser(u)
<1>1. \A s \in found : (IF list[s] = None THEN Reads ELSE list[s]) = ListOf(u, s)
  BY DEF ListByUser, ListOf
<1> HIDE DEF list
<1>2. Stamped(found, list) = {<<s, ListOf(u, s)>> : s \in found}
  BY <1>1 DEF Stamped
<1>3. \A s \in found : <<s, ListOf(u, s)>>[1] = s
  OBVIOUS
<1> QED BY <1>2, <1>3 DEF list

\* The listing has what was found, which is what the user has.
LEMMA ListAllLearns ==
  ASSUME AppTypes, NEW r \in Slots, Learned(r), ListAllSubscriptions(r)
  PROVE  Learned(r)'
<1> DEFINE u == UserOf(r)
           found == work[r].found
           failed == work[r].failed
<1>1. /\ At(r, "routes") /\ UNCHANGED <<subs, senders, routes, steady>> /\ u \in Users
      /\ found \subseteq Sources /\ steady[r] \in SUBSET Sources
  BY WorkOf DEF ListAllSubscriptions, Look, At, WorkType, AppTypes, HistoryTypes
<1>2. /\ work'[r].at = "answered" /\ work'[r].reply = "listed" /\ work'[r].user = u
      /\ work'[r].failed = failed /\ work'[r].found = Stamped(found, ListByUser(u))
  BY WorkOf DEF ListAllSubscriptions, Requested, UserOf
<1>3. UserOf(r)' = u
  BY <1>2 DEF UserOf
<1>4. OnePage(UserOf(r))' => OnePage(u)
  BY <1>1, <1>3 DEF OnePage, SendersOf
<1>5. ASSUME OnePage(u), NEW t \in steady[r],
             ~ (t \in Feeds /\ "rss" \in failed), ~ (t \in Senders /\ "email" \in failed)
      PROVE  {e \in work'[r].found : e[1] = t}
               = IF Subscribed(u, t) THEN {<<t, ListOf(u, t)>>} ELSE {}
  <2>1. t \in found <=> Subscribed(u, t)
    <3>1. CASE t \in Feeds
      BY <1>1, <1>5, <3>1, SubscribedTo DEF Learned, At
    <3>2. CASE t \in Senders
      BY <1>1, <1>5, <3>2, SubscribedTo DEF Learned, At, SendersOf
    <3> QED BY <1>1, <3>1, <3>2 DEF Sources
  <2> QED BY <1>1, <1>2, <2>1, StampedWith
<1>6. \A t \in steady[r] : Subscribed(u, t)' = Subscribed(u, t) /\ ListOf(u, t)' = ListOf(u, t)
  BY <1>1, <1>3 DEF Subscribed, ListOf
<1>7. OnePage(u) => AnswerIsTrue(r)'
  BY <1>1, <1>2, <1>3, <1>5, <1>6 DEF AnswerIsTrue
<1> QED BY <1>2, <1>4, <1>7 DEF Learned

\* The others, which learn nothing.
LEMMA OthersLearn ==
  ASSUME AppTypes, NEW r \in Slots,
         \/ Count(r) \/ LookUp(r) \/ ValidateAndExtractFeedMetadata(r) \/ CreateFeed(r)
         \/ CheckFeedLimit(r) \/ Fail(r)
  PROVE  Learned(r)'
<1>1. \/ \E stage \in {"lookup", "check", "validate", "create", "insert", "commit"} : Goto(r, stage)
      \/ \E answer \in {"bad request", "error"} : Answer(r, answer)
  BY Refusing
     DEF Count, LookUp, ValidateAndExtractFeedMetadata, CreateFeed, CheckFeedLimit, Fail
<1> QED BY <1>1, GoesUnlearned, AnswersUnlearned

\* A request that begins or is over.
LEMMA AskLearns ==
  ASSUME AppTypes, NEW r \in Slots, Ask(r) \/ Finish(r)
  PROVE  Learned(r)'
<1>1. ASSUME NEW w, work' = [work EXCEPT ![r] = w],
             \/ w.at \in {"idle", "count", "find", "verify", "rss"}
             \/ w.at = "answered" /\ w.reply = "bad request"
      PROVE  Learned(r)'
  <2>1. work'[r] = w
    BY <1>1, WorkOf
  <2> QED BY <1>1, <2>1, Unlearned
<1>2. CASE Finish(r)
  BY <1>1, <1>2 DEF Finish, Idle
<1>3. ASSUME NEW u, NEW s, NEW list, NEW stage \in {"count", "find", "verify", "rss"},
             Begin(r, u, s, list, stage)
      PROVE  Learned(r)'
  <2> DEFINE w == [Idle EXCEPT !.at = stage, !.user = u, !.source = s, !.list = list]
  <2>1. w.at = stage
    BY DEF Idle
  <2>2. work' = [work EXCEPT ![r] = w]
    BY <1>3 DEF Begin
  <2> HIDE DEF w
  <2> QED BY <1>1, <2>1, <2>2
<1>4. ASSUME NEW u, NEW f, NEW list, Submit(r, u, f, list)
      PROVE  Learned(r)'
  <2> DEFINE w == [Idle EXCEPT !.at = "answered", !.user = u, !.source = f, !.reply = "bad request"]
  <2>1. w.at = "answered" /\ w.reply = "bad request"
    BY DEF Idle
  <2>2. Begin(r, u, f, list, "count") \/ work' = [work EXCEPT ![r] = w]
    BY <1>4 DEF Submit
  <2> HIDE DEF w
  <2> QED BY <1>1, <1>3, <2>1, <2>2
<1> QED BY <1>2, <1>3, <1>4 DEF Ask, Unsubscribe, Choose, List

\* Every step keeps what requests have learned.
LEMMA StepAnswers ==
  ASSUME AppTypes, AnswerInv, NEW r \in Slots, Ask(r) \/ Serve(r) \/ Finish(r)
  PROVE  AnswerInv'
<1>1. Learned(r)'
  BY CheckLearns, CommitLearns, ResolveLearns, FindLearns, DeleteLearns, UnrouteLearns, VerifyLearns,
     SetSourceListLearns, FetchRSSLearns, FetchEmailLearns, ListAllLearns, OthersLearn, AskLearns
     DEF AnswerInv, Serve
<1>2. ASSUME NEW q \in Slots \ {r}
      PROVE  Learned(q)'
  <2>1. CASE At(q, "idle")
    <3>1. work'[q].at = "idle"
      BY <2>1, RequestSteps DEF Step, Alone, At
    <3> QED BY <3>1, Unlearned
  <2>2. CASE ~ At(q, "idle")
    BY <2>2, RequestSteps, StepDisturbs, Undisturbed_Learned DEF AnswerInv
  <2> QED BY <2>1, <2>2
<1> QED BY <1>1, <1>2 DEF AnswerInv

-----------------------------------------------------------------------------
(* Subscriptions: the theorems.                                             *)

\* All of it.
AppInv == AppTypes /\ OverlapInv /\ LimitInv /\ RouteInv /\ AnswerInv

\* Nothing is there at first.
LEMMA AppInit == SubscriptionsInit => AppInv
<1> SUFFICES ASSUME SubscriptionsInit
             PROVE  AppInv
  OBVIOUS
<1> USE DEF SubscriptionsInit
<1>1. \A r \in Slots : work[r] = Idle /\ work[r].at = "idle"
  BY DEF Idle
<1>2. AppTypes
  <2>1. Idle \in Requested /\ Idle.reply = None
    BY DEF Idle, Requested, Stages
  <2>2. WorkTypes
    BY <1>1, <2>1 DEF WorkTypes, WorkType, At, Uncounted
  <2> QED BY <2>2 DEF AppTypes, SourceTables, HistoryTypes
<1>3. OverlapInv
  <2>1. Before = {}
    BY <1>1 DEF Before, Uncounted
  <2> QED BY <2>1, FS_EmptySet DEF OverlapInv
<1>4. LimitInv
  <2>1. ASSUME NEW u \in Users
        PROVE  CountByUserID(u) = 0 /\ Cardinality(Committing(u)) = 0
    <3>1. GetByUserID(u) = {} /\ Committing(u) = {}
      BY <1>1 DEF GetByUserID, Committing, At
    <3> QED BY <3>1, FS_EmptySet DEF CountByUserID
  <2> QED BY <2>1 DEF LimitInv
<1>5. RouteInv
  BY <1>1 DEF RouteInv, RoutesFollowSubscriptions, WillRoute, At, Sources
<1>6. AnswerInv
  BY <1>1 DEF AnswerInv, Learned
<1> QED BY <1>2, <1>3, <1>4, <1>5, <1>6 DEF AppInv

\* Every step keeps all of it.
LEMMA AppStep == AppInv /\ [SubscriptionsNext]_subscriptionsVars => AppInv'
<1> SUFFICES ASSUME AppInv, [SubscriptionsNext]_subscriptionsVars
             PROVE  AppInv'
  OBVIOUS
<1> USE DEF AppInv
<1>1. ASSUME NEW r \in Slots, Ask(r) \/ Serve(r) \/ Finish(r)
      PROVE  AppInv'
  BY <1>1, RequestSteps, StepTypes, StepOverlaps, StepLimit, StepRoutes, StepAnswers
<1>2. ASSUME NEW u \in Users, NEW s \in Senders, Receive(u, s)
      PROVE  AppInv'
  <2>1. AppTypes' /\ UNCHANGED <<feeds, subs, routes, work, asked, overlapped, strayed>>
    BY <1>2, ReceiveSteps
  <2>2. OverlapInv'
    BY <2>1 DEF OverlapInv, Before
  <2>3. LimitInv'
    BY <2>1 DEF LimitInv, CountByUserID, GetByUserID, Committing, At, UserOf
  <2>4. RouteInv'
    BY <2>1 DEF RouteInv, RoutesFollowSubscriptions, WillRoute, At, Key, UserOf, SourceOf
  <2>5. AnswerInv'
    BY <1>2, ReceiveDisturbs, Undisturbed_Learned DEF AnswerInv
  <2> QED BY <2>1, <2>2, <2>3, <2>4, <2>5
<1>3. CASE UNCHANGED subscriptionsVars
  <2>1. /\ feeds' = feeds /\ subs' = subs /\ senders' = senders /\ routes' = routes /\ work' = work
        /\ asked' = asked /\ faults' = faults /\ overlapped' = overlapped /\ strayed' = strayed
        /\ steady' = steady
    BY <1>3 DEF subscriptionsVars
  <2>2. AppTypes'
    BY <2>1 DEF AppTypes, SourceTables, HistoryTypes, WorkTypes, WorkType, At, UserOf, SourceOf
  <2>3. OverlapInv' /\ LimitInv'
    BY <2>1 DEF OverlapInv, Before, LimitInv, CountByUserID, GetByUserID, Committing, At, UserOf
  <2>4. RouteInv'
    BY <2>1 DEF RouteInv, RoutesFollowSubscriptions, WillRoute, At, Key, UserOf, SourceOf
  <2>5. \A q \in Slots : Undisturbed(q)
    BY <2>1 DEF Undisturbed, OnePage, SendersOf, UserOf
  <2>6. AnswerInv'
    BY <2>5, Undisturbed_Learned DEF AnswerInv
  <2> QED BY <2>2, <2>3, <2>4, <2>6
<1> QED BY <1>1, <1>2, <1>3 DEF SubscriptionsNext

\* The invariants together.
LEMMA AppInvariant == SubscriptionsSpec => []AppInv
BY AppInit, AppStep, PTL DEF SubscriptionsSpec

\* A user has at most the feeds the limit allows, and one for each of his inserts that was
\* counted while another had not committed, however stale the service's own count is
\* (feed_service.go, Subscribe; 000001_initial_schema.up.sql, check_feed_limit).
THEOREM FeedLimitHolds == SubscriptionsSpec => []LimitHolds
<1>1. AppInv => LimitHolds
  <2> SUFFICES ASSUME AppInv
               PROVE  LimitHolds
    OBVIOUS
  <2>1. ASSUME NEW u \in Users
        PROVE  /\ overlapped[u] \in 0..MaxRequests
               /\ CountByUserID(u) <= MaxFeedsPerUser + overlapped[u]
    <3>1. Before \in SUBSET Slots /\ Committing(u) \in SUBSET Slots /\ GetByUserID(u) \in SUBSET Feeds
      BY DEF Before, Committing, GetByUserID
    <3>2. /\ Cardinality(Before) \in Nat /\ Cardinality(Committing(u)) \in Nat
          /\ CountByUserID(u) \in Nat
      BY <3>1, Sizes, FeedsFinite DEF CountByUserID
    <3>3. overlapped[u] \in Nat /\ asked \in 0..MaxRequests
      BY DEF AppInv, AppTypes, HistoryTypes
    <3> QED BY <3>2, <3>3 DEF AppInv, OverlapInv, LimitInv
  <2>2. SubscriptionsTypeOK
    BY <2>1 DEF AppInv, AppTypes, SourceTables, HistoryTypes, WorkTypes, SubscriptionsTypeOK
  <2> QED BY <2>1, <2>2 DEF LimitHolds
<1> QED BY <1>1, AppInvariant, PTL

\* A feed that a user does not have has no route, unless its unsubscription is still on the
\* way to it, failed half-way, or met another request that was about to write one
\* (subscription_aggregator_handler.go, UnsubscribeRSS and SetSourceList).
THEOREM RoutesFollow == SubscriptionsSpec => []RoutesFollowSubscriptions
<1>1. AppInv => RoutesFollowSubscriptions
  BY DEF AppInv, RouteInv
<1> QED BY <1>1, AppInvariant, PTL

\* What a request is told of the sources that no other changed while it ran is so: a
\* listing is whole and stamped with the right lists, a refusal is justified, and what is
\* acknowledged is done (subscription_aggregator_handler.go).
THEOREM AnswersHold == SubscriptionsSpec => []AnswersAreTrue
<1>1. AppInv => AnswersAreTrue
  BY DEF AppInv, AnswerInv, Learned, OnePage, AnswersAreTrue, At
<1> QED BY <1>1, AppInvariant, PTL
=============================================================================
