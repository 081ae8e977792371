-------------------------- MODULE EmailIngestProofs --------------------------
(* Proofs about EmailIngest, for any number of emails, entries, instances,  *)
(* workers and faults, and any limits.                                      *)
EXTENDS EmailIngest, FiniteSetTheorems, TLAPS

USE EmailAssumption

-----------------------------------------------------------------------------
(* Addresses: two constraints of a table, whatever the requests that draw.  *)

AddressInv ==
  /\ AddressTypes
  /\ \A u \in Users : told[u] \subseteq {address[u]} \ {None}
  /\ \A u, v \in Users : u # v /\ address[u] # None => address[u] # address[v]

\* An answer and a drawn local part keep the two constraints.
LEMMA AddressesStep ==
  ASSUME AddressInv, Address
  PROVE  AddressInv'
<1> USE DEF AddressInv, AddressTypes
<1>1. ASSUME NEW s \in Asks, NEW u \in Users, GetOrCreate(s, u)
      PROVE  AddressInv'
  <2>1. UNCHANGED address BY <1>1 DEF GetOrCreate
  <2>2. CASE address[u] = None
    <3>1. asks' = [asks EXCEPT ![s] = [at |-> "draw", user |-> u, left |-> MaxDraws]]
          /\ UNCHANGED told
      BY <1>1, <2>2 DEF GetOrCreate
    <3>2. [at |-> "draw", user |-> u, left |-> MaxDraws] \in Asking BY DEF Asking
    <3> QED BY <3>1, <3>2, <2>1
  <2>3. CASE address[u] # None
    <3>1. told' = [told EXCEPT ![u] = @ \cup {address[u]}] /\ UNCHANGED asks
      BY <1>1, <2>3 DEF GetOrCreate
    <3>2. address[u] \in LocalParts BY <2>3
    <3> QED BY <3>1, <3>2, <2>1, <2>3
  <2> QED BY <2>2, <2>3
<1>2. ASSUME NEW s \in Asks, NEW l \in LocalParts, Draw(s, l)
      PROVE  AddressInv'
  <2> DEFINE u == asks[s].user
  <2>1. asks[s] \in Asking /\ u \in Users /\ asks[s].left \in 1..MaxDraws
    BY <1>2 DEF Draw, Asking, Free
  <2>2. CASE Insertable(u, l)
    <3>1. /\ address' = [address EXCEPT ![u] = l]
          /\ told' = [told EXCEPT ![u] = @ \cup {l}]
          /\ asks' = [asks EXCEPT ![s] = Free]
      BY <1>2, <2>2 DEF Draw
    <3>2. address[u] = None /\ l # None /\ \A v \in Users : address[v] # l
      BY <2>1, <2>2 DEF Insertable
    <3>3. told[u] = {} BY <2>1, <3>2
    <3>4. AddressTypes' BY <2>1, <3>1
    <3>5. \A v \in Users : told'[v] \subseteq {address'[v]} \ {None}
      BY <2>1, <3>1, <3>2, <3>3
    <3>6. \A v, w \in Users : v # w /\ address'[v] # None => address'[v] # address'[w]
      BY <2>1, <3>1, <3>2
    <3> QED BY <3>4, <3>5, <3>6
  <2>3. CASE ~Insertable(u, l)
    <3>1. asks' = [asks EXCEPT ![s] = Redraw(asks[s])] /\ UNCHANGED <<address, told>>
      BY <1>2, <2>3 DEF Draw
    <3>2. Redraw(asks[s]) \in Asking \cup {Free} BY <2>1 DEF Redraw, Asking
    <3> QED BY <3>1, <3>2
  <2> QED BY <2>2, <2>3
<1> QED BY <1>1, <1>2 DEF Address

\* Nothing else touches them.
LEMMA AddressesRest ==
  ASSUME Next, ~Address
  PROVE  UNCHANGED addressVars
<1> USE DEF addressVars
<1>1. ASSUME NEW u \in Users, NEW kind \in Kinds, IngestEmail(u, kind) PROVE UNCHANGED addressVars
  BY <1>1 DEF IngestEmail
<1>2. ASSUME NEW i \in Instances, ProcessBatch(i) PROVE UNCHANGED addressVars
  BY <1>2 DEF ProcessBatch, GetPendingEmails, Process, UpsertOnReceipt, CreateEntry, Complete, UpdateError
<1>3. ASSUME NEW i \in Instances, DeliverBatch(i) PROVE UNCHANGED addressVars
  BY <1>3 DEF DeliverBatch, GetPendingEntries, Deliver, DeliverContent, CreateContent, CreateRefused,
              DeliveryFails, AddContentToUsers, UpdateDeliveryStatus, UpdateRetryInfo
<1>4. ASSUME NEW i \in Instances, HalfOpen(i) \/ Crash(i) \/ Stop(i) PROVE UNCHANGED addressVars
  BY <1>4 DEF HalfOpen, Crash, Stop, Restart
<1>5. ASSUME NEW i \in Instances, NEW r \in Rows, Fails(i, r) \/ Abandon(i, r) PROVE UNCHANGED addressVars
  BY <1>5 DEF Fails, Abandon
<1>6. ASSUME NEW i \in Instances, NEW e \in Entries, RequestFails(i, e) \/ AbandonEntry(i, e)
      PROVE UNCHANGED addressVars
  BY <1>6 DEF RequestFails, DeliveryFails, AbandonEntry
<1>7. ASSUME NEW r \in Rows, EmailLeaseEnds(r) \/ DeleteProcessed(r) PROVE UNCHANGED addressVars
  BY <1>7 DEF EmailLeaseEnds, DeleteProcessed
<1>8. ASSUME NEW e \in Entries, Backoff(e) \/ EntryLeaseEnds(e) \/ DeleteDelivered(e)
      PROVE UNCHANGED addressVars
  BY <1>8 DEF Backoff, EntryLeaseEnds, DeleteDelivered
<1> QED BY <1>1, <1>2, <1>3, <1>4, <1>5, <1>6, <1>7, <1>8 DEF Next

\* What is known of addresses in every reachable state.
LEMMA AddressInvariant == Spec => []AddressInv
<1>1. Init => AddressInv
  BY DEF Init, AddressInv, AddressTypes, Free
<1>2. AddressInv /\ [Next]_vars => AddressInv'
  <2>1. ASSUME AddressInv, UNCHANGED addressVars PROVE AddressInv'
    BY <2>1 DEF AddressInv, AddressTypes, addressVars
  <2> QED BY <2>1, AddressesStep, AddressesRest DEF vars
<1> QED BY <1>1, <1>2, PTL DEF Spec

-----------------------------------------------------------------------------
(* The email processor.  No count that is kept anywhere exceeds the number  *)
(* of failures there were: not the row's, and not the one an instance read  *)
(* with its claim and will write back, however late.                        *)

RawOK(row, failures) ==
  row # Unissued => /\ row.retries <= failures
                    /\ row.status = "failed" => MaxAttempts <= failures

ClaimOK(c, row, failures) ==
  c # Free => /\ row # Unissued
              /\ c.retries <= failures
              /\ c.at = "error" => c.retries + 1 <= failures

ProcessorInv ==
  /\ ProcessorTypes
  /\ \A r \in Rows : RawOK(raw[r], errors[r])
  /\ \A i \in Instances, r \in Rows : ClaimOK(proc[i][r], raw[r], errors[r])

processorVars == <<raw, proc, counted, errors>>

\* A row is issued, and a claim is held, exactly when it is a record of that kind.
LEMMA RowShapes ==
  /\ \A row \in Email \cup {Unissued} : Issued(row) <=> row \in Email
  /\ Unissued \notin Email /\ Free \notin Claim /\ Free \notin Hold
BY DEF Email, Claim, Hold, Unissued, Free, Issued

\* The limits are positive.
LEMMA Limits ==
  /\ MaxAttempts \in Nat /\ MaxAttempts > 0
  /\ MaxRetries \in Nat /\ MaxRetries > 0
  /\ Trip \in Nat /\ Trip > 0
OBVIOUS

\* One row is replaced by one that is in order, and one claim may end.
LEMMA RawWrite ==
  ASSUME ProcessorInv, NEW r \in Rows, NEW row \in Email, RawOK(row, errors[r]),
         raw' = [raw EXCEPT ![r] = row], UNCHANGED <<counted, errors>>,
         \/ UNCHANGED proc
         \/ \E i \in Instances : proc' = [proc EXCEPT ![i][r] = Free]
  PROVE  ProcessorInv'
<1> USE DEF ProcessorInv, ProcessorTypes
<1>1. raw' \in [Rows -> Email \cup {Unissued}] OBVIOUS
<1>2. \A q \in Rows : RawOK(raw'[q], errors[q]) OBVIOUS
<1>3. /\ proc' \in [Instances -> [Rows -> Claim \cup {Free}]]
      /\ \A i \in Instances, q \in Rows : proc'[i][q] \in {proc[i][q], Free}
  <2>1. CASE UNCHANGED proc BY <2>1
  <2>2. CASE \E i \in Instances : proc' = [proc EXCEPT ![i][r] = Free]
    <3>1. PICK i \in Instances : proc' = [proc EXCEPT ![i] = [proc[i] EXCEPT ![r] = Free]]
      BY <2>2
    <3>2. [proc[i] EXCEPT ![r] = Free] \in [Rows -> Claim \cup {Free}] OBVIOUS
    <3> QED BY <3>1, <3>2
  <2> QED BY <2>1, <2>2
<1>4. \A q \in Rows : raw[q] # Unissued => raw'[q] # Unissued
  BY RowShapes
<1>5. \A i \in Instances, q \in Rows : ClaimOK(proc'[i][q], raw'[q], errors[q])
  BY <1>3, <1>4 DEF ClaimOK
<1> QED BY <1>1, <1>2, <1>3, <1>5

\* A claim goes on to its next step.
LEMMA ClaimWrite ==
  ASSUME ProcessorInv, NEW i \in Instances, NEW r \in Rows, proc[i][r] # Free,
         NEW label \in {"claimed", "create", "complete", "error"}, Goto(i, r, label),
         counted' \in [Rows -> Nat], UNCHANGED raw,
         \/ label # "error" /\ UNCHANGED errors
         \/ errors' = [errors EXCEPT ![r] = @ + 1]
  PROVE  ProcessorInv'
<1>0. proc[i][r] \in Claim
  <2>1. proc[i] \in [Rows -> Claim \cup {Free}] BY DEF ProcessorInv, ProcessorTypes
  <2> QED BY <2>1
<1> USE DEF ProcessorInv, ProcessorTypes
<1> DEFINE d == [proc[i][r] EXCEPT !.at = label]
<1>1. d \in Claim /\ d.at = label /\ d.retries = proc[i][r].retries
  BY <1>0 DEF Claim
<1>2. proc' = [proc EXCEPT ![i] = [proc[i] EXCEPT ![r] = d]]
  BY DEF Goto
<1> HIDE DEF d
<1>3. /\ errors' \in [Rows -> Nat]
      /\ \A q \in Rows : errors[q] <= errors'[q]
      /\ label = "error" => errors'[r] = errors[r] + 1
  OBVIOUS
<1>4. \A q \in Rows : RawOK(raw'[q], errors'[q])
  BY <1>3, RowShapes DEF RawOK, Email
<1>5. proc' \in [Instances -> [Rows -> Claim \cup {Free}]] BY <1>1, <1>2
<1>6. ASSUME NEW j \in Instances, NEW q \in Rows
      PROVE  ClaimOK(proc'[j][q], raw'[q], errors'[q])
  <2>1. CASE j = i /\ q = r
    <3>1. proc'[j][q] = d BY <1>2, <2>1
    <3>2. proc[i][r].retries \in Nat /\ errors[r] \in Nat /\ errors'[r] \in Nat
      BY <1>0, <1>3, Limits DEF Claim
    <3>3. raw'[r] # Unissued /\ proc[i][r].retries <= errors[r]
      BY DEF ClaimOK
    <3>4. d.retries <= errors'[r] /\ (label = "error" => d.retries + 1 <= errors'[r])
      BY <1>1, <1>3, <3>2, <3>3
    <3> QED BY <1>1, <2>1, <3>1, <3>3, <3>4 DEF ClaimOK
  <2>2. CASE ~(j = i /\ q = r)
    <3>1. proc'[j][q] = proc[j][q] BY <1>2, <2>2
    <3> QED BY <1>3, <3>1, RowShapes DEF ClaimOK, Claim
  <2> QED BY <2>1, <2>2
<1> QED BY <1>3, <1>4, <1>5, <1>6

\* A claim keeps the count it read from its row.
LEMMA ClaimEmailsKeeps ==
  ASSUME ProcessorInv, NEW i \in Instances, GetPendingEmails(i)
  PROVE  ProcessorInv'
<1> USE DEF ProcessorInv, ProcessorTypes
<1> DEFINE S == {r \in Rows : Pending(r)}
           Taken(r) == [raw[r] EXCEPT !.status = "processing", !.leased = TRUE]
           Handed(r) == [at |-> "claimed", retries |-> raw[r].retries]
<1>1. /\ raw' = [r \in Rows |-> IF r \in S THEN Taken(r) ELSE raw[r]]
      /\ proc' = [proc EXCEPT ![i] = [r \in Rows |-> IF r \in S THEN Handed(r) ELSE Free]]
      /\ UNCHANGED <<counted, errors>>
  BY DEF GetPendingEmails
<1>2. ASSUME NEW r \in S
      PROVE  /\ raw[r] \in Email /\ raw[r].retries \in 0..MaxAttempts - 1
             /\ Taken(r) \in Email /\ Taken(r).retries = raw[r].retries
             /\ Taken(r).status = "processing"
             /\ Handed(r) \in Claim
  <2>1. raw[r] \in Email /\ raw[r].retries < MaxAttempts
    BY RowShapes DEF Pending, Live, Unissued
  <2>2. raw[r].retries \in 0..MaxAttempts - 1 BY <2>1, Limits DEF Email
  <2> QED BY <2>1, <2>2 DEF Email, Claim
<1> HIDE DEF S, Taken, Handed
<1>3. /\ raw' \in [Rows -> Email \cup {Unissued}]
      /\ proc' \in [Instances -> [Rows -> Claim \cup {Free}]]
  BY <1>1, <1>2
<1>4. ASSUME NEW r \in Rows PROVE RawOK(raw'[r], errors'[r])
  BY <1>1, <1>2, RowShapes DEF RawOK
<1>5. ASSUME NEW j \in Instances, NEW r \in Rows
      PROVE  ClaimOK(proc'[j][r], raw'[r], errors'[r])
  <2>1. raw[r] # Unissued => raw'[r] # Unissued BY <1>1, <1>2, RowShapes
  <2>2. CASE j # i BY <1>1, <2>1, <2>2 DEF ClaimOK
  <2>3. CASE j = i /\ r \notin S BY <1>1, <2>3 DEF ClaimOK
  <2>4. CASE j = i /\ r \in S
    <3>1. proc'[j][r] = Handed(r) /\ raw[r] # Unissued BY <1>1, <1>2, <2>4, RowShapes
    <3>2. Handed(r).at = "claimed" /\ Handed(r).retries = raw[r].retries BY DEF Handed
    <3> QED BY <1>1, <2>1, <3>1, <3>2 DEF ClaimOK, RawOK
  <2> QED BY <2>2, <2>3, <2>4
<1> QED BY <1>1, <1>3, <1>4, <1>5

\* A shutdown changes nothing but the leases of work not begun.
LEMMA Releases ==
  ASSUME NEW claims, NEW table, NEW new \in ReleaseClaim(claims, table)
  PROVE  /\ new = [x \in DOMAIN table |-> new[x]]
         /\ \A x \in DOMAIN table :
              \/ new[x] = table[x]
              \/ /\ x \in DOMAIN claims /\ claims[x].at = "claimed"
                 /\ new[x] = [table[x] EXCEPT !.leased = FALSE]
<1> DEFINE waiting == {x \in DOMAIN claims : claims[x].at = "claimed"}
<1>1. PICK S \in {waiting} \cup {waiting \ {next} : next \in waiting} :
        new = [x \in DOMAIN table |-> IF x \in S THEN [table[x] EXCEPT !.leased = FALSE] ELSE table[x]]
  BY DEF ReleaseClaim
<1>2. S \subseteq waiting OBVIOUS
<1> QED BY <1>1, <1>2

\* The process ends: its claims are gone, and rows lose at most their lease.
LEMMA RestartKeeps ==
  ASSUME ProcessorInv, NEW i \in Instances, Crash(i) \/ Stop(i)
  PROVE  ProcessorInv'
<1> USE DEF ProcessorInv, ProcessorTypes
<1> DEFINE Freed(row) == [row EXCEPT !.leased = FALSE]
<1>1. /\ proc' = [proc EXCEPT ![i] = [r \in Rows |-> Free]]
      /\ UNCHANGED <<counted, errors>>
  BY DEF Crash, Stop, Restart
<1>2. /\ raw' = [r \in Rows |-> raw'[r]]
      /\ \A r \in Rows : raw'[r] = raw[r] \/ (raw[r] \in Email /\ raw'[r] = Freed(raw[r]))
  <2>1. CASE Crash(i) BY <2>1 DEF Crash
  <2>2. CASE Stop(i)
    <3>1. raw' \in ReleaseClaim(proc[i], raw) BY <2>2 DEF Stop
    <3>2. DOMAIN raw = Rows /\ DOMAIN proc[i] = Rows OBVIOUS
    <3>3. \A r \in Rows : proc[i][r].at = "claimed" => raw[r] \in Email
      BY DEF ClaimOK, Free
    <3> QED BY <3>1, <3>2, <3>3, Releases
  <2> QED BY <2>1, <2>2
<1>3. \A row \in Email : /\ Freed(row) \in Email /\ Freed(row).retries = row.retries
                         /\ Freed(row).status = row.status
  BY DEF Email
<1> HIDE DEF Freed
<1>4. raw' \in [Rows -> Email \cup {Unissued}] BY <1>2, <1>3
<1>5. \A r \in Rows : RawOK(raw'[r], errors'[r])
  BY <1>1, <1>2, <1>3, RowShapes DEF RawOK
<1>6. \A r \in Rows : raw[r] # Unissued => raw'[r] # Unissued
  BY <1>2, <1>3, RowShapes
<1>7. /\ proc' \in [Instances -> [Rows -> Claim \cup {Free}]]
      /\ \A j \in Instances, r \in Rows : proc'[j][r] \in {proc[j][r], Free}
  BY <1>1
<1>8. \A j \in Instances, r \in Rows : ClaimOK(proc'[j][r], raw'[r], errors'[r])
  BY <1>1, <1>6, <1>7 DEF ClaimOK
<1> QED BY <1>1, <1>4, <1>5, <1>7, <1>8

\* Every step keeps the invariant of the processor.
LEMMA ProcessorStep ==
  ASSUME ProcessorInv, Next
  PROVE  ProcessorInv'
<1> USE DEF ProcessorInv, ProcessorTypes
<1>0. ASSUME UNCHANGED processorVars PROVE ProcessorInv'
  BY <1>0 DEF processorVars
<1>1. ASSUME NEW u \in Users, NEW kind \in Kinds, IngestEmail(u, kind) PROVE ProcessorInv'
  <2>1. PICK r \in Oldest({x \in Rows : ~Issued(raw[x])}) :
          raw' = [raw EXCEPT ![r] = NewEmail(u, kind)]
    BY <1>1 DEF IngestEmail
  <2>2. r \in Rows BY DEF Oldest
  <2>3. NewEmail(u, kind) \in Email BY Limits DEF NewEmail, Email
  <2>4. RawOK(NewEmail(u, kind), errors[r]) BY <2>2 DEF RawOK, NewEmail
  <2>5. UNCHANGED <<proc, counted, errors>> BY <1>1 DEF IngestEmail, workVars
  <2> QED BY <2>1, <2>2, <2>3, <2>4, <2>5, RawWrite
<1>2. ASSUME NEW i \in Instances, NEW r \in Rows,
             UpsertOnReceipt(i, r) \/ CreateEntry(i, r) \/ Fails(i, r)
      PROVE  ProcessorInv'
  <2>1. proc[i][r] # Free
    BY <1>2 DEF UpsertOnReceipt, CreateEntry, Fails, Started, Claims, Free
  <2>2. CASE UpsertOnReceipt(i, r)
    <3>1. Goto(i, r, "create") /\ UNCHANGED <<raw, errors>> BY <2>2 DEF UpsertOnReceipt
    <3>2. counted' = [counted EXCEPT ![r] = counted[r] + 1]
      BY <2>2 DEF UpsertOnReceipt, Upsert
    <3>3. \A n \in Nat : n + 1 \in Nat OBVIOUS
    <3>4. counted' \in [Rows -> Nat] BY <3>2, <3>3
    <3> QED BY <2>1, <3>1, <3>4, ClaimWrite
  <2>3. CASE CreateEntry(i, r)
    <3>1. Goto(i, r, "complete") /\ UNCHANGED <<raw, counted, errors>> BY <2>3 DEF CreateEntry
    <3> QED BY <2>1, <3>1, ClaimWrite
  <2>4. CASE Fails(i, r)
    <3>1. /\ Goto(i, r, "error") /\ UNCHANGED <<raw, counted>>
          /\ errors' = [errors EXCEPT ![r] = @ + 1]
      BY <2>4 DEF Fails, tableVars
    <3> QED BY <2>1, <3>1, ClaimWrite
  <2> QED BY <1>2, <2>2, <2>3, <2>4
<1>3. ASSUME NEW i \in Instances, NEW r \in Rows, Complete(i, r)
      PROVE  ProcessorInv'
  <2> DEFINE row == [raw[r] EXCEPT !.status = "completed"]
  <2>1. /\ raw' = [raw EXCEPT ![r] = row] /\ proc' = [proc EXCEPT ![i][r] = Free]
        /\ UNCHANGED <<counted, errors>>
    BY <1>3 DEF Complete, Done
  <2>2. raw[r] \in Email BY <1>3 DEF Complete, ClaimOK, Free
  <2>3. row \in Email /\ RawOK(row, errors[r]) BY <2>2, RowShapes DEF Email, RawOK
  <2> HIDE DEF row
  <2> QED BY <2>1, <2>3, RawWrite
<1>4. ASSUME NEW i \in Instances, NEW r \in Rows, UpdateError(i, r)
      PROVE  ProcessorInv'
  <2> DEFINE n == proc[i][r].retries + 1
             row == WithFailure(raw[r], n, MaxAttempts)
  <2>1. /\ raw' = [raw EXCEPT ![r] = row] /\ proc' = [proc EXCEPT ![i][r] = Free]
        /\ UNCHANGED <<counted, errors>>
    BY <1>4 DEF UpdateError, Done
  <2>2. raw[r] \in Email /\ n <= errors[r] /\ proc[i][r] \in Claim
    <3>1. proc[i][r].at = "error" /\ proc[i][r] # Free BY <1>4 DEF UpdateError, Free
    <3>2. ClaimOK(proc[i][r], raw[r], errors[r]) OBVIOUS
    <3>3. raw[r] # Unissued /\ proc[i][r].retries + 1 <= errors[r]
      BY <3>1, <3>2 DEF ClaimOK
    <3> QED BY <3>1, <3>3
  <2>3. n \in 0..MaxAttempts BY <2>2, Limits DEF Claim
  <2> HIDE DEF n
  <2>4. row \in Email /\ row.retries = n /\ (row.status = "failed" => MaxAttempts <= n \/ raw[r].status = "failed")
    BY <2>2, <2>3, Limits DEF WithFailure, EndsAt, Email
  <2>5. errors[r] \in Nat /\ RawOK(raw[r], errors[r]) OBVIOUS
  <2> HIDE DEF row
  <2>6. RawOK(row, errors[r]) BY <2>2, <2>3, <2>4, <2>5, Limits, RowShapes DEF RawOK
  <2> QED BY <2>1, <2>4, <2>6, RawWrite
<1>5. ASSUME NEW i \in Instances, NEW r \in Rows, Abandon(i, r)
      PROVE  ProcessorInv'
  <2>1. proc' = [proc EXCEPT ![i][r] = Free] /\ UNCHANGED <<raw, counted, errors>>
    BY <1>5 DEF Abandon, Done, tableVars
  <2>2. /\ proc' \in [Instances -> [Rows -> Claim \cup {Free}]]
        /\ \A j \in Instances, q \in Rows : proc'[j][q] \in {proc[j][q], Free}
    BY <2>1
  <2> QED BY <2>1, <2>2 DEF ClaimOK
<1>6. ASSUME NEW r \in Rows, EmailLeaseEnds(r) \/ DeleteProcessed(r)
      PROVE  ProcessorInv'
  <2>1. PICK row \in {[raw[r] EXCEPT !.leased = FALSE], Deleted(raw[r])} :
          raw' = [raw EXCEPT ![r] = row]
    BY <1>6 DEF EmailLeaseEnds, DeleteProcessed
  <2>2. raw[r] \in Email
    BY <1>6, RowShapes DEF EmailLeaseEnds, DeleteProcessed, Live, Unissued
  <2>3. row \in Email /\ RawOK(row, errors[r])
    BY <2>2, RowShapes DEF Deleted, Email, RawOK
  <2>4. UNCHANGED <<proc, counted, errors>>
    BY <1>6 DEF EmailLeaseEnds, DeleteProcessed, workVars
  <2> QED BY <2>1, <2>3, <2>4, RawWrite
<1>7. ASSUME NEW i \in Instances, DeliverBatch(i) \/ HalfOpen(i) PROVE ProcessorInv'
  BY <1>0, <1>7 DEF processorVars, DeliverBatch, GetPendingEntries, Deliver, DeliverContent,
     CreateContent, CreateRefused, DeliveryFails, AddContentToUsers, UpdateDeliveryStatus,
     UpdateRetryInfo, HalfOpen, tableVars
<1>8. ASSUME NEW i \in Instances, NEW e \in Entries, RequestFails(i, e) \/ AbandonEntry(i, e)
      PROVE ProcessorInv'
  BY <1>0, <1>8 DEF processorVars, RequestFails, DeliveryFails, AbandonEntry, tableVars
<1>9. ASSUME NEW e \in Entries, Backoff(e) \/ EntryLeaseEnds(e) \/ DeleteDelivered(e)
      PROVE ProcessorInv'
  BY <1>0, <1>9 DEF processorVars, Backoff, EntryLeaseEnds, DeleteDelivered, workVars
<1>10. ASSUME Address PROVE ProcessorInv'
  BY <1>0, <1>10 DEF processorVars, Address, GetOrCreate, Draw, tableVars, workVars
<1> QED
  BY <1>1, <1>2, <1>3, <1>4, <1>5, <1>6, <1>7, <1>8, <1>9, <1>10, ClaimEmailsKeeps, RestartKeeps
  DEF Next, ProcessBatch, Process

\* What is known of the processor in every reachable state.
LEMMA ProcessorInvariant == Spec => []ProcessorInv
<1>1. Init => ProcessorInv
  BY DEF Init, ProcessorInv, ProcessorTypes, RawOK, ClaimOK
<1>2. ProcessorInv /\ [Next]_vars => ProcessorInv'
  <2>1. ASSUME ProcessorInv, UNCHANGED processorVars PROVE ProcessorInv'
    BY <2>1 DEF ProcessorInv, ProcessorTypes, processorVars
  <2> QED BY <2>1, ProcessorStep DEF vars, processorVars, tableVars, workVars
<1> QED BY <1>1, <1>2, PTL DEF Spec

-----------------------------------------------------------------------------
(* The outbox worker.  As for the processor; beyond that, an entry about to *)
(* be reported delivered is in its user's list, and a worker is past the    *)
(* claim with one entry at a time, so that between its two requests nobody  *)
(* opens the breaker.                                                       *)

EntryOK(row, failures, rows) ==
  row # Unissued => /\ row.retries <= failures
                    /\ row.status = "failed" => MaxRetries <= failures
                    /\ row.status = "delivered" => row.row \in rows

HoldOK(h, row, failures, rows) ==
  h # Free => /\ row # Unissued
              /\ h.retries <= failures
              /\ h.at = "fail" => h.retries + 1 <= failures
              /\ h.at = "mark" => row.row \in rows

Busy(i, e) == batch[i][e] # Free /\ batch[i][e].at # "claimed"

OutboxInv ==
  /\ OutboxTypes
  /\ \A e \in Entries : EntryOK(entry[e], tries[e], listed)
  /\ \A i \in Instances, e \in Entries : HoldOK(batch[i][e], entry[e], tries[e], listed)
  /\ \A i \in Instances, e, f \in Entries : Busy(i, e) /\ Busy(i, f) => e = f
  /\ \A i \in Instances, e \in Entries : batch[i][e].at = "add" => breaker[i] < Trip

outboxVars == <<entry, batch, breaker, tries, listed>>

\* As RowShapes, for entries.
LEMMA EntryShapes ==
  /\ \A row \in Entry \cup {Unissued} : Issued(row) <=> row \in Entry
  /\ Unissued \notin Entry
  /\ \A h \in Hold \cup {Free} : h # Free <=> h \in Hold
BY DEF Entry, Hold, Unissued, Free, Issued

\* One row is replaced by one in order, of the same email if there was one
\* before, and one hold may end.
LEMMA EntryWrite ==
  ASSUME OutboxInv, NEW e \in Entries, NEW row \in Entry, EntryOK(row, tries[e], listed),
         entry[e] # Unissued => row.row = entry[e].row,
         entry' = [entry EXCEPT ![e] = row], UNCHANGED <<breaker, tries, listed>>,
         \/ UNCHANGED batch
         \/ \E i \in Instances : batch' = [batch EXCEPT ![i][e] = Free]
  PROVE  OutboxInv'
<1> USE DEF OutboxInv, OutboxTypes
<1>1. entry' \in [Entries -> Entry \cup {Unissued}] OBVIOUS
<1>2. \A f \in Entries : EntryOK(entry'[f], tries[f], listed) OBVIOUS
<1>3. /\ batch' \in [Instances -> [Entries -> Hold \cup {Free}]]
      /\ \A i \in Instances, f \in Entries : batch'[i][f] \in {batch[i][f], Free}
  <2>1. CASE UNCHANGED batch BY <2>1
  <2>2. CASE \E i \in Instances : batch' = [batch EXCEPT ![i][e] = Free]
    <3>1. PICK i \in Instances : batch' = [batch EXCEPT ![i] = [batch[i] EXCEPT ![e] = Free]]
      BY <2>2
    <3>2. [batch[i] EXCEPT ![e] = Free] \in [Entries -> Hold \cup {Free}] OBVIOUS
    <3> QED BY <3>1, <3>2
  <2> QED BY <2>1, <2>2
<1>4. \A f \in Entries : entry[f] # Unissued => entry'[f] # Unissued /\ entry'[f].row = entry[f].row
  BY EntryShapes
<1>5. \A i \in Instances, f \in Entries : HoldOK(batch'[i][f], entry'[f], tries[f], listed)
  BY <1>3, <1>4 DEF HoldOK
<1>6. \A i \in Instances, f, g \in Entries : Busy(i, f)' /\ Busy(i, g)' => f = g
  <2>1. \A i \in Instances, f \in Entries : Busy(i, f)' => Busy(i, f) BY <1>3 DEF Busy
  <2> QED BY <2>1
<1>7. \A i \in Instances, f \in Entries : batch'[i][f].at = "add" => breaker'[i] < Trip
  BY <1>3 DEF Free
<1> QED BY <1>1, <1>2, <1>3, <1>5, <1>6, <1>7

\* The entry at work goes on to its next step.
LEMMA HoldWrite ==
  ASSUME OutboxInv, NEW i \in Instances, NEW e \in Entries, Current(i, e),
         NEW label \in {"add", "mark", "fail"}, Goes(i, e, label), UNCHANGED entry,
         listed \subseteq listed', listed' \subseteq Rows,
         label = "mark" => entry[e].row \in listed',
         \/ label # "fail" /\ UNCHANGED tries
         \/ tries' = [tries EXCEPT ![e] = @ + 1],
         breaker' \in [Instances -> 0..Trip],
         \A j \in Instances : j # i => breaker'[j] = breaker[j],
         label = "add" => breaker'[i] < Trip
  PROVE  OutboxInv'
<1> USE DEF OutboxInv, OutboxTypes
<1> DEFINE h == [batch[i][e] EXCEPT !.at = label]
<1>0. batch[i][e] \in Hold 
  <2>1. batch[i][e] # Free BY DEF Current, Batch
  <2>2. batch[i] \in [Entries -> Hold \cup {Free}] OBVIOUS
  <2> QED BY <2>1, <2>2
<1>1. h \in Hold /\ h.at = label /\ h.retries = batch[i][e].retries
  BY <1>0 DEF Hold
<1>2. batch' = [batch EXCEPT ![i] = [batch[i] EXCEPT ![e] = h]]
  BY DEF Goes
<1> HIDE DEF h
<1>3. /\ tries' \in [Entries -> Nat]
      /\ \A f \in Entries : tries[f] <= tries'[f]
      /\ label = "fail" => tries'[e] = tries[e] + 1
  <2>1. CASE label # "fail" /\ UNCHANGED tries BY <2>1
  <2>2. CASE tries' = [tries EXCEPT ![e] = @ + 1]
    <3>1. tries[e] \in Nat OBVIOUS
    <3>2. tries[e] + 1 \in Nat /\ tries[e] <= tries[e] + 1 BY <3>1
    <3>3. tries' = [tries EXCEPT ![e] = tries[e] + 1] BY <2>2
    <3>4. \A f \in Entries : tries[f] <= tries[f] OBVIOUS
    <3> QED BY <3>2, <3>3, <3>4
  <2> QED BY <2>1, <2>2
<1>4. ASSUME NEW f \in Entries PROVE EntryOK(entry'[f], tries'[f], listed')
  <2>1. CASE entry[f] = Unissued BY <2>1 DEF EntryOK
  <2>2. CASE entry[f] # Unissued
    <3>1. entry[f] \in Entry /\ EntryOK(entry[f], tries[f], listed) BY <2>2
    <3>2. tries[f] \in Nat /\ tries'[f] \in Nat /\ tries[f] <= tries'[f] BY <1>3
    <3>3. entry[f].retries \in Nat BY <3>1, Limits DEF Entry
    <3>4. entry[f].retries <= tries[f] /\ (entry[f].status = "failed" => MaxRetries <= tries[f])
      BY <2>2, <3>1 DEF EntryOK
    <3>5. entry[f].retries <= tries'[f] /\ (entry[f].status = "failed" => MaxRetries <= tries'[f])
      BY <3>2, <3>3, <3>4, Limits
    <3>6. entry[f].status = "delivered" => entry[f].row \in listed' BY <2>2, <3>1 DEF EntryOK
    <3> QED BY <3>5, <3>6 DEF EntryOK
  <2> QED BY <2>1, <2>2
<1>5. batch' \in [Instances -> [Entries -> Hold \cup {Free}]] BY <1>1, <1>2
<1>6. ASSUME NEW j \in Instances, NEW f \in Entries
      PROVE  HoldOK(batch'[j][f], entry'[f], tries'[f], listed')
  <2>1. CASE j = i /\ f = e
    <3>1. batch'[j][f] = h BY <1>2, <2>1
    <3>2. batch[i][e].retries \in Nat /\ tries[e] \in Nat /\ tries'[e] \in Nat
      BY <1>0, <1>3, Limits DEF Hold
    <3>3. entry'[e] # Unissued /\ batch[i][e].retries <= tries[e]
      BY <1>0, EntryShapes DEF HoldOK
    <3>4. h.retries <= tries'[e] /\ (label = "fail" => h.retries + 1 <= tries'[e])
      BY <1>1, <1>3, <3>2, <3>3
    <3> QED BY <1>1, <2>1, <3>1, <3>3, <3>4 DEF HoldOK
  <2>2. CASE ~(j = i /\ f = e)
    <3>1. batch'[j][f] = batch[j][f] BY <1>2, <2>2
    <3> QED BY <1>3, <3>1, EntryShapes, Limits DEF HoldOK, Hold
  <2> QED BY <2>1, <2>2
<1>7. \A f \in Entries \ {e} : ~Busy(i, f)' 
  BY <1>2 DEF Busy, Current, Batch
<1>8. \A j \in Instances \ {i}, f \in Entries : batch'[j][f] = batch[j][f]
  BY <1>2
<1>9. \A j \in Instances, f, g \in Entries : Busy(j, f)' /\ Busy(j, g)' => f = g
  BY <1>7, <1>8 DEF Busy
<1>10. \A j \in Instances, f \in Entries : batch'[j][f].at = "add" => breaker'[j] < Trip
  <2>1. batch'[i][e].at = "add" => breaker'[i] < Trip BY <1>1, <1>2
  <2>2. \A f \in Entries \ {e} : batch'[i][f].at # "add" BY <1>7 DEF Busy, Free
  <2> QED BY <1>8, <2>1, <2>2
<1> QED BY <1>3, <1>4, <1>5, <1>6, <1>9, <1>10

\* Rows whose lease or status changes, to no outcome.
Rewritten(old, new) ==
  \/ new = old
  \/ /\ old \in Entry /\ new \in Entry
     /\ new.row = old.row /\ new.retries = old.retries
     /\ new.status \in {old.status, "sending", "deleted"}

\* Such a change keeps every entry in order.
LEMMA EntriesRewrite ==
  ASSUME OutboxInv, entry' = [e \in Entries |-> entry'[e]],
         \A e \in Entries : Rewritten(entry[e], entry'[e]),
         UNCHANGED <<tries, listed>>
  PROVE  /\ entry' \in [Entries -> Entry \cup {Unissued}]
         /\ \A e \in Entries : EntryOK(entry'[e], tries'[e], listed')
         /\ \A e \in Entries :
              entry[e] # Unissued => entry'[e] # Unissued /\ entry'[e].row = entry[e].row
<1> USE DEF OutboxInv, OutboxTypes
<1>1. \A e \in Entries : entry'[e] \in Entry \cup {Unissued} BY DEF Rewritten
<1>2. entry' \in [Entries -> Entry \cup {Unissued}] BY <1>1
<1>3. \A e \in Entries : EntryOK(entry'[e], tries'[e], listed')
  BY EntryShapes DEF Rewritten, EntryOK
<1>4. \A e \in Entries :
        entry[e] # Unissued => entry'[e] # Unissued /\ entry'[e].row = entry[e].row
  BY EntryShapes DEF Rewritten
<1> QED BY <1>2, <1>3, <1>4

\* A claim of entries keeps the counts it read from them.
LEMMA ClaimEntriesKeeps ==
  ASSUME OutboxInv, NEW i \in Instances, GetPendingEntries(i)
  PROVE  OutboxInv'
<1> USE DEF OutboxInv, OutboxTypes
<1> DEFINE S == {e \in Entries : Deliverable(e)}
           Taken(e) == [entry[e] EXCEPT !.status = "sending", !.leased = TRUE]
           Handed(e) == [at |-> "claimed", retries |-> entry[e].retries]
<1>1. /\ entry' = [e \in Entries |-> IF e \in S THEN Taken(e) ELSE entry[e]]
      /\ batch' = [batch EXCEPT ![i] = [e \in Entries |-> IF e \in S THEN Handed(e) ELSE Free]]
      /\ UNCHANGED <<breaker, tries, listed>>
  BY DEF GetPendingEntries
<1>2. ASSUME NEW e \in S
      PROVE  /\ entry[e] \in Entry /\ Rewritten(entry[e], Taken(e)) /\ Handed(e) \in Hold
             /\ Handed(e).at = "claimed" /\ Handed(e).retries = entry[e].retries
  <2>1. entry[e] \in Entry /\ entry[e].retries < MaxRetries
    <3>1. e \in Entries /\ Owed(e) /\ entry[e].retries < MaxRetries BY DEF Deliverable
    <3>2. entry[e] # Unissued BY <3>1 DEF Owed, Live, Unissued
    <3> QED BY <3>1, <3>2
  <2>2. entry[e].retries \in 0..MaxRetries - 1 BY <2>1, Limits DEF Entry
  <2>3. Rewritten(entry[e], Taken(e)) BY <2>1 DEF Entry, Rewritten
  <2> QED BY <2>1, <2>2, <2>3 DEF Hold
<1> HIDE DEF S, Taken, Handed
<1>3. \A e \in Entries : Rewritten(entry[e], entry'[e]) BY <1>1, <1>2 DEF Rewritten
<1>4. entry' = [e \in Entries |-> entry'[e]] BY <1>1
<1>5. /\ entry' \in [Entries -> Entry \cup {Unissued}]
      /\ \A e \in Entries : EntryOK(entry'[e], tries'[e], listed')
      /\ \A e \in Entries :
           entry[e] # Unissued => entry'[e] # Unissued /\ entry'[e].row = entry[e].row
  BY <1>1, <1>3, <1>4, EntriesRewrite
<1>6. batch' \in [Instances -> [Entries -> Hold \cup {Free}]] BY <1>1, <1>2
<1>7. ASSUME NEW j \in Instances, NEW e \in Entries
      PROVE  HoldOK(batch'[j][e], entry'[e], tries'[e], listed')
  <2>1. CASE j # i BY <1>1, <1>5, <2>1 DEF HoldOK
  <2>2. CASE j = i /\ e \notin S BY <1>1, <2>2 DEF HoldOK
  <2>3. CASE j = i /\ e \in S
    <3>1. batch'[j][e] = Handed(e) /\ entry[e] # Unissued BY <1>1, <1>2, <2>3, EntryShapes
    <3>2. EntryOK(entry[e], tries[e], listed) OBVIOUS
    <3>3. Handed(e).at = "claimed" /\ Handed(e).retries <= tries[e]
      BY <1>2, <2>3, <3>1, <3>2 DEF EntryOK
    <3> QED BY <1>1, <1>5, <3>1, <3>3 DEF HoldOK
  <2> QED BY <2>1, <2>2, <2>3
<1>8. /\ \A e \in Entries : batch'[i][e] = Free \/ batch'[i][e].at = "claimed"
      /\ \A j \in Instances \ {i}, e \in Entries : batch'[j][e] = batch[j][e]
  BY <1>1, <1>2
<1>9. \A j \in Instances, e, f \in Entries : Busy(j, e)' /\ Busy(j, f)' => e = f
  BY <1>8 DEF Busy
<1>10. \A j \in Instances, e \in Entries : batch'[j][e].at = "add" => breaker'[j] < Trip
  BY <1>1, <1>8 DEF Free
<1> QED BY <1>1, <1>5, <1>6, <1>7, <1>9, <1>10

\* Whatever lets go of entries, and rewrites some of their rows.
LEMMA LetGo ==
  ASSUME OutboxInv, entry' = [e \in Entries |-> entry'[e]],
         \A e \in Entries : Rewritten(entry[e], entry'[e]),
         UNCHANGED <<tries, listed>>, breaker' \in [Instances -> 0..Trip],
         \A i \in Instances : breaker'[i] = breaker[i] \/ breaker'[i] < Trip,
         batch' \in [Instances -> [Entries -> Hold \cup {Free}]],
         \A i \in Instances, e \in Entries : batch'[i][e] \in {batch[i][e], Free}
  PROVE  OutboxInv'
<1> USE DEF OutboxInv, OutboxTypes
<1>1. /\ entry' \in [Entries -> Entry \cup {Unissued}]
      /\ \A e \in Entries : EntryOK(entry'[e], tries'[e], listed')
      /\ \A e \in Entries :
           entry[e] # Unissued => entry'[e] # Unissued /\ entry'[e].row = entry[e].row
  BY EntriesRewrite
<1>2. \A i \in Instances, e \in Entries : HoldOK(batch'[i][e], entry'[e], tries'[e], listed')
  BY <1>1 DEF HoldOK
<1>3. \A i \in Instances, e \in Entries : Busy(i, e)' => Busy(i, e) BY DEF Busy
<1>4. \A i \in Instances, e, f \in Entries : Busy(i, e)' /\ Busy(i, f)' => e = f BY <1>3
<1>5. \A i \in Instances, e \in Entries : batch'[i][e].at = "add" => breaker'[i] < Trip
  BY DEF Free
<1> QED BY <1>1, <1>2, <1>4, <1>5

\* One try at a delivery: every failure is counted, and the breaker as far as Trip.
LEMMA AttemptKeeps ==
  ASSUME OutboxInv, NEW i \in Instances, NEW e \in Entries,
         \/ DeliverContent(i, e) \/ CreateContent(i, e) \/ CreateRefused(i, e)
         \/ RequestFails(i, e) \/ AddContentToUsers(i, e)
  PROVE  OutboxInv'
<1>0. /\ OutboxTypes /\ Current(i, e) /\ UNCHANGED entry
      /\ batch[i][e].at = "add" => breaker[i] < Trip
  BY DEF OutboxInv, DeliverContent, CreateContent, CreateRefused, RequestFails, DeliveryFails,
         AddContentToUsers, At, tableVars
<1>1. batch[i][e] # Free /\ entry[e] \in Entry /\ entry[e].row \in Rows
  <2>1. batch[i][e] # Free BY <1>0 DEF Current, Batch
  <2>2. HoldOK(batch[i][e], entry[e], tries[e], listed) BY DEF OutboxInv
  <2>3. entry[e] \in Entry BY <1>0, <2>1, <2>2 DEF HoldOK, OutboxTypes
  <2> QED BY <2>1, <2>3 DEF Entry
<1>2. breaker[i] \in 0..Trip /\ listed \subseteq Rows BY <1>0 DEF OutboxTypes
<1>3. breaker[i] # Trip => breaker[i] < Trip /\ breaker[i] + 1 \in 0..Trip
  BY <1>2, Limits
<1>4. ASSUME NEW b \in 0..Trip, breaker' = [breaker EXCEPT ![i] = b]
      PROVE  /\ breaker' \in [Instances -> 0..Trip]
             /\ \A j \in Instances : j # i => breaker'[j] = breaker[j]
  BY <1>0, <1>4 DEF OutboxTypes
<1>5. CASE DeliverContent(i, e)
  <2>1. /\ Goes(i, e, "fail") /\ tries' = [tries EXCEPT ![e] = @ + 1]
        /\ UNCHANGED <<listed, breaker>>
    BY <1>5 DEF DeliverContent, DeliveryFails
  <2>2. breaker' \in [Instances -> 0..Trip] BY <1>0, <2>1 DEF OutboxTypes
  <2> QED BY <1>0, <1>2, <2>1, <2>2, HoldWrite
<1>6. CASE CreateContent(i, e)
  <2>1. Goes(i, e, "add") /\ UNCHANGED <<listed, breaker, tries>> /\ breaker[i] # Trip
    BY <1>6 DEF CreateContent, tableVars, Open
  <2>2. breaker' \in [Instances -> 0..Trip] BY <1>0, <2>1 DEF OutboxTypes
  <2> QED BY <1>0, <1>2, <1>3, <2>1, <2>2, HoldWrite
<1>7. CASE CreateRefused(i, e)
  <2>1. /\ Goes(i, e, "fail") /\ tries' = [tries EXCEPT ![e] = @ + 1] /\ UNCHANGED listed
        /\ breaker' = [breaker EXCEPT ![i] = breaker[i] + 1] /\ breaker[i] # Trip
    BY <1>7 DEF CreateRefused, DeliveryFails, Open
  <2>2. /\ breaker' \in [Instances -> 0..Trip]
        /\ \A j \in Instances : j # i => breaker'[j] = breaker[j]
    BY <1>3, <1>4, <2>1
  <2> QED BY <1>0, <1>2, <2>1, <2>2, HoldWrite
<1>8. CASE RequestFails(i, e)
  <2>1. /\ Goes(i, e, "fail") /\ tries' = [tries EXCEPT ![e] = @ + 1]
        /\ breaker' = [breaker EXCEPT ![i] = breaker[i] + 1]
        /\ listed' \in {listed, listed \cup {entry[e].row}}
    BY <1>8 DEF RequestFails, DeliveryFails
  <2>2. breaker[i] # Trip
    BY <1>0, <1>2, <1>8, Limits DEF RequestFails, Open, At
  <2>3. /\ breaker' \in [Instances -> 0..Trip]
        /\ \A j \in Instances : j # i => breaker'[j] = breaker[j]
    BY <1>3, <1>4, <2>1, <2>2
  <2>4. listed \subseteq listed' /\ listed' \subseteq Rows BY <1>1, <1>2, <2>1
  <2> QED BY <1>0, <2>1, <2>3, <2>4, HoldWrite
<1>9. CASE AddContentToUsers(i, e)
  <2>1. /\ Goes(i, e, "mark") /\ UNCHANGED tries
        /\ breaker' = [breaker EXCEPT ![i] = 0]
        /\ listed' = listed \cup {entry[e].row}
    BY <1>9 DEF AddContentToUsers
  <2>2. 0 \in 0..Trip BY Limits
  <2>3. /\ breaker' \in [Instances -> 0..Trip]
        /\ \A j \in Instances : j # i => breaker'[j] = breaker[j]
    BY <1>4, <2>1, <2>2
  <2>4. listed \subseteq listed' /\ listed' \subseteq Rows /\ entry[e].row \in listed'
    BY <1>1, <1>2, <2>1
  <2> QED BY <1>0, <2>1, <2>3, <2>4, HoldWrite
<1> QED BY <1>5, <1>6, <1>7, <1>8, <1>9

\* The outcome written back by id is true whatever became of the lease.
LEMMA OutcomeKeeps ==
  ASSUME OutboxInv, NEW i \in Instances, NEW e \in Entries,
         UpdateDeliveryStatus(i, e) \/ UpdateRetryInfo(i, e)
  PROVE  OutboxInv'
<1> DEFINE h == batch[i][e]
<1>1. /\ batch[i] \in [Entries -> Hold \cup {Free}] /\ tries[e] \in Nat
      /\ HoldOK(h, entry[e], tries[e], listed) /\ entry[e] \in Entry \cup {Unissued}
  BY DEF OutboxInv, OutboxTypes
<1>2. h # Free
  BY DEF UpdateDeliveryStatus, UpdateRetryInfo, At, Current, Batch
<1>3. h \in Hold /\ entry[e] \in Entry BY <1>1, <1>2 DEF HoldOK
<1>4. CASE UpdateDeliveryStatus(i, e)
  <2> DEFINE row == [entry[e] EXCEPT !.status = "delivered"]
  <2>1. /\ entry' = [entry EXCEPT ![e] = row] /\ batch' = [batch EXCEPT ![i][e] = Free]
        /\ UNCHANGED <<breaker, tries, listed>> /\ h.at = "mark"
    BY <1>4 DEF UpdateDeliveryStatus, TakeNext, At
  <2>2. row \in Entry /\ row.row = entry[e].row /\ row.retries = entry[e].retries
        /\ row.status = "delivered"
    BY <1>3 DEF Entry
  <2>3. EntryOK(entry[e], tries[e], listed) BY DEF OutboxInv
  <2> HIDE DEF row
  <2>4. EntryOK(row, tries[e], listed)
    BY <1>1, <1>2, <1>3, <2>1, <2>2, <2>3, EntryShapes DEF EntryOK, HoldOK
  <2> QED BY <2>1, <2>2, <2>4, EntryWrite
<1>5. CASE UpdateRetryInfo(i, e)
  <2> DEFINE n == h.retries + 1
             old == [entry[e] EXCEPT !.due = FALSE]
             row == WithFailure(old, n, MaxRetries)
  <2>1. /\ entry' = [entry EXCEPT ![e] = row] /\ batch' = [batch EXCEPT ![i][e] = Free]
        /\ UNCHANGED <<breaker, tries, listed>> /\ h.at = "fail"
    BY <1>5 DEF UpdateRetryInfo, TakeNext, At
  <2>2. n <= tries[e] BY <1>1, <1>2, <2>1 DEF HoldOK
  <2>3. n \in 0..MaxRetries BY <1>3, Limits DEF Hold
  <2>4. old \in Entry /\ old.row = entry[e].row /\ old.status = entry[e].status
    BY <1>3 DEF Entry
  <2> HIDE DEF n, old
  <2>5. /\ row \in Entry /\ row.row = old.row /\ row.retries = n
        /\ row.status = "failed" => MaxRetries <= n \/ old.status = "failed"
        /\ row.status \in {"failed", old.status}
    BY <2>3, <2>4, Limits DEF WithFailure, EndsAt, Entry
  <2>6. EntryOK(entry[e], tries[e], listed) BY DEF OutboxInv
  <2> HIDE DEF row
  <2>7. /\ row.retries <= tries[e]
        /\ row.status = "failed" => MaxRetries <= tries[e]
    BY <1>1, <1>3, <2>2, <2>3, <2>4, <2>5, <2>6, Limits, EntryShapes DEF EntryOK
  <2>8. row.status = "delivered" => row.row \in listed
    BY <1>3, <2>4, <2>5, <2>6, EntryShapes DEF EntryOK
  <2>9. EntryOK(row, tries[e], listed) BY <2>7, <2>8 DEF EntryOK
  <2> QED BY <2>1, <2>4, <2>5, <2>9, EntryWrite
<1> QED BY <1>4, <1>5

\* Every step keeps the invariant of the outbox worker.
LEMMA OutboxStep ==
  ASSUME OutboxInv, Next
  PROVE  OutboxInv'
<1> USE DEF OutboxInv
<1>0. ASSUME UNCHANGED outboxVars PROVE OutboxInv'
  BY <1>0 DEF outboxVars, OutboxTypes, Busy
<1>1. /\ \A i \in Instances, e \in Entries : batch[i][e] \in {batch[i][e], Free}
      /\ entry = [e \in Entries |-> entry[e]]
      /\ \A e \in Entries : Rewritten(entry[e], entry[e])
      /\ breaker \in [Instances -> 0..Trip]
      /\ batch \in [Instances -> [Entries -> Hold \cup {Free}]]
  BY DEF OutboxTypes, Rewritten
<1>2. ASSUME NEW i \in Instances, NEW r \in Rows, CreateEntry(i, r) PROVE OutboxInv'
  <2>1. PICK e \in Oldest({x \in Entries : ~Issued(entry[x])}) :
          entry' = [entry EXCEPT ![e] = NewEntry(r)]
    BY <1>2 DEF CreateEntry
  <2>2. e \in Entries /\ entry[e] = Unissued
    BY EntryShapes DEF Oldest, OutboxTypes
  <2>3. NewEntry(r) \in Entry BY Limits DEF NewEntry, Entry
  <2>4. tries[e] \in Nat BY <2>2 DEF OutboxTypes
  <2>5. EntryOK(NewEntry(r), tries[e], listed) BY <2>4 DEF EntryOK, NewEntry
  <2>6. UNCHANGED <<batch, breaker, tries, listed>> BY <1>2 DEF CreateEntry
  <2> QED BY <2>1, <2>2, <2>3, <2>5, <2>6, EntryWrite
<1>3. ASSUME NEW i \in Instances, NEW e \in Entries, AbandonEntry(i, e) PROVE OutboxInv'
  <2>1. batch' = [batch EXCEPT ![i][e] = Free] /\ UNCHANGED <<entry, breaker, tries, listed>>
    BY <1>3 DEF AbandonEntry, TakeNext, tableVars
  <2>2. /\ batch' \in [Instances -> [Entries -> Hold \cup {Free}]]
        /\ \A j \in Instances, f \in Entries : batch'[j][f] \in {batch[j][f], Free}
    BY <1>1, <2>1
  <2> QED BY <1>1, <2>1, <2>2, LetGo
<1>4. ASSUME NEW i \in Instances, HalfOpen(i) PROVE OutboxInv'
  <2>1. breaker' = [breaker EXCEPT ![i] = Trip - 1] /\ UNCHANGED <<entry, batch, tries, listed>>
    BY <1>4 DEF HalfOpen, tableVars
  <2>2. Trip - 1 \in 0..Trip /\ Trip - 1 < Trip BY Limits
  <2>3. /\ breaker' \in [Instances -> 0..Trip]
        /\ \A j \in Instances : breaker'[j] = breaker[j] \/ breaker'[j] < Trip
    BY <1>1, <2>1, <2>2
  <2> QED BY <1>1, <2>1, <2>3, LetGo
<1>5. ASSUME NEW i \in Instances, Crash(i) \/ Stop(i) PROVE OutboxInv'
  <2>1. /\ batch' = [batch EXCEPT ![i] = [e \in Entries |-> Free]]
        /\ breaker' = [breaker EXCEPT ![i] = 0] /\ UNCHANGED <<tries, listed>>
    BY <1>5 DEF Crash, Stop, Restart
  <2>2. 0 \in 0..Trip /\ 0 < Trip BY Limits
  <2>3. /\ breaker' \in [Instances -> 0..Trip]
        /\ \A j \in Instances : breaker'[j] = breaker[j] \/ breaker'[j] < Trip
    BY <1>1, <2>1, <2>2
  <2>4. /\ batch' \in [Instances -> [Entries -> Hold \cup {Free}]]
        /\ \A j \in Instances, f \in Entries : batch'[j][f] \in {batch[j][f], Free}
    BY <1>1, <2>1
  <2>5. /\ entry' = [e \in Entries |-> entry'[e]]
        /\ \A e \in Entries : Rewritten(entry[e], entry'[e])
    <3>1. CASE Crash(i) BY <1>1, <3>1 DEF Crash
    <3>2. CASE Stop(i)
      <4>1. entry' \in ReleaseClaim(batch[i], entry) BY <3>2 DEF Stop
      <4>2. DOMAIN entry = Entries /\ DOMAIN batch[i] = Entries BY <1>1
      <4>3. \A e \in Entries : batch[i][e].at = "claimed" => entry[e] \in Entry
        BY DEF HoldOK, Free, OutboxTypes
      <4>4. \A row \in Entry : Rewritten(row, [row EXCEPT !.leased = FALSE])
        BY DEF Rewritten, Entry
      <4>5. /\ entry' = [e \in Entries |-> entry'[e]]
            /\ \A e \in Entries :
                 \/ entry'[e] = entry[e]
                 \/ batch[i][e].at = "claimed" /\ entry'[e] = [entry[e] EXCEPT !.leased = FALSE]
        BY <4>1, <4>2, Releases
      <4>6. ASSUME NEW e \in Entries PROVE Rewritten(entry[e], entry'[e])
        <5>1. CASE entry'[e] = entry[e] BY <5>1 DEF Rewritten
        <5>2. CASE entry'[e] # entry[e]
          <6>1. entry[e] \in Entry BY <4>3, <4>5, <5>2
          <6>2. entry'[e] = [entry[e] EXCEPT !.leased = FALSE] BY <4>5, <5>2
          <6> QED BY <4>4, <6>1, <6>2
        <5> QED BY <5>1, <5>2
      <4> QED BY <4>5, <4>6
    <3> QED BY <1>5, <3>1, <3>2
  <2> QED BY <2>1, <2>3, <2>4, <2>5, LetGo
<1>6. ASSUME NEW r \in Rows, DeleteProcessed(r) PROVE OutboxInv'
  <2> DEFINE its == {e \in Entries : Live(entry[e]) /\ entry[e].row = r}
  <2>1. /\ entry' = [e \in Entries |-> IF e \in its THEN Deleted(entry[e]) ELSE entry[e]]
        /\ UNCHANGED <<batch, breaker, tries, listed>>
    BY <1>6 DEF DeleteProcessed, workVars
  <2>2. \A e \in its : entry[e] \in Entry
    <3>1. entry \in [Entries -> Entry \cup {Unissued}] BY DEF OutboxTypes
    <3>2. \A e \in its : e \in Entries /\ entry[e] # Unissued BY DEF Live, Unissued
    <3> QED BY <3>1, <3>2
  <2>3. \A row \in Entry : Rewritten(row, Deleted(row)) BY DEF Rewritten, Deleted, Entry
  <2> HIDE DEF its
  <2>4. /\ entry' = [e \in Entries |-> entry'[e]]
        /\ \A e \in Entries : Rewritten(entry[e], entry'[e])
    BY <2>1, <2>2, <2>3 DEF Rewritten
  <2> QED BY <1>1, <2>1, <2>4, LetGo
<1>7. ASSUME NEW e \in Entries, Backoff(e) \/ EntryLeaseEnds(e) \/ DeleteDelivered(e)
      PROVE OutboxInv'
  <2>1. PICK row \in {[entry[e] EXCEPT !.due = TRUE], [entry[e] EXCEPT !.leased = FALSE], Deleted(entry[e])} :
          entry' = [entry EXCEPT ![e] = row]
    BY <1>7 DEF Backoff, EntryLeaseEnds, DeleteDelivered
  <2>2. entry[e] \in Entry
    BY <1>7, EntryShapes DEF Backoff, EntryLeaseEnds, DeleteDelivered, Owed, Live, Unissued, OutboxTypes
  <2>3. Rewritten(entry[e], row) BY <2>1, <2>2 DEF Rewritten, Deleted, Entry
  <2>4. UNCHANGED <<batch, breaker, tries, listed>>
    BY <1>7 DEF Backoff, EntryLeaseEnds, DeleteDelivered, workVars
  <2>5. /\ entry' = [f \in Entries |-> entry'[f]]
        /\ \A f \in Entries : Rewritten(entry[f], entry'[f])
    <3>1. \A f \in Entries : entry'[f] = IF f = e THEN row ELSE entry[f] BY <1>1, <2>1
    <3>2. entry' = [f \in Entries |-> entry'[f]] BY <1>1, <2>1
    <3> QED BY <1>1, <2>3, <3>1, <3>2
  <2> QED BY <1>1, <2>4, <2>5, LetGo
<1>8. ASSUME NEW i \in Instances, NEW e \in Entries, Deliver(i, e) PROVE OutboxInv'
  BY <1>8, AttemptKeeps, OutcomeKeeps DEF Deliver
<1>9. ASSUME NEW i \in Instances, NEW r \in Rows,
             UpsertOnReceipt(i, r) \/ Complete(i, r) \/ UpdateError(i, r) \/ Fails(i, r) \/ Abandon(i, r)
      PROVE OutboxInv'
  BY <1>0, <1>9 DEF outboxVars, UpsertOnReceipt, Complete, UpdateError, Fails, Abandon, tableVars
<1>10. ASSUME NEW i \in Instances, GetPendingEmails(i) PROVE OutboxInv'
  BY <1>0, <1>10 DEF outboxVars, GetPendingEmails
<1>11. ASSUME NEW u \in Users, NEW kind \in Kinds, IngestEmail(u, kind) PROVE OutboxInv'
  BY <1>0, <1>11 DEF outboxVars, IngestEmail, workVars
<1>12. ASSUME NEW r \in Rows, EmailLeaseEnds(r) PROVE OutboxInv'
  BY <1>0, <1>12 DEF outboxVars, EmailLeaseEnds, workVars
<1>13. ASSUME Address PROVE OutboxInv'
  BY <1>0, <1>13 DEF outboxVars, Address, GetOrCreate, Draw, tableVars, workVars
<1> QED
  BY <1>2, <1>3, <1>4, <1>5, <1>6, <1>7, <1>8, <1>9, <1>10, <1>11, <1>12, <1>13,
     AttemptKeeps, ClaimEntriesKeeps
  DEF Next, ProcessBatch, Process, DeliverBatch

\* What is known of the outbox worker in every reachable state.
LEMMA OutboxInvariant == Spec => []OutboxInv
<1>1. Init => OutboxInv
  BY Limits DEF Init, OutboxInv, OutboxTypes, EntryOK, HoldOK, Busy, Free
<1>2. OutboxInv /\ [Next]_vars => OutboxInv'
  <2>1. ASSUME OutboxInv, UNCHANGED outboxVars PROVE OutboxInv'
    BY <2>1 DEF OutboxInv, OutboxTypes, Busy, outboxVars
  <2> QED BY <2>1, OutboxStep DEF vars, outboxVars, tableVars, workVars
<1> QED BY <1>1, <1>2, PTL DEF Spec

-----------------------------------------------------------------------------
(* What the two tables report.  A row of the outbox stays, for its email,   *)
(* until all is over; and an email gets to "complete", and from there to    *)
(* "completed", by having one.                                              *)

\* No row of the outbox is taken back, or passes to another email.
LEMMA EntriesStay ==
  ASSUME OutboxInv, Next, NEW e \in Entries, entry[e] # Unissued
  PROVE  entry'[e] # Unissued /\ entry'[e].row = entry[e].row
<1> DEFINE Stays == entry'[e] # Unissued /\ entry'[e].row = entry[e].row
<1>0. /\ entry[e] \in Entry /\ DOMAIN entry = Entries
      /\ \A i \in Instances : DOMAIN batch[i] = Entries
  BY DEF OutboxInv, OutboxTypes
<1>1. ASSUME UNCHANGED entry PROVE Stays
  BY <1>1
<1>3. ASSUME NEW i \in Instances, NEW r \in Rows, CreateEntry(i, r) PROVE Stays
  <2>1. PICK f \in Oldest({x \in Entries : ~Issued(entry[x])}) :
          entry' = [entry EXCEPT ![f] = NewEntry(r)]
    BY <1>3 DEF CreateEntry
  <2>2. f # e BY <1>0, EntryShapes DEF Oldest
  <2> QED BY <1>0, <2>1, <2>2
<1>4. ASSUME NEW i \in Instances, GetPendingEntries(i) PROVE Stays
  <2>1. entry'[e] \in {entry[e], [entry[e] EXCEPT !.status = "sending", !.leased = TRUE]}
    BY <1>4 DEF GetPendingEntries
  <2> QED BY <1>0, <2>1 DEF Entry, Unissued
<1>5. ASSUME NEW i \in Instances, NEW f \in Entries, UpdateDeliveryStatus(i, f) PROVE Stays
  <2>1. entry'[e] \in {entry[e], [entry[e] EXCEPT !.status = "delivered"]}
    BY <1>0, <1>5 DEF UpdateDeliveryStatus
  <2> QED BY <1>0, <2>1 DEF Entry, Unissued
<1>6. ASSUME NEW i \in Instances, NEW f \in Entries, UpdateRetryInfo(i, f) PROVE Stays
  <2> DEFINE n == batch[i][f].retries + 1
             row == WithFailure([entry[e] EXCEPT !.due = FALSE], n, MaxRetries)
  <2>1. entry'[e] \in {entry[e], row}
    BY <1>0, <1>6 DEF UpdateRetryInfo
  <2>2. row.row = entry[e].row /\ row.status \in {entry[e].status, "failed"}
    BY <1>0 DEF WithFailure, Entry
  <2> HIDE DEF row
  <2> QED BY <1>0, <2>1, <2>2 DEF Entry, Unissued
<1>7. ASSUME NEW f \in Entries, Backoff(f) \/ EntryLeaseEnds(f) \/ DeleteDelivered(f) PROVE Stays
  <2>1. entry'[e] \in {entry[e], [entry[e] EXCEPT !.due = TRUE], [entry[e] EXCEPT !.leased = FALSE],
                       Deleted(entry[e])}
    BY <1>0, <1>7 DEF Backoff, EntryLeaseEnds, DeleteDelivered
  <2> QED BY <1>0, <2>1 DEF Entry, Deleted, Unissued
<1>8. ASSUME NEW r \in Rows, DeleteProcessed(r) PROVE Stays
  <2>1. entry'[e] \in {entry[e], Deleted(entry[e])} BY <1>8 DEF DeleteProcessed
  <2> QED BY <1>0, <2>1 DEF Entry, Deleted, Unissued
<1>9. ASSUME NEW i \in Instances, Stop(i) PROVE Stays
  <2>1. entry' \in ReleaseClaim(batch[i], entry) BY <1>9 DEF Stop
  <2>2. entry'[e] \in {entry[e], [entry[e] EXCEPT !.leased = FALSE]}
    <3>1. \A f \in Entries :
            \/ entry'[f] = entry[f]
            \/ batch[i][f].at = "claimed" /\ entry'[f] = [entry[f] EXCEPT !.leased = FALSE]
      BY <1>0, <2>1, Releases
    <3> QED BY <3>1
  <2> QED BY <1>0, <2>2 DEF Entry, Unissued
<1>10. ASSUME NEW i \in Instances, NEW r \in Rows,
              \/ UpsertOnReceipt(i, r) \/ Complete(i, r) \/ UpdateError(i, r)
              \/ Fails(i, r) \/ Abandon(i, r)
       PROVE  Stays
  BY <1>1, <1>10 DEF UpsertOnReceipt, Complete, UpdateError, Fails, Abandon, tableVars
<1>11. ASSUME NEW i \in Instances, GetPendingEmails(i) \/ HalfOpen(i) \/ Crash(i) PROVE Stays
  BY <1>1, <1>11 DEF GetPendingEmails, HalfOpen, Crash, tableVars
<1>12. ASSUME NEW i \in Instances, NEW f \in Entries,
              \/ DeliverContent(i, f) \/ CreateContent(i, f) \/ CreateRefused(i, f)
              \/ AddContentToUsers(i, f) \/ RequestFails(i, f) \/ AbandonEntry(i, f)
       PROVE  Stays
  BY <1>1, <1>12 DEF DeliverContent, CreateContent, CreateRefused, AddContentToUsers, RequestFails,
     DeliveryFails, AbandonEntry, tableVars
<1>13. ASSUME NEW u \in Users, NEW kind \in Kinds, IngestEmail(u, kind) PROVE Stays
  BY <1>1, <1>13 DEF IngestEmail
<1>14. ASSUME NEW r \in Rows, EmailLeaseEnds(r) PROVE Stays
  BY <1>1, <1>14 DEF EmailLeaseEnds
<1>15. ASSUME Address PROVE Stays
  BY <1>1, <1>15 DEF Address, GetOrCreate, Draw, tableVars
<1> QED
  BY <1>3, <1>4, <1>5, <1>6, <1>7, <1>8, <1>9, <1>10, <1>11, <1>12, <1>13, <1>14, <1>15
  DEF Next, ProcessBatch, Process, DeliverBatch, Deliver

\* Reported completed, or about to be.
Finished(r) == raw[r].status = "completed" \/ \E i \in Instances : proc[i][r].at = "complete"

\* Only its row of the outbox brings an email there.
LEMMA FinishedBy ==
  ASSUME ProcessorInv, Next, NEW r \in Rows, Finished(r)', \A i \in Instances : ~CreateEntry(i, r)
  PROVE  Finished(r)
<1>0. /\ DOMAIN raw = Rows /\ raw[r] \in Email \cup {Unissued} /\ DOMAIN proc = Instances
      /\ \A i \in Instances : DOMAIN proc[i] = Rows
  BY DEF ProcessorInv, ProcessorTypes
<1> DEFINE Same == /\ raw'[r].status = "completed" => raw[r].status = "completed"
                   /\ \A i \in Instances : proc'[i][r].at = "complete" => proc[i][r].at = "complete"
<1>1. ASSUME Same PROVE Finished(r) BY <1>1 DEF Finished
<1>2. ASSUME UNCHANGED <<raw, proc>> PROVE Same BY <1>2
<1>3. ASSUME NEW u \in Users, NEW kind \in Kinds, IngestEmail(u, kind) PROVE Same
  BY <1>0, <1>3 DEF IngestEmail, NewEmail, workVars
<1>4. ASSUME NEW i \in Instances, GetPendingEmails(i) PROVE Same
  <2>1. /\ raw'[r].status = "completed" => raw[r].status = "completed"
    <3>1. raw'[r] = raw[r] \/ (Pending(r) /\ raw'[r] = [raw[r] EXCEPT !.status = "processing", !.leased = TRUE])
      BY <1>4 DEF GetPendingEmails
    <3>2. Pending(r) => raw[r] \in Email BY <1>0, RowShapes DEF Pending, Live, Unissued
    <3> QED BY <3>1, <3>2 DEF Email
  <2>2. \A j \in Instances : proc'[j][r].at = "complete" => proc[j][r].at = "complete"
    BY <1>0, <1>4 DEF GetPendingEmails, Free
  <2> QED BY <2>1, <2>2
<1>5. ASSUME NEW i \in Instances, NEW q \in Rows, CreateEntry(i, q) PROVE Same
  BY <1>0, <1>5 DEF CreateEntry, Goto
<1>6. ASSUME NEW i \in Instances, NEW q \in Rows, Complete(i, q) PROVE Finished(r)
  <2>1. CASE q = r BY <1>6, <2>1 DEF Complete, Finished
  <2>2. CASE q # r BY <1>0, <1>1, <1>6, <2>2 DEF Complete, Done
  <2> QED BY <2>1, <2>2
<1>7. ASSUME NEW i \in Instances, NEW q \in Rows, UpdateError(i, q) PROVE Same
  <2> DEFINE n == proc[i][q].retries + 1
             row == WithFailure(raw[q], n, MaxAttempts)
  <2>1. raw' = [raw EXCEPT ![q] = row] /\ proc' = [proc EXCEPT ![i][q] = Free]
    BY <1>7 DEF UpdateError, Done
  <2>2. raw[q] \in Email
    <3>1. proc[i][q] # Free BY <1>7 DEF UpdateError, Free
    <3> QED BY <3>1 DEF ProcessorInv, ProcessorTypes, ClaimOK
  <2>3. row.status \in {raw[q].status, "failed"} BY <2>2 DEF WithFailure, Email
  <2> HIDE DEF row
  <2> QED BY <1>0, <2>1, <2>3 DEF Free
<1>8. ASSUME NEW i \in Instances, NEW q \in Rows, UpsertOnReceipt(i, q) \/ Fails(i, q) \/ Abandon(i, q)
      PROVE  Same
  <2>1. UNCHANGED raw BY <1>8 DEF UpsertOnReceipt, Fails, Abandon, tableVars
  <2>2. \/ proc' = [proc EXCEPT ![i][q] = Free]
        \/ \E label \in {"create", "error"} : proc' = [proc EXCEPT ![i][q].at = label]
    BY <1>8 DEF UpsertOnReceipt, Fails, Abandon, Goto, Done
  <2>3. CASE proc' = [proc EXCEPT ![i][q] = Free] BY <1>0, <2>1, <2>3 DEF Free
  <2>4. CASE \E label \in {"create", "error"} : proc' = [proc EXCEPT ![i][q].at = label]
    <3>1. \A j \in Instances : proc[j][r] \in Claim \cup {Free}
      BY DEF ProcessorInv, ProcessorTypes
    <3> QED BY <1>0, <2>1, <2>4, <3>1 DEF Claim, Free
  <2> QED BY <2>2, <2>3, <2>4
<1>9. ASSUME NEW q \in Rows, EmailLeaseEnds(q) \/ DeleteProcessed(q) PROVE Same
  <2>1. /\ UNCHANGED proc
        /\ raw'[r] = raw[r] \/ (raw[r].status # "unissued" /\
                                raw'[r] \in {[raw[r] EXCEPT !.leased = FALSE], Deleted(raw[r])})
    BY <1>0, <1>9 DEF EmailLeaseEnds, DeleteProcessed, Live, workVars
  <2>2. raw[r].status # "unissued" => raw[r] \in Email BY <1>0 DEF Unissued
  <2> QED BY <2>1, <2>2 DEF Deleted, Email
<1>10. ASSUME NEW i \in Instances, Crash(i) \/ Stop(i) PROVE Same
  <2>1. proc' = [proc EXCEPT ![i] = [q \in Rows |-> Free]] BY <1>10 DEF Crash, Stop, Restart
  <2>2. raw'[r] \in {raw[r], [raw[r] EXCEPT !.leased = FALSE]}
    <3>1. CASE Crash(i) BY <3>1 DEF Crash
    <3>2. CASE Stop(i)
      <4>1. raw' \in ReleaseClaim(proc[i], raw) BY <3>2 DEF Stop
      <4>2. \A q \in Rows :
              \/ raw'[q] = raw[q]
              \/ proc[i][q].at = "claimed" /\ raw'[q] = [raw[q] EXCEPT !.leased = FALSE]
        BY <1>0, <4>1, Releases
      <4> QED BY <4>2
    <3> QED BY <1>10, <3>1, <3>2
  <2>3. raw'[r].status = "completed" => raw[r].status = "completed"
    BY <1>0, <2>2 DEF Email, Unissued
  <2> QED BY <1>0, <2>1, <2>3 DEF Free
<1>11. ASSUME NEW i \in Instances, DeliverBatch(i) \/ HalfOpen(i) PROVE Same
  BY <1>2, <1>11 DEF DeliverBatch, GetPendingEntries, Deliver, DeliverContent, CreateContent,
     CreateRefused, DeliveryFails, AddContentToUsers, UpdateDeliveryStatus, UpdateRetryInfo,
     HalfOpen, tableVars
<1>12. ASSUME NEW i \in Instances, NEW e \in Entries, RequestFails(i, e) \/ AbandonEntry(i, e) PROVE Same
  BY <1>2, <1>12 DEF RequestFails, DeliveryFails, AbandonEntry, tableVars
<1>13. ASSUME NEW e \in Entries, Backoff(e) \/ EntryLeaseEnds(e) \/ DeleteDelivered(e) PROVE Same
  BY <1>2, <1>13 DEF Backoff, EntryLeaseEnds, DeleteDelivered, workVars
<1>14. ASSUME Address PROVE Same
  BY <1>2, <1>14 DEF Address, GetOrCreate, Draw, tableVars, workVars
<1> QED
  BY <1>1, <1>3, <1>4, <1>5, <1>6, <1>7, <1>8, <1>9, <1>10, <1>11, <1>12, <1>13, <1>14
  DEF Next, ProcessBatch, Process

FinishedInv == \A r \in Rows : Finished(r) => EntriesOf(r) # {}

\* Whatever is completed, or about to be, has its row of the outbox.
LEMMA FinishedInvariant == Spec => []FinishedInv
<1>1. Init => FinishedInv
  BY DEF Init, FinishedInv, Finished, Unissued, Free
<1>2. ProcessorInv /\ OutboxInv /\ OutboxInv' /\ FinishedInv /\ [Next]_vars => FinishedInv'
  <2>1. ASSUME UNCHANGED vars, FinishedInv PROVE FinishedInv'
    BY <2>1 DEF vars, tableVars, workVars, FinishedInv, Finished, EntriesOf
  <2>2. ASSUME ProcessorInv, OutboxInv, OutboxInv', FinishedInv, Next, NEW r \in Rows, Finished(r)'
        PROVE  EntriesOf(r)' # {}
    <3>0. /\ entry \in [Entries -> Entry \cup {Unissued}]
          /\ entry' \in [Entries -> Entry \cup {Unissued}]
      BY <2>2 DEF OutboxInv, OutboxTypes
    <3>1. CASE Finished(r)
      <4>1. PICK e \in Entries : entry[e] # Unissued /\ entry[e].row = r
        BY <2>2, <3>0, <3>1, EntryShapes DEF FinishedInv, EntriesOf
      <4>2. entry'[e] # Unissued /\ entry'[e].row = r BY <2>2, <4>1, EntriesStay
      <4>3. Issued(entry'[e]) BY <3>0, <4>2, EntryShapes
      <4>4. e \in EntriesOf(r)' BY <4>2, <4>3 DEF EntriesOf, Issued
      <4> QED BY <4>4
    <3>2. CASE ~Finished(r)
      <4>1. PICK i \in Instances : CreateEntry(i, r) BY <2>2, <3>2, FinishedBy
      <4>2. PICK e \in Oldest({x \in Entries : ~Issued(entry[x])}) :
              entry' = [entry EXCEPT ![e] = NewEntry(r)]
        BY <4>1 DEF CreateEntry
      <4>3. e \in Entries /\ entry'[e] = NewEntry(r) BY <3>0, <4>2 DEF Oldest
      <4>4. e \in EntriesOf(r)' BY <4>3 DEF EntriesOf, Issued, NewEntry
      <4> QED BY <4>4
    <3> QED BY <3>1, <3>2
  <2> QED BY <2>1, <2>2 DEF FinishedInv
<1> QED BY <1>1, <1>2, ProcessorInvariant, OutboxInvariant, PTL DEF Spec

-----------------------------------------------------------------------------
(* Repeats.  An email is worth one count and one row of the outbox.  It may *)
(* still get another from whoever has it in hand and has yet to write it or *)
(* to give it back, and from the next claim of it; and each of those        *)
(* chances beyond the first was bought with a fault.                        *)

Places == {"claimed", "create", "error"}

Behind(r, places) == {i \in Instances : proc[i][r].at \in places}

\* A claim of the row is possible, now or once its lease has run out.
Ready(r) ==
  \/ raw[r].status \in {"unissued", "pending"}
  \/ raw[r].status = "processing" /\ (~raw[r].leased \/ ~InHand(r))

Chance(r) == IF Ready(r) THEN 1 ELSE 0

\* The account: what is had, may come of claims, and may come of a further
\* claim exceeds one only by the faults.
Even(B, n, k, f) == IsFiniteSet(B) /\ n + Cardinality(B) + k <= 1 + f

CountDebt(r) == Even(Behind(r, {"claimed", "error"}), counted[r], Chance(r), faults)

EntryDebt(r) ==
  /\ IsFiniteSet(EntriesOf(r))
  /\ Even(Behind(r, Places), Cardinality(EntriesOf(r)), Chance(r), faults)

DebtInv == \A r \in Rows : CountDebt(r) /\ EntryDebt(r)

\* How who is behind, what is had, what may still come of a claim, and the
\* faults can change.
Moves(B, C, i, n, m, k, l, f, g) ==
  \/ C \subseteq B /\ m = n /\ l <= k /\ f <= g
  \/ C \subseteq B /\ m = n /\ g = f + 1
  \/ C \subseteq B \ {i} /\ i \in B /\ m = n + 1 /\ l <= k /\ f <= g
  \/ C \subseteq B \ {i} /\ i \in B /\ m = n /\ f <= g
  \/ C \subseteq B \cup {i} /\ m = n /\ k = 1 /\ l = 0 /\ f <= g
  \/ C \subseteq B \cup {i} /\ m = n /\ l <= k /\ g = f + 1

\* The amounts it adds up.
Amounts(n, m, k, l, f, g) == {n, m, f, g} \subseteq Nat /\ {k, l} \subseteq {0, 1}

\* The account stays balanced.
LEMMA Balance ==
  ASSUME NEW B, NEW C, NEW i, NEW n, NEW m, NEW k, NEW l, NEW f, NEW g,
         Amounts(n, m, k, l, f, g), Even(B, n, k, f), Moves(B, C, i, n, m, k, l, f, g)
  PROVE  Even(C, m, l, g)
<1>0. /\ n \in Nat /\ m \in Nat /\ k \in {0, 1} /\ l \in {0, 1} /\ f \in Nat /\ g \in Nat
      /\ IsFiniteSet(B) /\ n + Cardinality(B) + k <= 1 + f
  BY DEF Amounts, Even
<1>1. Cardinality(B) \in Nat
  BY <1>0, FS_CardinalityType
<1>2. ASSUME C \subseteq B
      PROVE  IsFiniteSet(C) /\ Cardinality(C) \in Nat /\ Cardinality(C) <= Cardinality(B)
  BY <1>0, <1>2, FS_Subset, FS_CardinalityType
<1>3. ASSUME C \subseteq B \ {i}, i \in B
      PROVE  IsFiniteSet(C) /\ Cardinality(C) \in Nat /\ Cardinality(C) + 1 <= Cardinality(B)
  <2>1. IsFiniteSet(B \ {i}) /\ Cardinality(B \ {i}) = Cardinality(B) - 1
    BY <1>0, <1>3, FS_RemoveElement
  <2>2. IsFiniteSet(C) /\ Cardinality(C) \in Nat /\ Cardinality(C) <= Cardinality(B \ {i})
    BY <1>3, <2>1, FS_Subset, FS_CardinalityType
  <2> QED BY <1>1, <2>1, <2>2
<1>4. ASSUME C \subseteq B \cup {i}
      PROVE  IsFiniteSet(C) /\ Cardinality(C) \in Nat /\ Cardinality(C) <= Cardinality(B) + 1
  <2>1. IsFiniteSet(B \cup {i}) /\ Cardinality(B \cup {i}) \in {Cardinality(B), Cardinality(B) + 1}
    BY <1>0, FS_AddElement
  <2>2. IsFiniteSet(C) /\ Cardinality(C) \in Nat /\ Cardinality(C) <= Cardinality(B \cup {i})
    BY <1>4, <2>1, FS_Subset, FS_CardinalityType
  <2> QED BY <1>1, <2>1, <2>2
<1>5. CASE \/ C \subseteq B /\ m = n /\ l <= k /\ f <= g
           \/ C \subseteq B /\ m = n /\ g = f + 1
  BY <1>0, <1>1, <1>2, <1>5 DEF Even
<1>6. CASE \/ C \subseteq B \ {i} /\ i \in B /\ m = n + 1 /\ l <= k /\ f <= g
           \/ C \subseteq B \ {i} /\ i \in B /\ m = n /\ f <= g
  BY <1>0, <1>1, <1>3, <1>6 DEF Even
<1>7. CASE \/ C \subseteq B \cup {i} /\ m = n /\ k = 1 /\ l = 0 /\ f <= g
           \/ C \subseteq B \cup {i} /\ m = n /\ l <= k /\ g = f + 1
  <2>1. IsFiniteSet(C) /\ Cardinality(C) \in Nat /\ Cardinality(C) <= Cardinality(B) + 1
    BY <1>4, <1>7
  <2> QED BY <1>0, <1>1, <1>7, <2>1 DEF Even
<1> QED BY <1>5, <1>6, <1>7 DEF Moves

\* What a step can mean for an email.
Held(r, i, from, to) ==
  /\ proc[i][r].at \in from /\ proc'[i][r].at \in to
  /\ \A j \in Instances \ {i} : proc'[j][r].at = proc[j][r].at

Quiet(r) ==
  /\ \A j \in Instances : proc'[j][r].at \in {proc[j][r].at, "free"}
  /\ counted'[r] = counted[r]

\* Nothing, or the end of a claim that is done with it.
Rests(r) == Quiet(r) /\ (Ready(r)' => Ready(r)) /\ faults <= faults'

\* A claim that ends early, a lease that runs out too soon, a crash.
Breaks(r) == Quiet(r) /\ faults' = faults + 1

Counts(r) ==
  \E i \in Instances :
    /\ Held(r, i, {"claimed"}, {"create"}) /\ (Ready(r)' => Ready(r)) /\ faults' = faults
    /\ counted'[r] = counted[r] + 1

Creates(r) ==
  \E i \in Instances :
    /\ Held(r, i, {"create"}, {"complete"}) /\ (Ready(r)' => Ready(r)) /\ faults' = faults
    /\ counted'[r] = counted[r]
    /\ CreateEntry(i, r)

FailsAt(r) ==
  \E i \in Instances :
    /\ Held(r, i, {"claimed", "create"}, {"error"}) /\ (Ready(r)' => Ready(r))
    /\ faults' = faults + 1 /\ counted'[r] = counted[r]

GivesBack(r) ==
  \E i \in Instances :
    /\ Held(r, i, {"error"}, {"free"}) /\ faults' = faults /\ counted'[r] = counted[r]

Takes(r) ==
  \E i \in Instances :
    /\ Held(r, i, {"free"}, {"claimed"}) /\ Ready(r) /\ ~Ready(r)'
    /\ faults' = faults /\ counted'[r] = counted[r]

StepOf(r) ==
  \/ Rests(r) \/ Breaks(r) \/ Counts(r) \/ Creates(r) \/ FailsAt(r) \/ GivesBack(r) \/ Takes(r)

\* The account of an email's count, under each of these.
LEMMA CountDebtKept ==
  ASSUME NEW r \in Rows, CountDebt(r), StepOf(r), ProcessorInv, ProcessorInv',
         faults \in Nat, faults' \in Nat
  PROVE  CountDebt(r)'
<1> DEFINE B == Behind(r, {"claimed", "error"})
           C == B'
<1>1. /\ counted[r] \in Nat /\ counted'[r] \in Nat
  BY DEF ProcessorInv, ProcessorTypes
<1>2. /\ Chance(r) \in {0, 1} /\ Chance(r)' \in {0, 1}
      /\ (Ready(r)' => Ready(r)) => Chance(r)' <= Chance(r)
      /\ Ready(r) => Chance(r) = 1
      /\ ~Ready(r)' => Chance(r)' = 0
  BY DEF Chance
<1>3. /\ C = {i \in Instances : proc'[i][r].at \in {"claimed", "error"}}
      /\ B = {i \in Instances : proc[i][r].at \in {"claimed", "error"}}
  BY DEF Behind
<1>4. IsFiniteSet(B) /\ counted[r] + Cardinality(B) + Chance(r) <= 1 + faults
  BY DEF CountDebt, Even
<1> HIDE DEF B, C
<1>5. \E i : Moves(B, C, i, counted[r], counted'[r], Chance(r), Chance(r)', faults, faults')
  <2>1. CASE Rests(r) \/ Breaks(r)
    <3>1. C \subseteq B /\ counted'[r] = counted[r]
      BY <1>3, <2>1 DEF Rests, Breaks, Quiet
    <3> QED BY <1>2, <2>1, <3>1 DEF Rests, Breaks, Moves
  <2>2. CASE Counts(r)
    <3>1. PICK i \in Instances : Held(r, i, {"claimed"}, {"create"})
      BY <2>2 DEF Counts
    <3>2. C \subseteq B \ {i} /\ i \in B
      BY <1>3, <3>1 DEF Held
    <3> QED BY <1>2, <2>2, <3>2 DEF Counts, Moves
  <2>3. CASE Creates(r)
    <3>1. PICK i \in Instances : Held(r, i, {"create"}, {"complete"})
      BY <2>3 DEF Creates
    <3>2. C \subseteq B
      BY <1>3, <3>1 DEF Held
    <3> QED BY <1>2, <2>3, <3>2 DEF Creates, Moves
  <2>4. CASE FailsAt(r)
    <3>1. PICK i \in Instances : Held(r, i, {"claimed", "create"}, {"error"})
      BY <2>4 DEF FailsAt
    <3>2. C \subseteq B \cup {i}
      BY <1>3, <3>1 DEF Held
    <3> QED BY <1>2, <2>4, <3>2 DEF FailsAt, Moves
  <2>5. CASE GivesBack(r)
    <3>1. PICK i \in Instances : Held(r, i, {"error"}, {"free"})
      BY <2>5 DEF GivesBack
    <3>2. C \subseteq B \ {i} /\ i \in B
      BY <1>3, <3>1 DEF Held
    <3> QED BY <2>5, <3>2 DEF GivesBack, Moves
  <2>6. CASE Takes(r)
    <3>1. PICK i \in Instances : Held(r, i, {"free"}, {"claimed"})
      BY <2>6 DEF Takes
    <3>2. C \subseteq B \cup {i}
      BY <1>3, <3>1 DEF Held
    <3> QED BY <1>2, <2>6, <3>2 DEF Takes, Moves
  <2> QED BY <2>1, <2>2, <2>3, <2>4, <2>5, <2>6 DEF StepOf
<1>6. IsFiniteSet(C) /\ counted'[r] + Cardinality(C) + Chance(r)' <= 1 + faults'
  <2>1. PICK X, Y, n, m, k, l, f, g :
          /\ X = B /\ Y = C /\ n = counted[r] /\ m = counted'[r]
          /\ k = Chance(r) /\ l = Chance(r)' /\ f = faults /\ g = faults'
    OBVIOUS
  <2>2. Amounts(n, m, k, l, f, g)
    BY <1>1, <1>2, <2>1 DEF Amounts
  <2>3. Even(X, n, k, f)
    BY <1>4, <2>1 DEF Even
  <2>4. PICK i : Moves(X, Y, i, n, m, k, l, f, g)
    BY <1>5, <2>1
  <2>5. Even(Y, m, l, g)
    BY <2>2, <2>3, <2>4, Balance
  <2> QED BY <2>1, <2>5 DEF Even
<1> QED BY <1>6 DEF CountDebt, C, B, Even

\* Nobody but the processor gives an unissued id of the outbox to an email.
LEMMA UnissuedStays ==
  ASSUME OutboxInv, Next, NEW e \in Entries, entry[e] = Unissued,
         \A i \in Instances, r \in Rows : ~CreateEntry(i, r)
  PROVE  entry'[e] = Unissued
<1>0. /\ entry \in [Entries -> Entry \cup {Unissued}] /\ DOMAIN entry = Entries
      /\ \A i \in Instances : DOMAIN batch[i] = Entries
      /\ \A i \in Instances : batch[i][e] = Free
      /\ Unissued.status = "unissued" /\ Free.at = "free"
  BY DEF OutboxInv, OutboxTypes, HoldOK, Unissued, Free
<1>1. ASSUME UNCHANGED entry PROVE entry'[e] = Unissued
  BY <1>1
<1>2. ASSUME NEW i \in Instances, GetPendingEntries(i) PROVE entry'[e] = Unissued
  BY <1>0, <1>2 DEF GetPendingEntries, Deliverable, Owed, Live
<1>3. ASSUME NEW i \in Instances, NEW f \in Entries,
             UpdateDeliveryStatus(i, f) \/ UpdateRetryInfo(i, f)
      PROVE  entry'[e] = Unissued
  <2>1. f # e
    BY <1>0, <1>3 DEF UpdateDeliveryStatus, UpdateRetryInfo, At, Current, Batch
  <2>2. \E row : entry' = [entry EXCEPT ![f] = row]
    BY <1>3 DEF UpdateDeliveryStatus, UpdateRetryInfo
  <2> QED BY <1>0, <2>1, <2>2
<1>4. ASSUME NEW f \in Entries, Backoff(f) \/ EntryLeaseEnds(f) \/ DeleteDelivered(f)
      PROVE  entry'[e] = Unissued
  <2>1. f # e
    BY <1>0, <1>4 DEF Backoff, EntryLeaseEnds, DeleteDelivered, Owed, Live
  <2>2. \E row : entry' = [entry EXCEPT ![f] = row]
    BY <1>4 DEF Backoff, EntryLeaseEnds, DeleteDelivered
  <2> QED BY <1>0, <2>1, <2>2
<1>5. ASSUME NEW r \in Rows, DeleteProcessed(r) PROVE entry'[e] = Unissued
  BY <1>0, <1>5 DEF DeleteProcessed, Live
<1>6. ASSUME NEW i \in Instances, Stop(i) PROVE entry'[e] = Unissued
  <2>1. entry' \in ReleaseClaim(batch[i], entry) BY <1>6 DEF Stop
  <2>2. \A f \in Entries :
          \/ entry'[f] = entry[f]
          \/ batch[i][f].at = "claimed" /\ entry'[f] = [entry[f] EXCEPT !.leased = FALSE]
    BY <1>0, <2>1, Releases
  <2>3. batch[i][e].at # "claimed" BY <1>0
  <2> QED BY <1>0, <2>2, <2>3
<1>7. ASSUME NEW i \in Instances, NEW r \in Rows,
             \/ UpsertOnReceipt(i, r) \/ Complete(i, r) \/ UpdateError(i, r)
             \/ Fails(i, r) \/ Abandon(i, r)
      PROVE  entry'[e] = Unissued
  BY <1>0, <1>7 DEF UpsertOnReceipt, Complete, UpdateError, Fails, Abandon, tableVars
<1>8. ASSUME NEW i \in Instances, GetPendingEmails(i) \/ HalfOpen(i) \/ Crash(i)
      PROVE  entry'[e] = Unissued
  BY <1>8 DEF GetPendingEmails, HalfOpen, Crash, tableVars
<1>9. ASSUME NEW i \in Instances, NEW f \in Entries,
             \/ DeliverContent(i, f) \/ CreateContent(i, f) \/ CreateRefused(i, f)
             \/ AddContentToUsers(i, f) \/ RequestFails(i, f) \/ AbandonEntry(i, f)
      PROVE  entry'[e] = Unissued
  BY <1>9 DEF DeliverContent, CreateContent, CreateRefused, AddContentToUsers, RequestFails,
     DeliveryFails, AbandonEntry, tableVars
<1>10. ASSUME NEW u \in Users, NEW kind \in Kinds, IngestEmail(u, kind) PROVE entry'[e] = Unissued
  BY <1>10 DEF IngestEmail
<1>11. ASSUME NEW r \in Rows, EmailLeaseEnds(r) PROVE entry'[e] = Unissued
  BY <1>11 DEF EmailLeaseEnds
<1>12. ASSUME Address PROVE entry'[e] = Unissued
  BY <1>12 DEF Address, GetOrCreate, Draw, tableVars
<1> QED
  BY <1>2, <1>3, <1>4, <1>5, <1>6, <1>7, <1>8, <1>9, <1>10, <1>11, <1>12
  DEF Next, ProcessBatch, Process, DeliverBatch, Deliver

\* An email gets a row of the outbox by CreateEntry, and otherwise keeps those it has.
LEMMA EntriesSame ==
  ASSUME OutboxInv, OutboxInv', Next, NEW r \in Rows, \A i \in Instances : ~CreateEntry(i, r)
  PROVE  EntriesOf(r)' = EntriesOf(r)
<1>0. /\ entry \in [Entries -> Entry \cup {Unissued}]
      /\ entry' \in [Entries -> Entry \cup {Unissued}]
      /\ Unissued.status = "unissued"
      /\ \A row \in Entry : row.status # "unissued"
  BY DEF OutboxInv, OutboxTypes, Unissued, Entry
<1>1. EntriesOf(r) = {e \in Entries : entry[e] # Unissued /\ entry[e].row = r}
  BY <1>0 DEF EntriesOf, Issued
<1>2. EntriesOf(r)' = {e \in Entries : entry'[e] # Unissued /\ entry'[e].row = r}
  BY <1>0 DEF EntriesOf, Issued
<1>3. ASSUME NEW e \in Entries, entry[e] # Unissued
      PROVE  entry'[e] # Unissued /\ entry'[e].row = entry[e].row
  BY <1>3, EntriesStay
<1>4. ASSUME NEW e \in Entries, entry[e] = Unissued
      PROVE  entry'[e] = Unissued \/ entry'[e].row # r
  <2>1. CASE \A i \in Instances, q \in Rows : ~CreateEntry(i, q)
    BY <1>4, <2>1, UnissuedStays
  <2>2. ASSUME NEW i \in Instances, NEW q \in Rows, CreateEntry(i, q)
        PROVE  entry'[e] = Unissued \/ entry'[e].row # r
    <3>1. q # r BY <2>2
    <3>2. PICK f \in Entries : entry' = [entry EXCEPT ![f] = NewEntry(q)]
      BY <2>2 DEF CreateEntry, Oldest
    <3>3. NewEntry(q).row = q BY DEF NewEntry
    <3> QED BY <1>0, <1>4, <3>1, <3>2, <3>3
  <2> QED BY <2>1, <2>2
<1> QED BY <1>1, <1>2, <1>3, <1>4

\* The account of an email's rows of the outbox.
LEMMA EntryDebtKept ==
  ASSUME NEW r \in Rows, EntryDebt(r), StepOf(r), ProcessorInv, OutboxInv, OutboxInv', Next,
         faults \in Nat, faults' \in Nat
  PROVE  EntryDebt(r)'
<1> DEFINE B == Behind(r, Places)
           C == B'
           had == Cardinality(EntriesOf(r))
           has == had'
<1>2. /\ Chance(r) \in {0, 1} /\ Chance(r)' \in {0, 1}
      /\ (Ready(r)' => Ready(r)) => Chance(r)' <= Chance(r)
      /\ Ready(r) => Chance(r) = 1
      /\ ~Ready(r)' => Chance(r)' = 0
  BY DEF Chance
<1>3. /\ C = {i \in Instances : proc'[i][r].at \in Places}
      /\ B = {i \in Instances : proc[i][r].at \in Places}
      /\ Places = {"claimed", "create", "error"}
  BY DEF Behind, Places
<1>4. /\ IsFiniteSet(B) /\ had + Cardinality(B) + Chance(r) <= 1 + faults
      /\ IsFiniteSet(EntriesOf(r)) /\ had \in Nat
  BY FS_CardinalityType DEF EntryDebt, Even
<1> HIDE DEF B, C
<1>5. ASSUME ~Creates(r) PROVE EntriesOf(r)' = EntriesOf(r)
  <2> SUFFICES ASSUME NEW i \in Instances, CreateEntry(i, r) PROVE FALSE
    BY EntriesSame
  <2>1. proc[i][r].at = "create"
    BY DEF CreateEntry
  <2>2. proc'[i][r].at = "complete"
    <3>1. /\ DOMAIN proc = Instances /\ DOMAIN proc[i] = Rows
          /\ proc[i][r] \in Claim \cup {Free}
      BY DEF ProcessorInv, ProcessorTypes
    <3>2. DOMAIN proc[i][r] = {"at", "retries"}
      BY <2>1, <3>1 DEF Claim, Free
    <3> QED BY <3>1, <3>2 DEF CreateEntry, Goto
  <2> QED BY <1>5, <2>1, <2>2 DEF StepOf, Rests, Breaks, Quiet, Counts, FailsAt, GivesBack,
          Takes, Held
<1>6. IsFiniteSet(EntriesOf(r)') /\ has \in Nat
      /\ \E i : Moves(B, C, i, had, has, Chance(r), Chance(r)', faults, faults')
  <2>1. CASE Creates(r)
    <3>1. PICK i \in Instances : Held(r, i, {"create"}, {"complete"}) /\ CreateEntry(i, r)
      BY <2>1 DEF Creates
    <3>2. C \subseteq B \ {i} /\ i \in B
      BY <1>3, <3>1 DEF Held
    <3>3. PICK e \in Entries : ~Issued(entry[e]) /\ entry' = [entry EXCEPT ![e] = NewEntry(r)]
      BY <3>1 DEF CreateEntry, Oldest
    <3>4. EntriesOf(r)' = EntriesOf(r) \cup {e} /\ e \notin EntriesOf(r)
      BY <3>3 DEF EntriesOf, NewEntry, Issued, OutboxInv, OutboxTypes
    <3>5. IsFiniteSet(EntriesOf(r)') /\ has = had + 1
      BY <1>4, <3>4, FS_AddElement
    <3> QED BY <1>2, <1>4, <2>1, <3>2, <3>5 DEF Creates, Moves
  <2>2. CASE ~Creates(r)
    <3>1. EntriesOf(r)' = EntriesOf(r) /\ has = had
      BY <1>5, <2>2
    <3> HIDE DEF had, has
    <3>2. CASE Rests(r) \/ Breaks(r)
      <4>1. C \subseteq B
        BY <1>3, <3>2 DEF Rests, Breaks, Quiet
      <4> QED BY <1>2, <1>4, <3>1, <3>2, <4>1 DEF Rests, Breaks, Moves
    <3>3. CASE Counts(r)
      <4>1. PICK i \in Instances : Held(r, i, {"claimed"}, {"create"})
        BY <3>3 DEF Counts
      <4>2. C \subseteq B
        BY <1>3, <4>1 DEF Held
      <4> QED BY <1>2, <1>4, <3>1, <3>3, <4>2 DEF Counts, Moves
    <3>4. CASE FailsAt(r)
      <4>1. PICK i \in Instances : Held(r, i, {"claimed", "create"}, {"error"})
        BY <3>4 DEF FailsAt
      <4>2. C \subseteq B
        BY <1>3, <4>1 DEF Held
      <4> QED BY <1>2, <1>4, <3>1, <3>4, <4>2 DEF FailsAt, Moves
    <3>5. CASE GivesBack(r)
      <4>1. PICK i \in Instances : Held(r, i, {"error"}, {"free"})
        BY <3>5 DEF GivesBack
      <4>2. C \subseteq B \ {i} /\ i \in B
        BY <1>3, <4>1 DEF Held
      <4> QED BY <1>4, <3>1, <3>5, <4>2 DEF GivesBack, Moves
    <3>6. CASE Takes(r)
      <4>1. PICK i \in Instances : Held(r, i, {"free"}, {"claimed"})
        BY <3>6 DEF Takes
      <4>2. C \subseteq B \cup {i}
        BY <1>3, <4>1 DEF Held
      <4> QED BY <1>2, <1>4, <3>1, <3>6, <4>2 DEF Takes, Moves
    <3> QED BY <2>2, <3>2, <3>3, <3>4, <3>5, <3>6 DEF StepOf
  <2> QED BY <2>1, <2>2
<1>7. Even(C, has, Chance(r)', faults')
  <2>1. PICK X, Y, n, m, k, l, f, g :
          /\ X = B /\ Y = C /\ n = had /\ m = has
          /\ k = Chance(r) /\ l = Chance(r)' /\ f = faults /\ g = faults'
    OBVIOUS
  <2> HIDE DEF had, has
  <2>2. Amounts(n, m, k, l, f, g)
    BY <1>2, <1>4, <1>6, <2>1 DEF Amounts
  <2>3. Even(X, n, k, f)
    BY <1>4, <2>1 DEF Even
  <2>4. PICK i : Moves(X, Y, i, n, m, k, l, f, g)
    BY <1>6, <2>1
  <2>5. Even(Y, m, l, g)
    BY <2>2, <2>3, <2>4, Balance
  <2> QED BY <2>1, <2>5
<1> QED BY <1>6, <1>7 DEF EntryDebt, C, B

\* A claim that goes on stays a claim, and the others are left alone.
LEMMA GoesOn ==
  ASSUME ProcessorInv, NEW i \in Instances, NEW q \in Rows, NEW label, Goto(i, q, label),
         proc[i][q] # Free
  PROVE  /\ proc'[i][q].at = label /\ proc'[i][q] # Free
         /\ \A j \in Instances, r \in Rows : j # i \/ r # q => proc'[j][r] = proc[j][r]
<1>1. /\ DOMAIN proc = Instances /\ \A j \in Instances : DOMAIN proc[j] = Rows
      /\ proc[i][q] \in Claim
  BY DEF ProcessorInv, ProcessorTypes
<1>2. DOMAIN proc[i][q] = {"at", "retries"}
  BY <1>1 DEF Claim
<1>3. proc' = [proc EXCEPT ![i] = [proc[i] EXCEPT ![q] = [proc[i][q] EXCEPT !.at = label]]]
  BY DEF Goto
<1>4. proc'[i][q] = [proc[i][q] EXCEPT !.at = label]
  BY <1>1, <1>3
<1>5. DOMAIN proc'[i][q] = {"at", "retries"} /\ DOMAIN Free = {"at"}
  BY <1>2, <1>4 DEF Free
<1>6. "retries" \in DOMAIN proc'[i][q] /\ "retries" \notin DOMAIN Free
  BY <1>5
<1> QED BY <1>1, <1>2, <1>3, <1>4, <1>6

\* So does a claim that ends.
LEMMA LetsGo ==
  ASSUME ProcessorInv, NEW i \in Instances, NEW q \in Rows, Done(i, q)
  PROVE  /\ proc'[i][q].at = "free"
         /\ \A j \in Instances, r \in Rows : j # i \/ r # q => proc'[j][r] = proc[j][r]
<1>1. /\ DOMAIN proc = Instances /\ \A j \in Instances : DOMAIN proc[j] = Rows
  BY DEF ProcessorInv, ProcessorTypes
<1>2. proc' = [proc EXCEPT ![i] = [proc[i] EXCEPT ![q] = Free]]
  BY DEF Done
<1> QED BY <1>1, <1>2 DEF Free

\* The chance of a row that is left alone, and of its claims, stays as it is.
LEMMA SameChance ==
  ASSUME NEW r \in Rows, raw'[r] = raw[r],
         \A j \in Instances : proc'[j][r] # Free <=> proc[j][r] # Free
  PROVE  Ready(r)' <=> Ready(r)
<1>1. InHand(r)' <=> InHand(r)
  BY DEF InHand, Claims
<1> QED BY <1>1 DEF Ready

\* A step of the processor's on another row.
LEMMA OtherRow ==
  ASSUME NEW r \in Rows, raw'[r] = raw[r], counted'[r] = counted[r], faults <= faults',
         \A j \in Instances : proc'[j][r] = proc[j][r]
  PROVE  Rests(r)
<1>1. Ready(r)' <=> Ready(r)
  BY SameChance
<1> QED BY <1>1 DEF Rests, Quiet

\* An attempt: the count, the row of the outbox, a failure.
LEMMA StepOfAttempt ==
  ASSUME ProcessorInv, faults \in Nat, NEW i \in Instances, NEW q \in Rows, NEW r \in Rows,
         UpsertOnReceipt(i, q) \/ CreateEntry(i, q) \/ Fails(i, q)
  PROVE  StepOf(r)
<1>1. proc[i][q] # Free /\ Free.at = "free"
  BY DEF UpsertOnReceipt, CreateEntry, Fails, Started, Claims, Free
<1>2. UNCHANGED raw
  BY DEF UpsertOnReceipt, CreateEntry, Fails, tableVars
<1>3. PICK label \in {"create", "complete", "error"} : Goto(i, q, label)
  BY DEF UpsertOnReceipt, CreateEntry, Fails
<1>4. /\ proc'[i][q].at = label /\ proc'[i][q] # Free
      /\ \A j \in Instances, x \in Rows : j # i \/ x # q => proc'[j][x] = proc[j][x]
  <2>1. Goto(i, q, label) /\ proc[i][q] # Free
    BY <1>1, <1>3
  <2> QED BY ONLY <2>1, GoesOn, ProcessorInv, i \in Instances, q \in Rows
<1>5. counted \in [Rows -> Nat]
  BY DEF ProcessorInv, ProcessorTypes
<1>6. CASE r # q
  <2>1. counted'[r] = counted[r]
    <3>1. UNCHANGED counted \/ counted' = [counted EXCEPT ![q] = @ + 1]
      BY DEF UpsertOnReceipt, Upsert, CreateEntry, Fails, tableVars
    <3> QED BY <1>5, <1>6, <3>1
  <2>2. faults <= faults'
    BY DEF UpsertOnReceipt, CreateEntry, Fails, Fault
  <2> QED BY <1>2, <1>4, <1>6, <2>1, <2>2, OtherRow DEF StepOf
<1>7. CASE r = q
  <2>1. Ready(r)' <=> Ready(r)
    BY <1>1, <1>2, <1>4, <1>7, SameChance
  <2>2. ASSUME NEW from, NEW to, proc[i][q].at \in from, proc'[i][q].at \in to
        PROVE  Held(r, i, from, to)
    BY <1>4, <1>7, <2>2 DEF Held
  <2>3. CASE UpsertOnReceipt(i, q)
    <3>1. proc[i][q].at = "claimed"
      BY <2>3, <1>1 DEF UpsertOnReceipt, Started, Claims
    <3>2. proc'[i][q].at = "create"
      BY <1>1, <2>3, GoesOn DEF UpsertOnReceipt
    <3>3. counted'[r] = counted[r] + 1 /\ faults' = faults
      BY <1>5, <1>7, <2>3 DEF UpsertOnReceipt, Upsert
    <3>4. Held(r, i, {"claimed"}, {"create"})
      BY <2>2, <3>1, <3>2
    <3> QED BY <2>1, <3>3, <3>4 DEF Counts, StepOf
  <2>4. CASE CreateEntry(i, q)
    <3>1. proc[i][q].at = "create"
      BY <2>4 DEF CreateEntry
    <3>2. proc'[i][q].at = "complete"
      BY <1>1, <2>4, GoesOn DEF CreateEntry
    <3>3. counted'[r] = counted[r] /\ faults' = faults
      BY <2>4 DEF CreateEntry
    <3>4. Held(r, i, {"create"}, {"complete"})
      BY <2>2, <3>1, <3>2
    <3> QED BY <1>7, <2>1, <2>4, <3>3, <3>4 DEF Creates, StepOf
  <2>5. CASE Fails(i, q)
    <3>1. proc[i][q].at \in {"claimed", "create"}
      BY <2>5 DEF Fails
    <3>2. proc'[i][q].at = "error"
      BY <1>1, <2>5, GoesOn DEF Fails
    <3>3. counted'[r] = counted[r] /\ faults' = faults + 1
      BY <2>5 DEF Fails, Fault, tableVars
    <3>4. Held(r, i, {"claimed", "create"}, {"error"})
      BY <2>2, <3>1, <3>2
    <3> QED BY <2>1, <3>3, <3>4 DEF FailsAt, StepOf
  <2> QED BY <2>3, <2>4, <2>5
<1> QED BY <1>6, <1>7

\* The end of a claim: reported, given back, or dropped.
LEMMA StepOfEnd ==
  ASSUME ProcessorInv, faults \in Nat, NEW i \in Instances, NEW q \in Rows, NEW r \in Rows,
         Complete(i, q) \/ UpdateError(i, q) \/ Abandon(i, q)
  PROVE  StepOf(r)
<1>1. Done(i, q) /\ UNCHANGED counted
  BY DEF Complete, UpdateError, Abandon, tableVars
<1>2. /\ proc'[i][q].at = "free"
      /\ \A j \in Instances, x \in Rows : j # i \/ x # q => proc'[j][x] = proc[j][x]
  BY <1>1, LetsGo
<1>3. raw \in [Rows -> Email \cup {Unissued}]
  BY DEF ProcessorInv, ProcessorTypes
<1>4. CASE r # q
  <2>1. raw'[r] = raw[r]
    BY <1>3, <1>4 DEF Complete, UpdateError, Abandon, tableVars
  <2>2. faults <= faults'
    BY DEF Complete, UpdateError, Abandon, Fault
  <2> QED BY <1>1, <1>2, <1>4, <2>1, <2>2, OtherRow DEF StepOf
<1>5. CASE r = q
  <2>0. Quiet(r)
    BY <1>1, <1>2, <1>5 DEF Quiet
  <2>1. CASE Complete(i, q)
    <3>1. raw[q] \in Email
      <4>1. proc[i][q] # Free
        BY <2>1 DEF Complete, Free
      <4> QED BY <1>3, <4>1 DEF ProcessorInv, ClaimOK
    <3>2. raw'[r].status = "completed"
      BY <1>3, <1>5, <2>1, <3>1 DEF Complete, Email
    <3>3. ~Ready(r)' /\ faults' = faults
      BY <2>1, <3>2 DEF Ready, Complete
    <3> QED BY <2>0, <3>3 DEF Rests, StepOf
  <2>2. CASE UpdateError(i, q)
    <3>1. Held(r, i, {"error"}, {"free"})
      BY <1>2, <1>5, <2>2 DEF Held, UpdateError
    <3> QED BY <2>2, <1>1, <3>1 DEF GivesBack, StepOf, UpdateError
  <2>3. CASE Abandon(i, q)
    BY <2>0, <2>3 DEF Breaks, StepOf, Abandon, Fault
  <2> QED BY <2>1, <2>2, <2>3
<1> QED BY <1>4, <1>5

\* A claim of a batch.
LEMMA StepOfClaim ==
  ASSUME ProcessorInv, faults \in Nat, NEW i \in Instances, NEW r \in Rows, GetPendingEmails(i)
  PROVE  StepOf(r)
<1>1. /\ Claims(i) = {} /\ UNCHANGED <<counted, faults>>
      /\ raw'[r] = IF Pending(r) THEN [raw[r] EXCEPT !.status = "processing", !.leased = TRUE]
                   ELSE raw[r]
  BY DEF GetPendingEmails
<1>2. /\ proc'[i][r] = IF Pending(r) THEN [at |-> "claimed", retries |-> raw[r].retries] ELSE Free
      /\ \A j \in Instances \ {i} : proc'[j][r] = proc[j][r]
  BY DEF GetPendingEmails, ProcessorInv, ProcessorTypes
<1>3. proc[i][r] = Free
  BY <1>1 DEF Claims
<1>4. CASE ~Pending(r)
  BY <1>1, <1>2, <1>3, <1>4, OtherRow DEF StepOf
<1>5. CASE Pending(r)
  <2>1. raw[r] \in Email
    <3>1. raw[r] \in Email \cup {Unissued} /\ Unissued.status = "unissued"
      BY DEF ProcessorInv, ProcessorTypes, Unissued
    <3> QED BY <1>5, <3>1 DEF Pending, Live
  <2>2. Ready(r)
    BY <1>5 DEF Pending, Ready
  <2>3. raw'[r].status = "processing" /\ raw'[r].leased = TRUE
    BY <1>1, <1>5, <2>1 DEF Email
  <2>4. proc'[i][r].at = "claimed" /\ proc'[i][r] # Free
    <3>1. proc'[i][r].at = "claimed" /\ Free.at = "free"
      BY <1>2, <1>5 DEF Free
    <3> QED BY <3>1
  <2>5. InHand(r)'
    BY <2>4 DEF InHand, Claims
  <2>6. ~Ready(r)'
    BY <2>3, <2>5 DEF Ready
  <2>7. Held(r, i, {"free"}, {"claimed"})
    BY <1>2, <1>3, <2>4 DEF Held, Free
  <2> QED BY <1>1, <2>2, <2>6, <2>7 DEF Takes, StepOf
<1> QED BY <1>4, <1>5

\* Mail that comes, time, retention, and processes that end.
LEMMA StepOfWorld ==
  ASSUME ProcessorInv, faults \in Nat, NEW r \in Rows,
         \/ \E u \in Users, kind \in Kinds : IngestEmail(u, kind)
         \/ \E q \in Rows : EmailLeaseEnds(q) \/ DeleteProcessed(q)
         \/ \E i \in Instances : Crash(i) \/ Stop(i)
  PROVE  StepOf(r)
<1>0. /\ raw \in [Rows -> Email \cup {Unissued}] /\ DOMAIN proc = Instances
  BY DEF ProcessorInv, ProcessorTypes
<1>1. ASSUME NEW u \in Users, NEW kind \in Kinds, IngestEmail(u, kind) PROVE StepOf(r)
  <2>1. UNCHANGED <<proc, counted, faults>>
    BY <1>1 DEF IngestEmail, workVars
  <2>2. PICK q \in Rows : ~Issued(raw[q]) /\ raw' = [raw EXCEPT ![q] = NewEmail(u, kind)]
    BY <1>1 DEF IngestEmail, Oldest
  <2>3. CASE r = q
    <3>1. Ready(r)
      BY <2>2, <2>3 DEF Ready, Issued
    <3> QED BY <2>1, <3>1 DEF Rests, Quiet, StepOf
  <2>4. CASE r # q
    <3>1. raw'[r] = raw[r]
      BY <1>0, <2>2, <2>4
    <3> QED BY <2>1, <3>1, OtherRow DEF StepOf
  <2> QED BY <2>3, <2>4
<1>2. ASSUME NEW q \in Rows, EmailLeaseEnds(q) PROVE StepOf(r)
  <2>1. UNCHANGED <<proc, counted>> /\ faults <= faults'
    BY <1>2 DEF EmailLeaseEnds, workVars, Fault
  <2>2. CASE r # q
    <3>1. raw'[r] = raw[r]
      BY <1>0, <1>2, <2>2 DEF EmailLeaseEnds
    <3> QED BY <2>1, <3>1, OtherRow DEF StepOf
  <2>3. CASE r = q /\ InHand(q)
    BY <1>2, <2>1, <2>3 DEF EmailLeaseEnds, Fault, Breaks, Quiet, StepOf
  <2>4. CASE r = q /\ ~InHand(q)
    <3>1. Ready(r)
      BY <1>2, <2>4 DEF EmailLeaseEnds, Ready
    <3> QED BY <2>1, <3>1 DEF Rests, Quiet, StepOf
  <2> QED BY <2>2, <2>3, <2>4
<1>3. ASSUME NEW q \in Rows, DeleteProcessed(q) PROVE StepOf(r)
  <2>1. UNCHANGED <<proc, counted>> /\ faults <= faults'
    BY <1>3 DEF DeleteProcessed, workVars, Fault
  <2>2. CASE r # q
    <3>1. raw'[r] = raw[r]
      BY <1>0, <1>3, <2>2 DEF DeleteProcessed
    <3> QED BY <2>1, <3>1, OtherRow DEF StepOf
  <2>3. CASE r = q
    <3>1. raw[q] \in Email
      <4>1. raw[q] \in Email \cup {Unissued} /\ Unissued.status = "unissued"
        BY <1>0 DEF Unissued
      <4> QED BY <1>3, <4>1 DEF DeleteProcessed, Live
    <3>2. raw'[r].status = "deleted"
      BY <1>0, <1>3, <2>3, <3>1 DEF DeleteProcessed, Deleted, Email
    <3>3. ~Ready(r)'
      BY <3>2 DEF Ready
    <3> QED BY <2>1, <3>3 DEF Rests, Quiet, StepOf
  <2> QED BY <2>2, <2>3
<1>4. ASSUME NEW i \in Instances, Crash(i) \/ Stop(i) PROVE StepOf(r)
  <2>1. /\ proc' = [proc EXCEPT ![i] = [x \in Rows |-> Free]]
        /\ UNCHANGED counted /\ faults' = faults + 1
    BY <1>4 DEF Crash, Stop, Restart, Fault
  <2>2. Quiet(r)
    BY <1>0, <2>1 DEF Quiet, Free
  <2> QED BY <2>1, <2>2 DEF Breaks, StepOf
<1> QED BY <1>1, <1>2, <1>3, <1>4

\* Every step is one of these for every email.
LEMMA StepsOfEmails ==
  ASSUME ProcessorInv, faults \in Nat, Next, NEW r \in Rows
  PROVE  StepOf(r)
<1>1. ASSUME UNCHANGED <<raw, proc, counted>>, UNCHANGED faults \/ Fault PROVE StepOf(r)
  <2>1. faults <= faults'
    BY <1>1 DEF Fault
  <2> QED BY <1>1, <2>1, OtherRow DEF StepOf
<1>2. ASSUME NEW i \in Instances, ProcessBatch(i) PROVE StepOf(r)
  BY <1>2, StepOfClaim, StepOfAttempt, StepOfEnd DEF ProcessBatch, Process
<1>3. ASSUME NEW i \in Instances, NEW q \in Rows, Fails(i, q) \/ Abandon(i, q) PROVE StepOf(r)
  BY <1>3, StepOfAttempt, StepOfEnd
<1>4. ASSUME NEW i \in Instances, DeliverBatch(i) \/ HalfOpen(i) PROVE StepOf(r)
  BY <1>1, <1>4 DEF DeliverBatch, GetPendingEntries, Deliver, DeliverContent, CreateContent,
     CreateRefused, DeliveryFails, AddContentToUsers, UpdateDeliveryStatus, UpdateRetryInfo,
     HalfOpen, tableVars
<1>5. ASSUME NEW i \in Instances, NEW e \in Entries, RequestFails(i, e) \/ AbandonEntry(i, e)
      PROVE  StepOf(r)
  BY <1>1, <1>5 DEF RequestFails, DeliveryFails, AbandonEntry, tableVars
<1>6. ASSUME NEW e \in Entries, Backoff(e) \/ EntryLeaseEnds(e) \/ DeleteDelivered(e)
      PROVE  StepOf(r)
  BY <1>1, <1>6 DEF Backoff, EntryLeaseEnds, DeleteDelivered, workVars
<1>7. ASSUME Address PROVE StepOf(r)
  BY <1>1, <1>7 DEF Address, GetOrCreate, Draw, tableVars, workVars
<1> QED BY <1>2, <1>3, <1>4, <1>5, <1>6, <1>7, StepOfWorld DEF Next

-----------------------------------------------------------------------------
(* The theorems.                                                           *)

FaultsOK == faults \in 0..MaxFaults

\* Every variable has its shape: in particular no count passes its limit, and
\* the breaker does not count on while it is open.
THEOREM TypeCorrect == Spec => []TypeOK
<1>1. Init => FaultsOK BY DEF Init, FaultsOK
<1>2. FaultsOK /\ [Next]_vars => FaultsOK'
  <2>1. ASSUME FaultsOK, UNCHANGED faults \/ Fault PROVE FaultsOK'
    BY <2>1 DEF Fault, FaultsOK
  <2>2. ASSUME NEW i \in Instances, ProcessBatch(i) \/ HalfOpen(i) \/ Crash(i) \/ Stop(i)
        PROVE  UNCHANGED faults \/ Fault
    BY <2>2 DEF ProcessBatch, GetPendingEmails, Process, UpsertOnReceipt, CreateEntry, Complete,
       UpdateError, HalfOpen, Crash, Stop
  <2>3. ASSUME NEW i \in Instances, DeliverBatch(i) PROVE UNCHANGED faults \/ Fault
    BY <2>3 DEF DeliverBatch, GetPendingEntries, Deliver, DeliverContent, CreateContent,
       CreateRefused, AddContentToUsers, UpdateDeliveryStatus, UpdateRetryInfo
  <2>4. ASSUME NEW r \in Rows,
               \/ EmailLeaseEnds(r) \/ DeleteProcessed(r)
               \/ \E i \in Instances : Fails(i, r) \/ Abandon(i, r)
        PROVE  UNCHANGED faults \/ Fault
    BY <2>4 DEF EmailLeaseEnds, DeleteProcessed, Fails, Abandon
  <2>5. ASSUME NEW e \in Entries,
               \/ Backoff(e) \/ EntryLeaseEnds(e) \/ DeleteDelivered(e)
               \/ \E i \in Instances : RequestFails(i, e) \/ AbandonEntry(i, e)
        PROVE  UNCHANGED faults \/ Fault
    BY <2>5 DEF Backoff, EntryLeaseEnds, DeleteDelivered, RequestFails, AbandonEntry
  <2>6. ASSUME Address \/ \E u \in Users, kind \in Kinds : IngestEmail(u, kind)
        PROVE  UNCHANGED faults
    BY <2>6 DEF Address, GetOrCreate, Draw, IngestEmail
  <2>7. Next => UNCHANGED faults \/ Fault
    BY <2>2, <2>3, <2>4, <2>5, <2>6 DEF Next
  <2> QED BY <2>1, <2>7 DEF vars
<1>3. Spec => []FaultsOK BY <1>1, <1>2, PTL DEF Spec
<1>4. AddressInv /\ ProcessorInv /\ OutboxInv /\ FaultsOK => TypeOK
  BY DEF AddressInv, ProcessorInv, OutboxInv, FaultsOK, TypeOK
<1> QED BY <1>3, <1>4, AddressInvariant, ProcessorInvariant, OutboxInvariant, PTL

\* The address a user was ever given stays theirs, and is nobody else's
\* (GetOrCreate, and its two unique columns).
THEOREM AddressesAreKept == Spec => []AddressIsKept
<1>1. AddressInv => AddressIsKept BY DEF AddressInv, AddressIsKept
<1> QED BY <1>1, AddressInvariant, PTL

\* An email or an entry is given up only after its full number of failures:
\* counts are written back absolute and late, but never too high.
THEOREM FullNumberOfFailures == Spec => []GivenUpAfterFailures
<1>1. ProcessorInv /\ OutboxInv => GivenUpAfterFailures
  <2>1. ASSUME ProcessorInv, NEW r \in Rows, raw[r].status = "failed" PROVE errors[r] >= MaxAttempts
    <3>1. raw[r] # Unissued /\ RawOK(raw[r], errors[r]) /\ errors[r] \in Nat
      BY <2>1 DEF ProcessorInv, ProcessorTypes, Unissued
    <3> QED BY <2>1, <3>1, Limits DEF RawOK
  <2>2. ASSUME OutboxInv, NEW e \in Entries, entry[e].status = "failed" PROVE tries[e] >= MaxRetries
    <3>1. entry[e] # Unissued /\ EntryOK(entry[e], tries[e], listed) /\ tries[e] \in Nat
      BY <2>2 DEF OutboxInv, OutboxTypes, Unissued
    <3> QED BY <2>2, <3>1, Limits DEF EntryOK
  <2> QED BY <2>1, <2>2 DEF GivenUpAfterFailures
<1> QED BY <1>1, ProcessorInvariant, OutboxInvariant, PTL

\* What the statuses of the two tables say of an email is true of it: no email
\* is completed without its row of the outbox, none delivered that is not in
\* its user's list, through crashes, lost answers and updates that failed.
THEOREM ReportsHold == Spec => []ReportsAreTrue
<1>1. FinishedInv => CompletedHasEntry BY DEF FinishedInv, Finished, CompletedHasEntry
<1>2. OutboxInv => DeliveredIsListed
  <2>1. ASSUME OutboxInv, NEW e \in Entries, Live(entry[e]) PROVE entry[e] # Unissued
    BY <2>1 DEF Live, Unissued
  <2> QED BY <2>1 DEF OutboxInv, EntryOK, DeliveredIsListed
<1>3. TypeOK /\ FinishedInv /\ OutboxInv => ReportsAreTrue BY <1>1, <1>2 DEF ReportsAreTrue
<1> QED BY <1>3, TypeCorrect, FinishedInvariant, OutboxInvariant, PTL

\* An email goes into its sender's count, and gets a row of the outbox, once,
\* and again only after a fault, however many instances and workers there are.
THEOREM RepeatsAreFaults == Spec => []RepeatsCostFaults
<1> DEFINE Inv == ProcessorInv /\ OutboxInv /\ faults \in Nat
<1>1. Init => DebtInv
  <2> SUFFICES ASSUME Init, NEW r \in Rows PROVE CountDebt(r) /\ EntryDebt(r)
    BY DEF DebtInv
  <2>1. /\ Behind(r, {"claimed", "error"}) = {} /\ Behind(r, Places) = {}
        /\ EntriesOf(r) = {} /\ counted[r] = 0 /\ faults = 0 /\ Chance(r) \in {0, 1}
    BY DEF Init, Behind, Places, EntriesOf, Issued, Unissued, Free, Chance
  <2>2. IsFiniteSet({}) /\ Cardinality({}) = 0
    BY FS_EmptySet
  <2> QED BY <2>1, <2>2 DEF CountDebt, EntryDebt, Even
<1>2. DebtInv /\ Inv /\ Inv' /\ [Next]_vars => DebtInv'
  <2>1. ASSUME DebtInv, UNCHANGED vars PROVE DebtInv'
    BY <2>1 DEF vars, tableVars, workVars, DebtInv, CountDebt, EntryDebt, Behind, Chance, Ready,
       InHand, Claims, EntriesOf
  <2>2. ASSUME DebtInv, Inv, Inv', Next, NEW r \in Rows PROVE CountDebt(r)' /\ EntryDebt(r)'
    <3>1. CountDebt(r) /\ EntryDebt(r) /\ StepOf(r)
      BY <2>2, StepsOfEmails DEF DebtInv
    <3>2. CountDebt(r)'
      BY <2>2, <3>1, CountDebtKept
    <3>3. EntryDebt(r)'
      BY <2>2, <3>1, EntryDebtKept
    <3> QED BY <3>2, <3>3
  <2> QED BY <2>1, <2>2 DEF DebtInv
<1>3. DebtInv /\ Inv => RepeatsCostFaults
  <2> SUFFICES ASSUME DebtInv, Inv, NEW r \in Rows
               PROVE  counted[r] <= 1 + faults /\ Cardinality(EntriesOf(r)) <= 1 + faults
    BY DEF RepeatsCostFaults
  <2> DEFINE B == Behind(r, {"claimed", "error"})
             C == Behind(r, Places)
  <2>1. /\ IsFiniteSet(B) /\ counted[r] + Cardinality(B) + Chance(r) <= 1 + faults
        /\ IsFiniteSet(C) /\ IsFiniteSet(EntriesOf(r))
        /\ Cardinality(EntriesOf(r)) + Cardinality(C) + Chance(r) <= 1 + faults
    BY DEF DebtInv, CountDebt, EntryDebt, Even
  <2> HIDE DEF B, C
  <2>2. /\ Cardinality(B) \in Nat /\ Cardinality(C) \in Nat /\ Cardinality(EntriesOf(r)) \in Nat
    BY <2>1, FS_CardinalityType
  <2>3. counted[r] \in Nat /\ faults \in Nat /\ Chance(r) \in Nat
    BY DEF ProcessorInv, ProcessorTypes, Chance
  <2> QED BY <2>1, <2>2, <2>3
<1>4. TypeOK => faults \in Nat
  BY DEF TypeOK
<1> QED BY <1>1, <1>2, <1>3, <1>4, TypeCorrect, ProcessorInvariant, OutboxInvariant, PTL DEF Spec
=============================================================================
