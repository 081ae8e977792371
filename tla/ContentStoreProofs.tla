------------------------- MODULE ContentStoreProofs -------------------------
(* Proofs about ContentStore, for any users, articles and callers, and any  *)
(* number of requests, of faults and of days.                               *)
EXTENDS ContentStore, FiniteSetTheorems, TLAPS

USE ContentStoreAssumption

-----------------------------------------------------------------------------
(* The inductive invariants.                                                *)

\* A request, by its stage.
ReqType(c, r) ==
  /\ r.stage \in Stages
  /\ r.stage = "idle" => r = Nobody
  /\ r.stage = "create" => r.key \in Keys
  /\ r.stage \in {"link", "add", "unarchive"} => r.id \in Ids
  /\ r.stage \in {"add", "unarchive"} => c \in Users
  /\ r.stage = "inserting" =>
       /\ r.rows \in SUBSET Pairs /\ r.list \in [Users -> {"feed", "reads"}]
       /\ r.clears \subseteq Articles(r.rows)
  /\ r.stage = "deleting" =>
       /\ c \in Users /\ r.rows \in SUBSET ({c} \X Ids)
       /\ r.marks \subseteq Articles(r.rows)
ReqTypes == req = [c \in Callers |-> req[c]] /\ \A c \in Callers : ReqType(c, req[c])

JobType(j) ==
  /\ j.stage \in {"idle", "drain", "expire", "expiring", "drainOrphans", "orphans"}
  /\ j.stage \in {"expire", "expiring"} => j.picked \in SUBSET Pairs
  /\ j.stage = "expiring" => j.marks \subseteq Articles(j.picked)
  /\ j.stage = "orphans" => j.picked \in SUBSET Ids

TableTypes ==
  /\ contents \in [Ids -> Row \cup {Unborn, Gone}]
  /\ links \in [Pairs -> Link \cup {Unlinked}]
  /\ routes \in [Users -> {"feed", "reads"}]
CountTypes ==
  /\ now \in Times /\ requests \in 0..MaxRequests /\ faults \in 0..MaxFaults
  /\ overlapped \in SUBSET Ids

Types == ReqTypes /\ JobType(job) /\ TableTypes /\ CountTypes

\* A link, or one being inserted, is to an article that is there; and no two rows
\* have the same dedup key.
Referenced ==
  /\ \A p \in Pairs : HasLink(p) => IsRow(p[2])
  /\ \A c \in Callers : \A p \in Inserting(c) : IsRow(p[2])
StoredOnce ==
  \A i, j \in Ids : IsRow(i) /\ IsRow(j) /\ contents[i].key = contents[j].key => i = j

\* Who works on an article: a caller inserts or deletes links to it, or the job has
\* chosen a link to it.
Ins(c, i) == i \in Articles(Inserting(c))
Del(c, i) == i \in Articles(Deleting(c))
Exp(i)    == i \in Articles(Picked)

\* An article on which no two transactions have worked at once: who works on it now
\* works alone,
Alone(i) ==
  /\ \A c \in Callers : Ins(c, i) =>
       ~ Exp(i) /\ i \notin Doomed /\ \A d \in Callers : ~ Del(d, i)
  /\ \A c \in Callers : Del(c, i) => ~ Exp(i) /\ \A d \in Callers : Del(d, i) => c = d
\* what the triggers have decided in an open transaction is still right,
Decided(i) ==
  /\ \A c \in Callers : Ins(c, i) /\ contents[i].orphaned # Never => i \in req[c].clears
  /\ \A c \in Callers : Del(c, i) => (i \in req[c].marks <=> LinksOf(i) \subseteq req[c].rows)
  /\ job.stage = "expiring" /\ Exp(i) => (i \in job.marks <=> LinksOf(i) \subseteq job.picked)
\* a mark says that it has no reader,
Marked(i) == IsRow(i) /\ contents[i].orphaned # Never => LinksOf(i) = {}
\* and what the job has chosen may be deleted.
Chosen(i) ==
  /\ i \in Doomed => LinksOf(i) = {}
  /\ \A p \in Picked : p[2] = i /\ HasLink(p) => Expired(p)

Sound(i) == Alone(i) /\ Decided(i) /\ Marked(i) /\ Chosen(i)
SoundInv == \A i \in Ids \ overlapped : Sound(i)

-----------------------------------------------------------------------------
(* Pairs, links and requests.                                               *)

\* The parts of a pair.
LEMMA PairParts ==
  /\ \A p \in Pairs : p[1] \in Users /\ p[2] \in Ids /\ p = <<p[1], p[2]>>
  /\ \A u \in Users, i \in Ids :
       <<u, i>> \in Pairs /\ <<u, i>>[1] = u /\ <<u, i>>[2] = i
BY DEF Pairs

\* The links of an article.
LEMMA LinksOfIs ==
  ASSUME NEW i \in Ids
  PROVE  \A p : p \in LinksOf(i) <=> p \in Pairs /\ p[2] = i /\ HasLink(p)
<1>1. \A p : p \in Users \X {i} <=> p \in Pairs /\ p[2] = i
  BY DEF Pairs
<1> QED BY <1>1 DEF LinksOf

\* What is in the table is a link.
LEMMA LinkIsNone == \A x \in Link : x # Unlinked
<1> SUFFICES ASSUME NEW x \in Link, x = Unlinked PROVE FALSE
  OBVIOUS
<1>1. x.list \in {"feed", "reads"} /\ x.list = "none"
  BY DEF Link, Unlinked
<1> QED BY <1>1

\* A row is neither unborn nor gone.
LEMMA RowIsRow ==
  /\ \A x \in Row : x # Unborn /\ x # Gone /\ x.key \in Keys /\ x.orphaned \in {Never} \cup Times
  /\ Unborn.key \notin Keys /\ Gone.key \notin Keys
<1>1. Unborn.key = "unborn" /\ Gone.key = "gone"
  BY DEF Unborn, Gone
<1>2. \A x \in Row : x.key \in Keys /\ x.orphaned \in {Never} \cup Times
  BY DEF Row
<1> QED BY <1>1, <1>2

\* Being a row, when the table has its type.
LEMMA RowOrNot ==
  ASSUME TableTypes, NEW i \in Ids
  PROVE  /\ IsRow(i) <=> contents[i] \in Row
         /\ IsRow(i) <=> contents[i].key \in Keys
         /\ IsRow(i) => contents[i].key \in Keys /\ contents[i].orphaned \in {Never} \cup Times
<1>1. contents[i] \in Row \/ contents[i] = Unborn \/ contents[i] = Gone
  BY DEF TableTypes
<1> QED BY <1>1, RowIsRow DEF IsRow

\* The rows with a dedup key.
LEMMA RowsOfIs ==
  ASSUME TableTypes, NEW k \in Keys
  PROVE  \A i : i \in RowsOf(k) <=> i \in Ids /\ IsRow(i) /\ contents[i].key = k
BY RowOrNot DEF RowsOf

\* A request that has ended.
LEMMA NobodyType == \A c : ReqType(c, Nobody) /\ Nobody.stage = "idle"
BY DEF ReqType, Nobody, Stages

\* A caller's request changes, the others' do not.
LEMMA ReqSet ==
  ASSUME ReqTypes, NEW c \in Callers, NEW r, ReqType(c, r), req' = [req EXCEPT ![c] = r]
  PROVE  ReqTypes' /\ req'[c] = r /\ \A d \in Callers \ {c} : req'[d] = req[d]
<1>1. req = [d \in Callers |-> req[d]] /\ \A d \in Callers : ReqType(d, req[d])
  BY DEF ReqTypes
<1>2. req' = [d \in Callers |-> IF d = c THEN r ELSE req[d]]
  BY <1>1
<1>3. req'[c] = r /\ \A d \in Callers \ {c} : req'[d] = req[d]
  BY <1>2
<1>4. \A d \in Callers : ReqType(d, req'[d])
  BY <1>1, <1>3
<1>5. req' = [d \in Callers |-> req'[d]]
  BY <1>2
<1> QED BY <1>3, <1>4, <1>5 DEF ReqTypes

\* What callers and the job have in hand are pairs.
LEMMA InHand ==
  ASSUME ReqTypes, JobType(job)
  PROVE  /\ \A c \in Callers : /\ Inserting(c) \in SUBSET Pairs /\ Deleting(c) \in SUBSET Pairs
                               /\ \A p \in Deleting(c) : p[1] = c
         /\ Picked \in SUBSET Pairs /\ Doomed \in SUBSET Ids
<1>1. ASSUME NEW c \in Callers
      PROVE  /\ Inserting(c) \in SUBSET Pairs /\ Deleting(c) \in SUBSET Pairs
             /\ \A p \in Deleting(c) : p[1] = c
  <2>1. ReqType(c, req[c])
    BY DEF ReqTypes
  <2> QED BY <2>1 DEF ReqType, Inserting, Deleting, Pairs
<1>2. Picked \in SUBSET Pairs /\ Doomed \in SUBSET Ids
  BY DEF JobType, Picked, Doomed
<1> QED BY <1>1, <1>2

-----------------------------------------------------------------------------
(* Every step keeps the types.                                              *)

\* The empty tables.
LEMMA InitTypes == Init => Types
<1> SUFFICES ASSUME Init PROVE Types
  OBVIOUS
<1>1. ReqTypes
  BY NobodyType DEF Init, ReqTypes
<1>2. JobType(job)
  BY DEF Init, JobType
<1>3. TableTypes
  BY DEF Init, TableTypes
<1>4. CountTypes
  BY DEF Init, CountTypes, Times
<1> QED BY <1>1, <1>2, <1>3, <1>4 DEF Types

\* A mark is set or cleared.
LEMMA MarkSet ==
  ASSUME TableTypes, NEW ids, NEW t \in {Never} \cup Times, SetOrphaned(ids, t)
  PROVE  /\ contents' \in [Ids -> Row \cup {Unborn, Gone}]
         /\ \A i \in Ids : /\ IsRow(i)' <=> IsRow(i)
                           /\ IsRow(i) => /\ contents'[i].key = contents[i].key
                                          /\ i \in ids => contents'[i].orphaned = t
                                          /\ i \notin ids => contents'[i].orphaned = contents[i].orphaned
<1>1. contents' = [i \in Ids |-> IF i \in ids /\ IsRow(i)
                                 THEN [contents[i] EXCEPT !.orphaned = t] ELSE contents[i]]
  BY DEF SetOrphaned
<1>2. ASSUME NEW i \in Ids, i \in ids, IsRow(i)
      PROVE  /\ contents'[i] \in Row /\ contents'[i].key = contents[i].key
             /\ contents'[i].orphaned = t
  <2>1. contents[i] \in Row
    BY <1>2, RowOrNot
  <2>2. contents'[i] = [contents[i] EXCEPT !.orphaned = t]
    BY <1>1, <1>2
  <2> QED BY <2>1, <2>2 DEF Row
<1>3. \A i \in Ids : ~ (i \in ids /\ IsRow(i)) => contents'[i] = contents[i]
  BY <1>1
<1>4. \A i \in Ids : contents'[i] \in Row \cup {Unborn, Gone}
  BY <1>2, <1>3 DEF TableTypes
<1>5. contents' \in [Ids -> Row \cup {Unborn, Gone}]
  BY <1>1, <1>4
<1>6. \A i \in Ids : IsRow(i)' <=> IsRow(i)
  BY <1>2, <1>3, RowIsRow DEF IsRow
<1> QED BY <1>2, <1>3, <1>5, <1>6

\* A request begins, and is one among those that are counted.
LEMMA BeginTypes ==
  ASSUME ReqTypes, CountTypes, NEW c \in Callers, NEW r, ReqType(c, r), Begin(c, r)
  PROVE  /\ ReqTypes' /\ requests' \in 0..MaxRequests
         /\ req[c] = Nobody /\ req'[c] = r /\ \A d \in Callers \ {c} : req'[d] = req[d]
<1>1. req[c] = Nobody /\ req' = [req EXCEPT ![c] = r] /\ requests < MaxRequests /\ requests' = requests + 1
  BY DEF Begin
<1>2. requests' \in 0..MaxRequests
  BY <1>1 DEF CountTypes
<1> QED BY <1>1, <1>2, ReqSet

\* A request ends.
LEMMA EndTypes ==
  ASSUME ReqTypes, NEW c \in Callers, EndRequest(c)
  PROVE  ReqTypes' /\ req'[c] = Nobody /\ \A d \in Callers \ {c} : req'[d] = req[d]
BY ReqSet, NobodyType DEF EndRequest

\* The shapes of requests between statements.
LEMMA StageTypes ==
  /\ \A c, k : k \in Keys => ReqType(c, [stage |-> "create", key |-> k])
  /\ \A c, i : i \in Ids => ReqType(c, [stage |-> "link", id |-> i])
  /\ \A c, i : c \in Users /\ i \in Ids => /\ ReqType(c, [stage |-> "add", id |-> i])
                                           /\ ReqType(c, [stage |-> "unarchive", id |-> i])
<1>1. \A c, k : k \in Keys => ReqType(c, [stage |-> "create", key |-> k])
  BY DEF ReqType, Stages
<1>2. \A c, i : i \in Ids => ReqType(c, [stage |-> "link", id |-> i])
  BY DEF ReqType, Stages
<1>3. \A c, i : c \in Users /\ i \in Ids => /\ ReqType(c, [stage |-> "add", id |-> i])
                                            /\ ReqType(c, [stage |-> "unarchive", id |-> i])
  BY DEF ReqType, Stages
<1> QED BY <1>1, <1>2, <1>3

\* A request that is in no transaction, before or after.
Between(c) ==
  /\ req[c].stage \notin {"inserting", "deleting"} /\ req'[c].stage \notin {"inserting", "deleting"}
  /\ \A d \in Callers \ {c} : req'[d] = req[d]

\* Steps that look something up, which change nothing but their own request.
LookStep(c) ==
  \/ \E k \in Keys : LookUp(c, k)
  \/ SaveById(c)
  \/ CheckExisting(c)
LEMMA LookTypes ==
  ASSUME Types, NEW c \in Callers, LookStep(c)
  PROVE  /\ ReqTypes' /\ requests' \in 0..MaxRequests /\ Between(c)
         /\ UNCHANGED <<contents, links, routes, job, now, faults, overlapped>>
<1> USE DEF Types
<1>1. ASSUME NEW k \in Keys, LookUp(c, k)
      PROVE  /\ ReqTypes' /\ requests' \in 0..MaxRequests /\ Between(c)
             /\ UNCHANGED <<contents, links, routes, job, now, faults, overlapped>>
  <2>1. CASE \E i \in RowsOf(k) : Begin(c, [stage |-> "link", id |-> i])
    <3>1. PICK i \in Ids : Begin(c, [stage |-> "link", id |-> i])
      BY <2>1, RowsOfIs
    <3>2. ReqTypes' /\ requests' \in 0..MaxRequests /\ req[c] = Nobody
          /\ req'[c] = [stage |-> "link", id |-> i] /\ \A d \in Callers \ {c} : req'[d] = req[d]
      BY <3>1, BeginTypes, StageTypes
    <3> QED BY <3>2, <1>1, NobodyType DEF Between, LookUp
  <2>2. CASE Begin(c, [stage |-> "create", key |-> k])
    <3>1. ReqTypes' /\ requests' \in 0..MaxRequests /\ req[c] = Nobody
          /\ req'[c] = [stage |-> "create", key |-> k] /\ \A d \in Callers \ {c} : req'[d] = req[d]
      BY <2>2, BeginTypes, StageTypes
    <3> QED BY <3>1, <1>1, NobodyType DEF Between, LookUp
  <2> QED BY <1>1, <2>1, <2>2 DEF LookUp
<1>2. CASE SaveById(c)
  <2>1. PICK i \in Ids : Begin(c, [stage |-> "link", id |-> i])
    BY <1>2 DEF SaveById
  <2>2. ReqTypes' /\ requests' \in 0..MaxRequests /\ req[c] = Nobody
        /\ req'[c] = [stage |-> "link", id |-> i] /\ \A d \in Callers \ {c} : req'[d] = req[d]
    BY <2>1, BeginTypes, StageTypes
  <2> QED BY <2>2, <1>2, NobodyType DEF Between, SaveById
<1>3. CASE CheckExisting(c)
  <2>1. PICK r : ReqType(c, r) /\ req' = [req EXCEPT ![c] = r]
                 /\ r.stage \notin {"inserting", "deleting"}
    <3>1. req[c].id \in Ids /\ <<c, req[c].id>>[2] = req[c].id /\ c \in Users
      BY <1>3 DEF CheckExisting, ReqTypes, ReqType
    <3>2. CASE EndRequest(c)
      BY <3>2, NobodyType DEF EndRequest
    <3>3. CASE req' = [req EXCEPT ![c] = [stage |-> "add", id |-> req[c].id]]
      <4> DEFINE x == [stage |-> "add", id |-> req[c].id]
      <4>1. ReqType(c, x) /\ x.stage = "add"
        BY <3>1, StageTypes
      <4> HIDE DEF x
      <4> QED BY <4>1, <3>3 DEF x
    <3>4. CASE req' = [req EXCEPT ![c] = [stage |-> "unarchive", id |-> req[c].id]]
      <4> DEFINE x == [stage |-> "unarchive", id |-> req[c].id]
      <4>1. ReqType(c, x) /\ x.stage = "unarchive"
        BY <3>1, StageTypes
      <4> HIDE DEF x
      <4> QED BY <4>1, <3>4 DEF x
    <3> QED BY <1>3, <3>1, <3>2, <3>3, <3>4 DEF CheckExisting
  <2>2. ReqTypes' /\ req'[c] = r /\ \A d \in Callers \ {c} : req'[d] = req[d]
    BY <2>1, ReqSet
  <2> QED BY <2>1, <2>2, <1>3 DEF Between, CheckExisting, CountTypes
<1> QED BY <1>1, <1>2, <1>3 DEF LookStep

\* Steps that insert an article, or change its dedup key: rows stay rows, and keep
\* their marks.
Kept(i) ==
  /\ IsRow(i) => IsRow(i)' /\ contents'[i].orphaned = contents[i].orphaned
  /\ ~ IsRow(i) /\ IsRow(i)' => contents'[i].orphaned = Never

\* The article of a request for a new one.
LEMMA CreateTypes ==
  ASSUME Types, StoredOnce, NEW c \in Callers, Create(c)
  PROVE  /\ ReqTypes' /\ TableTypes' /\ StoredOnce' /\ Between(c) /\ \A i \in Ids : Kept(i)
         /\ UNCHANGED <<links, routes, job, now, requests, faults, overlapped>>
<1> USE DEF Types
<1>0. UNCHANGED <<links, routes, job, now, requests, faults, overlapped>>
      /\ req[c].stage = "create"
  BY DEF Create
<1>1. ReqType(c, req[c]) /\ req[c].key \in Keys
  BY <1>0 DEF ReqTypes, ReqType
<1>2. PICK i \in Ids : /\ Upsert(req[c].key, i)
                       /\ req' = [req EXCEPT ![c] = [stage |-> "link", id |-> i]]
  BY DEF Create
<1>3. ReqTypes' /\ req'[c] = [stage |-> "link", id |-> i] /\ \A d \in Callers \ {c} : req'[d] = req[d]
  BY <1>2, ReqSet, StageTypes
<1>4. Between(c)
  BY <1>0, <1>3 DEF Between
<1>5. CASE RowsOf(req[c].key) # {}
  <2>1. contents' = contents
    BY <1>2, <1>5 DEF Upsert
  <2>2. \A j \in Ids : IsRow(j)' <=> IsRow(j)
    BY <2>1 DEF IsRow
  <2>3. TableTypes' /\ StoredOnce' /\ \A j \in Ids : Kept(j)
    BY <2>1, <2>2, <1>0 DEF TableTypes, StoredOnce, Kept
  <2> QED BY <2>3, <1>0, <1>3, <1>4
<1>6. CASE RowsOf(req[c].key) = {}
  <2> DEFINE x == [key |-> req[c].key, orphaned |-> Never]
  <2>1. i \in Fresh /\ contents' = [contents EXCEPT ![i] = x]
    BY <1>2, <1>6 DEF Upsert
  <2>2. x \in Row /\ x.key = req[c].key /\ x.orphaned = Never
    BY <1>1 DEF Row
  <2> HIDE DEF x
  <2>3. ~ IsRow(i) /\ contents'[i] = x /\ \A j \in Ids \ {i} : contents'[j] = contents[j]
    BY <2>1 DEF IsRow, Fresh, TableTypes
  <2>4. TableTypes'
    BY <2>1, <2>2, <1>0 DEF TableTypes
  <2>5. IsRow(i)' /\ \A j \in Ids \ {i} : IsRow(j)' <=> IsRow(j)
    BY <2>2, <2>3, RowIsRow DEF IsRow
  <2>6. \A j \in Ids \ {i} : IsRow(j) => contents[j].key # req[c].key
    BY <1>1, <1>6, RowsOfIs
  <2>7. StoredOnce'
    BY <2>2, <2>3, <2>5, <2>6 DEF StoredOnce
  <2>8. \A j \in Ids : Kept(j)
    BY <2>2, <2>3, <2>5 DEF Kept
  <2> QED BY <2>4, <2>7, <2>8, <1>0, <1>3, <1>4
<1> QED BY <1>5, <1>6

\* An article's new HTML.
LEMMA UpdateTypes ==
  ASSUME Types, StoredOnce, NEW i \in Ids, UpdateContent(i)
  PROVE  /\ TableTypes' /\ StoredOnce' /\ requests' \in 0..MaxRequests
         /\ \A j \in Ids : Kept(j)
         /\ UNCHANGED <<links, routes, req, job, now, faults, overlapped>>
<1> USE DEF Types
<1>1. /\ IsRow(i) /\ requests' \in 0..MaxRequests
      /\ UNCHANGED <<links, routes, req, job, now, faults, overlapped>>
  BY DEF UpdateContent, CountTypes
<1>2. PICK k \in Keys : RowsOf(k) \subseteq {i} /\ contents' = [contents EXCEPT ![i].key = k]
  BY DEF UpdateContent, Update
<1>3. contents[i] \in Row
  BY <1>1, RowOrNot
<1>4. contents'[i] = [contents[i] EXCEPT !.key = k] /\ \A j \in Ids \ {i} : contents'[j] = contents[j]
  BY <1>2 DEF TableTypes
<1>5. contents'[i] \in Row /\ contents'[i].key = k /\ contents'[i].orphaned = contents[i].orphaned
  BY <1>3, <1>4 DEF Row
<1>6. TableTypes'
  BY <1>1, <1>2, <1>4, <1>5 DEF TableTypes
<1>7. IsRow(i)' /\ \A j \in Ids \ {i} : IsRow(j)' <=> IsRow(j)
  BY <1>4, <1>5, RowIsRow DEF IsRow
<1>8. \A j \in Ids \ {i} : IsRow(j) => contents[j].key # k
  BY <1>2, RowsOfIs
<1>9. StoredOnce'
  BY <1>4, <1>5, <1>7, <1>8 DEF StoredOnce
<1>10. \A j \in Ids : Kept(j)
  BY <1>1, <1>4, <1>5, <1>7 DEF Kept
<1> QED BY <1>1, <1>6, <1>9, <1>10

\* An insert of rows of one article begins.
Inserts(c, i, rows) ==
  /\ i \in Ids /\ IsRow(i) /\ rows \in SUBSET Pairs /\ \A p \in rows : p[2] = i
  /\ req[c].stage \notin {"inserting", "deleting"}
  /\ req'[c].stage = "inserting" /\ req'[c].rows = rows
  /\ req'[c].clears = {j \in Articles(rows) : contents[j].orphaned # Never}
  /\ \A d \in Callers \ {c} : req'[d] = req[d]
  /\ overlapped' = overlapped \cup ({i} \cap BusyDeleting)
LEMMA InsertTypes ==
  ASSUME Types, NEW c \in Callers, NEW i \in Ids, NEW rows \in SUBSET Pairs,
         \A p \in rows : p[2] = i, NEW list \in [Users -> {"feed", "reads"}],
         req[c].stage \notin {"inserting", "deleting"}, Insert(c, i, rows, list)
  PROVE  /\ ReqTypes' /\ overlapped' \in SUBSET Ids
         /\ \/ Inserts(c, i, rows)
            \/ Between(c) /\ UNCHANGED overlapped
<1> USE DEF Types
<1>1. CASE IsRow(i) /\ rows # {}
  <2> DEFINE r == [stage |-> "inserting", rows |-> rows, list |-> list,
                   clears |-> ClearsOrphans(rows)]
  <2>1. req' = [req EXCEPT ![c] = r] /\ overlapped' = overlapped \cup ({i} \cap BusyDeleting)
    BY <1>1 DEF Insert, Overlap
  <2>2. ClearsOrphans(rows) = {j \in Articles(rows) : contents[j].orphaned # Never}
    BY DEF ClearsOrphans
  <2>3. r.stage = "inserting" /\ r.rows = rows /\ r.list = list /\ r.clears = ClearsOrphans(rows)
    OBVIOUS
  <2> HIDE DEF r
  <2>4. ReqType(c, r)
    BY <2>2, <2>3 DEF ReqType, Stages
  <2>5. ReqTypes' /\ req'[c] = r /\ \A d \in Callers \ {c} : req'[d] = req[d]
    BY <2>1, <2>4, ReqSet
  <2>6. Inserts(c, i, rows)
    BY <1>1, <2>1, <2>2, <2>3, <2>5 DEF Inserts
  <2>7. overlapped' \in SUBSET Ids
    BY <2>1 DEF CountTypes
  <2> QED BY <2>5, <2>6, <2>7
<1>2. CASE ~ (IsRow(i) /\ rows # {})
  <2>1. EndRequest(c) /\ UNCHANGED overlapped
    BY <1>2 DEF Insert
  <2> QED BY <2>1, EndTypes, NobodyType DEF Between, CountTypes
<1> QED BY <1>1, <1>2

\* The two steps that insert links.
InsertStep(c) == AddLink(c) \/ (c = Ingest /\ BulkAddToUsers)
LEMMA InsertStepTypes ==
  ASSUME Types, NEW c \in Callers, InsertStep(c)
  PROVE  /\ ReqTypes' /\ overlapped' \in SUBSET Ids
         /\ \/ \E i, rows : Inserts(c, i, rows)
            \/ Between(c) /\ UNCHANGED overlapped
         /\ UNCHANGED <<contents, links, routes, job, now, requests, faults>>
<1>0. ReqType(c, req[c])
  BY DEF Types, ReqTypes
<1>1. CASE AddLink(c)
  <2> DEFINE p == <<c, req[c].id>>
             rows == IF HasLink(p) THEN {} ELSE {p}
             list == [v \in Users |-> "reads"]
  <2>1. req[c].stage = "add" /\ req[c].id \in Ids /\ c \in Users
    BY <1>0, <1>1 DEF AddLink, ReqType, Callers
  <2>2. p \in Pairs /\ p[2] = req[c].id
    BY <2>1, PairParts
  <2>3. Insert(c, req[c].id, rows, list)
    BY <1>1, <2>2 DEF AddLink
  <2>4. rows \in SUBSET Pairs /\ \A q \in rows : q[2] = req[c].id
    BY <2>2
  <2>5. list \in [Users -> {"feed", "reads"}]
    OBVIOUS
  <2> HIDE DEF rows, list
  <2>6. /\ ReqTypes' /\ overlapped' \in SUBSET Ids
        /\ Inserts(c, req[c].id, rows) \/ (Between(c) /\ UNCHANGED overlapped)
    BY <2>1, <2>3, <2>4, <2>5, InsertTypes
  <2> QED BY <2>6, <1>1 DEF AddLink
<1>2. CASE c = Ingest /\ BulkAddToUsers
  <2>1. req[c].stage = "link" /\ req[c].id \in Ids
    BY <1>0, <1>2 DEF BulkAddToUsers, ReqType
  <2>2. PICK us \in SUBSET Users : BulkCreate(c, req[c].id, us)
    BY <1>2 DEF BulkAddToUsers
  <2> DEFINE rows == {p \in us \X {req[c].id} : ~ HasLink(p)}
  <2>3. Insert(c, req[c].id, rows, routes)
    BY <2>2 DEF BulkCreate
  <2>4. rows \in SUBSET Pairs /\ \A q \in rows : q[2] = req[c].id
    BY <2>1 DEF Pairs
  <2>5. routes \in [Users -> {"feed", "reads"}]
    BY DEF Types, TableTypes
  <2> HIDE DEF rows
  <2>6. /\ ReqTypes' /\ overlapped' \in SUBSET Ids
        /\ Inserts(c, req[c].id, rows) \/ (Between(c) /\ UNCHANGED overlapped)
    BY <2>1, <2>3, <2>4, <2>5, InsertTypes
  <2> QED BY <2>6, <1>2 DEF BulkAddToUsers
<1> QED BY <1>1, <1>2 DEF InsertStep

\* Marks leave the dedup keys alone.
LEMMA MarkStoresOnce ==
  ASSUME TableTypes, StoredOnce, NEW ids, NEW t \in {Never} \cup Times, SetOrphaned(ids, t)
  PROVE  StoredOnce'
<1>1. \A i \in Ids : /\ IsRow(i)' <=> IsRow(i)
                     /\ IsRow(i) => contents'[i].key = contents[i].key
  BY MarkSet
<1> SUFFICES ASSUME NEW i \in Ids, NEW j \in Ids, IsRow(i)', IsRow(j)',
                    contents'[i].key = contents'[j].key
             PROVE  i = j
  BY DEF StoredOnce
<1>2. IsRow(i) /\ IsRow(j) /\ contents[i].key = contents[j].key
  BY <1>1
<1> QED BY <1>2 DEF StoredOnce

\* The links that there are, once some are added or taken away.
LEMMA HasLinkNow ==
  ASSUME links' \in [Pairs -> Link \cup {Unlinked}]
  PROVE  \A p \in Pairs : HasLink(p)' <=> links'[p] \in Link
BY LinkIsNone DEF HasLink

\* An insert commits: the rows are there, and the marks cleared.
Inserted(c) ==
  /\ req[c].stage = "inserting" /\ req'[c] = Nobody /\ \A d \in Callers \ {c} : req'[d] = req[d]
  /\ \A p \in Pairs : HasLink(p)' <=> p \in req[c].rows \/ HasLink(p)
  /\ \A p \in Pairs : p \notin req[c].rows => links'[p] = links[p]
  /\ \A i \in Ids : /\ IsRow(i)' <=> IsRow(i)
                    /\ IsRow(i) => contents'[i].orphaned =
                         IF i \in req[c].clears THEN Never ELSE contents[i].orphaned
LEMMA CommitInsertTypes ==
  ASSUME Types, StoredOnce, NEW c \in Callers, CommitInsert(c)
  PROVE  /\ ReqTypes' /\ TableTypes' /\ StoredOnce' /\ Inserted(c)
         /\ UNCHANGED <<routes, job, now, requests, faults, overlapped>>
<1> USE DEF Types
<1>0. /\ req[c].stage = "inserting" /\ EndRequest(c)
      /\ UNCHANGED <<routes, job, now, requests, faults, overlapped>>
      /\ SetOrphaned(req[c].clears, Never)
  BY DEF CommitInsert
<1>1. req[c].rows \in SUBSET Pairs /\ req[c].list \in [Users -> {"feed", "reads"}]
  BY <1>0 DEF ReqTypes, ReqType
<1>2. links' = [p \in Pairs |->
        IF p \in req[c].rows
        THEN [list |-> req[c].list[p[1]], archived |-> FALSE, favorite |-> FALSE, added |-> now]
        ELSE links[p]]
  BY DEF CommitInsert
<1>3. \A p \in Pairs : /\ p \in req[c].rows => links'[p] \in Link
                       /\ p \notin req[c].rows => links'[p] = links[p]
  <2> SUFFICES ASSUME NEW p \in Pairs
               PROVE  /\ p \in req[c].rows => links'[p] \in Link
                      /\ p \notin req[c].rows => links'[p] = links[p]
    OBVIOUS
  <2>1. req[c].list[p[1]] \in {"feed", "reads"} /\ now \in Times
    BY <1>1, PairParts DEF CountTypes
  <2>2. [list |-> req[c].list[p[1]], archived |-> FALSE, favorite |-> FALSE, added |-> now] \in Link
    BY <2>1 DEF Link
  <2> QED BY <2>2, <1>2
<1>4. links' \in [Pairs -> Link \cup {Unlinked}]
  BY <1>2, <1>3 DEF TableTypes
<1>5. contents' \in [Ids -> Row \cup {Unborn, Gone}]
      /\ \A i \in Ids : /\ IsRow(i)' <=> IsRow(i)
                        /\ IsRow(i) => contents'[i].orphaned =
                             IF i \in req[c].clears THEN Never ELSE contents[i].orphaned
  BY <1>0, MarkSet
<1>6. ReqTypes' /\ req'[c] = Nobody /\ \A d \in Callers \ {c} : req'[d] = req[d]
  BY <1>0, EndTypes
<1>7. \A p \in Pairs : HasLink(p)' <=> p \in req[c].rows \/ HasLink(p)
  BY <1>3, <1>4, HasLinkNow DEF HasLink
<1>8. Inserted(c)
  BY <1>0, <1>3, <1>5, <1>6, <1>7 DEF Inserted
<1>9. TableTypes'
  BY <1>0, <1>4, <1>5 DEF TableTypes
<1>10. StoredOnce'
  BY <1>0, MarkStoresOnce
<1> QED BY <1>0, <1>6, <1>8, <1>9, <1>10

\* A link's columns change, and it stays.
Altered(p) ==
  /\ p \in Pairs /\ \A q \in Pairs : HasLink(q)' <=> HasLink(q)
  /\ \A q \in Pairs : q # p => links'[q] = links[q]
  /\ overlapped \subseteq overlapped' /\ (p \in Picked => p[2] \in overlapped')
LEMMA MetadataTypes ==
  ASSUME Types, NEW p \in Pairs, HasLink(p), NEW link \in Link, UpdateMetadata(p, link)
  PROVE  /\ links' \in [Pairs -> Link \cup {Unlinked}] /\ overlapped' \in SUBSET Ids
         /\ Altered(p)
<1> USE DEF Types
<1>1. links' = [links EXCEPT ![p] = link]
      /\ overlapped' = overlapped \cup ({p[2]} \cap (IF p \in Picked THEN {p[2]} ELSE {}))
  BY DEF UpdateMetadata, Overlap
<1>2. links' \in [Pairs -> Link \cup {Unlinked}] /\ links'[p] = link
      /\ \A q \in Pairs : q # p => links'[q] = links[q]
  BY <1>1 DEF TableTypes
<1>3. \A q \in Pairs : HasLink(q)' <=> HasLink(q)
  BY <1>2, HasLinkNow DEF HasLink
<1>4. overlapped' \in SUBSET Ids
  BY <1>1, PairParts DEF CountTypes
<1>5. overlapped \subseteq overlapped' /\ (p \in Picked => p[2] \in overlapped')
  BY <1>1
<1> QED BY <1>2, <1>3, <1>4, <1>5 DEF Altered

\* What the user changes about a link leaves it one.
LEMMA LinkTypes ==
  ASSUME Types, NEW p \in Pairs, HasLink(p)
  PROVE  /\ links[p] \in Link /\ now \in Times
         /\ \A b \in BOOLEAN : [links[p] EXCEPT !.archived = b] \in Link
                            /\ [links[p] EXCEPT !.favorite = b] \in Link
         /\ [links[p] EXCEPT !.list = "feed"] \in Link
         /\ \A t \in Times : [links[p] EXCEPT !.list = "reads", !.added = t] \in Link
<1>1. links[p] \in Link
  BY DEF Types, TableTypes, HasLink
<1> QED BY <1>1 DEF Link, Types, CountTypes

\* A saved article is taken out of the archive.
LEMMA UnarchiveTypes ==
  ASSUME Types, NEW u \in Callers, Unarchive(u)
  PROVE  /\ ReqTypes' /\ TableTypes' /\ overlapped' \in SUBSET Ids /\ Between(u)
         /\ (\E p : Altered(p)) \/ UNCHANGED <<links, overlapped>>
         /\ UNCHANGED <<contents, routes, job, now, requests, faults>>
<1> USE DEF Types
<1> DEFINE p == <<u, req[u].id>>
<1>1. /\ req[u].stage = "unarchive" /\ EndRequest(u)
      /\ UNCHANGED <<contents, routes, job, now, requests, faults>>
      /\ IF HasLink(p) THEN UpdateMetadata(p, [links[p] EXCEPT !.archived = FALSE])
                       ELSE UNCHANGED <<links, overlapped>>
  BY DEF Unarchive
<1>2. ReqTypes' /\ Between(u)
  BY <1>1, EndTypes, NobodyType DEF Between
<1>3. p \in Pairs
  BY <1>1, PairParts DEF ReqTypes, ReqType
<1> HIDE DEF p
<1>4. CASE HasLink(p)
  <2>1. [links[p] EXCEPT !.archived = FALSE] \in Link
    BY <1>3, <1>4, LinkTypes
  <2>2. /\ links' \in [Pairs -> Link \cup {Unlinked}] /\ overlapped' \in SUBSET Ids
        /\ Altered(p)
    BY <1>1, <1>3, <1>4, <2>1, MetadataTypes
  <2> QED BY <1>1, <1>2, <2>2 DEF TableTypes
<1>5. CASE ~ HasLink(p)
  BY <1>1, <1>2, <1>5 DEF TableTypes, CountTypes
<1> QED BY <1>4, <1>5

\* A user changes what he has.
LEMMA UserUpdateTypes ==
  ASSUME Types, NEW u \in Users, UpdateUserContent(u)
  PROVE  /\ TableTypes' /\ overlapped' \in SUBSET Ids /\ requests' \in 0..MaxRequests
         /\ \E p : Altered(p)
         /\ UNCHANGED <<contents, routes, req, job, now, faults>>
<1> USE DEF Types
<1>1. requests' \in 0..MaxRequests /\ UNCHANGED <<contents, routes, req, job, now, faults>>
  BY DEF UpdateUserContent, CountTypes
<1>2. \A p \in {u} \X Ids : p \in Pairs
  BY DEF Pairs
<1>3. PICK p \in Pairs, link \in Link : HasLink(p) /\ UpdateMetadata(p, link)
  <2>1. PICK p \in Pairs :
          /\ HasLink(p)
          /\ \/ UpdateMetadata(p, [links[p] EXCEPT !.archived = ~@])
             \/ UpdateMetadata(p, [links[p] EXCEPT !.favorite = ~@])
             \/ UpdateMetadata(p, [links[p] EXCEPT !.list = "feed"])
             \/ UpdateMetadata(p, [links[p] EXCEPT
                  !.list = "reads", !.added = IF links[p].list # "reads" THEN now ELSE @])
    BY <1>2 DEF UpdateUserContent
  <2>2. links[p] \in Link /\ links[p].added \in Times /\ now \in Times
        /\ (~ links[p].archived) \in BOOLEAN /\ (~ links[p].favorite) \in BOOLEAN
    BY <2>1, LinkTypes DEF Link
  <2>3. (IF links[p].list # "reads" THEN now ELSE links[p].added) \in Times
    BY <2>2
  <2>4. /\ [links[p] EXCEPT !.archived = ~@] \in Link
        /\ [links[p] EXCEPT !.favorite = ~@] \in Link
        /\ [links[p] EXCEPT !.list = "feed"] \in Link
    BY <2>2 DEF Link
  <2>5. [links[p] EXCEPT !.list = "reads",
                         !.added = IF links[p].list # "reads" THEN now ELSE @] \in Link
    BY <2>2, <2>3 DEF Link
  <2> QED BY <2>1, <2>4, <2>5
<1>4. /\ links' \in [Pairs -> Link \cup {Unlinked}] /\ overlapped' \in SUBSET Ids
      /\ Altered(p)
  BY <1>3, MetadataTypes
<1> QED BY <1>1, <1>4 DEF TableTypes

\* A user's choice of a list.
LEMMA SourceListTypes ==
  ASSUME Types, NEW u \in Users, SetSourceList(u)
  PROVE  /\ TableTypes' /\ requests' \in 0..MaxRequests
         /\ UNCHANGED <<contents, links, req, job, now, faults, overlapped>>
BY DEF Types, SetSourceList, TableTypes, CountTypes

\* A user deletes a link: the trigger has decided about the mark.
Deletes(c, p) ==
  /\ p \in Pairs /\ HasLink(p)
  /\ req[c].stage \notin {"inserting", "deleting"}
  /\ req'[c].stage = "deleting" /\ req'[c].rows = {p}
  /\ req'[c].marks = {i \in {p[2]} : LinksOf(i) \subseteq {p}}
  /\ \A d \in Callers \ {c} : req'[d] = req[d]
  /\ overlapped' = overlapped \cup ({p[2]} \cap (BusyInserting \cup BusyDeleting))
LEMMA DeleteTypes ==
  ASSUME Types, NEW u \in Users, DeleteUserContent(u)
  PROVE  /\ ReqTypes' /\ requests' \in 0..MaxRequests /\ overlapped' \in SUBSET Ids
         /\ \E p : Deletes(u, p)
         /\ UNCHANGED <<contents, links, routes, job, now, faults>>
<1> USE DEF Types
<1>1. PICK p \in {u} \X Ids : Delete(u, p)
  BY DEF DeleteUserContent
<1>2. p \in Pairs /\ u \in Callers /\ p[2] \in Ids
  BY DEF Pairs, Callers
<1>3. MarksOrphans({p}) = {i \in {p[2]} : LinksOf(i) \subseteq {p}}
  BY DEF MarksOrphans, Articles
<1> DEFINE r == [stage |-> "deleting", rows |-> {p}, marks |-> MarksOrphans({p})]
<1>4. /\ HasLink(p) /\ Begin(u, r)
      /\ overlapped' = overlapped \cup ({p[2]} \cap (BusyInserting \cup BusyDeleting))
  BY <1>1 DEF Delete, Overlap
<1>5. r.stage = "deleting" /\ r.rows = {p} /\ r.marks = MarksOrphans({p})
  OBVIOUS
<1> HIDE DEF r
<1>6. ReqType(u, r)
  <2>1. MarksOrphans({p}) \subseteq Articles({p})
    BY DEF MarksOrphans
  <2> QED BY <2>1, <1>5, <1>1 DEF ReqType, Stages
<1>7. /\ ReqTypes' /\ requests' \in 0..MaxRequests
      /\ req[u] = Nobody /\ req'[u] = r /\ \A d \in Callers \ {u} : req'[d] = req[d]
  BY <1>2, <1>4, <1>6, BeginTypes
<1>8. Deletes(u, p)
  BY <1>2, <1>3, <1>4, <1>5, <1>7, NobodyType DEF Deletes
<1>9. overlapped' \in SUBSET Ids
  BY <1>2, <1>4 DEF CountTypes
<1> QED BY <1>7, <1>8, <1>9 DEF DeleteUserContent

\* Links are gone, and their articles marked.
Removed(rows, ids) ==
  /\ \A p \in Pairs : HasLink(p)' <=> p \notin rows /\ HasLink(p)
  /\ \A p \in Pairs : p \notin rows => links'[p] = links[p]
  /\ \A i \in Ids : /\ IsRow(i)' <=> IsRow(i)
                    /\ IsRow(i) /\ i \in ids => contents'[i].orphaned = now /\ now # Never
                    /\ IsRow(i) /\ i \notin ids => contents'[i].orphaned = contents[i].orphaned
LEMMA RemovedTypes ==
  ASSUME Types, StoredOnce, NEW rows, NEW ids, Without(rows), SetOrphaned(ids, now), routes' = routes
  PROVE  TableTypes' /\ StoredOnce' /\ Removed(rows, ids)
<1> USE DEF Types
<1>1. links' = [p \in Pairs |-> IF p \in rows THEN Unlinked ELSE links[p]]
  BY DEF Without
<1>2. links' \in [Pairs -> Link \cup {Unlinked}]
  BY <1>1 DEF TableTypes
<1>3. \A p \in Pairs : HasLink(p)' <=> p \notin rows /\ HasLink(p)
  BY <1>1, <1>2, HasLinkNow, LinkIsNone DEF HasLink
<1>4. now \in {Never} \cup Times /\ now # Never
  BY DEF CountTypes, Times, Never
<1>5. /\ contents' \in [Ids -> Row \cup {Unborn, Gone}]
      /\ \A i \in Ids : /\ IsRow(i)' <=> IsRow(i)
                        /\ IsRow(i) => /\ i \in ids => contents'[i].orphaned = now
                                       /\ i \notin ids => contents'[i].orphaned = contents[i].orphaned
  BY <1>4, MarkSet
<1>6. StoredOnce'
  BY <1>4, MarkStoresOnce
<1>7. Removed(rows, ids)
  BY <1>1, <1>3, <1>4, <1>5 DEF Removed
<1> QED BY <1>2, <1>5, <1>6, <1>7 DEF TableTypes

\* A delete commits.
LEMMA CommitDeleteTypes ==
  ASSUME Types, StoredOnce, NEW u \in Callers, CommitDelete(u)
  PROVE  /\ ReqTypes' /\ TableTypes' /\ StoredOnce'
         /\ req[u].stage = "deleting" /\ req'[u] = Nobody /\ \A d \in Callers \ {u} : req'[d] = req[d]
         /\ Removed(req[u].rows, req[u].marks)
         /\ UNCHANGED <<routes, job, now, requests, faults, overlapped>>
<1>1. /\ req[u].stage = "deleting" /\ EndRequest(u)
      /\ Without(req[u].rows) /\ SetOrphaned(req[u].marks, now)
      /\ UNCHANGED <<routes, job, now, requests, faults, overlapped>>
  BY DEF CommitDelete
<1> QED BY <1>1, RemovedTypes, EndTypes DEF Types

\* The job between statements, with nothing chosen.
Resting == job.stage \in {"idle", "drain", "drainOrphans"}
LEMMA RestTypes ==
  ASSUME NEW stage \in {"idle", "drain", "drainOrphans"}, AtWork(stage, {})
  PROVE  JobType(job)' /\ Resting'
<1>1. job' = [stage |-> stage, picked |-> {}]
  BY DEF AtWork
<1>2. job'.stage = stage
  BY <1>1
<1> QED BY <1>2 DEF JobType, Resting

\* The job chooses links that have expired.
Expires(B) ==
  /\ Resting /\ \A p \in B : p \in Pairs /\ Expired(p)
  /\ job'.stage = "expire" /\ job'.picked = B
  /\ overlapped' = overlapped \cup (Articles(B) \cap (BusyInserting \cup BusyDeleting))
LEMMA SelectExpiredTypes ==
  ASSUME Types, SelectExpired
  PROVE  /\ JobType(job)' /\ overlapped' \in SUBSET Ids
         /\ (\E B : Expires(B)) \/ (Resting' /\ UNCHANGED overlapped)
<1> USE DEF Types
<1>1. PICK B \in Batches({p \in Pairs : Expired(p)}) :
        IF B = {} THEN AtWork("drainOrphans", {}) /\ UNCHANGED overlapped
        ELSE AtWork("expire", B) /\ Overlap(Articles(B), BusyInserting \cup BusyDeleting)
  BY DEF SelectExpired
<1>2. B \subseteq {p \in Pairs : Expired(p)}
  BY DEF Batches
<1>3. CASE B = {}
  BY <1>1, <1>3, RestTypes DEF CountTypes
<1>4. CASE B # {}
  <2>1. job' = [stage |-> "expire", picked |-> B]
        /\ overlapped' = overlapped \cup (Articles(B) \cap (BusyInserting \cup BusyDeleting))
    BY <1>1, <1>4 DEF AtWork, Overlap
  <2>2. job'.stage = "expire" /\ job'.picked = B
    BY <2>1
  <2>3. JobType(job)'
    BY <1>2, <2>2 DEF JobType
  <2>4. Articles(B) \subseteq Ids
    BY <1>2, PairParts DEF Articles
  <2>5. Expires(B)
    BY <1>2, <2>1, <2>2 DEF Expires, Resting, SelectExpired
  <2> QED BY <2>1, <2>3, <2>4, <2>5 DEF CountTypes
<1> QED BY <1>3, <1>4

\* The job deletes those of them that are still there, and the trigger decides.
Expiring(rows) ==
  /\ job.stage = "expire" /\ rows \subseteq job.picked
  /\ job'.stage = "expiring" /\ job'.picked = rows
  /\ job'.marks = {i \in Articles(rows) : LinksOf(i) \subseteq rows}
  /\ overlapped' = overlapped \cup
       (Articles(rows) \cap (BusyInserting \cup UNION {Articles(Deleting(u)) : u \in Users}))
LEMMA DeleteExpiredTypes ==
  ASSUME Types, DeleteExpired
  PROVE  /\ JobType(job)' /\ overlapped' \in SUBSET Ids
         /\ (\E rows : Expiring(rows)) \/ (Resting' /\ UNCHANGED overlapped)
<1> USE DEF Types
<1> DEFINE rows == {p \in job.picked : HasLink(p)}
<1>1. /\ job.stage = "expire"
      /\ IF rows = {} THEN AtWork("drainOrphans", {}) /\ UNCHANGED overlapped
         ELSE /\ job' = [stage |-> "expiring", picked |-> rows, marks |-> MarksOrphans(rows)]
              /\ Overlap(Articles(rows), BusyInserting \cup UNION {Articles(Deleting(u)) : u \in Users})
  BY DEF DeleteExpired
<1>2. rows \in SUBSET Pairs /\ rows \subseteq job.picked
  BY <1>1 DEF JobType
<1> HIDE DEF rows
<1>3. CASE rows = {}
  BY <1>1, <1>3, RestTypes DEF CountTypes
<1>4. CASE rows # {}
  <2>1. /\ job'.stage = "expiring" /\ job'.picked = rows /\ job'.marks = MarksOrphans(rows)
        /\ overlapped' = overlapped \cup
             (Articles(rows) \cap (BusyInserting \cup UNION {Articles(Deleting(u)) : u \in Users}))
    BY <1>1, <1>4 DEF Overlap
  <2>2. MarksOrphans(rows) = {i \in Articles(rows) : LinksOf(i) \subseteq rows}
    BY DEF MarksOrphans
  <2>3. JobType(job)'
    BY <1>2, <2>1, <2>2 DEF JobType
  <2>4. Articles(rows) \subseteq Ids
    BY <1>2, PairParts DEF Articles
  <2>5. Expiring(rows)
    BY <1>1, <1>2, <2>1, <2>2 DEF Expiring
  <2> QED BY <2>1, <2>3, <2>4, <2>5 DEF CountTypes
<1> QED BY <1>3, <1>4

\* Those links are gone.
LEMMA CommitExpiredTypes ==
  ASSUME Types, StoredOnce, CommitExpired, routes' = routes
  PROVE  /\ JobType(job)' /\ TableTypes' /\ StoredOnce' /\ Resting'
         /\ job.stage = "expiring" /\ Removed(job.picked, job.marks)
<1>1. job.stage = "expiring" /\ Without(job.picked) /\ SetOrphaned(job.marks, now) /\ AtWork("drain", {})
  BY DEF CommitExpired
<1> QED BY <1>1, RemovedTypes, RestTypes

\* The job chooses articles that have been marked for long.
Reclaims(B) ==
  /\ Resting /\ \A i \in B : i \in Ids /\ IsRow(i) /\ contents[i].orphaned # Never
  /\ job'.stage = "orphans" /\ job'.picked = B
  /\ overlapped' = overlapped \cup (B \cap BusyInserting)
LEMMA SelectOrphanedTypes ==
  ASSUME Types, SelectOrphaned
  PROVE  /\ JobType(job)' /\ overlapped' \in SUBSET Ids
         /\ (\E B : Reclaims(B)) \/ (Resting' /\ UNCHANGED overlapped)
<1> USE DEF Types
<1>1. PICK B \in Batches({i \in Ids : Reclaimable(i)}) :
        IF B = {} THEN AtWork("idle", {}) /\ UNCHANGED overlapped
        ELSE AtWork("orphans", B) /\ Overlap(B, BusyInserting)
  BY DEF SelectOrphaned
<1>2. \A i \in B : i \in Ids /\ IsRow(i) /\ contents[i].orphaned # Never
  BY DEF Batches, Reclaimable, Old
<1>3. CASE B = {}
  BY <1>1, <1>3, RestTypes DEF CountTypes
<1>4. CASE B # {}
  <2>1. job' = [stage |-> "orphans", picked |-> B]
        /\ overlapped' = overlapped \cup (B \cap BusyInserting)
    BY <1>1, <1>4 DEF AtWork, Overlap
  <2>2. job'.stage = "orphans" /\ job'.picked = B
    BY <2>1
  <2>3. JobType(job)'
    BY <1>2, <2>2 DEF JobType
  <2>4. Reclaims(B)
    BY <1>2, <2>1, <2>2 DEF Reclaims, Resting, SelectOrphaned
  <2> QED BY <1>2, <2>1, <2>3, <2>4 DEF CountTypes
<1> QED BY <1>3, <1>4

\* Those articles are gone, with the links to them.
Reclaimed ==
  /\ job.stage = "orphans"
  /\ \A i \in job.picked : i \notin BusyInserting /\ \A u \in Users : i \notin Articles(Deleting(u))
  /\ \A i \in Ids : /\ IsRow(i)' <=> i \notin job.picked /\ IsRow(i)
                    /\ i \notin job.picked => contents'[i] = contents[i]
  /\ \A p \in Pairs : HasLink(p)' <=> p[2] \notin job.picked /\ HasLink(p)
LEMMA DeleteOrphanedTypes ==
  ASSUME Types, StoredOnce, DeleteOrphaned, routes' = routes
  PROVE  JobType(job)' /\ TableTypes' /\ StoredOnce' /\ Resting' /\ Reclaimed
<1> USE DEF Types
<1>1. /\ job.stage = "orphans" /\ AtWork("drainOrphans", {})
      /\ job.picked \cap (BusyInserting \cup UNION {Articles(Deleting(u)) : u \in Users}) = {}
      /\ contents' = [i \in Ids |-> IF i \in job.picked THEN Gone ELSE contents[i]]
      /\ Without({p \in Pairs : p[2] \in job.picked})
  BY DEF DeleteOrphaned
<1>2. links' = [p \in Pairs |-> IF p[2] \in job.picked THEN Unlinked ELSE links[p]]
  BY <1>1 DEF Without
<1>3. links' \in [Pairs -> Link \cup {Unlinked}]
  BY <1>2 DEF TableTypes
<1>4. contents' \in [Ids -> Row \cup {Unborn, Gone}]
  BY <1>1 DEF TableTypes
<1>5. \A p \in Pairs : HasLink(p)' <=> p[2] \notin job.picked /\ HasLink(p)
  BY <1>2, <1>3, HasLinkNow, LinkIsNone DEF HasLink
<1>6. \A i \in Ids : /\ IsRow(i)' <=> i \notin job.picked /\ IsRow(i)
                     /\ i \notin job.picked => contents'[i] = contents[i]
  BY <1>1 DEF IsRow
<1>7. Reclaimed
  BY <1>1, <1>5, <1>6 DEF Reclaimed
<1>8. StoredOnce'
  BY <1>6 DEF StoredOnce
<1> QED BY <1>1, <1>3, <1>4, <1>7, <1>8, RestTypes DEF TableTypes

-----------------------------------------------------------------------------
(* What the steps do, as far as transactions and marks are concerned.       *)

\* Nobody's transaction begins, ends or changes.
SameWork ==
  \A c \in Callers :
    req[c].stage \in {"inserting", "deleting"} \/ req'[c].stage \in {"inserting", "deleting"} =>
      req'[c] = req[c]

\* No link comes or goes, no mark changes, and the job goes on with what it has, or
\* drops it.
Aside ==
  /\ SameWork /\ \A i \in Ids : Kept(i)
  /\ \A p \in Pairs : HasLink(p)' <=> HasLink(p)
  /\ overlapped \subseteq overlapped'
  /\ \/ Resting'
     \/ /\ job' = job /\ now' = now
        /\ \A p \in Picked : links'[p] = links[p] \/ p[2] \in overlapped'

InsertBegins ==
  /\ \E c \in Callers : \E i, rows : Inserts(c, i, rows)
  /\ UNCHANGED <<contents, links, job, now>>
InsertEnds == (\E c \in Callers : Inserted(c)) /\ UNCHANGED <<job, now, overlapped>>
DeleteBegins ==
  /\ \E u \in Users : \E p : Deletes(u, p)
  /\ UNCHANGED <<contents, links, job, now>>
DeleteEnds ==
  /\ \E c \in Callers :
       /\ req[c].stage = "deleting" /\ req'[c] = Nobody /\ \A d \in Callers \ {c} : req'[d] = req[d]
       /\ Removed(req[c].rows, req[c].marks)
  /\ UNCHANGED <<job, now, overlapped>>
ExpiryChosen == (\E B : Expires(B)) /\ UNCHANGED <<contents, links, req, now>>
ExpiryBegins == (\E rows : Expiring(rows)) /\ UNCHANGED <<contents, links, req, now>>
ExpiryEnds ==
  /\ job.stage = "expiring" /\ Removed(job.picked, job.marks) /\ Resting'
  /\ UNCHANGED <<req, now, overlapped>>
OrphansChosen == (\E B : Reclaims(B)) /\ UNCHANGED <<contents, links, req, now>>
OrphansEnd == Reclaimed /\ Resting' /\ UNCHANGED <<req, now, overlapped>>

Kinds ==
  \/ Aside \/ InsertBegins \/ InsertEnds \/ DeleteBegins \/ DeleteEnds
  \/ ExpiryChosen \/ ExpiryBegins \/ ExpiryEnds \/ OrphansChosen \/ OrphansEnd

\* A step that is beside all transactions.
LEMMA IsAside ==
  ASSUME ReqTypes, JobType(job), SameWork, contents' = contents \/ \A i \in Ids : Kept(i),
         \/ \E p : Altered(p)
         \/ links' = links /\ overlapped' = overlapped,
         Resting' \/ (job' = job /\ now' = now)
  PROVE  Aside
<1>1. \A i \in Ids : Kept(i)
  BY DEF Kept, IsRow
<1>2. CASE \E p : Altered(p)
  <2>1. PICK p : Altered(p)
    BY <1>2
  <2>2. Picked \in SUBSET Pairs
    BY InHand
  <2>3. \A q \in Picked : links'[q] = links[q] \/ q[2] \in overlapped'
    BY <2>1, <2>2 DEF Altered
  <2>4. (\A q \in Pairs : HasLink(q)' <=> HasLink(q)) /\ overlapped \subseteq overlapped'
    BY <2>1 DEF Altered
  <2> QED BY <2>3, <2>4, <1>1 DEF Aside
<1>3. CASE links' = links /\ overlapped' = overlapped
  BY <1>1, <1>3 DEF Aside, HasLink
<1> QED BY <1>2, <1>3

\* Nobody is in a transaction, or the request stays.
LEMMA IsSameWork ==
  ASSUME req' = req \/ \E c \in Callers : Between(c)
  PROVE  SameWork
BY DEF SameWork, Between

\* Steps of the requests.
LEMMA RequestKinds ==
  ASSUME Types, StoredOnce,
         \/ \E u \in Users : \/ SavePage(u) \/ SaveById(u) \/ UpdateUserContent(u)
                             \/ SetSourceList(u) \/ DeleteUserContent(u)
         \/ BulkCreateContent
         \/ \E i \in Ids : UpdateContent(i)
         \/ \E c \in Callers : Finish(c)
  PROVE  Types' /\ StoredOnce' /\ Kinds
<1> USE DEF Types
<1>1. ASSUME NEW c \in Callers, LookStep(c) PROVE Types' /\ StoredOnce' /\ Kinds
  <2>1. /\ ReqTypes' /\ requests' \in 0..MaxRequests /\ Between(c)
        /\ UNCHANGED <<contents, links, routes, job, now, faults, overlapped>>
    BY <1>1, LookTypes
  <2>2. Aside
    BY <2>1, IsSameWork, IsAside
  <2>3. StoredOnce'
    BY <2>1 DEF StoredOnce, IsRow
  <2> QED BY <2>1, <2>2, <2>3 DEF TableTypes, CountTypes, Kinds
<1>2. ASSUME NEW u \in Users, UpdateUserContent(u) PROVE Types' /\ StoredOnce' /\ Kinds
  <2>1. /\ TableTypes' /\ overlapped' \in SUBSET Ids /\ requests' \in 0..MaxRequests
        /\ \E p : Altered(p)
        /\ UNCHANGED <<contents, routes, req, job, now, faults>>
    BY <1>2, UserUpdateTypes
  <2>2. Aside
    BY <2>1, IsSameWork, IsAside
  <2>3. StoredOnce'
    BY <2>1 DEF StoredOnce, IsRow
  <2> QED BY <2>1, <2>2, <2>3 DEF ReqTypes, CountTypes, Kinds
<1>3. ASSUME NEW u \in Users, SetSourceList(u) PROVE Types' /\ StoredOnce' /\ Kinds
  <2>1. /\ TableTypes' /\ requests' \in 0..MaxRequests
        /\ UNCHANGED <<contents, links, req, job, now, faults, overlapped>>
    BY <1>3, SourceListTypes
  <2>2. Aside
    BY <2>1, IsSameWork, IsAside
  <2>3. StoredOnce'
    BY <2>1 DEF StoredOnce, IsRow
  <2> QED BY <2>1, <2>2, <2>3 DEF ReqTypes, CountTypes, Kinds
<1>4. ASSUME NEW u \in Users, DeleteUserContent(u) PROVE Types' /\ StoredOnce' /\ Kinds
  <2>1. /\ ReqTypes' /\ requests' \in 0..MaxRequests /\ overlapped' \in SUBSET Ids
        /\ \E p : Deletes(u, p)
        /\ UNCHANGED <<contents, links, routes, job, now, faults>>
    BY <1>4, DeleteTypes
  <2>2. DeleteBegins
    BY <2>1 DEF DeleteBegins
  <2>3. StoredOnce'
    BY <2>1 DEF StoredOnce, IsRow
  <2> QED BY <2>1, <2>2, <2>3 DEF TableTypes, CountTypes, Kinds
<1>5. ASSUME NEW i \in Ids, UpdateContent(i) PROVE Types' /\ StoredOnce' /\ Kinds
  <2>1. /\ TableTypes' /\ StoredOnce' /\ requests' \in 0..MaxRequests
        /\ \A j \in Ids : Kept(j)
        /\ UNCHANGED <<links, routes, req, job, now, faults, overlapped>>
    BY <1>5, UpdateTypes
  <2>2. Aside
    BY <2>1, IsSameWork, IsAside
  <2> QED BY <2>1, <2>2 DEF ReqTypes, CountTypes, Kinds
<1>6. ASSUME NEW c \in Callers, Create(c) PROVE Types' /\ StoredOnce' /\ Kinds
  <2>1. /\ ReqTypes' /\ TableTypes' /\ StoredOnce' /\ Between(c) /\ \A i \in Ids : Kept(i)
        /\ UNCHANGED <<links, routes, job, now, requests, faults, overlapped>>
    BY <1>6, CreateTypes
  <2>2. Aside
    BY <2>1, IsSameWork, IsAside
  <2> QED BY <2>1, <2>2 DEF CountTypes, Kinds
<1>7. ASSUME NEW c \in Callers, InsertStep(c) PROVE Types' /\ StoredOnce' /\ Kinds
  <2>1. /\ ReqTypes' /\ overlapped' \in SUBSET Ids
        /\ \/ \E i, rows : Inserts(c, i, rows)
           \/ Between(c) /\ UNCHANGED overlapped
        /\ UNCHANGED <<contents, links, routes, job, now, requests, faults>>
    BY <1>7, InsertStepTypes
  <2>2. InsertBegins \/ Aside
    BY <2>1, IsSameWork, IsAside DEF InsertBegins
  <2>3. StoredOnce'
    BY <2>1 DEF StoredOnce, IsRow
  <2> QED BY <2>1, <2>2, <2>3 DEF TableTypes, CountTypes, Kinds
<1>8. ASSUME NEW c \in Callers, Unarchive(c) PROVE Types' /\ StoredOnce' /\ Kinds
  <2>1. /\ ReqTypes' /\ TableTypes' /\ overlapped' \in SUBSET Ids /\ Between(c)
        /\ (\E p : Altered(p)) \/ UNCHANGED <<links, overlapped>>
        /\ UNCHANGED <<contents, routes, job, now, requests, faults>>
    BY <1>8, UnarchiveTypes
  <2>2. Aside
    BY <2>1, IsSameWork, IsAside
  <2>3. StoredOnce'
    BY <2>1 DEF StoredOnce, IsRow
  <2> QED BY <2>1, <2>2, <2>3 DEF CountTypes, Kinds
<1>9. ASSUME NEW c \in Callers, CommitInsert(c) PROVE Types' /\ StoredOnce' /\ Kinds
  <2>1. /\ ReqTypes' /\ TableTypes' /\ StoredOnce' /\ Inserted(c)
        /\ UNCHANGED <<routes, job, now, requests, faults, overlapped>>
    BY <1>9, CommitInsertTypes
  <2> QED BY <2>1 DEF CountTypes, Kinds, InsertEnds
<1>10. ASSUME NEW c \in Callers, CommitDelete(c) PROVE Types' /\ StoredOnce' /\ Kinds
  <2>1. /\ ReqTypes' /\ TableTypes' /\ StoredOnce'
        /\ req[c].stage = "deleting" /\ req'[c] = Nobody /\ \A d \in Callers \ {c} : req'[d] = req[d]
        /\ Removed(req[c].rows, req[c].marks)
        /\ UNCHANGED <<routes, job, now, requests, faults, overlapped>>
    BY <1>10, CommitDeleteTypes
  <2>2. DeleteEnds
    BY <2>1 DEF DeleteEnds
  <2> QED BY <2>1, <2>2 DEF CountTypes, Kinds
<1>11. ASSUME NEW c \in Callers, Finish(c) PROVE Types' /\ StoredOnce' /\ Kinds
  BY <1>11, <1>1, <1>6, <1>7, <1>8, <1>9, <1>10 DEF Finish, LookStep, InsertStep
<1>12. \A u \in Users : u \in Callers
  BY DEF Callers
<1>13. \A u \in Users : SavePage(u) \/ SaveById(u) => LookStep(u)
  BY DEF SavePage, LookStep, Keys
<1>14. BulkCreateContent => Ingest \in Callers /\ LookStep(Ingest)
  BY DEF BulkCreateContent, LookStep, Keys, Callers
<1> QED BY <1>1, <1>2, <1>3, <1>4, <1>5, <1>11, <1>12, <1>13, <1>14

\* Steps of the job, and of the clock.
LEMMA JobKinds ==
  ASSUME Types, StoredOnce, CleanupStep \/ CleanupFailure \/ Tick \/ UNCHANGED vars
  PROVE  Types' /\ StoredOnce' /\ Kinds
<1> USE DEF Types
<1>0. ASSUME UNCHANGED <<contents, links, routes, req>>
      PROVE  ReqTypes' /\ TableTypes' /\ StoredOnce' /\ SameWork
  BY <1>0, IsSameWork DEF ReqTypes, TableTypes, StoredOnce, IsRow
<1>1. CASE StartCleanup /\ UNCHANGED <<contents, links, routes, req, now, requests, faults, overlapped>>
  <2>1. JobType(job)' /\ Resting'
    BY <1>1, RestTypes DEF StartCleanup
  <2>2. Aside
    BY <1>0, <1>1, <2>1, IsAside
  <2> QED BY <1>0, <1>1, <2>1, <2>2 DEF CountTypes, Kinds
<1>2. CASE SelectExpired /\ UNCHANGED <<contents, links, routes, req, now, requests, faults>>
  <2>1. /\ JobType(job)' /\ overlapped' \in SUBSET Ids
        /\ (\E B : Expires(B)) \/ (Resting' /\ UNCHANGED overlapped)
    BY <1>2, SelectExpiredTypes
  <2>2. ExpiryChosen \/ Aside
    BY <1>0, <1>2, <2>1, IsAside DEF ExpiryChosen
  <2> QED BY <1>0, <1>2, <2>1, <2>2 DEF CountTypes, Kinds
<1>3. CASE DeleteExpired /\ UNCHANGED <<contents, links, routes, req, now, requests, faults>>
  <2>1. /\ JobType(job)' /\ overlapped' \in SUBSET Ids
        /\ (\E rows : Expiring(rows)) \/ (Resting' /\ UNCHANGED overlapped)
    BY <1>3, DeleteExpiredTypes
  <2>2. ExpiryBegins \/ Aside
    BY <1>0, <1>3, <2>1, IsAside DEF ExpiryBegins
  <2> QED BY <1>0, <1>3, <2>1, <2>2 DEF CountTypes, Kinds
<1>4. CASE SelectOrphaned /\ UNCHANGED <<contents, links, routes, req, now, requests, faults>>
  <2>1. /\ JobType(job)' /\ overlapped' \in SUBSET Ids
        /\ (\E B : Reclaims(B)) \/ (Resting' /\ UNCHANGED overlapped)
    BY <1>4, SelectOrphanedTypes
  <2>2. OrphansChosen \/ Aside
    BY <1>0, <1>4, <2>1, IsAside DEF OrphansChosen
  <2> QED BY <1>0, <1>4, <2>1, <2>2 DEF CountTypes, Kinds
<1>5. CASE CommitExpired /\ UNCHANGED <<routes, req, now, requests, faults, overlapped>>
  <2>1. /\ JobType(job)' /\ TableTypes' /\ StoredOnce' /\ Resting'
        /\ job.stage = "expiring" /\ Removed(job.picked, job.marks)
    BY <1>5, CommitExpiredTypes
  <2> QED BY <1>5, <2>1 DEF ReqTypes, CountTypes, Kinds, ExpiryEnds
<1>6. CASE DeleteOrphaned /\ UNCHANGED <<routes, req, now, requests, faults, overlapped>>
  <2>1. JobType(job)' /\ TableTypes' /\ StoredOnce' /\ Resting' /\ Reclaimed
    BY <1>6, DeleteOrphanedTypes
  <2> QED BY <1>6, <2>1 DEF ReqTypes, CountTypes, Kinds, OrphansEnd
<1>7. CASE CleanupFailure
  <2>1. /\ faults' \in 0..MaxFaults /\ \E stage \in {"idle", "drainOrphans"} : AtWork(stage, {})
        /\ UNCHANGED <<contents, links, routes, req, now, requests, overlapped>>
    BY <1>7 DEF CleanupFailure, CleanupFails, CountTypes
  <2>2. JobType(job)' /\ Resting'
    BY <2>1, RestTypes
  <2>3. Aside
    BY <1>0, <2>1, <2>2, IsAside
  <2> QED BY <1>0, <2>1, <2>2, <2>3 DEF CountTypes, Kinds
<1>8. CASE Tick
  <2>1. /\ now' \in Times /\ job.stage = "idle" /\ job' = job
        /\ UNCHANGED <<contents, links, routes, req, requests, faults, overlapped>>
    BY <1>8 DEF Tick, CountTypes, Times
  <2>2. Aside
    BY <1>0, <2>1, IsAside DEF Resting
  <2> QED BY <1>0, <2>1, <2>2 DEF CountTypes, Kinds
<1>9. CASE UNCHANGED vars
  <2>1. Aside
    BY <1>0, <1>9, IsAside DEF vars
  <2> QED BY <1>0, <1>9, <2>1 DEF CountTypes, Kinds, vars
<1>10. CASE CleanupStep
  BY <1>10, <1>1, <1>2, <1>3, <1>4, <1>5, <1>6 DEF CleanupStep, Cleanup
<1> QED BY <1>7, <1>8, <1>9, <1>10

\* Every step of the specification.
LEMMA StepKinds ==
  ASSUME Types, StoredOnce, [Next]_vars
  PROVE  Types' /\ StoredOnce' /\ Kinds
<1>1. CASE Next
  <2>1. CASE CleanupStep \/ CleanupFailure \/ Tick
    BY <2>1, JobKinds
  <2>2. CASE ~ (CleanupStep \/ CleanupFailure \/ Tick)
    BY <1>1, <2>2, RequestKinds DEF Next
  <2> QED BY <2>1, <2>2
<1>2. CASE UNCHANGED vars
  BY <1>2, JobKinds
<1> QED BY <1>1, <1>2

-----------------------------------------------------------------------------
(* Every step keeps the references.                                         *)

\* What a caller has in hand stays when its request does, or is in no transaction.
LEMMA HandKept ==
  ASSUME NEW c \in Callers,
         \/ req'[c] = req[c]
         \/ /\ req[c].stage \notin {"inserting", "deleting"}
            /\ req'[c].stage \notin {"inserting", "deleting"}
  PROVE  Inserting(c)' = Inserting(c) /\ Deleting(c)' = Deleting(c)
BY DEF Inserting, Deleting

\* What a caller has in hand, by the stage of its request.
LEMMA HandIs ==
  ASSUME NEW c \in Callers
  PROVE  /\ req[c].stage = "inserting" => Inserting(c) = req[c].rows /\ Deleting(c) = {}
         /\ req[c].stage = "deleting" => Inserting(c) = {} /\ Deleting(c) = req[c].rows
         /\ req[c].stage \notin {"inserting", "deleting"} => Inserting(c) = {} /\ Deleting(c) = {}
BY DEF Inserting, Deleting

\* What links and inserts refer to stays: the foreign key, and the locks.
LEMMA ReferencedStep ==
  ASSUME Types, Types', Referenced, Kinds
  PROVE  Referenced'
<1>0. /\ \A p \in Pairs : p[2] \in Ids
      /\ \A c \in Callers : Inserting(c) \in SUBSET Pairs /\ (Inserting(c) \in SUBSET Pairs)'
  <2>1. ASSUME NEW c \in Callers PROVE (Inserting(c) \in SUBSET Pairs)'
    <3>1. ReqType(c, req'[c])
      BY DEF Types, ReqTypes
    <3> QED BY <3>1 DEF ReqType, Inserting
  <2> QED BY <2>1, PairParts, InHand DEF Types
<1>1. CASE Aside
  <2>1. \A c \in Callers : Inserting(c)' = Inserting(c)
    BY <1>1, HandKept DEF Aside, SameWork
  <2>2. \A i \in Ids : IsRow(i) => IsRow(i)'
    BY <1>1 DEF Aside, Kept
  <2> QED BY <1>0, <1>1, <2>1, <2>2 DEF Aside, Referenced
<1>2. CASE InsertBegins
  <2>0. PICK c \in Callers : \E i, rows : Inserts(c, i, rows)
    BY <1>2 DEF InsertBegins
  <2>1. PICK i, rows : Inserts(c, i, rows)
    BY <2>0
  <2>2. \A d \in Callers \ {c} : Inserting(d)' = Inserting(d)
    BY <2>1, HandKept DEF Inserts
  <2>3. Inserting(c)' = rows
    BY <2>1 DEF Inserts, Inserting
  <2>4. \A j \in Ids : IsRow(j)' <=> IsRow(j)
    BY <1>2 DEF InsertBegins, IsRow
  <2>5. \A p \in Pairs : HasLink(p)' <=> HasLink(p)
    BY <1>2 DEF InsertBegins, HasLink
  <2>6. \A p \in rows : p[2] = i /\ i \in Ids /\ IsRow(i)
    BY <2>1 DEF Inserts
  <2>7. \A d \in Callers : \A p \in Inserting(d)' : IsRow(p[2])'
    BY <1>0, <2>2, <2>3, <2>4, <2>6 DEF Referenced
  <2> QED BY <1>0, <2>4, <2>5, <2>7 DEF Referenced
<1>3. CASE InsertEnds
  <2>1. PICK c \in Callers : Inserted(c)
    BY <1>3 DEF InsertEnds
  <2>2. \A d \in Callers \ {c} : Inserting(d)' = Inserting(d)
    BY <2>1, HandKept DEF Inserted
  <2>3. Inserting(c)' = {} /\ Inserting(c) = req[c].rows
    BY <2>1, NobodyType, HandIs DEF Inserted, Inserting
  <2>4. \A j \in Ids : IsRow(j)' <=> IsRow(j)
    BY <2>1 DEF Inserted
  <2>5. \A p \in Pairs : HasLink(p)' <=> p \in Inserting(c) \/ HasLink(p)
    BY <2>1, <2>3 DEF Inserted
  <2>6. \A d \in Callers : \A p \in Inserting(d)' : IsRow(p[2])'
    BY <1>0, <2>2, <2>3, <2>4 DEF Referenced
  <2> QED BY <1>0, <2>4, <2>5, <2>6 DEF Referenced
<1>4. CASE DeleteBegins
  <2>0. PICK c \in Users : \E q : Deletes(c, q)
    BY <1>4 DEF DeleteBegins
  <2>1. PICK q : Deletes(c, q)
    BY <2>0
  <2>2. c \in Callers /\ \A d \in Callers \ {c} : Inserting(d)' = Inserting(d)
    BY <2>1, HandKept DEF Deletes, Callers
  <2>3. Inserting(c)' = {}
    BY <2>1 DEF Deletes, Inserting
  <2>4. \A j \in Ids : IsRow(j)' <=> IsRow(j)
    BY <1>4 DEF DeleteBegins, IsRow
  <2>5. \A p \in Pairs : HasLink(p)' <=> HasLink(p)
    BY <1>4 DEF DeleteBegins, HasLink
  <2>6. \A d \in Callers : \A p \in Inserting(d)' : IsRow(p[2])'
    BY <1>0, <2>2, <2>3, <2>4 DEF Referenced
  <2> QED BY <1>0, <2>4, <2>5, <2>6 DEF Referenced
<1>5. CASE DeleteEnds
  <2>1. PICK c \in Callers :
          /\ req[c].stage = "deleting" /\ req'[c] = Nobody /\ \A d \in Callers \ {c} : req'[d] = req[d]
          /\ Removed(req[c].rows, req[c].marks)
    BY <1>5 DEF DeleteEnds
  <2>2. \A d \in Callers \ {c} : Inserting(d)' = Inserting(d)
    BY <2>1, HandKept
  <2>3. Inserting(c)' = {}
    BY <2>1, NobodyType DEF Inserting
  <2>4. /\ \A j \in Ids : IsRow(j)' <=> IsRow(j)
        /\ \A p \in Pairs : HasLink(p)' => HasLink(p)
    BY <2>1 DEF Removed
  <2>5. \A d \in Callers : \A p \in Inserting(d)' : IsRow(p[2])'
    BY <1>0, <2>2, <2>3, <2>4 DEF Referenced
  <2> QED BY <1>0, <2>4, <2>5 DEF Referenced
<1>6. CASE ExpiryChosen \/ ExpiryBegins \/ OrphansChosen \/ ExpiryEnds
  <2>1. req' = req /\ \A j \in Ids : IsRow(j)' <=> IsRow(j)
    BY <1>6 DEF ExpiryChosen, ExpiryBegins, OrphansChosen, ExpiryEnds, Removed, IsRow
  <2>2. \A p \in Pairs : HasLink(p)' => HasLink(p)
    BY <1>6 DEF ExpiryChosen, ExpiryBegins, OrphansChosen, ExpiryEnds, Removed, HasLink
  <2>3. \A d \in Callers : Inserting(d)' = Inserting(d)
    BY <2>1, HandKept
  <2> QED BY <1>0, <2>1, <2>2, <2>3 DEF Referenced
<1>7. CASE OrphansEnd
  <2>1. \A d \in Callers : Inserting(d)' = Inserting(d)
    BY <1>7, HandKept DEF OrphansEnd
  <2>2. \A i \in job.picked : \A c \in Callers : \A p \in Inserting(c) : p[2] # i
    BY <1>7 DEF OrphansEnd, Reclaimed, BusyInserting, Articles
  <2>3. /\ \A i \in Ids : IsRow(i)' <=> i \notin job.picked /\ IsRow(i)
        /\ \A p \in Pairs : HasLink(p)' <=> p[2] \notin job.picked /\ HasLink(p)
    BY <1>7 DEF OrphansEnd, Reclaimed
  <2> QED BY <1>0, <2>1, <2>2, <2>3 DEF Referenced
<1> QED BY <1>1, <1>2, <1>3, <1>4, <1>5, <1>6, <1>7 DEF Kinds

-----------------------------------------------------------------------------
(* Every step keeps what holds of an article that was never worked on by    *)
(* two transactions at once.                                                *)

\* Who is at work.
LEMMA BusyIs ==
  \A i : /\ i \in BusyInserting <=> \E c \in Callers : Ins(c, i)
         /\ i \in BusyDeleting <=> (\E c \in Callers : Del(c, i)) \/ Exp(i) \/ i \in Doomed
<1> SUFFICES ASSUME NEW i
             PROVE  /\ i \in BusyInserting <=> \E c \in Callers : Ins(c, i)
                    /\ i \in BusyDeleting <=> (\E c \in Callers : Del(c, i)) \/ Exp(i) \/ i \in Doomed
  OBVIOUS
<1>1. i \in BusyInserting <=> \E c \in Callers : i \in Articles(Inserting(c))
  BY DEF BusyInserting
<1>2. i \in BusyDeleting <=> \/ \E c \in Callers : i \in Articles(Deleting(c))
                             \/ i \in Articles(Picked) \/ i \in Doomed
  BY DEF BusyDeleting
<1> QED BY <1>1, <1>2 DEF Ins, Del, Exp

\* A caller at work on an article, by the stage of its request.
LEMMA AtWorkOn ==
  ASSUME NEW c \in Callers, NEW i
  PROVE  /\ Ins(c, i) <=> req[c].stage = "inserting" /\ i \in Articles(req[c].rows)
         /\ Del(c, i) <=> req[c].stage = "deleting" /\ i \in Articles(req[c].rows)
         /\ Ins(c, i)' <=> req'[c].stage = "inserting" /\ i \in Articles(req'[c].rows)
         /\ Del(c, i)' <=> req'[c].stage = "deleting" /\ i \in Articles(req'[c].rows)
<1>1. /\ Ins(c, i) <=> req[c].stage = "inserting" /\ i \in Articles(req[c].rows)
      /\ Del(c, i) <=> req[c].stage = "deleting" /\ i \in Articles(req[c].rows)
  BY DEF Ins, Del, Inserting, Deleting, Articles
<1>2. /\ Ins(c, i)' <=> req'[c].stage = "inserting" /\ i \in Articles(req'[c].rows)
      /\ Del(c, i)' <=> req'[c].stage = "deleting" /\ i \in Articles(req'[c].rows)
  BY DEF Ins, Del, Inserting, Deleting, Articles
<1> QED BY <1>1, <1>2

\* The job at work on an article, by its stage.
LEMMA JobAtWorkOn ==
  ASSUME NEW i
  PROVE  /\ Resting => Picked = {} /\ ~ Exp(i) /\ i \notin Doomed /\ job.stage # "expiring"
         /\ Resting' => Picked' = {} /\ ~ Exp(i)' /\ ~ (i \in Doomed)' /\ job'.stage # "expiring"
         /\ job' = job => /\ Picked' = Picked /\ (Exp(i)' <=> Exp(i))
                          /\ (i \in Doomed)' <=> i \in Doomed
<1>1. Resting => Picked = {} /\ ~ Exp(i) /\ i \notin Doomed /\ job.stage # "expiring"
  BY DEF Resting, Exp, Picked, Doomed, Articles
<1>2. Resting' => Picked' = {} /\ ~ Exp(i)' /\ ~ (i \in Doomed)' /\ job'.stage # "expiring"
  BY DEF Resting, Exp, Picked, Doomed, Articles
<1>3. job' = job => /\ Picked' = Picked /\ (Exp(i)' <=> Exp(i))
                    /\ (i \in Doomed)' <=> i \in Doomed
  BY DEF Exp, Picked, Doomed, Articles
<1> QED BY <1>1, <1>2, <1>3

\* The links of an article, after a step.
LEMMA LinksOfNow ==
  ASSUME NEW i \in Ids
  PROVE  \A p : p \in LinksOf(i)' <=> p \in Pairs /\ p[2] = i /\ HasLink(p)'
<1>1. \A p : p \in Users \X {i} <=> p \in Pairs /\ p[2] = i
  BY DEF Pairs
<1> QED BY <1>1 DEF LinksOf

\* A step that leaves an article, its links and who works on it as they are, but for
\* who has finished.
Local(i) ==
  /\ Kept(i) /\ LinksOf(i)' = LinksOf(i)
  /\ \A c \in Callers : Ins(c, i)' => Ins(c, i) /\ req'[c] = req[c]
  /\ \A c \in Callers : Del(c, i)' => Del(c, i) /\ req'[c] = req[c]
  /\ \/ Resting'
     \/ job' = job /\ now' = now /\ \A p \in Picked : p[2] = i => links'[p] = links[p]
LEMMA LocalSound ==
  ASSUME Types, Referenced, NEW i \in Ids, Sound(i), Local(i)
  PROVE  Sound(i)'
<1> USE DEF Local
<1>1. Alone(i)'
  BY JobAtWorkOn DEF Sound, Alone
<1>2. ASSUME NEW c \in Callers, Ins(c, i) PROVE IsRow(i)
  BY <1>2 DEF Referenced, Ins, Articles
<1>3. Decided(i)'
  <2>1. ASSUME NEW c \in Callers, Ins(c, i)', contents'[i].orphaned # Never
        PROVE  i \in req'[c].clears
    BY <2>1, <1>2 DEF Sound, Decided, Kept
  <2>2. ASSUME NEW c \in Callers, Del(c, i)'
        PROVE  i \in req'[c].marks <=> LinksOf(i)' \subseteq req'[c].rows
    BY <2>2 DEF Sound, Decided
  <2>3. ASSUME job'.stage = "expiring", Exp(i)'
        PROVE  i \in job'.marks <=> LinksOf(i)' \subseteq job'.picked
    BY <2>3, JobAtWorkOn DEF Sound, Decided
  <2> QED BY <2>1, <2>2, <2>3 DEF Decided
<1>4. Marked(i)'
  BY DEF Sound, Marked, Kept
<1>5. Chosen(i)'
  <2>1. CASE Resting'
    BY <2>1, JobAtWorkOn DEF Chosen
  <2>2. CASE job' = job /\ now' = now /\ \A p \in Picked : p[2] = i => links'[p] = links[p]
    <3>1. ASSUME NEW p \in Picked, p[2] = i, HasLink(p)' PROVE Expired(p)'
      BY <3>1, <2>2 DEF Sound, Chosen, HasLink, Expired, Old
    <3>2. Picked' = Picked /\ ((i \in Doomed)' <=> i \in Doomed)
      BY <2>2, JobAtWorkOn
    <3> QED BY <3>1, <3>2 DEF Sound, Chosen
  <2> QED BY <2>1, <2>2
<1> QED BY <1>1, <1>3, <1>4, <1>5 DEF Sound

\* Links that stay are the article's links still.
LEMMA SameLinks ==
  ASSUME NEW i \in Ids, \A p \in Pairs : p[2] = i => (HasLink(p)' <=> HasLink(p))
  PROVE  LinksOf(i)' = LinksOf(i)
<1>1. \A p : p \in LinksOf(i)' <=> p \in LinksOf(i)
  BY LinksOfIs, LinksOfNow
<1> QED BY <1>1

\* The table of contents stays.
LEMMA SameContents ==
  ASSUME contents' = contents, NEW i \in Ids
  PROVE  Kept(i)
BY DEF Kept, IsRow

\* Steps beside the transactions.
LEMMA AsideSound ==
  ASSUME Types, Referenced, SoundInv, Aside
  PROVE  SoundInv'
<1> SUFFICES ASSUME NEW i \in Ids \ overlapped' PROVE Sound(i)'
  BY DEF SoundInv
<1>1. Sound(i)
  BY DEF SoundInv, Aside
<1>2. LinksOf(i)' = LinksOf(i)
  BY SameLinks DEF Aside
<1>3. ASSUME NEW c \in Callers
      PROVE  /\ Ins(c, i)' => Ins(c, i) /\ req'[c] = req[c]
             /\ Del(c, i)' => Del(c, i) /\ req'[c] = req[c]
  <2>1. CASE req'[c] = req[c]
    BY <2>1, AtWorkOn
  <2>2. CASE req'[c] # req[c]
    <3>1. req'[c].stage \notin {"inserting", "deleting"}
      BY <2>2 DEF Aside, SameWork
    <3> QED BY <3>1, AtWorkOn
  <2> QED BY <2>1, <2>2
<1>4. Local(i)
  <2>1. Kept(i)
    BY DEF Aside
  <2>2. CASE Resting'
    BY <2>1, <2>2, <1>2, <1>3 DEF Local
  <2>3. CASE ~ Resting'
    <3>1. job' = job /\ now' = now /\ \A p \in Picked : p[2] = i => links'[p] = links[p]
      BY <2>3 DEF Aside
    <3> QED BY <3>1, <2>1, <1>2, <1>3 DEF Local
  <2> QED BY <2>2, <2>3
<1> QED BY <1>1, <1>4, LocalSound

\* A transaction that begins alone is the only one.
LEMMA InsertBeginsSound ==
  ASSUME Types, Referenced, SoundInv, InsertBegins
  PROVE  SoundInv'
<1>0. PICK c0 \in Callers : \E i, rows : Inserts(c0, i, rows)
  BY DEF InsertBegins
<1>1. PICK i0, rows : Inserts(c0, i0, rows)
  BY <1>0
<1>2. /\ req[c0].stage \notin {"inserting", "deleting"}
      /\ req'[c0].stage = "inserting" /\ req'[c0].rows = rows
      /\ req'[c0].clears = {j \in Articles(rows) : contents[j].orphaned # Never}
      /\ \A d \in Callers \ {c0} : req'[d] = req[d]
      /\ \A j \in Articles(rows) : j = i0
      /\ overlapped' = overlapped \cup ({i0} \cap BusyDeleting)
      /\ UNCHANGED <<contents, links, job, now>>
  BY <1>1 DEF Inserts, InsertBegins, Articles
<1> SUFFICES ASSUME NEW i \in Ids \ overlapped' PROVE Sound(i)'
  BY DEF SoundInv
<1>3. Sound(i)
  BY <1>2 DEF SoundInv
<1>4. LinksOf(i)' = LinksOf(i)
  BY <1>2, SameLinks DEF HasLink
<1>5. Kept(i)
  BY <1>2, SameContents
<1>6. \A d \in Callers \ {c0} : (Ins(d, i)' <=> Ins(d, i)) /\ (Del(d, i)' <=> Del(d, i))
  BY <1>2, AtWorkOn
<1>7. ~ Ins(c0, i) /\ ~ Del(c0, i) /\ ~ Del(c0, i)'
  BY <1>2, AtWorkOn
<1>8. CASE ~ Ins(c0, i)'
  <2>1. Local(i)
    BY <1>2, <1>4, <1>5, <1>6, <1>7, <1>8 DEF Local
  <2> QED BY <2>1, <1>3, LocalSound
<1>9. CASE Ins(c0, i)'
  <2>1. i = i0 /\ i \in Articles(rows)
    BY <1>2, <1>9, AtWorkOn
  <2>2. ~ Exp(i) /\ i \notin Doomed /\ \A d \in Callers : ~ Del(d, i)
    BY <2>1, <1>2, BusyIs
  <2>3. /\ ~ Exp(i)' /\ ~ (i \in Doomed)' /\ \A d \in Callers : ~ Del(d, i)'
        /\ Picked' = Picked
    BY <2>2, <1>2, <1>6, <1>7, JobAtWorkOn
  <2>4. Alone(i)'
    BY <2>3 DEF Alone
  <2>5. Decided(i)'
    <3>1. ASSUME NEW c \in Callers, Ins(c, i)', contents'[i].orphaned # Never
          PROVE  i \in req'[c].clears
      <4>1. CASE c = c0
        BY <4>1, <3>1, <2>1, <1>2
      <4>2. CASE c # c0
        BY <4>2, <3>1, <1>2, <1>3, <1>6 DEF Sound, Decided
      <4> QED BY <4>1, <4>2
    <3> QED BY <3>1, <2>3 DEF Decided
  <2>6. Marked(i)'
    BY <1>2, <1>3, <1>4 DEF Sound, Marked, IsRow
  <2>7. Chosen(i)'
    BY <1>2, <1>3, <2>3 DEF Sound, Chosen, HasLink, Expired, Old
  <2> QED BY <2>4, <2>5, <2>6, <2>7 DEF Sound
<1> QED BY <1>8, <1>9

\* An insert that has worked alone finds the mark as its trigger saw it.
LEMMA InsertEndsSound ==
  ASSUME Types, Referenced, SoundInv, InsertEnds
  PROVE  SoundInv'
<1>1. PICK c0 \in Callers : Inserted(c0)
  BY DEF InsertEnds
<1> DEFINE rows == req[c0].rows
           clears == req[c0].clears
<1>2. /\ req[c0].stage = "inserting" /\ req'[c0] = Nobody /\ \A d \in Callers \ {c0} : req'[d] = req[d]
      /\ \A p \in Pairs : HasLink(p)' <=> p \in rows \/ HasLink(p)
      /\ \A p \in Pairs : p \notin rows => links'[p] = links[p]
      /\ \A j \in Ids : /\ IsRow(j)' <=> IsRow(j)
                        /\ IsRow(j) => contents'[j].orphaned =
                             IF j \in clears THEN Never ELSE contents[j].orphaned
      /\ UNCHANGED <<job, now, overlapped>>
      /\ clears \subseteq Articles(rows)
  BY <1>1 DEF Inserted, InsertEnds, Types, ReqTypes, ReqType
<1> HIDE DEF rows, clears
<1> SUFFICES ASSUME NEW i \in Ids \ overlapped' PROVE Sound(i)'
  BY DEF SoundInv
<1>3. Sound(i)
  BY <1>2 DEF SoundInv
<1>4. \A d \in Callers : /\ Ins(d, i)' => Ins(d, i) /\ req'[d] = req[d] /\ d # c0
                         /\ Del(d, i)' => Del(d, i) /\ req'[d] = req[d]
  BY <1>2, AtWorkOn, NobodyType
<1>5. CASE ~ Ins(c0, i)
  <2>1. i \notin Articles(rows)
    BY <1>2, <1>5, AtWorkOn DEF rows
  <2>2. \A p \in Pairs : p[2] = i => p \notin rows
    BY <2>1 DEF Articles
  <2>3. LinksOf(i)' = LinksOf(i)
    BY <1>2, <2>2, SameLinks
  <2>4. Kept(i)
    BY <1>2, <2>1 DEF Kept
  <2>5. \A p \in Picked : p[2] = i => links'[p] = links[p]
    BY <1>2, <2>2, InHand DEF Types
  <2>6. Local(i)
    BY <1>2, <1>4, <2>3, <2>4, <2>5 DEF Local
  <2> QED BY <2>6, <1>3, LocalSound
<1>6. CASE Ins(c0, i)
  <2>1. ~ Exp(i) /\ i \notin Doomed /\ \A d \in Callers : ~ Del(d, i)
    BY <1>3, <1>6 DEF Sound, Alone
  <2>2. ~ Exp(i)' /\ ~ (i \in Doomed)' /\ \A d \in Callers : ~ Del(d, i)'
    BY <2>1, <1>2, <1>4, JobAtWorkOn
  <2>3. IsRow(i)
    BY <1>6 DEF Referenced, Ins, Articles
  <2>4. contents'[i].orphaned = Never
    BY <1>2, <1>3, <1>6, <2>3 DEF Sound, Decided, clears
  <2>5. Alone(i)' /\ Decided(i)' /\ Marked(i)'
    BY <2>2, <2>4 DEF Alone, Decided, Marked
  <2>6. Chosen(i)'
    BY <2>2 DEF Chosen, Exp, Articles
  <2> QED BY <2>5, <2>6 DEF Sound
<1> QED BY <1>5, <1>6

\* A delete begins alone.
LEMMA DeleteBeginsSound ==
  ASSUME Types, Referenced, SoundInv, DeleteBegins
  PROVE  SoundInv'
<1>0. PICK c0 \in Users : \E p : Deletes(c0, p)
  BY DEF DeleteBegins
<1>1. PICK p0 : Deletes(c0, p0)
  BY <1>0
<1>2. /\ c0 \in Callers /\ p0[2] \in Ids
      /\ req[c0].stage \notin {"inserting", "deleting"}
      /\ req'[c0].stage = "deleting" /\ req'[c0].rows = {p0}
      /\ req'[c0].marks = {i \in {p0[2]} : LinksOf(i) \subseteq {p0}}
      /\ \A d \in Callers \ {c0} : req'[d] = req[d]
      /\ overlapped' = overlapped \cup ({p0[2]} \cap (BusyInserting \cup BusyDeleting))
      /\ UNCHANGED <<contents, links, job, now>>
  BY <1>1, PairParts DEF Deletes, DeleteBegins, Callers
<1> SUFFICES ASSUME NEW i \in Ids \ overlapped' PROVE Sound(i)'
  BY DEF SoundInv
<1>3. Sound(i)
  BY <1>2 DEF SoundInv
<1>4. LinksOf(i)' = LinksOf(i)
  BY <1>2, SameLinks DEF HasLink
<1>5. Kept(i)
  BY <1>2, SameContents
<1>6. \A d \in Callers \ {c0} : (Ins(d, i)' <=> Ins(d, i)) /\ (Del(d, i)' <=> Del(d, i))
  BY <1>2, AtWorkOn
<1>7. ~ Ins(c0, i) /\ ~ Del(c0, i) /\ ~ Ins(c0, i)'
  BY <1>2, AtWorkOn
<1>8. CASE ~ Del(c0, i)'
  <2>1. Local(i)
    BY <1>2, <1>4, <1>5, <1>6, <1>7, <1>8 DEF Local
  <2> QED BY <2>1, <1>3, LocalSound
<1>9. CASE Del(c0, i)'
  <2>1. i = p0[2]
    BY <1>2, <1>9, AtWorkOn DEF Articles
  <2>2. /\ ~ Exp(i) /\ i \notin Doomed
        /\ \A d \in Callers : ~ Ins(d, i) /\ ~ Del(d, i)
    BY <2>1, <1>2, BusyIs
  <2>3. /\ ~ Exp(i)' /\ ~ (i \in Doomed)' /\ \A d \in Callers : ~ Ins(d, i)'
        /\ \A d \in Callers : Del(d, i)' => d = c0
    BY <2>2, <1>2, <1>6, <1>7, JobAtWorkOn
  <2>4. Alone(i)'
    BY <2>3 DEF Alone
  <2>5. Decided(i)'
    <3>1. ASSUME NEW c \in Callers, Del(c, i)'
          PROVE  i \in req'[c].marks <=> LinksOf(i)' \subseteq req'[c].rows
      BY <3>1, <2>1, <2>3, <1>2, <1>4
    <3> QED BY <3>1, <2>3 DEF Decided
  <2>6. Marked(i)'
    BY <1>2, <1>3, <1>4 DEF Sound, Marked, IsRow
  <2>7. Chosen(i)'
    BY <2>3 DEF Chosen, Exp, Articles
  <2> QED BY <2>4, <2>5, <2>6, <2>7 DEF Sound
<1> QED BY <1>8, <1>9

\* Links of an article are removed by the one who works on it alone: the mark is right.
LEMMA RemovedMarks ==
  ASSUME Types, NEW i \in Ids, NEW rows, NEW ids, Removed(rows, ids), Marked(i),
         i \in ids <=> LinksOf(i) \subseteq rows
  PROVE  /\ Marked(i)'
         /\ IsRow(i)' /\ LinksOf(i)' = {} => contents'[i].orphaned # Never \/ LinksOf(i) = {}
<1>1. \A p : p \in LinksOf(i)' <=> p \in LinksOf(i) /\ p \notin rows
  BY LinksOfIs, LinksOfNow DEF Removed
<1>2. /\ IsRow(i)' <=> IsRow(i)
      /\ IsRow(i) /\ i \in ids => contents'[i].orphaned # Never
      /\ IsRow(i) /\ i \notin ids => contents'[i].orphaned = contents[i].orphaned
  BY DEF Removed
<1>3. CASE i \in ids
  BY <1>1, <1>2, <1>3 DEF Marked
<1>4. CASE i \notin ids
  <2>1. LinksOf(i) # {}
    BY <1>4
  <2>2. LinksOf(i)' # {}
    BY <1>1, <1>4
  <2> QED BY <1>2, <1>4, <2>1, <2>2 DEF Marked
<1> QED BY <1>3, <1>4

\* A delete that has worked alone marks the article when it takes the last link.
LEMMA DeleteEndsSound ==
  ASSUME Types, Referenced, SoundInv, DeleteEnds
  PROVE  SoundInv'
<1>1. PICK c0 \in Callers :
        /\ req[c0].stage = "deleting" /\ req'[c0] = Nobody /\ \A d \in Callers \ {c0} : req'[d] = req[d]
        /\ Removed(req[c0].rows, req[c0].marks)
  BY DEF DeleteEnds
<1> DEFINE rows == req[c0].rows
           marks == req[c0].marks
<1>2. marks \subseteq Articles(rows) /\ UNCHANGED <<job, now, overlapped>>
  BY <1>1 DEF DeleteEnds, Types, ReqTypes, ReqType
<1>3. Removed(rows, marks)
  BY <1>1
<1> HIDE DEF rows, marks
<1> SUFFICES ASSUME NEW i \in Ids \ overlapped' PROVE Sound(i)'
  BY DEF SoundInv
<1>4. Sound(i)
  BY <1>2 DEF SoundInv
<1>5. \A d \in Callers : /\ Ins(d, i)' => Ins(d, i) /\ req'[d] = req[d]
                         /\ Del(d, i)' => Del(d, i) /\ req'[d] = req[d] /\ d # c0
  BY <1>1, AtWorkOn, NobodyType
<1>6. CASE ~ Del(c0, i)
  <2>1. i \notin Articles(rows)
    BY <1>1, <1>6, AtWorkOn DEF rows
  <2>2. \A p \in Pairs : p[2] = i => p \notin rows
    BY <2>1 DEF Articles
  <2>3. LinksOf(i)' = LinksOf(i)
    BY <1>3, <2>2, SameLinks DEF Removed
  <2>4. Kept(i)
    BY <1>2, <1>3, <2>1 DEF Kept, Removed
  <2>5. \A p \in Picked : p[2] = i => links'[p] = links[p]
    BY <1>3, <2>2, InHand DEF Types, Removed
  <2>6. Local(i)
    BY <1>2, <1>5, <2>3, <2>4, <2>5 DEF Local
  <2> QED BY <2>6, <1>4, LocalSound
<1>7. CASE Del(c0, i)
  <2>1. /\ ~ Exp(i) /\ \A d \in Callers : ~ Ins(d, i)
        /\ \A d \in Callers : Del(d, i) => d = c0
    BY <1>4, <1>7 DEF Sound, Alone
  <2>2. /\ ~ Exp(i)' /\ \A d \in Callers : ~ Ins(d, i)' /\ ~ Del(d, i)'
        /\ (i \in Doomed)' <=> i \in Doomed
    BY <2>1, <1>2, <1>5, JobAtWorkOn
  <2>3. Alone(i)' /\ Decided(i)'
    BY <2>2 DEF Alone, Decided
  <2>4. i \in marks <=> LinksOf(i) \subseteq rows
    BY <1>4, <1>7 DEF Sound, Decided, rows, marks
  <2>5. Marked(i)'
    BY <1>3, <1>4, <2>4, RemovedMarks DEF Sound
  <2>6. LinksOf(i) = {} => LinksOf(i)' = {}
    BY <1>3, LinksOfIs, LinksOfNow DEF Removed
  <2>7. Chosen(i)'
    BY <2>2, <2>6, <1>4 DEF Sound, Chosen, Exp, Articles
  <2> QED BY <2>3, <2>5, <2>7 DEF Sound
<1> QED BY <1>6, <1>7

\* The job chooses links to articles nobody works on.
LEMMA ExpiryChosenSound ==
  ASSUME Types, Referenced, SoundInv, ExpiryChosen
  PROVE  SoundInv'
<1>1. PICK B : Expires(B)
  BY DEF ExpiryChosen
<1>2. /\ Resting /\ \A p \in B : p \in Pairs /\ Expired(p)
      /\ job'.stage = "expire" /\ job'.picked = B
      /\ overlapped' = overlapped \cup (Articles(B) \cap (BusyInserting \cup BusyDeleting))
      /\ UNCHANGED <<contents, links, req, now>>
  BY <1>1 DEF Expires, ExpiryChosen
<1>3. Picked' = B /\ Doomed' = {}
  BY <1>2 DEF Picked, Doomed
<1> SUFFICES ASSUME NEW i \in Ids \ overlapped' PROVE Sound(i)'
  BY DEF SoundInv
<1>4. Sound(i)
  BY <1>2 DEF SoundInv
<1>5. LinksOf(i)' = LinksOf(i)
  BY <1>2, SameLinks DEF HasLink
<1>6. \A d \in Callers : (Ins(d, i)' <=> Ins(d, i)) /\ (Del(d, i)' <=> Del(d, i))
  BY <1>2, AtWorkOn
<1>7. Exp(i)' => \A d \in Callers : ~ Ins(d, i) /\ ~ Del(d, i)
  <2>1. Exp(i)' => i \in Articles(B)
    BY <1>3 DEF Exp, Articles
  <2> QED BY <2>1, <1>2, BusyIs
<1>8. Alone(i)'
  BY <1>3, <1>4, <1>6, <1>7 DEF Sound, Alone
<1>9. Decided(i)'
  BY <1>2, <1>4, <1>5, <1>6 DEF Sound, Decided
<1>10. Marked(i)'
  BY <1>2, <1>4, <1>5 DEF Sound, Marked, IsRow
<1>11. Chosen(i)'
  BY <1>2, <1>3 DEF Chosen, Expired, Old
<1> QED BY <1>8, <1>9, <1>10, <1>11 DEF Sound

\* The job deletes links to articles on which it works alone.
LEMMA ExpiryBeginsSound ==
  ASSUME Types, Referenced, SoundInv, ExpiryBegins
  PROVE  SoundInv'
<1>1. PICK rows : Expiring(rows)
  BY DEF ExpiryBegins
<1>2. /\ job.stage = "expire" /\ rows \subseteq job.picked
      /\ job'.stage = "expiring" /\ job'.picked = rows
      /\ job'.marks = {i \in Articles(rows) : LinksOf(i) \subseteq rows}
      /\ overlapped \subseteq overlapped'
      /\ UNCHANGED <<contents, links, req, now>>
  BY <1>1 DEF Expiring, ExpiryBegins
<1>3. Picked' = rows /\ Doomed' = {} /\ rows \subseteq Picked
  BY <1>2 DEF Picked, Doomed
<1> SUFFICES ASSUME NEW i \in Ids \ overlapped' PROVE Sound(i)'
  BY DEF SoundInv
<1>4. Sound(i)
  BY <1>2 DEF SoundInv
<1>5. LinksOf(i)' = LinksOf(i)
  BY <1>2, SameLinks DEF HasLink
<1>6. \A d \in Callers : (Ins(d, i)' <=> Ins(d, i)) /\ (Del(d, i)' <=> Del(d, i))
  BY <1>2, AtWorkOn
<1>7. (Exp(i)' <=> i \in Articles(rows)) /\ (Exp(i)' => Exp(i))
  BY <1>3 DEF Exp, Articles
<1>8. Alone(i)'
  BY <1>3, <1>4, <1>6, <1>7 DEF Sound, Alone
<1>9. Decided(i)'
  <2>1. Exp(i)' => (i \in job'.marks <=> LinksOf(i)' \subseteq job'.picked)
    BY <1>2, <1>5, <1>7
  <2> QED BY <2>1, <1>2, <1>4, <1>5, <1>6 DEF Sound, Decided
<1>10. Marked(i)'
  BY <1>2, <1>4, <1>5 DEF Sound, Marked, IsRow
<1>11. Chosen(i)'
  BY <1>2, <1>3, <1>4 DEF Sound, Chosen, HasLink, Expired, Old
<1> QED BY <1>8, <1>9, <1>10, <1>11 DEF Sound

\* The job's trigger marks the article when it takes the last link.
LEMMA ExpiryEndsSound ==
  ASSUME Types, Referenced, SoundInv, ExpiryEnds
  PROVE  SoundInv'
<1>1. /\ job.stage = "expiring" /\ Removed(job.picked, job.marks) /\ Resting'
      /\ UNCHANGED <<req, now, overlapped>>
      /\ job.marks \subseteq Articles(job.picked) /\ Picked = job.picked
  BY DEF ExpiryEnds, Types, JobType, Picked
<1> SUFFICES ASSUME NEW i \in Ids \ overlapped' PROVE Sound(i)'
  BY DEF SoundInv
<1>2. Sound(i)
  BY <1>1 DEF SoundInv
<1>3. \A d \in Callers : /\ Ins(d, i)' => Ins(d, i) /\ req'[d] = req[d]
                         /\ Del(d, i)' => Del(d, i) /\ req'[d] = req[d]
  BY <1>1, AtWorkOn
<1>4. CASE ~ Exp(i)
  <2>1. i \notin Articles(job.picked)
    BY <1>1, <1>4 DEF Exp
  <2>2. \A p \in Pairs : p[2] = i => p \notin job.picked
    BY <2>1 DEF Articles
  <2>3. LinksOf(i)' = LinksOf(i)
    BY <1>1, <2>2, SameLinks DEF Removed
  <2>4. Kept(i)
    BY <1>1, <2>1 DEF Kept, Removed
  <2>5. Local(i)
    BY <1>1, <1>3, <2>3, <2>4 DEF Local
  <2> QED BY <2>5, <1>2, LocalSound
<1>5. CASE Exp(i)
  <2>1. \A d \in Callers : ~ Ins(d, i) /\ ~ Del(d, i)
    BY <1>2, <1>5 DEF Sound, Alone
  <2>2. /\ \A d \in Callers : ~ Ins(d, i)' /\ ~ Del(d, i)'
        /\ ~ Exp(i)' /\ ~ (i \in Doomed)' /\ Picked' = {}
    BY <2>1, <1>1, <1>3, JobAtWorkOn
  <2>3. Alone(i)' /\ Decided(i)' /\ Chosen(i)'
    BY <2>2 DEF Alone, Decided, Chosen
  <2>4. i \in job.marks <=> LinksOf(i) \subseteq job.picked
    BY <1>1, <1>2, <1>5 DEF Sound, Decided
  <2>5. Marked(i)'
    BY <1>1, <1>2, <2>4, RemovedMarks DEF Sound
  <2> QED BY <2>3, <2>5 DEF Sound
<1> QED BY <1>4, <1>5

\* The job chooses articles by their marks, which say that they have no links.
LEMMA OrphansChosenSound ==
  ASSUME Types, Referenced, SoundInv, OrphansChosen
  PROVE  SoundInv'
<1>1. PICK B : Reclaims(B)
  BY DEF OrphansChosen
<1>2. /\ Resting /\ \A i \in B : i \in Ids /\ IsRow(i) /\ contents[i].orphaned # Never
      /\ job'.stage = "orphans" /\ job'.picked = B
      /\ overlapped' = overlapped \cup (B \cap BusyInserting)
      /\ UNCHANGED <<contents, links, req, now>>
  BY <1>1 DEF Reclaims, OrphansChosen
<1>3. Picked' = {} /\ Doomed' = B
  BY <1>2 DEF Picked, Doomed
<1> SUFFICES ASSUME NEW i \in Ids \ overlapped' PROVE Sound(i)'
  BY DEF SoundInv
<1>4. Sound(i)
  BY <1>2 DEF SoundInv
<1>5. LinksOf(i)' = LinksOf(i)
  BY <1>2, SameLinks DEF HasLink
<1>6. \A d \in Callers : (Ins(d, i)' <=> Ins(d, i)) /\ (Del(d, i)' <=> Del(d, i))
  BY <1>2, AtWorkOn
<1>7. ~ Exp(i)' /\ (i \in B => \A d \in Callers : ~ Ins(d, i))
  BY <1>2, <1>3, BusyIs DEF Exp, Articles
<1>8. Alone(i)'
  BY <1>3, <1>4, <1>6, <1>7 DEF Sound, Alone
<1>9. Decided(i)'
  BY <1>2, <1>4, <1>5, <1>6 DEF Sound, Decided
<1>10. Marked(i)'
  BY <1>2, <1>4, <1>5 DEF Sound, Marked, IsRow
<1>11. Chosen(i)'
  BY <1>2, <1>3, <1>4, <1>5 DEF Sound, Marked, Chosen
<1> QED BY <1>8, <1>9, <1>10, <1>11 DEF Sound

\* What the job reclaims is gone, and nothing else has changed.
LEMMA OrphansEndSound ==
  ASSUME Types, Referenced, SoundInv, OrphansEnd
  PROVE  SoundInv'
<1>1. /\ job.stage = "orphans" /\ Resting' /\ UNCHANGED <<req, now, overlapped>>
      /\ \A i \in job.picked : i \notin BusyInserting /\ \A u \in Users : i \notin Articles(Deleting(u))
      /\ \A i \in Ids : /\ IsRow(i)' <=> i \notin job.picked /\ IsRow(i)
                        /\ i \notin job.picked => contents'[i] = contents[i]
      /\ \A p \in Pairs : HasLink(p)' <=> p[2] \notin job.picked /\ HasLink(p)
  BY DEF OrphansEnd, Reclaimed
<1> SUFFICES ASSUME NEW i \in Ids \ overlapped' PROVE Sound(i)'
  BY DEF SoundInv
<1>2. Sound(i)
  BY <1>1 DEF SoundInv
<1>3. \A d \in Callers : /\ Ins(d, i)' => Ins(d, i) /\ req'[d] = req[d]
                         /\ Del(d, i)' => Del(d, i) /\ req'[d] = req[d]
  BY <1>1, AtWorkOn
<1>4. CASE i \notin job.picked
  <2>1. LinksOf(i)' = LinksOf(i)
    BY <1>1, <1>4, SameLinks
  <2>2. Kept(i)
    BY <1>1, <1>4 DEF Kept
  <2>3. Local(i)
    BY <1>1, <1>3, <2>1, <2>2 DEF Local
  <2> QED BY <2>3, <1>2, LocalSound
<1>5. CASE i \in job.picked
  <2>1. \A d \in Callers : ~ Ins(d, i)
    BY <1>1, <1>5, BusyIs
  <2>2. \A d \in Callers : ~ Del(d, i)
    <3> SUFFICES ASSUME NEW d \in Callers, Del(d, i) PROVE FALSE
      OBVIOUS
    <3>1. d \in Users
      BY AtWorkOn DEF Types, ReqTypes, ReqType
    <3> QED BY <3>1, <1>1, <1>5 DEF Del
  <2>3. /\ \A d \in Callers : ~ Ins(d, i)' /\ ~ Del(d, i)'
        /\ ~ Exp(i)' /\ ~ (i \in Doomed)' /\ Picked' = {}
    BY <2>1, <2>2, <1>1, <1>3, JobAtWorkOn
  <2>4. Alone(i)' /\ Decided(i)' /\ Chosen(i)'
    BY <2>3 DEF Alone, Decided, Chosen
  <2>5. Marked(i)'
    BY <1>1, <1>5 DEF Marked
  <2> QED BY <2>4, <2>5 DEF Sound
<1> QED BY <1>4, <1>5

\* Steps of every kind.
LEMMA SoundStep ==
  ASSUME Types, Referenced, SoundInv, Kinds
  PROVE  SoundInv'
BY AsideSound, InsertBeginsSound, InsertEndsSound, DeleteBeginsSound, DeleteEndsSound,
   ExpiryChosenSound, ExpiryBeginsSound, ExpiryEndsSound, OrphansChosenSound, OrphansEndSound
   DEF Kinds

-----------------------------------------------------------------------------
(* The theorems.                                                            *)

Inv == Types /\ StoredOnce /\ Referenced /\ SoundInv

\* The empty tables.
LEMMA InitInv == Init => Inv
<1> SUFFICES ASSUME Init PROVE Inv
  OBVIOUS
<1>1. Types
  BY InitTypes
<1>2. \A i \in Ids : ~ IsRow(i)
  BY DEF Init, IsRow
<1>3. \A p \in Pairs : ~ HasLink(p)
  BY DEF Init, HasLink
<1>4. \A c \in Callers : req[c].stage = "idle"
  BY NobodyType DEF Init
<1>5. StoredOnce
  BY <1>2 DEF StoredOnce
<1>6. Referenced
  BY <1>3, <1>4, HandIs DEF Referenced
<1>7. Resting
  BY DEF Init, Resting
<1>8. \A i \in Ids : Sound(i)
  <2> SUFFICES ASSUME NEW i \in Ids PROVE Sound(i)
    OBVIOUS
  <2>1. /\ \A c \in Callers : ~ Ins(c, i) /\ ~ Del(c, i)
        /\ ~ Exp(i) /\ i \notin Doomed /\ Picked = {}
    BY <1>4, <1>7, AtWorkOn, JobAtWorkOn
  <2> QED BY <2>1, <1>2 DEF Sound, Alone, Decided, Marked, Chosen
<1> QED BY <1>1, <1>5, <1>6, <1>8 DEF Inv, SoundInv

\* Every step keeps the invariants.
LEMMA InvStep ==
  ASSUME Inv, [Next]_vars
  PROVE  Inv' /\ Kinds
<1>1. Types' /\ StoredOnce' /\ Kinds
  BY StepKinds DEF Inv
<1>2. Referenced' /\ SoundInv'
  BY <1>1, ReferencedStep, SoundStep DEF Inv
<1> QED BY <1>1, <1>2 DEF Inv

\* The invariants hold.
LEMMA Invariants == Spec => []Inv
<1>1. Inv /\ [Next]_vars => Inv'
  BY InvStep
<1> QED BY <1>1, InitInv, PTL DEF Spec

\* Every variable has its type, a link is to an article that is there, and an article
\* is stored once, however requests and the cleanup race (user_content.go, content.go).
THEOREM TypeCorrect == Spec => []TypeOK
<1>1. Inv => TypeOK
  <2> SUFFICES ASSUME Inv PROVE TypeOK
    OBVIOUS
  <2>1. \A c \in Callers : req[c].stage \in Stages
    BY DEF Inv, Types, ReqTypes, ReqType
  <2>2. \A p \in Pairs : HasLink(p) => IsRow(p[2])
    BY DEF Inv, Referenced
  <2>3. ASSUME NEW k \in Keys PROVE Cardinality(RowsOf(k)) <= 1
    <3>1. \A i, j \in RowsOf(k) : i = j
      BY RowsOfIs DEF Inv, Types, StoredOnce
    <3>2. CASE RowsOf(k) = {}
      BY <3>2, FS_EmptySet
    <3>3. ASSUME NEW i \in RowsOf(k) PROVE Cardinality(RowsOf(k)) <= 1
      <4>1. RowsOf(k) = {i}
        BY <3>1
      <4> QED BY <4>1, FS_Singleton
    <3> QED BY <3>2, <3>3
  <2> QED BY <2>1, <2>2, <2>3 DEF Inv, Types, TableTypes, CountTypes, JobType, TypeOK
<1> QED BY <1>1, Invariants, PTL

\* Of an article on which no two transactions have worked at once: when it is marked
\* it has no reader, and when its last reader goes it is marked (the triggers
\* mark_content_orphaned and clear_orphaned_status).
THEOREM MarksRight == Spec => MarksFollowReaders
<1>1. ASSUME Inv, [Next]_vars, NEW i \in Ids \ overlapped', IsRow(i)'
      PROVE  /\ contents'[i].orphaned # Never => LinksOf(i)' = {}
             /\ LinksOf(i) # {} /\ LinksOf(i)' = {} => contents'[i].orphaned # Never
  <2>1. Inv' /\ Kinds
    BY <1>1, InvStep
  <2>2. contents'[i].orphaned # Never => LinksOf(i)' = {}
    BY <2>1, <1>1 DEF Inv, SoundInv, Sound, Marked
  <2>3. ASSUME LinksOf(i) # {}, LinksOf(i)' = {} PROVE contents'[i].orphaned # Never
    <3>1. PICK p \in Pairs : p[2] = i /\ HasLink(p) /\ ~ HasLink(p)'
      BY <2>3, LinksOfIs, LinksOfNow
    <3>2. ~ Aside /\ ~ InsertBegins /\ ~ DeleteBegins /\ ~ InsertEnds
          /\ ~ ExpiryChosen /\ ~ ExpiryBegins /\ ~ OrphansChosen
      BY <3>1 DEF Aside, InsertBegins, DeleteBegins, InsertEnds, Inserted, ExpiryChosen,
           ExpiryBegins, OrphansChosen, HasLink
    <3>3. ~ OrphansEnd
      BY <3>1, <1>1 DEF OrphansEnd, Reclaimed
    <3>4. CASE DeleteEnds
      <4>1. PICK c \in Callers : req[c].stage = "deleting" /\ Removed(req[c].rows, req[c].marks)
        BY <3>4 DEF DeleteEnds
      <4>2. Sound(i)
        BY <3>4, <1>1 DEF DeleteEnds, Inv, SoundInv
      <4>3. Del(c, i)
        BY <4>1, <3>1, AtWorkOn DEF Removed, Articles
      <4>4. i \in req[c].marks <=> LinksOf(i) \subseteq req[c].rows
        BY <4>2, <4>3 DEF Sound, Decided
      <4> QED BY <4>1, <4>2, <4>4, <2>3, <1>1, RemovedMarks DEF Inv, Sound
    <3>5. CASE ExpiryEnds
      <4>1. /\ job.stage = "expiring" /\ Removed(job.picked, job.marks) /\ Picked = job.picked
            /\ overlapped' = overlapped
        BY <3>5 DEF ExpiryEnds, Picked
      <4>2. Sound(i)
        BY <4>1, <1>1 DEF Inv, SoundInv
      <4>3. Exp(i)
        BY <4>1, <3>1 DEF Removed, Articles, Exp
      <4>4. i \in job.marks <=> LinksOf(i) \subseteq job.picked
        BY <4>1, <4>2, <4>3 DEF Sound, Decided
      <4> QED BY <4>1, <4>2, <4>4, <2>3, <1>1, RemovedMarks DEF Inv, Sound
    <3> QED BY <2>1, <3>2, <3>3, <3>4, <3>5 DEF Kinds
  <2> QED BY <2>2, <2>3
<1>2. Inv /\ [Next]_vars =>
        [\A i \in Ids \ overlapped' :
           IsRow(i)' =>
             /\ contents'[i].orphaned # Never => LinksOf(i)' = {}
             /\ LinksOf(i) # {} /\ LinksOf(i)' = {} => contents'[i].orphaned # Never]_vars
  BY <1>1
<1> QED BY <1>2, Invariants, PTL DEF Spec, MarksFollowReaders

\* What a reader has, only he deletes, or the cleanup when it has expired, as long as
\* no two transactions have worked on the article at once (cleanup.go).
THEOREM NothingTaken == Spec => SavedStays
<1>1. ASSUME Inv, [Next]_vars, NEW p \in Pairs, HasLink(p), ~ HasLink(p)',
             p[2] \notin overlapped
      PROVE  req[p[1]].stage = "deleting" \/ Expired(p)
  <2>1. Kinds /\ p[2] \in Ids
    BY <1>1, InvStep, PairParts
  <2>2. ~ Aside /\ ~ InsertBegins /\ ~ DeleteBegins /\ ~ InsertEnds
        /\ ~ ExpiryChosen /\ ~ ExpiryBegins /\ ~ OrphansChosen
    BY <1>1 DEF Aside, InsertBegins, DeleteBegins, InsertEnds, Inserted, ExpiryChosen,
         ExpiryBegins, OrphansChosen, HasLink
  <2>3. Sound(p[2])
    BY <2>1, <1>1 DEF Inv, SoundInv
  <2>4. CASE DeleteEnds
    <3>1. PICK c \in Callers : req[c].stage = "deleting" /\ Removed(req[c].rows, req[c].marks)
      BY <2>4 DEF DeleteEnds
    <3>2. p \in Deleting(c)
      BY <3>1, <1>1, HandIs DEF Removed
    <3>3. p[1] = c
      BY <3>2, InHand, <1>1 DEF Inv, Types
    <3> QED BY <3>1, <3>3
  <2>5. CASE ExpiryEnds
    <3>1. p \in Picked
      BY <2>5, <1>1 DEF ExpiryEnds, Removed, Picked
    <3> QED BY <3>1, <2>3, <1>1 DEF Sound, Chosen
  <2>6. CASE OrphansEnd
    <3>1. p[2] \in Doomed
      BY <2>6, <1>1 DEF OrphansEnd, Reclaimed, Doomed
    <3>2. p \in LinksOf(p[2])
      BY <1>1, <2>1, LinksOfIs
    <3> QED BY <3>1, <3>2, <2>3 DEF Sound, Chosen
  <2> QED BY <2>1, <2>2, <2>4, <2>5, <2>6 DEF Kinds
<1>2. Inv /\ [Next]_vars =>
        [\A p \in Pairs :
           HasLink(p) /\ ~HasLink(p)'
             => \/ req[p[1]].stage = "deleting"
                \/ Expired(p)
                \/ p[2] \in overlapped]_vars
  BY <1>1
<1> QED BY <1>2, Invariants, PTL DEF Spec, SavedStays
=============================================================================
