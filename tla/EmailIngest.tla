------------------------------ MODULE EmailIngest ------------------------------
(***************************************************************************)
(* The newsletter service: a user's address, the mail the edge worker      *)
(* posts to it, the email processor that turns mail into rows of the       *)
(* outbox, the outbox worker that delivers them to the content service     *)
(* behind a circuit breaker, and the two retention jobs.                   *)
(*                                                                         *)
(* Both workers claim rows with a lease, keep the retry count they read,   *)
(* and write back by id.  An instance is a process with one of each; it    *)
(* claims again only when its last batch is done.                          *)
(***************************************************************************)
EXTENDS Integers, FiniteSets

CONSTANTS
  Users, LocalParts,
  Rows, Entries,          \* ids of raw_emails and content_outbox, in order
  Kinds,                  \* what bodies arrive: "html", "text" (that alone)
  Instances,
  Asks,                   \* requests for an address at a time (a bound)
  HasKey,                 \* is the client given an internal API key?
  WorkerCount,            \* EmailProcessorConfig.WorkerCount
  MaxDraws,               \* attempts at a free local part (5)
  MaxAttempts,            \* failures that end an email (5)
  MaxRetries,             \* failures that end an entry (6)
  Trip,                   \* failures in a row that open the breaker (5)
  MaxFaults               \* bound on faults

ASSUME EmailAssumption ==
  /\ Rows \subseteq Nat /\ Entries \subseteq Nat
  /\ Kinds \subseteq {"html", "text"} /\ HasKey \in BOOLEAN
  /\ {WorkerCount, MaxDraws, MaxAttempts, MaxRetries, Trip} \subseteq Nat \ {0}
  /\ MaxFaults \in Nat

VARIABLES
  address,  \* email_addresses: the local part of each user
  asks,     \* requests that found no address, and are drawing one
  told,     \* history: the local parts a user was given
  raw,      \* raw_emails
  entry,    \* content_outbox
  counted,  \* how often each email went into its sender's email_count
  listed,   \* emails the content service has put into their user's list
  proc,     \* what each processor does with the emails it has claimed
  batch,    \* what each outbox worker does with its entries, one at a time
  breaker,  \* its circuit breaker: failures in a row; at Trip it is open
  errors,   \* history: failures of each email in the processor
  tries,    \* history: failed deliveries of each entry
  faults

addressVars == <<address, asks, told>>
tableVars   == <<raw, entry, counted, listed>>
workVars    == <<proc, batch, breaker>>
vars == <<addressVars, tableVars, workVars, errors, tries, faults>>

None     == [value |-> "NULL"]
Free     == [at |-> "free"]
Unissued == [status |-> "unissued"]

Issued(row) == row.status # "unissued"
Live(row)   == row.status \notin {"unissued", "deleted"}
Oldest(S)   == {x \in S : \A y \in S : x <= y}
Fault       == faults < MaxFaults /\ faults' = faults + 1

-----------------------------------------------------------------------------
(* Addresses.                                                              *)

\* Altered: the insert replaces the row of the user.
Insertable1(u, l) == \A v \in Users \ {u} : address[v] # l

\* UNIQUE (user_id), UNIQUE (local_part).
Insertable(u, l) == address[u] = None /\ \A v \in Users : address[v] # l

GetOrCreate(s, u) ==
  /\ asks[s] = Free
  /\ IF address[u] = None
     THEN asks' = [asks EXCEPT ![s] = [at |-> "draw", user |-> u, left |-> MaxDraws]] /\ UNCHANGED told
     ELSE told' = [told EXCEPT ![u] = @ \cup {address[u]}] /\ UNCHANGED asks
  /\ UNCHANGED <<address, tableVars, workVars, errors, tries, faults>>

\* A duplicate of either kind: draw again, while there are attempts left.
Redraw(a) == IF a.left > 1 THEN [a EXCEPT !.left = @ - 1] ELSE Free

Draw(s, l) ==
  LET u == asks[s].user IN
  /\ asks[s].at = "draw"
  /\ IF Insertable(u, l)
     THEN /\ address' = [address EXCEPT ![u] = l]
          /\ told' = [told EXCEPT ![u] = @ \cup {l}]
          /\ asks' = [asks EXCEPT ![s] = Free]
     ELSE /\ asks' = [asks EXCEPT ![s] = Redraw(asks[s])]
          /\ UNCHANGED <<address, told>>
  /\ UNCHANGED <<tableVars, workVars, errors, tries, faults>>

-----------------------------------------------------------------------------
(* Ingestion and the email processor.                                      *)

\* Mail for an address nobody has is answered, and stored nowhere.
Resolves(u) == address[u] # None

NewEmail(u, kind) ==
  [status |-> "pending", user |-> u, kind |-> kind, leased |-> FALSE, retries |-> 0]

\* Bound: no request for an address is under way, which neither would notice.
IngestEmail(u, kind) ==
  /\ Resolves(u) /\ \A s \in Asks : asks[s] = Free
  /\ \E r \in Oldest({x \in Rows : ~Issued(raw[x])}) :
       raw' = [raw EXCEPT ![r] = NewEmail(u, kind)]
  /\ UNCHANGED <<addressVars, entry, counted, listed, workVars, errors, tries, faults>>

\* Altered: leases are not looked at.
Pending1(r) == Live(raw[r]) /\ raw[r].status \in {"pending", "processing"}

\* Altered: only what nobody has claimed yet.
PendingOnly(r) == Live(raw[r]) /\ raw[r].status = "pending"

Pending(r) ==
  /\ Live(raw[r]) /\ raw[r].retries < MaxAttempts
  /\ \/ raw[r].status = "pending"
     \/ raw[r].status = "processing" /\ ~raw[r].leased

Claims(i)  == {r \in Rows : proc[i][r] # Free}
InHand(r)  == \E i \in Instances : r \in Claims(i)
Started(i) == {r \in Claims(i) : proc[i][r].at # "claimed"}

\* The batch of 20 is never full.
GetPendingEmails(i) ==
  LET S == {r \in Rows : Pending(r)} IN
  /\ Claims(i) = {} /\ S # {}
  /\ raw' = [r \in Rows |-> IF r \in S THEN [raw[r] EXCEPT !.status = "processing", !.leased = TRUE]
                            ELSE raw[r]]
  /\ proc' = [proc EXCEPT ![i] = [r \in Rows |->
                IF r \in S THEN [at |-> "claimed", retries |-> raw[r].retries] ELSE Free]]
  /\ UNCHANGED <<addressVars, entry, counted, listed, batch, breaker, errors, tries, faults>>

Goto(i, r, label) == proc' = [proc EXCEPT ![i][r].at = label]
Done(i, r)        == proc' = [proc EXCEPT ![i][r] = Free]

\* Emails are handed to goroutines a few at a time, in the order UPDATE happens
\* to return them; each counts its email for the sender first.  Cleaning and
\* extraction change nothing.
Upsert(r) == counted' = [counted EXCEPT ![r] = @ + 1]

UpsertOnReceipt(i, r) ==
  /\ r \in Claims(i) \ Started(i) /\ Cardinality(Started(i)) < WorkerCount
  /\ Upsert(r)
  /\ Goto(i, r, "create")
  /\ UNCHANGED <<addressVars, raw, entry, listed, batch, breaker, errors, tries, faults>>

NewEntry(r) == [status |-> "pending", row |-> r, leased |-> FALSE, retries |-> 0, due |-> TRUE]

CreateEntry(i, r) ==
  /\ proc[i][r].at = "create"
  /\ \E e \in Oldest({x \in Entries : ~Issued(entry[x])}) :
       entry' = [entry EXCEPT ![e] = NewEntry(r)]
  /\ Goto(i, r, "complete")
  /\ UNCHANGED <<addressVars, raw, counted, listed, batch, breaker, errors, tries, faults>>

Complete(i, r) ==
  /\ proc[i][r].at = "complete"
  /\ raw' = [raw EXCEPT ![r].status = "completed"]
  /\ Done(i, r)
  /\ UNCHANGED <<addressVars, entry, counted, listed, batch, breaker, errors, tries, faults>>

\* The upsert, the cleaning or the insert fails.
Fails(i, r) ==
  /\ proc[i][r].at \in {"claimed", "create"} /\ Fault
  /\ r \in Started(i) \/ Cardinality(Started(i)) < WorkerCount
  /\ Goto(i, r, "error")
  /\ errors' = [errors EXCEPT ![r] = @ + 1]
  /\ UNCHANGED <<addressVars, tableVars, batch, breaker, tries>>

\* Altered: the limit is reached one failure early.
EndsAt1(n, limit) == n + 1 >= limit

EndsAt(n, limit) == n >= limit

\* The row of a failure: the count is absolute, the lease ends unless it was
\* the last one.
WithFailure(row, n, limit) ==
  IF EndsAt(n, limit) THEN [row EXCEPT !.retries = n, !.status = "failed"]
  ELSE [row EXCEPT !.retries = n, !.leased = FALSE]

UpdateError(i, r) ==
  /\ proc[i][r].at = "error"
  /\ raw' = [raw EXCEPT ![r] = WithFailure(@, proc[i][r].retries + 1, MaxAttempts)]
  /\ Done(i, r)
  /\ UNCHANGED <<addressVars, entry, counted, listed, batch, breaker, errors, tries, faults>>

\* A panic, or the last update of the email fails: that is only logged.
Abandon(i, r) ==
  /\ r \in Started(i) /\ Fault
  /\ Done(i, r)
  /\ UNCHANGED <<addressVars, tableVars, batch, breaker, errors, tries>>

-----------------------------------------------------------------------------
(* The outbox worker.                                                      *)

Owed(e)  == Live(entry[e]) /\ entry[e].status \in {"pending", "sending"}
Batch(i) == {e \in Entries : batch[i][e] # Free}
Sent(e)  == \E i \in Instances : e \in Batch(i)

Deliverable(e) ==
  /\ Owed(e) /\ entry[e].due /\ entry[e].retries < MaxRetries
  /\ entry[e].status = "pending" \/ ~entry[e].leased

\* The batch of 10 is never full.
GetPendingEntries(i) ==
  LET S == {e \in Entries : Deliverable(e)} IN
  /\ Batch(i) = {} /\ S # {}
  /\ entry' = [e \in Entries |-> IF e \in S THEN [entry[e] EXCEPT !.status = "sending", !.leased = TRUE]
                                 ELSE entry[e]]
  /\ batch' = [batch EXCEPT ![i] = [e \in Entries |->
                IF e \in S THEN [at |-> "claimed", retries |-> entry[e].retries] ELSE Free]]
  /\ UNCHANGED <<addressVars, raw, counted, listed, proc, breaker, errors, tries, faults>>

\* One entry at a time, in the order UPDATE returned them; and how far it is.
Current(i, e)     == e \in Batch(i) /\ \A f \in Batch(i) \ {e} : batch[i][f].at = "claimed"
At(i, e, label)   == Current(i, e) /\ batch[i][e].at = label
Goes(i, e, label) == batch' = [batch EXCEPT ![i][e].at = label]
TakeNext(i, e)    == batch' = [batch EXCEPT ![i][e] = Free]

\* The content service wants HTML; the processor passes on nothing else.
Refused(e) == raw[entry[e].row].kind = "text"

Open(i) == breaker[i] = Trip

DeliveryFails(i, e) ==
  /\ Goes(i, e, "fail")
  /\ tries' = [tries EXCEPT ![e] = @ + 1]
  /\ UNCHANGED <<addressVars, raw, entry, counted, proc, errors>>

\* No request is made without a key, or while the breaker is open.
DeliverContent(i, e) ==
  /\ At(i, e, "claimed") /\ (~HasKey \/ Open(i))
  /\ DeliveryFails(i, e)
  /\ UNCHANGED <<listed, breaker, faults>>

CreateContent(i, e) ==
  /\ At(i, e, "claimed") /\ HasKey /\ ~Open(i) /\ ~Refused(e)
  /\ Goes(i, e, "add")
  /\ UNCHANGED <<addressVars, tableVars, proc, breaker, errors, tries, faults>>

CreateRefused(i, e) ==
  /\ At(i, e, "claimed") /\ HasKey /\ ~Open(i) /\ Refused(e)
  /\ breaker' = [breaker EXCEPT ![i] = @ + 1]
  /\ DeliveryFails(i, e)
  /\ UNCHANGED <<listed, faults>>

\* Either request fails, or takes effect and its answer is lost.
RequestFails(i, e) ==
  /\ Fault
  /\ \/ At(i, e, "claimed") /\ HasKey /\ ~Open(i) /\ UNCHANGED listed
     \/ At(i, e, "add") /\ listed' \in {listed, listed \cup {entry[e].row}}
  /\ breaker' = [breaker EXCEPT ![i] = @ + 1]
  /\ DeliveryFails(i, e)

\* Altered: what the add request answers is not looked at.
AddUnchecked(i, e) ==
  /\ At(i, e, "add")
  /\ \/ listed' = listed \cup {entry[e].row} /\ UNCHANGED faults
     \/ Fault /\ UNCHANGED listed
  /\ breaker' = [breaker EXCEPT ![i] = 0]
  /\ Goes(i, e, "mark")
  /\ UNCHANGED <<addressVars, raw, entry, counted, proc, errors, tries>>

AddContentToUsers(i, e) ==
  /\ At(i, e, "add")
  /\ listed' = listed \cup {entry[e].row}
  /\ breaker' = [breaker EXCEPT ![i] = 0]
  /\ Goes(i, e, "mark")
  /\ UNCHANGED <<addressVars, raw, entry, counted, proc, errors, tries, faults>>

UpdateDeliveryStatus(i, e) ==
  /\ At(i, e, "mark")
  /\ entry' = [entry EXCEPT ![e].status = "delivered"]
  /\ TakeNext(i, e)
  /\ UNCHANGED <<addressVars, raw, counted, listed, proc, breaker, errors, tries, faults>>

UpdateRetryInfo(i, e) ==
  /\ At(i, e, "fail")
  /\ entry' = [entry EXCEPT ![e] =
                 WithFailure([@ EXCEPT !.due = FALSE], batch[i][e].retries + 1, MaxRetries)]
  /\ TakeNext(i, e)
  /\ UNCHANGED <<addressVars, raw, counted, listed, proc, breaker, errors, tries, faults>>

\* A panic, or the last update of the entry fails.
AbandonEntry(i, e) ==
  /\ Current(i, e) /\ Fault
  /\ TakeNext(i, e)
  /\ UNCHANGED <<addressVars, tableVars, proc, breaker, errors, tries>>

\* The breaker lets one request through; another failure opens it again.
HalfOpen(i) ==
  /\ Open(i)
  /\ breaker' = [breaker EXCEPT ![i] = Trip - 1]
  /\ UNCHANGED <<addressVars, tableVars, proc, batch, errors, tries, faults>>

\* next_retry_at comes.
Backoff(e) ==
  /\ Owed(e) /\ ~entry[e].due
  /\ entry' = [entry EXCEPT ![e].due = TRUE]
  /\ UNCHANGED <<addressVars, raw, counted, listed, workVars, errors, tries, faults>>

-----------------------------------------------------------------------------
(* Leases, processes and retention.                                        *)

\* Ten minutes pass; it is a fault if somebody is still at work.  A lease says
\* nothing of a row in any other status.
EmailLeaseEnds(r) ==
  /\ raw[r].status = "processing" /\ raw[r].leased
  /\ raw' = [raw EXCEPT ![r].leased = FALSE]
  /\ IF InHand(r) THEN Fault ELSE UNCHANGED faults
  /\ UNCHANGED <<addressVars, entry, counted, listed, workVars, errors, tries>>

EntryLeaseEnds(e) ==
  /\ entry[e].status = "sending" /\ entry[e].leased
  /\ entry' = [entry EXCEPT ![e].leased = FALSE]
  /\ IF Sent(e) THEN Fault ELSE UNCHANGED faults
  /\ UNCHANGED <<addressVars, raw, counted, listed, workVars, errors, tries>>

\* The process ends and starts anew.
Restart(i) ==
  /\ Claims(i) # {} \/ Batch(i) # {}
  /\ proc' = [proc EXCEPT ![i] = [r \in Rows |-> Free]]
  /\ batch' = [batch EXCEPT ![i] = [e \in Entries |-> Free]]
  /\ breaker' = [breaker EXCEPT ![i] = 0]
  /\ UNCHANGED <<addressVars, counted, listed, errors, tries>>

Crash(i) == Fault /\ Restart(i) /\ UNCHANGED <<raw, entry>>

\* Work not begun is released, but perhaps for the next in line; the rest
\* fails unrecorded, for its context is cancelled.
ReleaseClaim(claims, table) ==
  LET waiting == {x \in DOMAIN claims : claims[x].at = "claimed"} IN
  {[x \in DOMAIN table |-> IF x \in S THEN [table[x] EXCEPT !.leased = FALSE] ELSE table[x]] :
      S \in {waiting} \cup {waiting \ {next} : next \in waiting}}

Stop(i) ==
  /\ Fault /\ Restart(i)
  /\ raw' \in ReleaseClaim(proc[i], raw)
  /\ entry' \in ReleaseClaim(batch[i], entry)

Deleted(row) == [row EXCEPT !.status = "deleted", !.leased = FALSE]

\* Seven days on nobody works on the email; an entry still owed goes with it,
\* which takes an outage as long.
DeleteProcessed(r) ==
  LET its == {e \in Entries : Live(entry[e]) /\ entry[e].row = r} IN
  /\ Live(raw[r]) /\ raw[r].status = "completed"
  /\ ~InHand(r) /\ \A e \in its : ~Sent(e)
  /\ raw' = [raw EXCEPT ![r] = Deleted(@)]
  /\ entry' = [e \in Entries |-> IF e \in its THEN Deleted(entry[e]) ELSE entry[e]]
  /\ IF \E e \in its : Owed(e) THEN Fault ELSE UNCHANGED faults
  /\ UNCHANGED <<addressVars, counted, listed, workVars, errors, tries>>

DeleteDelivered(e) ==
  /\ Live(entry[e]) /\ entry[e].status = "delivered" /\ ~Sent(e)
  /\ entry' = [entry EXCEPT ![e] = Deleted(@)]
  /\ UNCHANGED <<addressVars, raw, counted, listed, workVars, errors, tries, faults>>

-----------------------------------------------------------------------------
Init ==
  /\ address = [u \in Users |-> None] /\ told = [u \in Users |-> {}]
  /\ asks = [s \in Asks |-> Free]
  /\ raw = [r \in Rows |-> Unissued] /\ entry = [e \in Entries |-> Unissued]
  /\ counted = [r \in Rows |-> 0] /\ errors = counted /\ listed = {}
  /\ proc = [i \in Instances |-> [r \in Rows |-> Free]]
  /\ batch = [i \in Instances |-> [e \in Entries |-> Free]]
  /\ breaker = [i \in Instances |-> 0]
  /\ tries = [e \in Entries |-> 0] /\ faults = 0

Address == \E s \in Asks : (\E u \in Users : GetOrCreate(s, u)) \/ \E l \in LocalParts : Draw(s, l)

Process(i, r) == UpsertOnReceipt(i, r) \/ CreateEntry(i, r) \/ Complete(i, r) \/ UpdateError(i, r)

Deliver(i, e) ==
  \/ DeliverContent(i, e) \/ CreateContent(i, e) \/ CreateRefused(i, e)
  \/ AddContentToUsers(i, e) \/ UpdateDeliveryStatus(i, e) \/ UpdateRetryInfo(i, e)

\* The two workers of an instance.
ProcessBatch(i) == GetPendingEmails(i) \/ \E r \in Rows : Process(i, r)
DeliverBatch(i) == GetPendingEntries(i) \/ \E e \in Entries : Deliver(i, e)

Next ==
  \/ Address
  \/ \E u \in Users, kind \in Kinds : IngestEmail(u, kind)
  \/ \E i \in Instances :
       \/ ProcessBatch(i) \/ DeliverBatch(i) \/ HalfOpen(i) \/ Crash(i) \/ Stop(i)
       \/ \E r \in Rows : Fails(i, r) \/ Abandon(i, r)
       \/ \E e \in Entries : RequestFails(i, e) \/ AbandonEntry(i, e)
  \/ \E r \in Rows : EmailLeaseEnds(r) \/ DeleteProcessed(r)
  \/ \E e \in Entries : Backoff(e) \/ EntryLeaseEnds(e) \/ DeleteDelivered(e)

\* What happens unless everything stops: both workers tick and go on, and time
\* passes.
Progress ==
  \/ \E i \in Instances : ProcessBatch(i) \/ DeliverBatch(i)
  \/ \E r \in Rows : ~InHand(r) /\ EmailLeaseEnds(r)
  \/ \E e \in Entries : Backoff(e) \/ (~Sent(e) /\ EntryLeaseEnds(e))

Spec == Init /\ [][Next]_vars /\ WF_vars(Progress)
-----------------------------------------------------------------------------
(* Properties.                                                             *)

Asking == [at : {"draw"}, user : Users, left : 1..MaxDraws]
Email  == [status : {"pending", "processing", "completed", "failed", "deleted"}, user : Users,
           kind : Kinds, leased : BOOLEAN, retries : 0..MaxAttempts]
Entry  == [status : {"pending", "sending", "delivered", "failed", "deleted"}, row : Rows,
           leased : BOOLEAN, retries : 0..MaxRetries, due : BOOLEAN]
Claim  == [at : {"claimed", "create", "complete", "error"}, retries : 0..MaxAttempts - 1]
Hold   == [at : {"claimed", "add", "mark", "fail"}, retries : 0..MaxRetries - 1]

AddressTypes ==
  /\ address \in [Users -> LocalParts \cup {None}]
  /\ asks \in [Asks -> Asking \cup {Free}]
  /\ told \in [Users -> SUBSET LocalParts]

ProcessorTypes ==
  /\ raw \in [Rows -> Email \cup {Unissued}]
  /\ proc \in [Instances -> [Rows -> Claim \cup {Free}]]
  /\ counted \in [Rows -> Nat] /\ errors \in [Rows -> Nat]

OutboxTypes ==
  /\ entry \in [Entries -> Entry \cup {Unissued}]
  /\ batch \in [Instances -> [Entries -> Hold \cup {Free}]]
  /\ breaker \in [Instances -> 0..Trip]
  /\ tries \in [Entries -> Nat] /\ listed \subseteq Rows

\* Every row and every piece of work has its shape.
TypeOK == AddressTypes /\ ProcessorTypes /\ OutboxTypes /\ faults \in 0..MaxFaults

\* The address a user was ever given stays theirs, and is nobody else's,
\* however many requests for one ran at once.  (The run has one user, whose
\* requests race; that two users never share is AddressesAreKept.)
AddressIsKept ==
  \A u \in Users :
    /\ told[u] \subseteq {address[u]}
    /\ \A v \in Users \ {u} : address[u] # None => address[u] # address[v]

EntriesOf(r) == {e \in Entries : Issued(entry[e]) /\ entry[e].row = r}

\* An email is counted for its sender, and gets a row of the outbox, once:
\* again only after a fault, with two instances as with one.
RepeatsCostFaults ==
  \A r \in Rows : counted[r] <= 1 + faults /\ Cardinality(EntriesOf(r)) <= 1 + faults

\* No email is reported completed without a row of the outbox, which sees to
\* its delivery.
CompletedHasEntry ==
  \A r \in Rows : Live(raw[r]) /\ raw[r].status = "completed" => EntriesOf(r) # {}

\* What is reported delivered is in its user's list.
DeliveredIsListed ==
  \A e \in Entries : Live(entry[e]) /\ entry[e].status = "delivered" => entry[e].row \in listed

\* What the statuses of the two tables say of an email is true of it.
ReportsAreTrue == TypeOK /\ CompletedHasEntry /\ DeliveredIsListed

\* An email or an entry is given up only after its full number of failures,
\* also when two instances write back counts they read before.
GivenUpAfterFailures ==
  /\ \A r \in Rows : raw[r].status = "failed" => errors[r] >= MaxAttempts
  /\ \A e \in Entries : entry[e].status = "failed" => tries[e] >= MaxRetries

\* Every email ends as completed or failed, and every entry delivered, failed
\* or removed, through crashes and updates that failed.
Unsettled ==
  \/ \E r \in Rows : raw[r].status \in {"pending", "processing"}
  \/ \E e \in Entries : Owed(e)

EverythingSettles == Unsettled ~> ~Unsettled

\* "one failing entry never blocks the rest of a batch": while nothing goes
\* wrong, an email the content service would take is not given up.
GoodMailIsNotGivenUp ==
  faults = 0 => \A e \in Entries : entry[e].status = "failed" => Refused(e)
=============================================================================
