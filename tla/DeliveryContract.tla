-------------------------- MODULE DeliveryContract --------------------------
(***************************************************************************)
(* What the content outbox owes whoever inserts an entry, without rows'    *)
(* leases, pollers, workers or processes.                                  *)
(***************************************************************************)
EXTENDS Naturals

CONSTANTS Entries, Users, Recipients, MaxRetries

VARIABLES
  state,     \* "none", "owed", "done", "abandoned" or "forgotten"
  attempts,  \* failed attempts that were counted
  given      \* users who got the entry's article

cvars == <<state, attempts, given>>

Init ==
  /\ state    = [e \in Entries |-> "none"]
  /\ attempts = [e \in Entries |-> 0]
  /\ given    = [e \in Entries |-> {}]

Accept(e) ==
  /\ state[e] = "none"
  /\ state' = [state EXCEPT ![e] = "owed"]
  /\ UNCHANGED <<attempts, given>>

\* Also for an entry whose feed item was deleted during the attempt.
Give(e) ==
  /\ state[e] \in {"owed", "forgotten"}
  /\ given' = [given EXCEPT ![e] = Recipients[e]]
  /\ UNCHANGED <<state, attempts>>

Complete(e) ==
  /\ state[e] = "owed" /\ given[e] = Recipients[e]
  /\ state' = [state EXCEPT ![e] = "done"]
  /\ UNCHANGED <<attempts, given>>

FailAttempt(e) ==
  /\ state[e] = "owed" /\ attempts[e] < MaxRetries
  /\ attempts' = [attempts EXCEPT ![e] = @ + 1]
  /\ state' = [state EXCEPT ![e] =
                 IF attempts'[e] = MaxRetries THEN "abandoned" ELSE "owed"]
  /\ UNCHANGED given

Forget(e) ==
  /\ state[e] \notin {"none", "forgotten"}
  /\ state' = [state EXCEPT ![e] = "forgotten"]
  /\ UNCHANGED <<attempts, given>>

Next == \E e \in Entries : \/ Accept(e) \/ Give(e) \/ Complete(e)
                           \/ FailAttempt(e) \/ Forget(e)

Spec == Init /\ [][Next]_cvars

=============================================================================
