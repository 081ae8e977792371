------------------------------ MODULE MCOutbox ------------------------------
(* Values for model checking Outbox. *)
EXTENDS Outbox, TLC

CONSTANTS e1, e2, w1, w2, u1, u2

TwoEntries == {e1, e2}
OneEntry   == {e1}
TwoUsers   == {u1, u2}

\* e1 goes to both users, e2 to one.
RecipientsOfTwo == e1 :> {u1, u2} @@ e2 :> {u1}
RecipientsOfOne == e1 :> {u1, u2}

=============================================================================
