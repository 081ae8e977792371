---------------------------- MODULE MCFeedItems ----------------------------
(* Values for model checking FeedItems. *)
EXTENDS FeedItems, TLC

CONSTANTS i1, i2, u1

TwoItems == {i1, i2}
OneItem  == {i1}

\* Nobody subscribed before i2 came out.
EligibleOfTwo == i1 :> {u1} @@ i2 :> {}
EligibleOfOne == i1 :> {u1}

=============================================================================
