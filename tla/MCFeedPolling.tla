--------------------------- MODULE MCFeedPolling ---------------------------
(* Values for model checking FeedPolling. *)
EXTENDS FeedPolling

CONSTANTS f1, p1, p2

OneFeed  == {f1}
OnePoll  == {p1}
TwoPolls == {p1, p2}

=============================================================================
