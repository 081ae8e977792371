-------------------------- MODULE MCSubscriptions --------------------------
(***************************************************************************)
(* One user, two feeds and a limit of one, two requests at a time.         *)
(***************************************************************************)
EXTENDS Subscriptions, TLC

CONSTANTS f1, f2, r1, r2

MCFeeds  == {f1, f2}
MCSlots  == {r1, r2}

\* Feeds and requests are told apart by nothing but what happens to them.
Symmetry == Permutations(MCFeeds) \cup Permutations(MCSlots)
=============================================================================
