----------------------------- MODULE MCTransport -----------------------------
(* The session and the live feed of a tab share no state, and are checked   *)
(* side by side: each moves while the other is as it was at first.          *)
EXTENDS ApiSession, LiveFeed

CONSTANTS e1, e2

MCCategory == [e \in {e1, e2} |-> "order"]

MCInit == Init /\ FeedInit

MCNext ==
    \/ FeedInit /\ Next /\ UNCHANGED feedVars
    \/ Init /\ FeedNext /\ UNCHANGED vars

MCSpec == MCInit /\ [][MCNext]_<<vars, feedVars>> /\ FeedFairness

=============================================================================
