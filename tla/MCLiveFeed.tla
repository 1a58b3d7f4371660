---------------------------- MODULE MCLiveFeed ----------------------------
(* Instances of LiveFeed for TLC.                                          *)
EXTENDS LiveFeed

MCModes == {"store", "seed"}

\* The second snapshot has no rows, the third is of the same time.
MCTimes == <<1, 2, 2>>
MCEmpty == {2}

MCTroubles == [store |-> 3, seed |-> 1]

=============================================================================
