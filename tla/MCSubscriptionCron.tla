--------------------------- MODULE MCSubscriptionCron ---------------------------
(***************************************************************************)
(* An instance of SubscriptionCron: two goroutines that execute mutations  *)
(* beside main, and two subscriptions, so that UpdateAll and Remove loop.  *)
(***************************************************************************)
EXTENDS SubscriptionCron

CONSTANTS sub1, sub2, worker1, worker2

MCSub    == {sub1, sub2}
MCWorker == {worker1, worker2}

=============================================================================
