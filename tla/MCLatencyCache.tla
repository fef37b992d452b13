----------------------------- MODULE MCLatencyCache -----------------------------
(***************************************************************************)
(* Two callers, a node that is there at first and an id that may be given  *)
(* to one, and two links, so that a node can change its link, two nodes    *)
(* can have the same one, and a new node can get the id of one that was    *)
(* removed.                                                                *)
(***************************************************************************)
EXTENDS LatencyCache

CONSTANTS n1, n2, a, b

MCFirstLink == [n \in Node |-> IF n = n1 THEN a ELSE New]

=============================================================================
