----------------------------- MODULE MCNodePages -----------------------------
(* Two collections; a page of one node, of two, or of all. *)
EXTENDS NodePages

CONSTANTS manual, subscribed

MCCollection == {manual, subscribed}
MCFirst      == {1, 2, NoLimit}
=============================================================================
