----------------------------- MODULE MCConfigStore -----------------------------
(***************************************************************************)
(* Instances of ConfigStore.  Two tables, of each a section is selected;   *)
(* one that uses two groups instead of one may be created.  A group is     *)
(* bound to the subscription, another holds a node of its own, and a third *)
(* may be created.  fed1 and fed2 are ids for the nodes of the             *)
(* subscription before and after an update.  The id of what was removed    *)
(* may be given to the next that is created.                               *)
(***************************************************************************)
EXTENDS ConfigStore

CONSTANTS config, routing, base, small, large, proxy, media, g1, g2, g3,
          provider, own1, own2, fed1, fed2, link1, link2, random, fixed

MCRow    == {base, small, large}
MCKindOf == [r \in MCRow |-> IF r = base THEN config ELSE routing]
MCName   == {proxy, media}
MCUses   == [r \in MCRow |-> CASE r = base  -> {}
                               [] r = small -> {proxy}
                               [] r = large -> {proxy, media}]
MCOwner  == [n \in Node |-> IF n \in {fed1, fed2} THEN provider ELSE None]

MCFirstGroup ==
    [g \in {g1, g2, g3} |->
        CASE g = g1 -> [name |-> proxy, policy |-> random, nodes |-> {},
                        binds |-> [s \in {provider} |-> "whole"], version |-> 0]
          [] g = g2 -> [name |-> media, policy |-> random, nodes |-> {own1},
                        binds |-> [s \in {provider} |-> "unbound"], version |-> 0]
          [] OTHER  -> Gone]

MCFirstLink ==
    [n \in Node |->
        CASE n = own1 -> link1 [] n = fed1 -> link2 [] OTHER -> Gone]

=============================================================================
