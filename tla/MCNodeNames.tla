----------------------------- MODULE MCNodeNames -----------------------------
(* Three nodes in two groups; names that meet by dots, by normalisation and *)
(* by the id of a subscription.                                             *)
EXTENDS NodeNames, TLC

CONSTANTS a, quoted, group1, group2, link1, link2, link3

MCNode  == 1..3
MCGroup == {group1, group2}
MCText  == {a, quoted}

(* "quoted" becomes what "a" is. *)
MCNormal == [p \in MCText |-> a]

Names == {<<a>>, <<quoted>>, <<a, 0>>, <<1, a>>}
Links == {<<link1, link2, link3>>, <<link1, link1, link2>>, <<link1, link2, link2>>}
Subs  == {<<None, None, None>>, <<1, 1, None>>, <<1, None, 2>>}

MCRow ==
    {[n \in MCNode |-> [name |-> names[n], link |-> links[n], sub |-> subs[n]]] :
        names \in [MCNode -> Names], links \in Links, subs \in Subs}

MCMember ==
    {(group1 :> {1, 2}) @@ (group2 :> {2, 3}), (group1 :> {1, 2}) @@ (group2 :> {})}

MCTag == {<<a>>, <<1, a>>}
=============================================================================
