------------------------------ MODULE NodeNames ------------------------------
(***************************************************************************)
(* The names under which config.Run hands nodes to dae.  The nodes of the  *)
(* groups are gathered, one is kept of those with the same link            *)
(* (deduplicateNodes), each of these gets a name (uniquefyNodesName), and  *)
(* the groups and the node section of the configuration are written with   *)
(* these names.  dae, external, takes what stands before the colon of a    *)
(* line of the node section for the name, and gives a group the nodes      *)
(* whose names its filter lists.                                           *)
(*                                                                         *)
(* A name is the sequence of its parts between dots, so that "1.a" may be  *)
(* node "a" of subscription 1 as well as a node of that name.  Numbers are *)
(* parts like any other.                                                   *)
(***************************************************************************)
EXTENDS Naturals, Sequences

CONSTANTS
    Node,       \* ids of the nodes of the groups
    Group,      \* the groups the routing refers to
    Text,       \* what names are made of besides numbers
    Normal,     \* normNodeName: what each of them becomes
    Row,        \* the rows of the nodes: name, link, subscription or None
    Member,     \* the nodes each of the groups may have
    Tag,        \* tags
    None

Name == Seq(Text \cup Nat)

(* Parts without `:` and `'`. *)
Clean == {p \in Text : Normal[p] = p} \cup Nat

ASSUME TextAssumption ==
    /\ Normal \in [Text -> Text]
    /\ \A p \in Text : Normal[Normal[p]] = Normal[p]

ASSUME RowAssumption ==
    \A row \in Row : \A n \in Node :
        /\ row[n].name \in Name
        /\ row[n].sub \in Nat \cup {None}

ASSUME MemberAssumption == Member \subseteq [Group -> SUBSET Node]

(* ValidateTag. *)
ASSUME TagAssumption == None \notin Tag /\ \A t \in Tag : t \in Seq(Clean)

ASSUME NoneAssumption == None \notin Node /\ None \notin Name

VARIABLES
    row,        \* the rows of the nodes
    member,     \* the nodes of each group: its own and its subscriptions'
    tag,        \* the tag column of each node, or None
    pc,         \* how far the run has come
    kept,       \* the nodes that deduplicateNodes returns
    groups,     \* the groups of each of them
    todo,       \* those uniquefyNodesName has not come to
    cur, wanted, j, \* its loop for one node
    nameToNodes, \* the node of each name it has given
    uniqueName, \* the name of each node, None for the empty one
    config      \* what the configuration says: filters and node section

rows  == <<row, member, tag>>
local == <<kept, groups, todo, cur, wanted, j, nameToNodes, uniqueName>>
vars  == <<rows, pc, local, config>>

Nothing == [x \in {} |-> None]

(* The operators commented as a slip stand for a plausible mistake in the   *)
(* definition that follows them; no behaviour of the system uses them.      *)

-----------------------------------------------------------------------------
(* The pure parts. *)

(* Slip: names are used as they are. *)
AsItIs(name) == name

normNodeName(name) == [i \in DOMAIN name |-> IF name[i] \in Text THEN Normal[name[i]] ELSE name[i]]

BaseName(n) ==
    IF row[n].sub = None THEN normNodeName(row[n].name)
    ELSE <<row[n].sub>> \o normNodeName(row[n].name)

Gathered == UNION {member[g] : g \in Group}

SameLink(n) == {m \in Gathered : row[m].link = row[n].link}

(* One node of each link; the order of the rows and that of a Go map leave *)
(* open which, and in which order they are named.                          *)
OnePerLink(S) ==
    /\ S \subseteq Gathered
    /\ \A n \in Gathered : \E m \in S : SameLink(m) = SameLink(n)
    /\ \A n, m \in S : SameLink(n) = SameLink(m) => n = m

(* Slip: the groups of a node that is dropped are not taken over. *)
OwnGroups(n) == {g \in Group : n \in member[g]}

MergedGroups(n) == {g \in Group : member[g] \cap SameLink(n) # {}}

-----------------------------------------------------------------------------
TypeOK ==
    /\ row \in Row /\ member \in Member
    /\ tag \in [Node -> Tag \cup {None}]
    /\ pc \in {"idle", "naming", "trying", "named", "built"}
    /\ kept \subseteq Node /\ todo \subseteq kept
    /\ groups \in [kept -> SUBSET Group]
    /\ cur \in kept \cup {None}
    /\ wanted \in Name /\ j \in Nat
    /\ DOMAIN nameToNodes \subseteq Name
    /\ \A x \in DOMAIN nameToNodes : nameToNodes[x] \in kept \ (todo \cup {cur})
    /\ uniqueName \in [kept -> Name \cup {None}]

Init ==
    /\ row \in Row
    /\ member \in Member
    /\ tag = [n \in Node |-> None]
    /\ pc = "idle"
    /\ kept = {} /\ groups = Nothing /\ todo = {}
    /\ cur = None /\ wanted = <<>> /\ j = 0
    /\ nameToNodes = Nothing /\ uniqueName = Nothing
    /\ config = None

(* node.Tag, and the tags of imported nodes; the column is unique. *)
TagNode(n, t) ==
    /\ pc = "idle"
    /\ \A m \in Node : tag[m] # t
    /\ tag' = [tag EXCEPT ![n] = t]
    /\ UNCHANGED <<row, member, pc, local, config>>

Gather ==
    /\ pc = "idle"
    /\ pc' = "naming"
    /\ kept' \in {S \in SUBSET Node : OnePerLink(S)}
    /\ groups' = [n \in kept' |-> MergedGroups(n)]
    /\ todo' = kept'
    /\ uniqueName' = [n \in kept' |-> None]
    /\ UNCHANGED <<rows, cur, wanted, j, nameToNodes, config>>

-----------------------------------------------------------------------------
(* uniquefyNodesName. *)

Given(x, n) == [y \in DOMAIN nameToNodes \cup {x} |-> IF y = x THEN n ELSE nameToNodes[y]]

(* Slip: the node is not done with. *)
TakeTagOnly(n) ==
    /\ pc = "naming"
    /\ n \in todo /\ tag[n] # None
    /\ nameToNodes' = Given(tag[n], n)
    /\ UNCHANGED <<rows, pc, kept, groups, todo, cur, wanted, j, uniqueName, config>>

TakeTag(n) ==
    /\ pc = "naming"
    /\ n \in todo /\ tag[n] # None
    /\ nameToNodes' = Given(tag[n], n)
    /\ todo' = todo \ {n}
    /\ UNCHANGED <<rows, pc, kept, groups, cur, wanted, j, uniqueName, config>>

(* Slip: the nodes are not sorted. *)
InAnyOrder == TRUE

TaggedFirst == \A m \in todo : tag[m] = None

BeginName(n) ==
    /\ pc = "naming"
    /\ n \in todo /\ tag[n] = None
    /\ TaggedFirst
    /\ pc' = "trying"
    /\ cur' = n
    /\ wanted' = BaseName(n)
    /\ j' = 0
    /\ todo' = todo \ {n}
    /\ UNCHANGED <<rows, kept, groups, nameToNodes, uniqueName, config>>

(* Slip: the counter stays. *)
SameNumber == j

NextNumber == j + 1

TryNext ==
    /\ pc = "trying"
    /\ wanted \in DOMAIN nameToNodes
    /\ wanted' = Append(BaseName(cur), j)
    /\ j' = NextNumber
    /\ UNCHANGED <<rows, pc, kept, groups, todo, cur, nameToNodes, uniqueName, config>>

(* Slip: the name is taken without a look at who has it. *)
NameFree == TRUE

Free == wanted \notin DOMAIN nameToNodes

TakeName ==
    /\ pc = "trying"
    /\ Free
    /\ nameToNodes' = Given(wanted, cur)
    /\ pc' = "naming"
    /\ cur' = None
    /\ UNCHANGED <<rows, kept, groups, todo, wanted, j, uniqueName, config>>

(* for name, node := range nameToNodes { node.uniqueName = name } *)
AssignNames ==
    /\ pc = "naming"
    /\ todo = {}
    /\ pc' = "named"
    /\ uniqueName' = [n \in kept |->
          IF \E x \in DOMAIN nameToNodes : nameToNodes[x] = n
          THEN CHOOSE x \in DOMAIN nameToNodes : nameToNodes[x] = n
          ELSE None]
    /\ UNCHANGED <<rows, kept, groups, todo, cur, wanted, j, nameToNodes, config>>

-----------------------------------------------------------------------------
(* A group without a node ends the run with an error. *)
EmptyGroup == \E g \in Group : member[g] = {}

FillConfig ==
    /\ pc = "named"
    /\ ~EmptyGroup
    /\ pc' = "built"
    /\ config' =
         [filter |-> [g \in Group |-> {uniqueName[n] : n \in {m \in kept : g \in groups[m]}}],
          nodes  |-> {[name |-> uniqueName[n], link |-> row[n].link] : n \in kept}]
    /\ UNCHANGED <<rows, local>>

RunEnds ==
    /\ \/ pc = "built"
       \/ pc = "named" /\ EmptyGroup
    /\ pc' = "idle"
    /\ kept' = {} /\ groups' = Nothing /\ todo' = {}
    /\ cur' = None /\ wanted' = <<>> /\ j' = 0
    /\ nameToNodes' = Nothing /\ uniqueName' = Nothing
    /\ config' = None
    /\ UNCHANGED rows

NameStep ==
    \/ \E n \in Node : TakeTag(n) \/ BeginName(n)
    \/ TryNext \/ TakeName \/ AssignNames \/ FillConfig \/ RunEnds

Next == (\E n \in Node, t \in Tag : TagNode(n, t)) \/ Gather \/ NameStep

Spec == Init /\ [][Next]_vars /\ WF_vars(NameStep)

-----------------------------------------------------------------------------
(* Every node that is handed to dae has a name, no two have the same, and  *)
(* one with a tag has its tag, whatever tags, dotted names, subscriptions  *)
(* and normalised characters meet, and in whatever order the nodes come    *)
(* (config/mutation_utils.go:174-210).                                     *)
NamesUnique ==
    pc \in {"named", "built"} =>
        /\ \A n \in kept : uniqueName[n] # None
        /\ \A n, m \in kept : uniqueName[n] = uniqueName[m] => n = m
        /\ \A n \in kept : tag[n] # None => uniqueName[n] = tag[n]

(* dae gives each group exactly the links of its nodes, however nodes of   *)
(* several groups share a link: it splits a line `name:link` at the first  *)
(* colon, and then finds the names the filter of the group lists.          *)
KnownAs(d) == {x \in {d.name} : \A i \in DOMAIN x : x[i] \in Clean}

FiltersExact ==
    pc = "built" =>
        \A g \in Group :
            {d.link : d \in {e \in config.nodes : KnownAs(e) \cap config.filter[g] # {}}}
                = {row[n].link : n \in member[g]}

(* The search for a free name ends for every node, and with it the run.    *)
NamingEnds == pc = "naming" ~> pc = "idle"

=============================================================================
