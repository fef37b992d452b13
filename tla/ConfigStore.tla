------------------------------ MODULE ConfigStore ------------------------------
(***************************************************************************)
(* What the database says of the running configuration: the selectable     *)
(* sections (configs, dns, routings), the groups with their members, the   *)
(* nodes and subscriptions, the record config.Run leaves in the systems    *)
(* table, and DaeResolver.Modified (graphql/service/general), which        *)
(* compares the two.                                                       *)
(*                                                                         *)
(* Modified does not compare contents but version numbers, and of the      *)
(* groups only the sum of theirs: it is right only if every mutation of    *)
(* what a run reads also raises a version.                                 *)
(*                                                                         *)
(* Each mutation is one transaction, and so one step; HotReload and        *)
(* SubscriptionCron take them apart.                                       *)
(*                                                                         *)
(* The primary keys are plain integers of SQLite, which gives a new row    *)
(* the highest id of its table plus one: the id of a removed row may be    *)
(* given again: here any of them, a node's for one of the same owner.  A   *)
(* join skips the rows that refer to a removed id until it is given again. *)
(***************************************************************************)
EXTENDS Naturals, FiniteSetsExt

CONSTANTS
    Kind,       \* the tables of sections: configs, dns, routings
    Row,        \* ids of sections
    KindOf,     \* the table of each of them
    Name,       \* names of groups
    Uses,       \* the group names each section refers to: NecessaryOutbounds
    Group,      \* ids of groups
    Policy,     \* policies with their parameters
    Fixed,      \* the policy that admits one node
    Sub,        \* ids of subscriptions
    Node,       \* ids of nodes
    Owner,      \* the subscription a node is imported for, or None
    Matching,   \* the nodes whose names the filter of a binding matches
    Link,       \* links of nodes
    FirstRow,   \* the sections in the database at first
    FirstSelected, \* the sections selected at first
    FirstGroup, \* the groups in the database at first
    FirstLink,  \* the nodes in the database at first
    Gone,       \* an id that no row has
    MaxEdit,    \* bound: mutations in a behaviour
    None

Binding == {"unbound", "whole", "filtered"}
GroupRow == [name : Name, policy : Policy, nodes : SUBSET Node,
             binds : [Sub -> Binding], version : Nat]

ASSUME FixedAssumption == Fixed \in Policy
ASSUME BoundAssumption == MaxEdit \in Nat
ASSUME GroupAssumption == IsFiniteSet(Group)
ASSUME NoneAssumption ==
    /\ None \notin Sub
    /\ Gone \notin GroupRow /\ Gone \notin Link /\ Gone \notin Nat

(* One section of a table is selected at most, names of groups are unique,  *)
(* and members exist.                                                      *)
ASSUME FirstAssumption ==
    /\ FirstRow \subseteq Row /\ FirstSelected \subseteq FirstRow
    /\ \A r1, r2 \in FirstSelected : KindOf[r1] = KindOf[r2] => r1 = r2
    /\ FirstGroup \in [Group -> GroupRow \cup {Gone}]
    /\ FirstLink \in [Node -> Link \cup {Gone}]
    /\ \A g \in {h \in Group : FirstGroup[h] # Gone} :
         /\ \A n \in FirstGroup[g].nodes : FirstLink[n] # Gone
         /\ \A h \in Group \ {g} :
              FirstGroup[h] # Gone => FirstGroup[h].name # FirstGroup[g].name

VARIABLES
    version,    \* version column of each section, or Gone
    selected,   \* the sections whose selected column is true
    group,      \* the row, members and bindings of each group, or Gone
    link,       \* the link of each node, or Gone
    subs,       \* the subscriptions that exist
    sys,        \* the row of the systems table
    sysGroups,  \* the groups whose system_id is set: RunningGroups
    ran,        \* history: the contents of the last run
    created,    \* history: the sections created since the last run
    untold,     \* history: a content changed since by one of the exceptions
    edits       \* history: number of mutations

sectionVars == <<version, selected>>
nodeVars    == <<link, subs>>
sysVars     == <<sys, sysGroups, ran, created>>
vars == <<sectionVars, group, nodeVars, sysVars, untold, edits>>

IsGroup(g)   == group[g] # Gone
IsNode(n)    == link[n] # Gone
IsSection(r) == version[r] # Gone

-----------------------------------------------------------------------------
(* What a run reads. *)

(* The nodes of a group: its own and those of its subscriptions that the   *)
(* filter lets through.                                                    *)
Members(g) ==
    {n \in Node :
        /\ IsNode(n)
        /\ \/ n \in group[g].nodes
           \/ /\ Owner[n] \in subs
              /\ \/ group[g].binds[Owner[n]] = "whole"
                 \/ group[g].binds[Owner[n]] = "filtered" /\ n \in Matching}

(* Nodes are told apart by link. *)
Links(g) == {link[n] : n \in Members(g)}

Outbounds  == UNION {Uses[r] : r \in selected}
UsedGroups == {g \in Group : IsGroup(g) /\ group[g].name \in Outbounds}

Contents ==
    [sections |-> [r \in selected |-> version[r]],
     groups   |-> [g \in UsedGroups |->
                     [name |-> group[g].name, policy |-> group[g].policy,
                      links |-> Links(g)]],
     versions |-> [g \in UsedGroups |-> group[g].version]]

Versions == [g \in {h \in Group : IsGroup(h)} |-> group[g].version]

VersionSum(S) == SumFunctionOnSet(Versions, S)

(* Slip: the sum that is saved goes over every group. *)
SumOfAll == VersionSum({g \in Group : IsGroup(g)})

RecordedSum == VersionSum(UsedGroups)

-----------------------------------------------------------------------------
(* Modified: "error" stands for the answer (true, gorm.ErrRecordNotFound), *)
(* which GraphQL delivers as an error without a value.                     *)

Unselected == \E k \in Kind : \A r \in selected : KindOf[r] # k

SectionsDiffer ==
    sys.sections # [r \in selected |-> version[r]]

(* Slip: the ids are not compared. *)
SumDiffers == VersionSum(sysGroups) # sys.sum

GroupsDiffer == VersionSum(sysGroups) # sys.sum \/ sysGroups # sys.ids

Modified ==
    IF ~sys.running THEN "false"
    ELSE IF Unselected THEN "error"
    ELSE IF SectionsDiffer \/ sysGroups = {} \/ GroupsDiffer THEN "true"
    ELSE "false"

-----------------------------------------------------------------------------
TypeOK ==
    /\ version \in [Row -> 0..MaxEdit \cup {Gone}]
    /\ selected \subseteq {r \in Row : IsSection(r)}
    /\ \A r1, r2 \in selected : KindOf[r1] = KindOf[r2] => r1 = r2
    /\ group \in [Group -> GroupRow \cup {Gone}]
    /\ link \in [Node -> Link \cup {Gone}]
    /\ subs \subseteq Sub
    /\ sys \in [running : BOOLEAN,
                sections : UNION {[R -> 0..MaxEdit] : R \in SUBSET Row},
                sum : Nat, ids : SUBSET Group]
    /\ sysGroups \subseteq {g \in Group : IsGroup(g)}
    /\ created \subseteq Row
    /\ untold \in BOOLEAN
    /\ edits \in 0..MaxEdit

(* A database in use, with which nothing has run yet. *)
Init ==
    /\ version = [r \in Row |-> IF r \in FirstRow THEN 0 ELSE Gone]
    /\ selected = FirstSelected
    /\ group = FirstGroup
    /\ link = FirstLink
    /\ subs = Sub
    /\ sys = [running |-> FALSE, sections |-> [r \in {} |-> 0], sum |-> 0, ids |-> {}]
    /\ sysGroups = {}
    /\ ran = None
    /\ created = {}
    /\ untold = FALSE
    /\ edits = 0

(* The operators commented as a slip stand for a plausible mistake in the   *)
(* definition that follows them; no behaviour of the system uses them.      *)

-----------------------------------------------------------------------------
(* config.Run, once dae has loaded the configuration; a run that fails     *)
(* changes nothing here.                                                   *)

CanRun ==
    /\ ~Unselected
    /\ \A nm \in Outbounds : \E g \in UsedGroups : group[g].name = nm
    /\ \A g \in UsedGroups :
         /\ Links(g) # {}
         /\ group[g].policy = Fixed => Cardinality(Links(g)) = 1

Run ==
    /\ CanRun
    /\ sys' = [running  |-> TRUE,
               sections |-> [r \in selected |-> version[r]],
               sum      |-> RecordedSum,
               ids      |-> UsedGroups]
    /\ sysGroups' = UsedGroups
    /\ ran' = Contents
    /\ created' = {}
    /\ untold' = FALSE
    /\ UNCHANGED <<sectionVars, group, nodeVars, edits>>

(* The dry run, or a start that cannot restore: only the flag changes. *)
Stop ==
    /\ sys' = [sys EXCEPT !.running = FALSE]
    /\ UNCHANGED <<sectionVars, group, nodeVars, sysGroups, ran, created, untold, edits>>

-----------------------------------------------------------------------------
(* Mutations.  Bound: MaxEdit of them. *)

Edit == edits < MaxEdit /\ edits' = edits + 1

(* Versions start from 0 again with the id of a section that was removed.  *)
CreateSection(r) ==
    /\ Edit
    /\ ~IsSection(r)
    /\ version' = [version EXCEPT ![r] = 0]
    /\ created' = created \cup {r}
    /\ untold' = (untold \/ r \in DOMAIN sys.sections)
    /\ UNCHANGED <<selected, group, nodeVars, sys, sysGroups, ran>>

UpdateSection(r) ==
    /\ Edit
    /\ IsSection(r)
    /\ version' = [version EXCEPT ![r] = @ + 1]
    /\ UNCHANGED <<selected, group, nodeVars, sysVars, untold>>

(* Slip: the section that was selected stays selected. *)
SelectAnother(r) ==
    /\ Edit
    /\ IsSection(r)
    /\ selected' = selected \cup {r}
    /\ UNCHANGED <<version, group, nodeVars, sysVars, untold>>

SelectSection(r) ==
    /\ Edit
    /\ IsSection(r)
    /\ selected' = {q \in selected : KindOf[q] # KindOf[r]} \cup {r}
    /\ UNCHANGED <<version, group, nodeVars, sysVars, untold>>

RemoveSection(r) ==
    /\ Edit
    /\ IsSection(r)
    /\ version' = [version EXCEPT ![r] = Gone]
    /\ selected' = selected \ {r}
    /\ UNCHANGED <<group, nodeVars, sysVars, untold>>

(* Rename of a section, and Tag of a subscription: they change a column    *)
(* that no run reads.                                                      *)
RenameSection(r) ==
    /\ Edit
    /\ IsSection(r)
    /\ UNCHANGED <<sectionVars, group, nodeVars, sysVars, untold>>

TagSubscription(s) ==
    /\ Edit
    /\ s \in subs
    /\ UNCHANGED <<sectionVars, group, nodeVars, sysVars, untold>>

(* group.autoUpdateVersionById. *)
Raised(row) == [row EXCEPT !.version = @ + 1]

EditGroup(g, row) ==
    /\ Edit
    /\ IsGroup(g)
    /\ group' = [group EXCEPT ![g] = row]
    /\ UNCHANGED <<sectionVars, nodeVars, sysVars>>

CreateGroup(g, nm, p) ==
    /\ Edit
    /\ ~IsGroup(g)
    /\ \A h \in Group : IsGroup(h) => group[h].name # nm
    /\ group' = [group EXCEPT ![g] =
          [name |-> nm, policy |-> p, nodes |-> {}, binds |-> [s \in Sub |-> "unbound"],
           version |-> 0]]
    /\ UNCHANGED <<sectionVars, nodeVars, sysVars, untold>>

(* gorm, external: Statement.Changed is asked after the update, and what   *)
(* it answers then is left open.                                           *)
RenameGroup(g, nm) ==
    /\ IsGroup(g)
    /\ \A h \in Group : IsGroup(h) => group[h].name # nm
    /\ LET row == [group[g] EXCEPT !.name = nm] IN
       \/ EditGroup(g, Raised(row)) /\ UNCHANGED untold
       \/ EditGroup(g, row) /\ untold' = TRUE

RemoveGroup(g) ==
    /\ Edit
    /\ IsGroup(g)
    /\ group' = [group EXCEPT ![g] = Gone]
    /\ sysGroups' = sysGroups \ {g}
    /\ UNCHANGED <<sectionVars, nodeVars, sys, ran, created, untold>>

(* Slip: the policy changes and the version does not. *)
SetPolicyQuietly(g, p) ==
    /\ IsGroup(g)
    /\ EditGroup(g, [group[g] EXCEPT !.policy = p])
    /\ UNCHANGED untold

SetPolicy(g, p) ==
    /\ IsGroup(g)
    /\ EditGroup(g, Raised([group[g] EXCEPT !.policy = p]))
    /\ UNCHANGED untold

GroupAddNodes(g, N) ==
    /\ IsGroup(g)
    /\ \A n \in N : IsNode(n)
    /\ EditGroup(g, Raised([group[g] EXCEPT !.nodes = @ \cup N]))
    /\ UNCHANGED untold

GroupDelNodes(g, N) ==
    /\ IsGroup(g)
    /\ EditGroup(g, Raised([group[g] EXCEPT !.nodes = @ \ N]))
    /\ UNCHANGED untold

(* AddSubscriptions replaces the filter of a binding, DelSubscriptions     *)
(* removes the binding.                                                    *)
GroupBind(g, s, b) ==
    /\ IsGroup(g)
    /\ b # "unbound" => s \in subs
    /\ EditGroup(g, Raised([group[g] EXCEPT !.binds[s] = b]))
    /\ UNCHANGED untold

(* AutoUpdateVersionByIds of package node and of package subscription: the *)
(* groups that ran and hold one of the nodes, or are bound to the          *)
(* subscription.                                                           *)
RaisedFor(rows, G) ==
    [g \in Group |-> IF sys.running /\ g \in sysGroups \cap G THEN Raised(rows[g]) ELSE rows[g]]

Holding(N) == {g \in Group : IsGroup(g) /\ group[g].nodes \cap N # {}}
Bound(s)   == {g \in Group : IsGroup(g) /\ group[g].binds[s] # "unbound"}

(* Slip: an updated subscription raises no version. *)
UpdatedQuietly(s) == group

UpdatedGroups(s) == RaisedFor(group, Bound(s))

(* The removal of a node leaves its rows in group_nodes: the node that gets *)
(* its id is a member of these groups from the start.                      *)
Inherits(N) == \E g \in sysGroups : group[g].nodes \cap N # {}

(* A duplicate is looked for by "subscription_id = ?" with nil, which no    *)
(* row satisfies: NULL is not equal to NULL.                               *)
ImportNode(n, l) ==
    /\ Edit
    /\ Owner[n] = None
    /\ ~IsNode(n)
    /\ link' = [link EXCEPT ![n] = l]
    /\ untold' = (untold \/ Inherits({n}))
    /\ UNCHANGED <<sectionVars, group, subs, sysVars>>

(* node.Update raises no version. *)
UpdateNode(n, l) ==
    /\ Edit
    /\ IsNode(n)
    /\ link' = [link EXCEPT ![n] = l]
    /\ untold' = TRUE
    /\ UNCHANGED <<sectionVars, group, subs, sysVars>>

(* node.Remove does not see the groups that have a node from a             *)
(* subscription.                                                           *)
RemoveNodes(N) ==
    /\ Edit
    /\ N # {} /\ \A n \in N : IsNode(n)
    /\ group' = RaisedFor(group, Holding(N))
    /\ link' = [n \in Node |-> IF n \in N THEN Gone ELSE link[n]]
    /\ untold' = (untold \/ \E g \in sysGroups : (Members(g) \cap N) \ group[g].nodes # {})
    /\ UNCHANGED <<sectionVars, subs, sysVars>>

NodesOf(s) == {n \in Node : IsNode(n) /\ Owner[n] = s}

(* The nodes of s that no group holds by itself are replaced by what was   *)
(* fetched and is not there already; when that is nothing the transaction  *)
(* is rolled back.                                                         *)
UpdateSubscription(s, fetched) ==
    LET kept  == {n \in NodesOf(s) : Holding({n}) # {}}
        fresh == fetched \ {link[n] : n \in kept} IN
    /\ Edit
    /\ s \in subs
    /\ fresh # {}
    /\ \E at \in [fresh -> {n \in Node : Owner[n] = s} \ kept] :
         /\ \A l1, l2 \in fresh : at[l1] = at[l2] => l1 = l2
         /\ link' = [n \in Node |->
              IF \E l \in fresh : at[l] = n THEN CHOOSE l \in fresh : at[l] = n
              ELSE IF n \in NodesOf(s) \ kept THEN Gone
              ELSE link[n]]
         /\ untold' = (untold \/ Inherits({at[l] : l \in fresh}))
    /\ group' = UpdatedGroups(s)
    /\ UNCHANGED <<sectionVars, subs, sysVars>>

UpdateLink(s) ==
    /\ Edit
    /\ s \in subs
    /\ group' = RaisedFor(group, Bound(s))
    /\ UNCHANGED <<sectionVars, nodeVars, sysVars, untold>>

RemoveSubscription(s) ==
    /\ Edit
    /\ s \in subs
    /\ LET raised == RaisedFor(RaisedFor(group, Holding(NodesOf(s))), Bound(s)) IN
       group' = [g \in Group |->
          IF IsGroup(g) THEN [raised[g] EXCEPT !.binds[s] = "unbound"] ELSE raised[g]]
    /\ link' = [n \in Node |-> IF n \in NodesOf(s) THEN Gone ELSE link[n]]
    /\ subs' = subs \ {s}
    /\ UNCHANGED <<sectionVars, sysVars, untold>>

-----------------------------------------------------------------------------
SectionStep ==
    \E r \in Row :
        \/ CreateSection(r) \/ UpdateSection(r) \/ SelectSection(r)
        \/ RenameSection(r) \/ RemoveSection(r)

GroupStep ==
    \E g \in Group :
        \/ RemoveGroup(g)
        \/ \E nm \in Name : RenameGroup(g, nm) \/ \E p \in Policy : CreateGroup(g, nm, p)
        \/ \E p \in Policy : SetPolicy(g, p)
        \/ \E n \in Node : GroupAddNodes(g, {n}) \/ GroupDelNodes(g, {n})
        \/ \E s \in Sub, b \in Binding : GroupBind(g, s, b)

NodeStep ==
    \/ \E n \in Node, l \in Link : ImportNode(n, l) \/ UpdateNode(n, l)
    \/ \E N \in SUBSET Node : RemoveNodes(N)

SubscriptionStep ==
    \E s \in Sub :
        \/ \E fetched \in SUBSET Link : UpdateSubscription(s, fetched)
        \/ UpdateLink(s) \/ TagSubscription(s)
        \/ RemoveSubscription(s)

Next == Run \/ Stop \/ SectionStep \/ GroupStep \/ NodeStep \/ SubscriptionStep

Spec == Init /\ [][Next]_vars

-----------------------------------------------------------------------------
(* When Modified answers false, the contents that run are those a new run  *)
(* would load: the selected sections, the same as ran and unchanged, the   *)
(* groups they use, and the links of their members.  The exceptions: the   *)
(* link of a node was changed, or a node a group has from a subscription   *)
(* was removed, or a section or a member of a group has got the id of a    *)
(* removed one, or gorm told Rename that nothing changed                   *)
(* (general/schema.go:18).                                                 *)
ModifiedSound ==
    (sys.running /\ Modified = "false" /\ ~untold) =>
        /\ ran.sections = Contents.sections /\ selected \cap created = {}
        /\ ran.groups = Contents.groups

(* The sum stands for its terms: as long as Modified answers false, every  *)
(* group that ran has the version it ran with, although versions of one    *)
(* group rise while another is removed, and no term is recorded.           *)
SumTellsAll ==
    (sys.running /\ Modified = "false") =>
        \A g \in DOMAIN ran.versions : IsGroup(g) /\ group[g].version = ran.versions[g]

(* A run that uses a group settles what Modified complained about. *)
RunSettles == [][ran' # ran /\ UsedGroups # {} => Modified' = "false"]_vars

(* general/schema.go:18, "modified indicates whether the running config has *)
(* been modified.": the link of a node that is updated with updateNode, or  *)
(* of a removed one, was part of what runs.                                 *)
NodeChangeTold ==
    [][\A g \in sysGroups, n \in Node :
          /\ sys.running /\ Owner[n] = None /\ n \in Members(g)
          /\ link'[n] # link[n]
          => Modified' # "false"]_vars

=============================================================================
