--------------------------- MODULE NodeNamesProofs ---------------------------
(***************************************************************************)
(* Proofs about NodeNames, for any nodes, groups, names, tags and          *)
(* normalisation.                                                          *)
(*                                                                         *)
(* The nodes that have a name and the names that were given correspond one *)
(* to one.  A tag is taken without a look at who has it: that this         *)
(* overwrites nothing rests on tags being unique and on the nodes with a   *)
(* tag coming first.                                                       *)
(***************************************************************************)
EXTENDS NodeNames, SequenceTheorems, TLAPS

(* Where each of the locals is in use. *)
PhaseInv ==
    /\ pc = "idle" => kept = {} /\ nameToNodes = Nothing
    /\ pc \in {"idle", "named", "built"} => todo = {}
    /\ pc = "trying" <=> cur # None
    /\ pc = "trying" => cur \notin todo /\ tag[cur] = None /\ TaggedFirst

TagsUnique == \A n, m \in Node : tag[n] = tag[m] /\ tag[n] # None => n = m

(* Who has been named has one name, and its tag if there is one; until the *)
(* last tag is taken there are no other names.                             *)
GivenInv ==
    /\ \A x, y \in DOMAIN nameToNodes : nameToNodes[x] = nameToNodes[y] => x = y
    /\ \A n \in kept \ (todo \cup {cur}) : \E x \in DOMAIN nameToNodes : nameToNodes[x] = n
    /\ \A n \in kept \ (todo \cup {cur}) :
         tag[n] # None => tag[n] \in DOMAIN nameToNodes /\ nameToNodes[tag[n]] = n
    /\ ~TaggedFirst => \A x \in DOMAIN nameToNodes : tag[nameToNodes[x]] = x

AssignedInv ==
    pc \in {"named", "built"} =>
        \A n \in kept : uniqueName[n] \in DOMAIN nameToNodes /\ nameToNodes[uniqueName[n]] = n

(* Nothing in a name ends it early when dae reads it. *)
CleanInv == wanted \in Seq(Clean) /\ DOMAIN nameToNodes \subseteq Seq(Clean)

(* One node of each link is kept, for the groups of all with this link. *)
LinkInv ==
    pc # "idle" => OnePerLink(kept) /\ groups = [n \in kept |-> MergedGroups(n)]

ConfigInv ==
    pc = "built" => config =
        [filter |-> [g \in Group |-> {uniqueName[n] : n \in {m \in kept : g \in groups[m]}}],
         nodes  |-> {[name |-> uniqueName[n], link |-> row[n].link] : n \in kept}]

IInv ==
    /\ TypeOK
    /\ PhaseInv
    /\ TagsUnique
    /\ GivenInv
    /\ AssignedInv
    /\ CleanInv
    /\ LinkInv
    /\ ConfigInv

-----------------------------------------------------------------------------
(* Clean parts make clean names. *)
LEMMA CleanIsName == Seq(Clean) \subseteq Name
<1>1. Clean \subseteq Text \cup Nat
  BY DEF Clean
<1>. QED
  BY <1>1, SeqMonotonic DEF Name

LEMMA NormIsClean ==
    ASSUME NEW name \in Name
    PROVE  normNodeName(name) \in Seq(Clean)
<1>1. Len(name) \in Nat /\ DOMAIN name = 1..Len(name) /\ \A i \in 1..Len(name) : name[i] \in Text \cup Nat
  BY LenProperties DEF Name
<1>2. \A p \in Text : Normal[p] \in Clean
  BY TextAssumption DEF Clean
<1>3. \A i \in 1..Len(name) : (IF name[i] \in Text THEN Normal[name[i]] ELSE name[i]) \in Clean
  BY <1>1, <1>2 DEF Clean
<1>. QED
  BY <1>1, <1>3 DEF normNodeName

LEMMA BaseIsClean ==
    ASSUME TypeOK, NEW n \in Node
    PROVE  BaseName(n) \in Seq(Clean)
<1>1. row[n].name \in Name /\ row[n].sub \in Nat \cup {None}
  BY RowAssumption DEF TypeOK
<1>2. normNodeName(row[n].name) \in Seq(Clean)
  BY <1>1, NormIsClean
<1>3. CASE row[n].sub = None
  BY <1>2, <1>3 DEF BaseName
<1>4. CASE row[n].sub # None
  <2>1. <<row[n].sub>> \in Seq(Clean)
    BY <1>1, <1>4 DEF Clean
  <2>. QED
    BY <1>2, <1>4, <2>1, ConcatProperties DEF BaseName
<1>. QED
  BY <1>3, <1>4

(* A name that is given anew is added to the others. *)
LEMMA GivenIs ==
    ASSUME NEW x, NEW n, nameToNodes' = Given(x, n)
    PROVE  /\ DOMAIN nameToNodes' = DOMAIN nameToNodes \cup {x}
           /\ nameToNodes'[x] = n
           /\ \A y \in DOMAIN nameToNodes : y # x => nameToNodes'[y] = nameToNodes[y]
  BY DEF Given

(* The tag of a node that is still to be named is nobody else's name. *)
LEMMA TagIsFree ==
    ASSUME TypeOK, TagsUnique, GivenInv, NEW n \in todo, tag[n] # None
    PROVE  tag[n] \notin DOMAIN nameToNodes /\ ~TaggedFirst
<1>1. ~TaggedFirst
  BY DEF TaggedFirst
<1>2. \A x \in DOMAIN nameToNodes : nameToNodes[x] \in Node /\ nameToNodes[x] # n
  BY DEF TypeOK
<1>. QED
  BY <1>1, <1>2 DEF GivenInv, TagsUnique, TypeOK

(* Which nodes have the same link does not change while they are named. *)
LEMMA LinkKept ==
    ASSUME LinkInv, pc # "idle", UNCHANGED <<row, member, kept, groups>>
    PROVE  OnePerLink(kept)' /\ groups' = [n \in kept |-> MergedGroups(n)]'
<1>1. Gathered' = Gathered /\ \A n : SameLink(n)' = SameLink(n)
  BY DEF Gathered, SameLink
<1>2. \A n : MergedGroups(n)' = MergedGroups(n)
  BY <1>1 DEF MergedGroups
<1>3. OnePerLink(kept)' <=> OnePerLink(kept)
  BY <1>1 DEF OnePerLink
<1>. QED
  BY <1>2, <1>3 DEF LinkInv

(* The variables keep their types. *)
LEMMA TypeStep ==
    ASSUME IInv, [Next]_vars
    PROVE  TypeOK'
<1>. USE NoneAssumption
     DEF IInv, TypeOK, PhaseInv, rows, local
<1>1. ASSUME NEW n \in Node, NEW t \in Tag, TagNode(n, t)
      PROVE  TypeOK'
  BY <1>1 DEF TagNode
<1>2. CASE Gather
  <2>1. kept' \subseteq Node /\ groups' \in [kept' -> SUBSET Group] /\ uniqueName' \in [kept' -> Name \cup {None}]
    BY <1>2 DEF Gather, MergedGroups
  <2>. QED
    BY <1>2, <2>1 DEF Gather, Nothing
<1>3. ASSUME NEW n \in Node, TakeTag(n)
      PROVE  TypeOK'
  <2>1. tag[n] \in Name /\ n \in kept /\ n \in todo /\ n # cur
    BY <1>3, TagAssumption, CleanIsName DEF TakeTag
  <2>2. /\ DOMAIN nameToNodes' = DOMAIN nameToNodes \cup {tag[n]} /\ nameToNodes'[tag[n]] = n
        /\ \A y \in DOMAIN nameToNodes : y # tag[n] => nameToNodes'[y] = nameToNodes[y]
    BY <1>3, GivenIs DEF TakeTag
  <2>. QED
    BY <1>3, <2>1, <2>2 DEF TakeTag
<1>4. ASSUME NEW n \in Node, BeginName(n)
      PROVE  TypeOK'
  <2>1. wanted' \in Name
    BY <1>4, BaseIsClean, CleanIsName DEF BeginName
  <2>. QED
    BY <1>4, <2>1 DEF BeginName
<1>5. CASE TryNext
  <2>1. BaseName(cur) \in Seq(Clean) /\ j \in Clean
    BY <1>5, BaseIsClean DEF TryNext, Clean
  <2>2. wanted' \in Seq(Clean)
    BY <1>5, <2>1 DEF TryNext
  <2>3. wanted' \in Name
    BY <2>2, CleanIsName
  <2>. QED
    BY <1>5, <2>3 DEF TryNext, NextNumber
<1>6. CASE TakeName
  <2>1. cur \in kept /\ cur \notin todo
    BY <1>6 DEF TakeName
  <2>2. /\ DOMAIN nameToNodes' = DOMAIN nameToNodes \cup {wanted} /\ nameToNodes'[wanted] = cur
        /\ \A y \in DOMAIN nameToNodes : y # wanted => nameToNodes'[y] = nameToNodes[y]
    BY <1>6, GivenIs DEF TakeName
  <2>. QED
    BY <1>6, <2>1, <2>2 DEF TakeName
<1>7. CASE AssignNames
  BY <1>7 DEF AssignNames
<1>8. CASE FillConfig
  BY <1>8 DEF FillConfig
<1>9. CASE RunEnds
  <2>1. wanted' \in Name /\ j' \in Nat
    BY <1>9, EmptySeq DEF RunEnds, Name
  <2>. QED
    BY <1>9, <2>1 DEF RunEnds, Nothing
<1>10. CASE UNCHANGED vars
  BY <1>10 DEF vars
<1>. QED
  BY <1>1, <1>2, <1>3, <1>4, <1>5, <1>6, <1>7, <1>8, <1>9, <1>10
     DEF Next, NameStep

(* The locals are those of a run, and of a node while it is named. *)
LEMMA PhaseStep ==
    ASSUME IInv, [Next]_vars
    PROVE  PhaseInv'
<1>. USE NoneAssumption
     DEF IInv, TypeOK, PhaseInv, rows, local, Nothing, TaggedFirst
<1>1. ASSUME NEW n \in Node, NEW t \in Tag, TagNode(n, t)
      PROVE  PhaseInv'
  BY <1>1 DEF TagNode
<1>2. CASE Gather
  BY <1>2 DEF Gather
<1>3. ASSUME NEW n \in Node, TakeTag(n)
      PROVE  PhaseInv'
  BY <1>3 DEF TakeTag
<1>4. ASSUME NEW n \in Node, BeginName(n)
      PROVE  PhaseInv'
  BY <1>4 DEF BeginName
<1>5. CASE TryNext
  BY <1>5 DEF TryNext
<1>6. CASE TakeName
  BY <1>6 DEF TakeName, Free
<1>7. CASE AssignNames
  BY <1>7 DEF AssignNames
<1>8. CASE FillConfig
  BY <1>8 DEF FillConfig
<1>9. CASE RunEnds
  BY <1>9 DEF RunEnds
<1>10. CASE UNCHANGED vars
  BY <1>10 DEF vars
<1>. QED
  BY <1>1, <1>2, <1>3, <1>4, <1>5, <1>6, <1>7, <1>8, <1>9, <1>10
     DEF Next, NameStep

(* No two nodes have the same tag. *)
LEMMA TagStep ==
    ASSUME IInv, [Next]_vars
    PROVE  TagsUnique'
<1>. USE NoneAssumption
     DEF IInv, TypeOK, PhaseInv, rows, local, TagsUnique
<1>1. ASSUME NEW n \in Node, NEW t \in Tag, TagNode(n, t)
      PROVE  TagsUnique'
  BY <1>1 DEF TagNode
<1>2. CASE Gather
  BY <1>2 DEF Gather
<1>3. ASSUME NEW n \in Node, TakeTag(n)
      PROVE  TagsUnique'
  BY <1>3 DEF TakeTag
<1>4. ASSUME NEW n \in Node, BeginName(n)
      PROVE  TagsUnique'
  BY <1>4 DEF BeginName
<1>5. CASE TryNext
  BY <1>5 DEF TryNext
<1>6. CASE TakeName
  BY <1>6 DEF TakeName, Free
<1>7. CASE AssignNames
  BY <1>7 DEF AssignNames
<1>8. CASE FillConfig
  BY <1>8 DEF FillConfig
<1>9. CASE RunEnds
  BY <1>9 DEF RunEnds
<1>10. CASE UNCHANGED vars
  BY <1>10 DEF vars
<1>. QED
  BY <1>1, <1>2, <1>3, <1>4, <1>5, <1>6, <1>7, <1>8, <1>9, <1>10
     DEF Next, NameStep

(* Names and named nodes correspond one to one. *)
LEMMA GivenStep ==
    ASSUME IInv, [Next]_vars
    PROVE  GivenInv'
<1>. USE NoneAssumption
     DEF IInv, TypeOK, PhaseInv, rows, local, GivenInv, TaggedFirst
<1>1. ASSUME NEW n \in Node, NEW t \in Tag, TagNode(n, t)
      PROVE  GivenInv'
  BY <1>1 DEF TagNode
<1>2. CASE Gather
  BY <1>2 DEF Gather
<1>3. ASSUME NEW n \in Node, TakeTag(n)
      PROVE  GivenInv'
  <2>1. /\ n \in todo /\ n \in kept /\ n # cur /\ cur = None /\ tag[n] # None
        /\ todo' = todo \ {n} /\ UNCHANGED <<tag, kept, cur>>
    BY <1>3 DEF TakeTag
  <2>2. /\ DOMAIN nameToNodes' = DOMAIN nameToNodes \cup {tag[n]} /\ nameToNodes'[tag[n]] = n
        /\ \A y \in DOMAIN nameToNodes : y # tag[n] => nameToNodes'[y] = nameToNodes[y]
    BY <1>3, GivenIs DEF TakeTag
  <2>3. tag[n] \notin DOMAIN nameToNodes /\ ~TaggedFirst
    BY <2>1, TagIsFree
  <2>4. \A x \in DOMAIN nameToNodes : nameToNodes[x] # n
    BY <2>1
  <2>. QED
    BY <2>1, <2>2, <2>3, <2>4
<1>4. ASSUME NEW n \in Node, BeginName(n)
      PROVE  GivenInv'
  BY <1>4 DEF BeginName
<1>5. CASE TryNext
  BY <1>5 DEF TryNext
<1>6. CASE TakeName
  <2>1. /\ cur \in kept /\ cur \notin todo /\ tag[cur] = None /\ TaggedFirst
        /\ cur' = None /\ UNCHANGED <<tag, todo, kept>> /\ wanted \notin DOMAIN nameToNodes
    BY <1>6 DEF TakeName, Free
  <2>2. /\ DOMAIN nameToNodes' = DOMAIN nameToNodes \cup {wanted} /\ nameToNodes'[wanted] = cur
        /\ \A y \in DOMAIN nameToNodes : y # wanted => nameToNodes'[y] = nameToNodes[y]
    BY <1>6, GivenIs DEF TakeName
  <2>. QED
    BY <2>1, <2>2
<1>7. CASE AssignNames
  BY <1>7 DEF AssignNames
<1>8. CASE FillConfig
  BY <1>8 DEF FillConfig
<1>9. CASE RunEnds
  BY <1>9 DEF RunEnds, Nothing
<1>10. CASE UNCHANGED vars
  BY <1>10 DEF vars
<1>. QED
  BY <1>1, <1>2, <1>3, <1>4, <1>5, <1>6, <1>7, <1>8, <1>9, <1>10
     DEF Next, NameStep

(* Each node is told its name. *)
LEMMA AssignedStep ==
    ASSUME IInv, [Next]_vars
    PROVE  AssignedInv'
<1>. USE NoneAssumption
     DEF IInv, TypeOK, PhaseInv, rows, local, AssignedInv, GivenInv
<1>1. ASSUME NEW n \in Node, NEW t \in Tag, TagNode(n, t)
      PROVE  AssignedInv'
  BY <1>1 DEF TagNode
<1>2. CASE Gather
  BY <1>2 DEF Gather
<1>3. ASSUME NEW n \in Node, TakeTag(n)
      PROVE  AssignedInv'
  BY <1>3 DEF TakeTag
<1>4. ASSUME NEW n \in Node, BeginName(n)
      PROVE  AssignedInv'
  BY <1>4 DEF BeginName
<1>5. CASE TryNext
  BY <1>5 DEF TryNext
<1>6. CASE TakeName
  BY <1>6 DEF TakeName, Free
<1>7. CASE AssignNames
  BY <1>7 DEF AssignNames
<1>8. CASE FillConfig
  BY <1>8 DEF FillConfig
<1>9. CASE RunEnds
  BY <1>9 DEF RunEnds
<1>10. CASE UNCHANGED vars
  BY <1>10 DEF vars
<1>. QED
  BY <1>1, <1>2, <1>3, <1>4, <1>5, <1>6, <1>7, <1>8, <1>9, <1>10
     DEF Next, NameStep

(* Names stay clean. *)
LEMMA CleanStep ==
    ASSUME IInv, [Next]_vars
    PROVE  CleanInv'
<1>. USE NoneAssumption
     DEF IInv, TypeOK, PhaseInv, rows, local, CleanInv
<1>1. ASSUME NEW n \in Node, NEW t \in Tag, TagNode(n, t)
      PROVE  CleanInv'
  BY <1>1 DEF TagNode
<1>2. CASE Gather
  BY <1>2 DEF Gather
<1>3. ASSUME NEW n \in Node, TakeTag(n)
      PROVE  CleanInv'
  <2>1. tag[n] \in Seq(Clean)
    BY <1>3, TagAssumption DEF TakeTag
  <2>2. DOMAIN nameToNodes' = DOMAIN nameToNodes \cup {tag[n]} /\ wanted' = wanted
    BY <1>3, GivenIs DEF TakeTag
  <2>. QED
    BY <2>1, <2>2
<1>4. ASSUME NEW n \in Node, BeginName(n)
      PROVE  CleanInv'
  BY <1>4, BaseIsClean DEF BeginName
<1>5. CASE TryNext
  <2>1. BaseName(cur) \in Seq(Clean) /\ j \in Clean
    BY <1>5, BaseIsClean DEF TryNext, Clean
  <2>. QED
    BY <1>5, <2>1 DEF TryNext
<1>6. CASE TakeName
  <2>1. DOMAIN nameToNodes' = DOMAIN nameToNodes \cup {wanted} /\ wanted' = wanted
    BY <1>6, GivenIs DEF TakeName
  <2>. QED
    BY <2>1
<1>7. CASE AssignNames
  BY <1>7 DEF AssignNames
<1>8. CASE FillConfig
  BY <1>8 DEF FillConfig
<1>9. CASE RunEnds
  BY <1>9, EmptySeq DEF RunEnds, Nothing
<1>10. CASE UNCHANGED vars
  BY <1>10 DEF vars
<1>. QED
  BY <1>1, <1>2, <1>3, <1>4, <1>5, <1>6, <1>7, <1>8, <1>9, <1>10
     DEF Next, NameStep

(* The nodes that were kept stand for all with their links. *)
LEMMA LinkStep ==
    ASSUME IInv, [Next]_vars
    PROVE  LinkInv'
<1>. USE NoneAssumption
     DEF IInv, TypeOK, PhaseInv, rows, local, LinkInv
<1>1. ASSUME NEW n \in Node, NEW t \in Tag, TagNode(n, t)
      PROVE  LinkInv'
  BY <1>1 DEF TagNode
<1>2. CASE Gather
  <2>1. UNCHANGED <<row, member>> /\ OnePerLink(kept') /\ groups' = [n \in kept' |-> MergedGroups(n)]
    BY <1>2 DEF Gather
  <2>2. Gathered' = Gathered /\ \A n : SameLink(n)' = SameLink(n)
    BY <2>1 DEF Gathered, SameLink
  <2>3. \A n : MergedGroups(n)' = MergedGroups(n)
    BY <2>1, <2>2 DEF MergedGroups
  <2>4. OnePerLink(kept)'
    BY <2>1, <2>2 DEF OnePerLink
  <2>. QED
    BY <2>1, <2>3, <2>4
<1>3. ASSUME NEW n \in Node, TakeTag(n)
      PROVE  LinkInv'
  BY <1>3, LinkKept DEF TakeTag
<1>4. ASSUME NEW n \in Node, BeginName(n)
      PROVE  LinkInv'
  BY <1>4, LinkKept DEF BeginName
<1>5. CASE TryNext
  BY <1>5, LinkKept DEF TryNext
<1>6. CASE TakeName
  BY <1>6, LinkKept DEF TakeName
<1>7. CASE AssignNames
  BY <1>7, LinkKept DEF AssignNames
<1>8. CASE FillConfig
  BY <1>8, LinkKept DEF FillConfig
<1>9. CASE RunEnds
  BY <1>9 DEF RunEnds
<1>10. CASE UNCHANGED vars
  BY <1>10, LinkKept DEF vars
<1>. QED
  BY <1>1, <1>2, <1>3, <1>4, <1>5, <1>6, <1>7, <1>8, <1>9, <1>10
     DEF Next, NameStep

(* The configuration is written with these names. *)
LEMMA ConfigStep ==
    ASSUME IInv, [Next]_vars
    PROVE  ConfigInv'
<1>. USE NoneAssumption
     DEF IInv, TypeOK, PhaseInv, rows, local, ConfigInv
<1>1. ASSUME NEW n \in Node, NEW t \in Tag, TagNode(n, t)
      PROVE  ConfigInv'
  BY <1>1 DEF TagNode
<1>2. CASE Gather
  BY <1>2 DEF Gather
<1>3. ASSUME NEW n \in Node, TakeTag(n)
      PROVE  ConfigInv'
  BY <1>3 DEF TakeTag
<1>4. ASSUME NEW n \in Node, BeginName(n)
      PROVE  ConfigInv'
  BY <1>4 DEF BeginName
<1>5. CASE TryNext
  BY <1>5 DEF TryNext
<1>6. CASE TakeName
  BY <1>6 DEF TakeName, Free
<1>7. CASE AssignNames
  BY <1>7 DEF AssignNames
<1>8. CASE FillConfig
  BY <1>8 DEF FillConfig
<1>9. CASE RunEnds
  BY <1>9 DEF RunEnds
<1>10. CASE UNCHANGED vars
  BY <1>10 DEF vars
<1>. QED
  BY <1>1, <1>2, <1>3, <1>4, <1>5, <1>6, <1>7, <1>8, <1>9, <1>10
     DEF Next, NameStep

-----------------------------------------------------------------------------
LEMMA InitIInv == Init => IInv
<1>. SUFFICES ASSUME Init PROVE IInv
  OBVIOUS
<1>. USE NoneAssumption DEF Init, Nothing
<1>1. TypeOK
  BY EmptySeq DEF TypeOK, Name
<1>2. PhaseInv /\ TagsUnique /\ GivenInv /\ AssignedInv
  BY DEF PhaseInv, TagsUnique, GivenInv, AssignedInv, TaggedFirst
<1>3. CleanInv /\ LinkInv /\ ConfigInv
  BY EmptySeq DEF CleanInv, LinkInv, ConfigInv
<1>. QED
  BY <1>1, <1>2, <1>3 DEF IInv

(* Every step of naming, and tagging between two runs, keeps the invariant. *)
THEOREM Invariance == Spec => []IInv
<1>1. IInv /\ [Next]_vars => IInv'
  BY TypeStep, PhaseStep, TagStep, GivenStep, AssignedStep, CleanStep, LinkStep, ConfigStep DEF IInv
<1>. QED
  BY InitIInv, <1>1, PTL DEF Spec

(* The variables keep their types. *)
THEOREM TypeCorrect == Spec => []TypeOK
<1>1. IInv => TypeOK
  BY DEF IInv
<1>. QED
  BY Invariance, <1>1, PTL

LEMMA AssignedOnce ==
    ASSUME IInv
    PROVE  NamesUnique
<1>. SUFFICES ASSUME pc \in {"named", "built"} PROVE NamesUnique
  BY DEF NamesUnique
<1>1. \A n \in kept : uniqueName[n] \in DOMAIN nameToNodes /\ nameToNodes[uniqueName[n]] = n
  BY DEF IInv, AssignedInv
<1>2. None \notin DOMAIN nameToNodes
  BY NoneAssumption DEF IInv, TypeOK
<1>3. \A n \in kept : tag[n] # None => tag[n] \in DOMAIN nameToNodes /\ nameToNodes[tag[n]] = n
  BY NoneAssumption DEF IInv, TypeOK, PhaseInv, GivenInv
<1>4. \A x, y \in DOMAIN nameToNodes : nameToNodes[x] = nameToNodes[y] => x = y
  BY DEF IInv, GivenInv
<1>. QED
  BY <1>1, <1>2, <1>3, <1>4 DEF NamesUnique

(* dae reads a clean name as it was written. *)
LEMMA CleanIsKnown ==
    ASSUME NEW x \in Seq(Clean), NEW link
    PROVE  KnownAs([name |-> x, link |-> link]) = {x}
<1>1. \A i \in DOMAIN x : x[i] \in Clean
  BY LenProperties
<1>. QED
  BY <1>1 DEF KnownAs

LEMMA FiltersMeetTheirNodes ==
    ASSUME IInv
    PROVE  FiltersExact
<1>. SUFFICES ASSUME pc = "built", NEW g \in Group
              PROVE  {d.link : d \in {e \in config.nodes : KnownAs(e) \cap config.filter[g] # {}}}
                        = {row[n].link : n \in member[g]}
  BY DEF FiltersExact
<1>. DEFINE Line(n)  == [name |-> uniqueName[n], link |-> row[n].link]
            For      == {n \in kept : g \in groups[n]}
<1>1. config.nodes = {Line(n) : n \in kept} /\ config.filter[g] = {uniqueName[n] : n \in For}
  BY DEF IInv, ConfigInv
<1>2. \A n \in kept : KnownAs(Line(n)) = {uniqueName[n]}
  BY CleanIsKnown DEF IInv, AssignedInv, CleanInv
<1>3. \A n, m \in kept : uniqueName[n] = uniqueName[m] => n = m
  BY AssignedOnce DEF NamesUnique
<1>4. \A n \in kept : KnownAs(Line(n)) \cap config.filter[g] # {} <=> n \in For
  BY <1>1, <1>2, <1>3
<1>5. OnePerLink(kept) /\ groups = [n \in kept |-> MergedGroups(n)]
  BY DEF IInv, LinkInv
<1>6. {row[n].link : n \in For} = {row[n].link : n \in member[g]}
  <2>1. ASSUME NEW n \in For
        PROVE  \E m \in member[g] : row[m].link = row[n].link
    BY <1>5 DEF MergedGroups, SameLink
  <2>2. ASSUME NEW m \in member[g]
        PROVE  \E n \in For : row[n].link = row[m].link
    <3>1. m \in Gathered /\ m \in SameLink(m)
      BY DEF Gathered, SameLink
    <3>2. PICK n \in kept : SameLink(n) = SameLink(m)
      BY <1>5, <3>1 DEF OnePerLink
    <3>3. row[m].link = row[n].link
      BY <3>1, <3>2 DEF SameLink
    <3>4. g \in groups[n]
      BY <1>5, <3>1, <3>2 DEF MergedGroups
    <3>. QED
      BY <3>2, <3>3, <3>4
  <2>. QED
    BY <2>1, <2>2
<1>7. {d.link : d \in {e \in config.nodes : KnownAs(e) \cap config.filter[g] # {}}}
        = {row[n].link : n \in For}
  <2>1. \A n : Line(n).link = row[n].link
    OBVIOUS
  <2>. HIDE DEF Line
  <2>. QED
    BY <1>1, <1>4, <2>1
<1>. QED
  BY <1>6, <1>7

(* The nodes that are handed to dae have a name each, no two the same, and *)
(* those with a tag their tag, in whatever order they are named.            *)
THEOREM NamesAreUnique == Spec => []NamesUnique
<1>. QED
  BY Invariance, AssignedOnce, PTL

(* dae gives each group the links of its nodes, and no others. *)
THEOREM GroupsKeepTheirLinks == Spec => []FiltersExact
<1>. QED
  BY Invariance, FiltersMeetTheirNodes, PTL

================================================================================
