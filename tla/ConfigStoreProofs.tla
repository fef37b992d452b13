-------------------------- MODULE ConfigStoreProofs --------------------------
(***************************************************************************)
(* Proofs about ConfigStore, for any tables, sections, groups, nodes and   *)
(* subscriptions and any number of mutations.                              *)
(*                                                                         *)
(* The versions of groups only rise, so the sum of those that ran is what  *)
(* it was only if each of them is; and what a run reads of a group changes *)
(* only together with its version, exceptions aside.                       *)
(***************************************************************************)
EXTENDS ConfigStore, FiniteSetTheorems, WellFoundedInduction, TLAPS

-----------------------------------------------------------------------------
(* Sums over finite sets. *)

Pick(S) == CHOOSE x \in S : TRUE
Rest(S) == S \ {Pick(S)}
Sums(v, S, F) ==
    F = [s \in SUBSET S |-> IF s = {} THEN 0 ELSE v[Pick(s)] + F[Rest(s)]]

LEMMA SmallestSet ==
    ASSUME NEW U, IsFiniteSet(U), NEW T, T \subseteq SUBSET U, T # {}
    PROVE  \E B \in T : \A C \in T : C \subseteq B => C = B
<1>1. IsWellFoundedOn(StrictSubsetOrdering(U), SUBSET U)
  BY FS_StrictSubsetOrderingWellFounded, FS_FiniteSubsetsOfFinite
<1>2. PICK B \in T : \A C \in T : <<C, B>> \notin StrictSubsetOrdering(U)
  BY <1>1, WFMin
<1>. QED
  BY <1>2 DEF StrictSubsetOrdering

LEMMA PickIn ==
    ASSUME NEW S, S # {}
    PROVE  /\ Pick(S) \in S
           /\ Rest(S) \subseteq S /\ Rest(S) # S
           /\ S = Rest(S) \cup {Pick(S)}
<1>1. Pick(S) \in S
  BY DEF Pick
<1>. QED
  BY <1>1 DEF Rest

LEMMA SumsUnique ==
    ASSUME NEW v, NEW S, IsFiniteSet(S), NEW R, NEW F, NEW G,
           Sums(v, S, F), Sums(v, R, G),
           NEW s, s \subseteq S, s \subseteq R
    PROVE  F[s] = G[s]
<1>. DEFINE T == {t \in SUBSET S : t \subseteq R /\ F[t] # G[t]}
<1>1. SUFFICES ASSUME T # {} PROVE FALSE
  OBVIOUS
<1>2. PICK B \in T : \A C \in T : C \subseteq B => C = B
  <2>1. T \subseteq SUBSET S
    OBVIOUS
  <2>. HIDE DEF T
  <2>. QED
    BY <1>1, <2>1, SmallestSet
<1>3. /\ F[B] = IF B = {} THEN 0 ELSE v[Pick(B)] + F[Rest(B)]
      /\ G[B] = IF B = {} THEN 0 ELSE v[Pick(B)] + G[Rest(B)]
  <2>1. B \in SUBSET S /\ B \in SUBSET R
    OBVIOUS
  <2>. QED
    BY <2>1 DEF Sums
<1>4. CASE B = {}
  BY <1>3, <1>4
<1>5. CASE B # {}
  <2>1. F[Rest(B)] = G[Rest(B)]
    BY <1>2, <1>5, PickIn
  <2>. QED
    BY <1>3, <1>5, <2>1
<1>. QED
  BY <1>4, <1>5

LEMMA SumsExist ==
    ASSUME NEW v, NEW S, IsFiniteSet(S)
    PROVE  \E F : Sums(v, S, F)
<1>. DEFINE T == {t \in SUBSET S : ~ \E F : Sums(v, t, F)}
<1>1. SUFFICES ASSUME T # {} PROVE FALSE
  OBVIOUS
<1>2. PICK B \in T : \A C \in T : C \subseteq B => C = B
  <2>1. T \subseteq SUBSET S
    OBVIOUS
  <2>. HIDE DEF T
  <2>. QED
    BY <1>1, <2>1, SmallestSet
<1>. DEFINE W(t) == CHOOSE F : Sums(v, t, F)
            Value(t) == IF t = {} THEN 0 ELSE v[Pick(t)] + W(Rest(t))[Rest(t)]
            F0 == [t \in SUBSET B |-> Value(t)]
<1>3. ASSUME NEW t, t \subseteq B, t # B
      PROVE  Sums(v, t, W(t))
  <2>1. \E F : Sums(v, t, F)
    BY <1>2, <1>3
  <2>. QED
    BY <2>1
<1>4. ASSUME NEW t, t \subseteq B, t # B
      PROVE  W(t)[t] = Value(t)
  <2>1. W(t)[t] = IF t = {} THEN 0 ELSE v[Pick(t)] + W(t)[Rest(t)]
    <3>. HIDE DEF W
    <3>. QED
      BY <1>3, <1>4 DEF Sums
  <2>2. ASSUME t # {}
        PROVE  W(t)[Rest(t)] = W(Rest(t))[Rest(t)]
    <3>1. Rest(t) \subseteq t /\ Rest(t) \subseteq B /\ Rest(t) # B
      BY <1>4, <2>2, PickIn
    <3>2. Sums(v, t, W(t)) /\ Sums(v, Rest(t), W(Rest(t)))
      BY <1>3, <1>4, <3>1
    <3>3. IsFiniteSet(t)
      BY <1>4, FS_Subset
    <3>. HIDE DEF W
    <3>. QED
      BY <3>1, <3>2, <3>3, SumsUnique
  <2>. HIDE DEF W
  <2>. QED
    BY <2>1, <2>2
<1>5. F0 = [t \in SUBSET B |-> IF t = {} THEN 0 ELSE v[Pick(t)] + F0[Rest(t)]]
  <2>1. ASSUME NEW t \in SUBSET B, t # {}
        PROVE  W(Rest(t))[Rest(t)] = F0[Rest(t)]
    <3>1. Rest(t) \subseteq B /\ Rest(t) # B
      BY <2>1, PickIn
    <3>2. F0[Rest(t)] = Value(Rest(t))
      BY <3>1
    <3>. HIDE DEF F0, W, Value
    <3>. QED
      BY <1>4, <3>1, <3>2
  <2>. HIDE DEF W
  <2>. QED
    BY <2>1
<1>6. Sums(v, B, F0)
  <2>. HIDE DEF F0
  <2>. QED
    BY <1>5 DEF Sums
<1>. QED
  BY <1>2, <1>6

LEMMA TotalByParts ==
    ASSUME NEW v, NEW S, IsFiniteSet(S)
    PROVE  SumFunctionOnSet(v, S) =
             IF S = {} THEN 0 ELSE v[Pick(S)] + SumFunctionOnSet(v, Rest(S))
<1>. DEFINE W(t) == CHOOSE F : Sums(v, t, F)
<1>1. \A t : SumFunctionOnSet(v, t) = W(t)[t]
  BY DEF SumFunctionOnSet, FoldFunctionOnSet, MapThenFoldSet, Sums, Pick, Rest
<1>2. \A t \in SUBSET S : Sums(v, t, W(t))
  <2>1. \A t \in SUBSET S : \E F : Sums(v, t, F)
    BY SumsExist, FS_Subset
  <2>. QED
    BY <2>1
<1>. HIDE DEF W
<1>3. W(S)[S] = IF S = {} THEN 0 ELSE v[Pick(S)] + W(S)[Rest(S)]
  BY <1>2 DEF Sums
<1>4. ASSUME S # {}
      PROVE  W(S)[Rest(S)] = W(Rest(S))[Rest(S)]
  <2>1. Rest(S) \subseteq S
    BY <1>4, PickIn
  <2>. QED
    BY <1>2, <2>1, SumsUnique
<1>. QED
  BY <1>1, <1>3, <1>4

LEMMA TotalIsNat ==
    ASSUME NEW v, NEW S, IsFiniteSet(S), \A g \in S : v[g] \in Nat
    PROVE  SumFunctionOnSet(v, S) \in Nat
<1>. DEFINE T == {t \in SUBSET S : SumFunctionOnSet(v, t) \notin Nat}
<1>1. SUFFICES ASSUME T # {} PROVE FALSE
  OBVIOUS
<1>2. PICK B \in T : \A C \in T : C \subseteq B => C = B
  <2>1. T \subseteq SUBSET S
    OBVIOUS
  <2>. HIDE DEF T
  <2>. QED
    BY <1>1, <2>1, SmallestSet
<1>3. SumFunctionOnSet(v, B) =
        IF B = {} THEN 0 ELSE v[Pick(B)] + SumFunctionOnSet(v, Rest(B))
  BY TotalByParts, FS_Subset
<1>4. CASE B = {}
  BY <1>3, <1>4
<1>5. CASE B # {}
  <2>1. Pick(B) \in B /\ Rest(B) \subseteq B /\ Rest(B) # B
    BY <1>5, PickIn
  <2>2. SumFunctionOnSet(v, Rest(B)) \in Nat
    BY <1>2, <2>1
  <2>. QED
    BY <1>3, <1>5, <2>1, <2>2
<1>. QED
  BY <1>4, <1>5

LEMMA TotalTells ==
    ASSUME NEW v, NEW w, NEW S, IsFiniteSet(S),
           \A g \in S : v[g] \in Nat /\ w[g] \in Nat /\ w[g] <= v[g]
    PROVE  /\ SumFunctionOnSet(w, S) <= SumFunctionOnSet(v, S)
           /\ SumFunctionOnSet(w, S) = SumFunctionOnSet(v, S)
                => \A g \in S : w[g] = v[g]
<1>. DEFINE Holds(t) ==
              /\ SumFunctionOnSet(w, t) <= SumFunctionOnSet(v, t)
              /\ SumFunctionOnSet(w, t) = SumFunctionOnSet(v, t) => \A g \in t : w[g] = v[g]
            T == {t \in SUBSET S : ~ Holds(t)}
<1>1. SUFFICES ASSUME T # {} PROVE FALSE
  <2>. HIDE DEF Holds
  <2>1. T = {} => Holds(S)
    OBVIOUS
  <2>. QED
    BY <2>1 DEF Holds
<1>2. PICK B \in T : \A C \in T : C \subseteq B => C = B
  <2>1. T \subseteq SUBSET S
    OBVIOUS
  <2>. HIDE DEF T
  <2>. QED
    BY <1>1, <2>1, SmallestSet
<1>3. \A u \in {v, w} : SumFunctionOnSet(u, B) =
        IF B = {} THEN 0 ELSE u[Pick(B)] + SumFunctionOnSet(u, Rest(B))
  BY TotalByParts, FS_Subset
<1>4. CASE B = {}
  BY <1>3, <1>4
<1>5. CASE B # {}
  <2>1. Pick(B) \in B /\ Rest(B) \subseteq B /\ Rest(B) # B /\ B = Rest(B) \cup {Pick(B)}
    BY <1>5, PickIn
  <2>2. Holds(Rest(B))
    <3>. HIDE DEF Holds
    <3>. QED
      BY <1>2, <2>1
  <2>3. /\ SumFunctionOnSet(w, Rest(B)) \in Nat
        /\ SumFunctionOnSet(v, Rest(B)) \in Nat
    <3>1. IsFiniteSet(Rest(B))
      BY <2>1, FS_Subset
    <3>. QED
      BY <2>1, <3>1, TotalIsNat
  <2>4. v[Pick(B)] \in Nat /\ w[Pick(B)] \in Nat /\ w[Pick(B)] <= v[Pick(B)]
    BY <2>1
  <2>5. /\ SumFunctionOnSet(w, B) = w[Pick(B)] + SumFunctionOnSet(w, Rest(B))
        /\ SumFunctionOnSet(v, B) = v[Pick(B)] + SumFunctionOnSet(v, Rest(B))
    BY <1>3, <1>5
  <2>6. SumFunctionOnSet(w, B) <= SumFunctionOnSet(v, B)
    BY <2>2, <2>3, <2>4, <2>5
  <2>7. ASSUME SumFunctionOnSet(w, B) = SumFunctionOnSet(v, B)
        PROVE  \A g \in B : w[g] = v[g]
    <3>1. /\ w[Pick(B)] = v[Pick(B)]
          /\ SumFunctionOnSet(w, Rest(B)) = SumFunctionOnSet(v, Rest(B))
      BY <2>2, <2>3, <2>4, <2>5, <2>7
    <3>. QED
      BY <2>1, <2>2, <3>1
  <2>8. Holds(B)
    BY <2>6, <2>7
  <2>. HIDE DEF Holds
  <2>. QED
    BY <2>8
<1>. QED
  BY <1>4, <1>5
-----------------------------------------------------------------------------
(* The inductive invariant. *)

(* A version counts the mutations of its section. *)
CountInv == \A r \in Row : IsSection(r) => version[r] <= edits

(* Names of groups are unique. *)
IndexInv ==
    \A g \in Group : IsGroup(g) =>
        \A h \in Group : IsGroup(h) /\ group[h].name = group[g].name => h = g

(* A section that got the id of one that ran is noted as an exception. *)
CreatedInv == sys.running /\ ~untold => created \cap DOMAIN sys.sections = {}

GroupContents == [name : Name, policy : Policy, links : SUBSET Link]

(* The record is that of what ran, and the groups that ran are those the   *)
(* sections that ran refer to.                                             *)
RunInv ==
    sys.running =>
        /\ ran.sections = sys.sections
        /\ ran.groups \in [sys.ids -> GroupContents]
        /\ ran.versions \in [sys.ids -> Nat]
        /\ sys.sum = SumFunctionOnSet(ran.versions, sys.ids)
        /\ sysGroups \subseteq sys.ids
        /\ {ran.groups[g].name : g \in sys.ids} = UNION {Uses[r] : r \in DOMAIN sys.sections}

(* The versions of the groups that ran have not fallen, and where one is   *)
(* unchanged so is what a run reads of the group.                          *)
RisenInv == sys.running => \A g \in sysGroups : ran.versions[g] <= group[g].version

SameAsRan(g) ==
    ran.groups[g] = [name |-> group[g].name, policy |-> group[g].policy, links |-> Links(g)]

SameInv ==
    sys.running /\ ~untold =>
        \A g \in sysGroups : ran.versions[g] = group[g].version => SameAsRan(g)

IInv ==
    /\ TypeOK
    /\ CountInv
    /\ IndexInv
    /\ RunInv
    /\ RisenInv
    /\ SameInv
    /\ CreatedInv

-----------------------------------------------------------------------------
(* Initially. *)

LEMMA InitEstablishes == Init => IInv
<1>. SUFFICES ASSUME Init
              PROVE  IInv
  OBVIOUS
<1>. USE FirstAssumption, BoundAssumption, NoneAssumption DEF Init
<1>1. TypeOK
  <2>1. version \in [Row -> 0..MaxEdit \cup {Gone}]
    OBVIOUS
  <2>2. selected \subseteq {r \in Row : IsSection(r)}
    BY DEF IsSection
  <2>. DEFINE R0 == UNION {[R -> 0..MaxEdit] : R \in SUBSET Row}
  <2>3. sys \in [running : BOOLEAN, sections : R0, sum : Nat, ids : SUBSET Group]
    <3>1. [r \in {} |-> 0] \in [{} -> 0..MaxEdit]
      OBVIOUS
    <3>2. [r \in {} |-> 0] \in R0
      BY <3>1, BoundAssumption
    <3>. HIDE FirstAssumption, NoneAssumption DEF R0
    <3>. QED
      BY <3>2
  <2>4. \A r1, r2 \in selected : KindOf[r1] = KindOf[r2] => r1 = r2
    OBVIOUS
  <2>5. group \in [Group -> GroupRow \cup {Gone}]
    OBVIOUS
  <2>6. link \in [Node -> Link \cup {Gone}]
    OBVIOUS
  <2>7. subs \subseteq Sub /\ sysGroups \subseteq {g \in Group : IsGroup(g)}
    OBVIOUS
  <2>8. untold \in BOOLEAN /\ created \subseteq Row
    OBVIOUS
  <2>9. edits \in 0..MaxEdit
    OBVIOUS
  <2>. HIDE DEF Init
  <2>. QED
    BY <2>1, <2>2, <2>3, <2>4, <2>5, <2>6, <2>7, <2>8, <2>9 DEF TypeOK
<1>2. CountInv
  BY DEF CountInv, IsSection
<1>3. IndexInv
  BY DEF IndexInv, IsGroup
<1>4. RunInv /\ RisenInv /\ SameInv /\ CreatedInv
  BY DEF RunInv, RisenInv, SameInv, CreatedInv
<1>. QED
  BY <1>1, <1>2, <1>3, <1>4 DEF IInv

-----------------------------------------------------------------------------
(* A run. *)

LEMMA LinksOfGroup ==
    ASSUME TypeOK, NEW g \in Group, IsGroup(g)
    PROVE  Links(g) \subseteq Link /\ group[g] \in GroupRow
  BY DEF TypeOK, Links, Members, IsNode, IsGroup

LEMMA RecordedIsRan ==
    ASSUME TypeOK
    PROVE  /\ RecordedSum = SumFunctionOnSet(Contents.versions, UsedGroups)
           /\ RecordedSum \in Nat
<1>. DEFINE w == Contents.versions
<1>1. IsFiniteSet(UsedGroups)
  BY GroupAssumption, FS_Subset DEF UsedGroups
<1>2. \A g \in UsedGroups : Versions[g] \in Nat /\ w[g] = Versions[g]
  BY LinksOfGroup DEF Versions, UsedGroups, Contents, GroupRow
<1>. HIDE DEF w
<1>3. SumFunctionOnSet(w, UsedGroups) \in Nat /\ SumFunctionOnSet(Versions, UsedGroups) \in Nat
  BY <1>1, <1>2, TotalIsNat
<1>4. SumFunctionOnSet(w, UsedGroups) <= SumFunctionOnSet(Versions, UsedGroups)
  BY <1>1, <1>2, TotalTells
<1>5. SumFunctionOnSet(Versions, UsedGroups) <= SumFunctionOnSet(w, UsedGroups)
  BY <1>1, <1>2, TotalTells
<1>. QED
  BY <1>3, <1>4, <1>5 DEF RecordedSum, VersionSum, w

LEMMA RunKeeps == ASSUME IInv, Run PROVE IInv'
<1>. USE DEF Run, sectionVars, nodeVars, IInv
<1>1. TypeOK'
  <2>1. [r \in selected |-> version[r]] \in [selected -> 0..MaxEdit]
    BY DEF TypeOK, IsSection
  <2>2. selected \in SUBSET Row
    BY DEF TypeOK
  <2>3. [r \in selected |-> version[r]] \in UNION {[R -> 0..MaxEdit] : R \in SUBSET Row}
    BY <2>1, <2>2
  <2>4. UsedGroups \subseteq {g \in Group : IsGroup(g)}
    BY DEF UsedGroups
  <2>5. sys' \in [running : BOOLEAN,
                  sections : UNION {[R -> 0..MaxEdit] : R \in SUBSET Row},
                  sum : Nat, ids : SUBSET Group]
    BY <2>3, <2>4, RecordedIsRan
  <2>. QED
    BY <2>4, <2>5 DEF TypeOK, IsSection, IsGroup
<1>2. CountInv' /\ IndexInv'
  BY DEF CountInv, IndexInv, IsSection, IsGroup
<1>3. RunInv'
  <2>1. ran'.sections = sys'.sections /\ sysGroups' \subseteq sys'.ids
    BY DEF Contents
  <2>2. ran'.groups \in [sys'.ids -> GroupContents]
    BY LinksOfGroup DEF Contents, GroupContents, UsedGroups, GroupRow
  <2>3. ran'.versions \in [sys'.ids -> Nat]
    BY LinksOfGroup DEF Contents, UsedGroups, GroupRow
  <2>4. sys'.sum = SumFunctionOnSet(ran'.versions, sys'.ids)
    BY RecordedIsRan
  <2>5. \A g \in UsedGroups : ran'.groups[g].name = group[g].name
    BY DEF Contents
  <2>6. {ran'.groups[g].name : g \in sys'.ids} = Outbounds
    BY <2>5 DEF CanRun, UsedGroups
  <2>7. UNION {Uses[r] : r \in DOMAIN sys'.sections} = Outbounds
    BY DEF Outbounds
  <2>. QED
    BY <2>1, <2>2, <2>3, <2>4, <2>6, <2>7 DEF RunInv
<1>4. RisenInv'
  BY LinksOfGroup DEF RisenInv, Contents, UsedGroups, GroupRow
<1>5. SameInv' /\ CreatedInv'
  BY DEF SameInv, CreatedInv, SameAsRan, Contents, Links, Members, IsNode
<1>. QED
  BY <1>1, <1>2, <1>3, <1>4, <1>5

LEMMA StopKeeps == ASSUME IInv, Stop PROVE IInv'
<1>. USE DEF Stop, sectionVars, nodeVars, IInv
<1>1. TypeOK'
  BY DEF TypeOK, IsSection, IsGroup
<1>2. sys'.running = FALSE
  BY DEF TypeOK
<1>. QED
  BY <1>1, <1>2 DEF CountInv, IndexInv, RunInv, RisenInv, SameInv, CreatedInv, IsSection, IsGroup

-----------------------------------------------------------------------------
(* Mutations leave the record alone.  It stays right if the groups that    *)
(* ran do not fall back to an earlier version, and one with the version it *)
(* had is as it was, unless an exception is noted.                         *)

AsItWas(g) ==
    /\ group'[g].name = group[g].name /\ group'[g].policy = group[g].policy
    /\ Links(g)' = Links(g)

KeepsRecord ==
    /\ UNCHANGED <<sys, ran, created>>
    /\ sysGroups' \subseteq sysGroups
    /\ untold => untold'
    /\ \A g \in sysGroups' :
         /\ group[g].version <= group'[g].version
         /\ sys.running /\ ~untold' /\ group'[g].version = group[g].version => AsItWas(g)

LEMMA VersionsAreNat ==
    ASSUME TypeOK, RunInv, sys.running, NEW g \in sysGroups
    PROVE  group[g].version \in Nat /\ ran.versions[g] \in Nat /\ g \in Group
<1>1. g \in Group /\ group[g] \in GroupRow
  BY LinksOfGroup DEF TypeOK
<1>2. g \in sys.ids /\ ran.versions \in [sys.ids -> Nat]
  BY DEF RunInv
<1>. QED
  BY <1>1, <1>2 DEF GroupRow

LEMMA RecordKept ==
    ASSUME TypeOK, RunInv, RisenInv, SameInv, CreatedInv, KeepsRecord, TypeOK'
    PROVE  RunInv' /\ RisenInv' /\ SameInv' /\ CreatedInv'
<1>. USE DEF KeepsRecord
<1>1. RunInv'
  BY DEF RunInv
<1>2. ASSUME sys'.running, NEW g \in sysGroups'
      PROVE  /\ ran'.versions[g] <= group'[g].version
             /\ ran'.versions[g] = group'[g].version => group'[g].version = group[g].version
             /\ ran'.versions[g] = group'[g].version => ran.versions[g] = group[g].version
  <2>1. sys.running /\ g \in sysGroups
    BY <1>2
  <2>2. group[g].version \in Nat /\ ran.versions[g] \in Nat
    BY <2>1, VersionsAreNat
  <2>3. group'[g] \in GroupRow
    BY <1>2 DEF TypeOK, IsGroup
  <2>4. group'[g].version \in Nat
    BY <2>3 DEF GroupRow
  <2>5. ran.versions[g] <= group[g].version
    BY <2>1 DEF RisenInv
  <2>. QED
    BY <1>2, <2>2, <2>4, <2>5
<1>3. RisenInv'
  BY <1>2 DEF RisenInv
<1>4. SameInv'
  <2>. SUFFICES ASSUME sys'.running, ~untold', NEW g \in sysGroups',
                       ran'.versions[g] = group'[g].version
                PROVE  SameAsRan(g)'
    BY DEF SameInv
  <2>1. ran.versions[g] = group[g].version /\ group'[g].version = group[g].version
    BY <1>2
  <2>2. SameAsRan(g)
    BY <2>1 DEF SameInv
  <2>3. AsItWas(g)
    BY <2>1
  <2>. QED
    BY <2>2, <2>3 DEF SameAsRan, AsItWas
<1>5. CreatedInv'
  BY DEF CreatedInv
<1>. QED
  BY <1>1, <1>3, <1>4, <1>5

(* Of the sections a run depends on Modified knows by itself. *)
LEMMA SectionsKeep ==
    ASSUME TypeOK, IndexInv, RunInv, RisenInv, SameInv,
           UNCHANGED <<group, nodeVars, sys, sysGroups, ran>>, untold => untold'
    PROVE  IndexInv' /\ RunInv' /\ RisenInv' /\ SameInv'
<1>. USE DEF nodeVars
<1>1. IndexInv'
  BY DEF IndexInv, IsGroup
<1>2. RunInv'
  BY DEF RunInv
<1>3. RisenInv'
  BY DEF RisenInv
<1>4. SameInv'
  <2>1. \A g : SameAsRan(g)' <=> SameAsRan(g)
    BY DEF SameAsRan, Links, Members, IsNode
  <2>. QED
    BY <2>1 DEF SameInv
<1>. QED
  BY <1>1, <1>2, <1>3, <1>4

LEMMA SectionTypes ==
    ASSUME TypeOK, CountInv, Edit, UNCHANGED <<group, nodeVars, sys, sysGroups>>,
           created' \subseteq Row, untold' \in BOOLEAN,
           version' \in [Row -> Nat \cup {Gone}],
           \A r \in Row : version'[r] \in Nat => version'[r] <= edits',
           selected' \subseteq {r \in Row : version'[r] # Gone},
           \A r1, r2 \in selected' : KindOf[r1] = KindOf[r2] => r1 = r2
    PROVE  TypeOK' /\ CountInv'
<1>. USE BoundAssumption, NoneAssumption DEF nodeVars, Edit
<1>1. edits \in Nat /\ edits' \in Nat /\ edits' <= MaxEdit
  BY DEF TypeOK
<1>2. CountInv'
  BY <1>1 DEF CountInv, IsSection
<1>3. version' \in [Row -> 0..MaxEdit \cup {Gone}]
  BY <1>1
<1>4. edits' \in 0..MaxEdit
  BY <1>1
<1>5. TypeOK'
  BY <1>3, <1>4 DEF TypeOK, IsSection, IsGroup
<1>. QED
  BY <1>2, <1>5

LEMMA SectionStepKeeps == ASSUME IInv, SectionStep PROVE IInv'
<1>. PICK r \in Row : \/ CreateSection(r) \/ UpdateSection(r) \/ SelectSection(r)
                      \/ RenameSection(r) \/ RemoveSection(r)
  BY DEF SectionStep
<1>1. UNCHANGED <<group, nodeVars, sys, sysGroups, ran>> /\ Edit
  BY DEF CreateSection, UpdateSection, SelectSection, RenameSection, RemoveSection, sysVars
<1>2. /\ edits \in Nat /\ edits' = edits + 1
      /\ version \in [Row -> Nat \cup {Gone}]
      /\ selected \subseteq {q \in Row : version[q] # Gone}
      /\ \A q \in Row : version[q] \in Nat => version[q] <= edits
      /\ \A q1, q2 \in selected : KindOf[q1] = KindOf[q2] => q1 = q2
  BY <1>1, BoundAssumption, NoneAssumption DEF IInv, TypeOK, CountInv, IsSection, Edit
<1>3. version' \in [Row -> Nat \cup {Gone}]
  BY <1>2, NoneAssumption DEF CreateSection, UpdateSection, SelectSection,
     RenameSection, RemoveSection, sectionVars, IsSection
<1>4. \A q \in Row : version'[q] \in Nat => version'[q] <= edits'
  BY <1>2, NoneAssumption DEF CreateSection, UpdateSection, SelectSection,
     RenameSection, RemoveSection, sectionVars, IsSection
<1>5. selected' \subseteq {q \in Row : version'[q] # Gone}
  BY <1>2, NoneAssumption DEF CreateSection, UpdateSection, SelectSection,
     RenameSection, RemoveSection, sectionVars, IsSection
<1>6. \A q1, q2 \in selected' : KindOf[q1] = KindOf[q2] => q1 = q2
  BY <1>2 DEF CreateSection, UpdateSection, SelectSection,
     RenameSection, RemoveSection, sectionVars, IsSection
<1>7. \/ UNCHANGED <<created, untold>>
      \/ /\ created' = created \cup {r}
         /\ untold' = (untold \/ r \in DOMAIN sys.sections)
  BY DEF CreateSection, UpdateSection, SelectSection, RenameSection, RemoveSection, sysVars
<1>8. /\ created' \subseteq Row /\ untold' \in BOOLEAN
      /\ untold => untold'
  <2>1. created \subseteq Row /\ untold \in BOOLEAN
    BY DEF IInv, TypeOK
  <2>. QED
    BY <1>7, <2>1
<1>9. CreatedInv'
  BY <1>1, <1>7 DEF IInv, CreatedInv
<1>. QED
  BY <1>1, <1>3, <1>4, <1>5, <1>6, <1>8, <1>9, SectionTypes, SectionsKeep DEF IInv

-----------------------------------------------------------------------------
(* Groups. *)

(* A mutation of one row, which raises its version or notes the exception. *)
LEMMA GroupEdited ==
    ASSUME IInv, NEW g \in Group, IsGroup(g), NEW row \in GroupRow, EditGroup(g, row),
           untold' \in BOOLEAN, untold => untold',
           \/ row.version = group[g].version + 1
           \/ row.version = group[g].version /\ untold',
           \A h \in Group \ {g} : IsGroup(h) => group[h].name # row.name
    PROVE  IInv'
<1>. USE NoneAssumption DEF IInv, EditGroup, Edit, sectionVars, nodeVars, sysVars
<1>1. /\ group'[g] = row /\ \A h \in Group \ {g} : group'[h] = group[h]
      /\ \A h \in Group : IsGroup(h)' <=> IsGroup(h)
  BY DEF TypeOK, IsGroup
<1>2. TypeOK'
  <2>1. group' \in [Group -> GroupRow \cup {Gone}]
    BY DEF TypeOK
  <2>2. sysGroups' \subseteq {h \in Group : IsGroup(h)}'
    BY <1>1 DEF TypeOK
  <2>3. edits' \in 0..MaxEdit
    BY BoundAssumption DEF TypeOK
  <2>4. selected' \subseteq {r \in Row : IsSection(r)}'
    BY DEF TypeOK, IsSection
  <2>. QED
    BY <2>1, <2>2, <2>3, <2>4 DEF TypeOK
<1>3. CountInv'
  BY BoundAssumption DEF CountInv, TypeOK, IsSection
<1>4. IndexInv'
  BY <1>1 DEF IndexInv
<1>5. KeepsRecord
  <2>1. ASSUME NEW h \in sysGroups'
        PROVE  /\ group[h].version <= group'[h].version
               /\ ~untold' /\ group'[h].version = group[h].version => AsItWas(h)
    <3>1. h \in Group /\ group[h].version \in Nat
      BY <2>1, LinksOfGroup DEF TypeOK, GroupRow
    <3>2. CASE h = g
      BY <1>1, <3>1, <3>2
    <3>3. CASE h # g
      BY <1>1, <3>1, <3>3 DEF AsItWas, Links, Members, IsNode
    <3>. QED
      BY <3>2, <3>3
  <2>. QED
    BY <2>1 DEF KeepsRecord
<1>. QED
  BY <1>2, <1>3, <1>4, <1>5, RecordKept

LEMMA CreateGroupKeeps ==
    ASSUME IInv, NEW g \in Group, NEW nm \in Name, NEW p \in Policy, CreateGroup(g, nm, p)
    PROVE  IInv'
<1>. USE NoneAssumption DEF IInv, CreateGroup, Edit, sectionVars, nodeVars, sysVars
<1>. DEFINE row == [name |-> nm, policy |-> p, nodes |-> {},
                    binds |-> [s \in Sub |-> "unbound"], version |-> 0]
<1>1. row \in GroupRow
  BY DEF GroupRow, Binding
<1>2. /\ group'[g] = row /\ \A h \in Group \ {g} : group'[h] = group[h]
      /\ ~IsGroup(g) /\ IsGroup(g)'
      /\ \A h \in Group \ {g} : IsGroup(h)' <=> IsGroup(h)
      /\ g \notin sysGroups
  BY <1>1 DEF TypeOK, IsGroup
<1>. HIDE DEF row
<1>3. TypeOK'
  <2>1. group' \in [Group -> GroupRow \cup {Gone}]
    BY <1>1 DEF TypeOK, row
  <2>2. sysGroups' \subseteq {h \in Group : IsGroup(h)}'
    BY <1>2 DEF TypeOK
  <2>3. edits' \in 0..MaxEdit
    BY BoundAssumption DEF TypeOK
  <2>4. selected' \subseteq {r \in Row : IsSection(r)}'
    BY DEF TypeOK, IsSection
  <2>. QED
    BY <2>1, <2>2, <2>3, <2>4 DEF TypeOK
<1>4. CountInv'
  BY BoundAssumption DEF CountInv, TypeOK, IsSection
<1>5. IndexInv'
  BY <1>2 DEF IndexInv, row
<1>6. KeepsRecord
  <2>1. ASSUME NEW h \in sysGroups'
        PROVE  /\ group[h].version <= group'[h].version
               /\ AsItWas(h)
    <3>1. h \in Group /\ group[h].version \in Nat
      BY <2>1, LinksOfGroup DEF TypeOK, GroupRow
    <3>. QED
      BY <1>2, <2>1, <3>1 DEF AsItWas, Links, Members, IsNode
  <2>. QED
    BY <2>1 DEF KeepsRecord
<1>. QED
  BY <1>3, <1>4, <1>5, <1>6, RecordKept

LEMMA RemoveGroupKeeps == ASSUME IInv, NEW g \in Group, RemoveGroup(g) PROVE IInv'
<1>. USE NoneAssumption DEF IInv, RemoveGroup, Edit, sectionVars, nodeVars, sysVars
<1>1. /\ \A h \in Group \ {g} : group'[h] = group[h]
      /\ ~IsGroup(g)'
      /\ \A h \in Group \ {g} : IsGroup(h)' <=> IsGroup(h)
  BY DEF TypeOK, IsGroup
<1>2. TypeOK'
  <2>1. group' \in [Group -> GroupRow \cup {Gone}]
    BY DEF TypeOK
  <2>2. sysGroups' \subseteq {h \in Group : IsGroup(h)}'
    BY <1>1 DEF TypeOK
  <2>3. edits' \in 0..MaxEdit
    BY BoundAssumption DEF TypeOK
  <2>4. selected' \subseteq {r \in Row : IsSection(r)}'
    BY DEF TypeOK, IsSection
  <2>. QED
    BY <2>1, <2>2, <2>3, <2>4 DEF TypeOK
<1>3. CountInv'
  BY BoundAssumption DEF CountInv, TypeOK, IsSection
<1>4. IndexInv'
  BY <1>1 DEF IndexInv
<1>5. KeepsRecord
  <2>1. ASSUME NEW h \in sysGroups'
        PROVE  /\ group[h].version <= group'[h].version
               /\ AsItWas(h)
    <3>1. h \in Group /\ group[h].version \in Nat
      BY <2>1, LinksOfGroup DEF TypeOK, GroupRow
    <3>. QED
      BY <1>1, <2>1, <3>1 DEF AsItWas, Links, Members, IsNode
  <2>. QED
    BY <2>1 DEF KeepsRecord
<1>. QED
  BY <1>2, <1>3, <1>4, <1>5, RecordKept

LEMMA GroupStepKeeps == ASSUME IInv, GroupStep PROVE IInv'
<1>. PICK g \in Group :
        \/ RemoveGroup(g)
        \/ \E nm \in Name : RenameGroup(g, nm) \/ \E p \in Policy : CreateGroup(g, nm, p)
        \/ \E p \in Policy : SetPolicy(g, p)
        \/ \E n \in Node : GroupAddNodes(g, {n}) \/ GroupDelNodes(g, {n})
        \/ \E s \in Sub, b \in Binding : GroupBind(g, s, b)
  BY DEF GroupStep
<1>1. CASE RemoveGroup(g)
  BY <1>1, RemoveGroupKeeps
<1>2. ASSUME NEW nm \in Name, NEW p \in Policy, CreateGroup(g, nm, p)
      PROVE  IInv'
  BY <1>2, CreateGroupKeeps
<1>3. ASSUME IsGroup(g)
      PROVE  /\ group[g] \in GroupRow /\ group[g].version + 1 \in Nat
             /\ \A h \in Group \ {g} : IsGroup(h) => group[h].name # group[g].name
             /\ untold \in BOOLEAN
  BY <1>3, LinksOfGroup DEF IInv, IndexInv, TypeOK, GroupRow
<1>4. ASSUME NEW nm \in Name, RenameGroup(g, nm)
      PROVE  IInv'
  <2>. DEFINE row == [group[g] EXCEPT !.name = nm]
  <2>1. IsGroup(g) /\ \A h \in Group : IsGroup(h) => group[h].name # nm
    BY <1>4 DEF RenameGroup
  <2>2. row \in GroupRow /\ row.name = nm /\ row.nodes = group[g].nodes
        /\ row.version = group[g].version
    BY <1>3, <2>1 DEF GroupRow
  <2>3. Raised(row) \in GroupRow /\ Raised(row).name = nm /\ Raised(row).nodes = group[g].nodes
        /\ Raised(row).version = group[g].version + 1
    BY <1>3, <2>1 DEF GroupRow, Raised
  <2>4. \/ EditGroup(g, Raised(row)) /\ UNCHANGED untold
        \/ EditGroup(g, row) /\ untold' = TRUE
    BY <1>4 DEF RenameGroup
  <2>. HIDE DEF row
  <2>. QED
    BY <1>3, <2>1, <2>2, <2>3, <2>4, GroupEdited
<1>5. ASSUME NEW p \in Policy, SetPolicy(g, p)
      PROVE  IInv'
  <2>. DEFINE row == Raised([group[g] EXCEPT !.policy = p])
  <2>1. IsGroup(g) /\ EditGroup(g, row) /\ UNCHANGED untold
    BY <1>5 DEF SetPolicy
  <2>2. row \in GroupRow /\ row.name = group[g].name /\ row.nodes = group[g].nodes
        /\ row.version = group[g].version + 1
    BY <1>3, <2>1 DEF GroupRow, Raised
  <2>. HIDE DEF row
  <2>. QED
    BY <1>3, <2>1, <2>2, GroupEdited
<1>6. ASSUME NEW n \in Node, GroupAddNodes(g, {n})
      PROVE  IInv'
  <2>. DEFINE row == Raised([group[g] EXCEPT !.nodes = @ \cup {n}])
  <2>1. IsGroup(g) /\ EditGroup(g, row) /\ UNCHANGED untold /\ IsNode(n)
    BY <1>6 DEF GroupAddNodes
  <2>2. row \in GroupRow /\ row.name = group[g].name /\ row.nodes = group[g].nodes \cup {n}
        /\ row.version = group[g].version + 1
    BY <1>3, <2>1 DEF GroupRow, Raised
  <2>. HIDE DEF row
  <2>. QED
    BY <1>3, <2>1, <2>2, GroupEdited
<1>7. ASSUME NEW n \in Node, GroupDelNodes(g, {n})
      PROVE  IInv'
  <2>. DEFINE row == Raised([group[g] EXCEPT !.nodes = @ \ {n}])
  <2>1. IsGroup(g) /\ EditGroup(g, row) /\ UNCHANGED untold
    BY <1>7 DEF GroupDelNodes
  <2>2. row \in GroupRow /\ row.name = group[g].name /\ row.nodes = group[g].nodes \ {n}
        /\ row.version = group[g].version + 1
    BY <1>3, <2>1 DEF GroupRow, Raised
  <2>. HIDE DEF row
  <2>. QED
    BY <1>3, <2>1, <2>2, GroupEdited
<1>8. ASSUME NEW s \in Sub, NEW b \in Binding, GroupBind(g, s, b)
      PROVE  IInv'
  <2>. DEFINE row == Raised([group[g] EXCEPT !.binds[s] = b])
  <2>1. IsGroup(g) /\ EditGroup(g, row) /\ UNCHANGED untold
    BY <1>8 DEF GroupBind
  <2>2. row \in GroupRow /\ row.name = group[g].name /\ row.nodes = group[g].nodes
        /\ row.version = group[g].version + 1
    BY <1>3, <2>1 DEF GroupRow, Raised
  <2>. HIDE DEF row
  <2>. QED
    BY <1>3, <2>1, <2>2, GroupEdited
<1>. QED
  BY <1>1, <1>2, <1>4, <1>5, <1>6, <1>7, <1>8

-----------------------------------------------------------------------------
(* Nodes and subscriptions. *)

(* RaisedFor touches versions, and only of groups that ran. *)
LEMMA RaisedRows ==
    ASSUME NEW rows \in [Group -> GroupRow \cup {Gone}],
           sysGroups \subseteq {g \in Group : rows[g] # Gone}, NEW G
    PROVE  /\ RaisedFor(rows, G) \in [Group -> GroupRow \cup {Gone}]
           /\ \A g \in Group :
                /\ rows[g] = Gone => RaisedFor(rows, G)[g] = rows[g]
                /\ rows[g] # Gone =>
                     /\ RaisedFor(rows, G)[g] \in GroupRow
                     /\ RaisedFor(rows, G)[g].name = rows[g].name
                     /\ RaisedFor(rows, G)[g].policy = rows[g].policy
                     /\ RaisedFor(rows, G)[g].nodes = rows[g].nodes
                     /\ RaisedFor(rows, G)[g].binds = rows[g].binds
                     /\ rows[g].version <= RaisedFor(rows, G)[g].version
                /\ sys.running /\ g \in sysGroups \cap G =>
                     RaisedFor(rows, G)[g].version # rows[g].version
<1>. USE NoneAssumption
<1>1. ASSUME NEW g \in Group, rows[g] # Gone
      PROVE  /\ rows[g].version \in Nat
             /\ rows[g] \in GroupRow /\ Raised(rows[g]) \in GroupRow
             /\ Raised(rows[g]).name = rows[g].name /\ Raised(rows[g]).policy = rows[g].policy
             /\ Raised(rows[g]).nodes = rows[g].nodes /\ Raised(rows[g]).binds = rows[g].binds
             /\ Raised(rows[g]).version = rows[g].version + 1
  BY <1>1 DEF GroupRow, Raised
<1>2. ASSUME NEW g \in Group
      PROVE  RaisedFor(rows, G)[g] =
               IF sys.running /\ g \in sysGroups \cap G THEN Raised(rows[g]) ELSE rows[g]
  BY DEF RaisedFor
<1>3. \A g \in sysGroups : rows[g] # Gone
  OBVIOUS
<1>4. RaisedFor(rows, G) \in [Group -> GroupRow \cup {Gone}]
  BY <1>1, <1>3 DEF RaisedFor
<1>5. ASSUME NEW g \in Group
      PROVE  /\ rows[g] = Gone => RaisedFor(rows, G)[g] = rows[g]
             /\ rows[g] # Gone =>
                  /\ RaisedFor(rows, G)[g] \in GroupRow
                  /\ RaisedFor(rows, G)[g].name = rows[g].name
                  /\ RaisedFor(rows, G)[g].policy = rows[g].policy
                  /\ RaisedFor(rows, G)[g].nodes = rows[g].nodes
                  /\ RaisedFor(rows, G)[g].binds = rows[g].binds
                  /\ rows[g].version <= RaisedFor(rows, G)[g].version
             /\ sys.running /\ g \in sysGroups \cap G =>
                  RaisedFor(rows, G)[g].version # rows[g].version
  BY <1>1, <1>2, <1>3
<1>. QED
  BY <1>4, <1>5

LEMMA SameLinks ==
    ASSUME NEW g, Members(g)' = Members(g), \A n \in Members(g) : link'[n] = link[n]
    PROVE  Links(g)' = Links(g)
  BY DEF Links

LEMMA NodesChanged ==
    ASSUME IInv, Edit, UNCHANGED <<sectionVars, sysVars>>,
           group' \in [Group -> GroupRow \cup {Gone}],
           link' \in [Node -> Link \cup {Gone}],
           subs' \subseteq Sub, untold' \in BOOLEAN, untold => untold',
           \A g \in Group :
             /\ ~IsGroup(g) => group'[g] = group[g]
             /\ IsGroup(g) =>
                  /\ group'[g] \in GroupRow
                  /\ group'[g].name = group[g].name /\ group'[g].policy = group[g].policy
                  /\ group'[g].nodes = group[g].nodes
                  /\ group[g].version <= group'[g].version,
           \A g \in sysGroups :
             sys.running /\ ~untold' /\ group'[g].version = group[g].version =>
               Links(g)' = Links(g)
    PROVE  IInv'
<1>. USE NoneAssumption DEF IInv, Edit, sectionVars, sysVars
<1>1. \A g \in Group : IsGroup(g)' <=> IsGroup(g)
  BY DEF IsGroup
<1>2. TypeOK'
  <2>1. sysGroups' \subseteq {h \in Group : IsGroup(h)}'
    BY <1>1 DEF TypeOK
  <2>2. edits' \in 0..MaxEdit
    BY BoundAssumption DEF TypeOK
  <2>3. selected' \subseteq {r \in Row : IsSection(r)}'
    BY DEF TypeOK, IsSection
  <2>. QED
    BY <2>1, <2>2, <2>3 DEF TypeOK
<1>3. CountInv'
  BY BoundAssumption DEF CountInv, TypeOK, IsSection
<1>4. IndexInv'
  <2>1. ASSUME NEW g \in Group, IsGroup(g)
        PROVE  group[g].nodes \subseteq Node
    BY <2>1, LinksOfGroup DEF GroupRow
  <2>. QED
    BY <1>1, <2>1 DEF IndexInv
<1>5. KeepsRecord
  <2>1. \A g \in sysGroups : g \in Group /\ IsGroup(g)
    BY DEF TypeOK
  <2>. QED
    BY <2>1 DEF KeepsRecord, AsItWas
<1>. QED
  BY <1>2, <1>3, <1>4, <1>5, RecordKept

LEMMA RowsAsTyped ==
    ASSUME TypeOK
    PROVE  /\ group \in [Group -> GroupRow \cup {Gone}]
           /\ sysGroups \subseteq {g \in Group : group[g] # Gone}
           /\ \A g \in Group : IsGroup(g) =>
                group[g] \in GroupRow /\ group[g].version <= group[g].version
           /\ untold \in BOOLEAN
<1>1. \A g \in Group : IsGroup(g) => group[g] \in GroupRow /\ group[g].version \in Nat
  BY LinksOfGroup DEF GroupRow
<1>2. \A g \in Group : IsGroup(g) => group[g].version <= group[g].version
  BY <1>1
<1>. QED
  BY <1>1, <1>2 DEF TypeOK, IsGroup

LEMMA NodeStepKeeps == ASSUME IInv, NodeStep PROVE IInv'
<1>. USE DEF IInv
<1>1. ASSUME NEW n \in Node, NEW l \in Link, ImportNode(n, l)
      PROVE  IInv'
  <2>. USE <1>1 DEF ImportNode
  <2>1. link' \in [Node -> Link \cup {Gone}] /\ subs' \subseteq Sub
    BY NoneAssumption DEF TypeOK
  <2>2. untold' \in BOOLEAN /\ (untold => untold') /\ (~untold' => ~Inherits({n}))
    BY RowsAsTyped
  <2>3. ASSUME NEW g \in sysGroups, ~untold'
        PROVE  Links(g)' = Links(g)
    <3>1. g \in Group /\ IsGroup(g) /\ n \notin group[g].nodes
      BY <2>2, <2>3 DEF TypeOK, Inherits
    <3>2. n \notin Members(g) /\ n \notin Members(g)'
      BY <3>1, NoneAssumption DEF Members, TypeOK
    <3>3. \A m \in Node \ {n} : link'[m] = link[m]
      BY DEF TypeOK
    <3>4. Members(g)' = Members(g)
      BY <3>2, <3>3 DEF Members, IsNode
    <3>5. \A m \in Members(g) : link'[m] = link[m]
      BY <3>2, <3>3 DEF Members
    <3>. QED
      BY <3>4, <3>5, SameLinks
  <2>4. Edit /\ UNCHANGED <<sectionVars, group, sysVars>>
    BY DEF sectionVars, sysVars
  <2>. HIDE DEF ImportNode
  <2>. QED
    BY <2>1, <2>2, <2>3, <2>4, NodesChanged, RowsAsTyped
<1>2. ASSUME NEW n \in Node, NEW l \in Link, UpdateNode(n, l)
      PROVE  IInv'
  <2>. USE <1>2 DEF UpdateNode
  <2>1. link' \in [Node -> Link \cup {Gone}] /\ subs' \subseteq Sub
    BY NoneAssumption DEF TypeOK
  <2>. QED
    BY <2>1, NodesChanged, RowsAsTyped DEF sysVars, sectionVars
<1>3. ASSUME NEW N \in SUBSET Node, RemoveNodes(N)
      PROVE  IInv'
  <2>. USE <1>3 DEF RemoveNodes
  <2>1. link' \in [Node -> Link \cup {Gone}] /\ subs' \subseteq Sub
    BY NoneAssumption DEF TypeOK
  <2>2. ASSUME NEW g \in sysGroups, sys.running, ~untold', group'[g].version = group[g].version
        PROVE  Links(g)' = Links(g)
    <3>1. g \in Group /\ IsGroup(g)
      BY DEF TypeOK
    <3>2. g \notin Holding(N)
      BY <2>2, RowsAsTyped, RaisedRows
    <3>3. group[g].nodes \cap N = {}
      BY <3>1, <3>2 DEF Holding
    <3>4. Members(g) \cap N = {}
      BY <2>2, <3>3
    <3>5. group'[g].nodes = group[g].nodes /\ group'[g].binds = group[g].binds
      BY <3>1, RowsAsTyped, RaisedRows DEF IsGroup
    <3>6. \A m \in Node : link'[m] = IF m \in N THEN Gone ELSE link[m]
      OBVIOUS
    <3>7. Members(g)' = Members(g)
      BY <3>4, <3>5, <3>6 DEF Members, IsNode
    <3>8. \A m \in Members(g) : link'[m] = link[m]
      BY <3>4, <3>6 DEF Members
    <3>. QED
      BY <3>7, <3>8, SameLinks
  <2>3. \A g \in Group :
          /\ ~IsGroup(g) => group'[g] = group[g]
          /\ IsGroup(g) =>
               /\ group'[g] \in GroupRow
               /\ group'[g].name = group[g].name /\ group'[g].policy = group[g].policy
               /\ group'[g].nodes = group[g].nodes
               /\ group[g].version <= group'[g].version
    BY RowsAsTyped, RaisedRows DEF IsGroup
  <2>4. group' \in [Group -> GroupRow \cup {Gone}]
    BY RowsAsTyped, RaisedRows
  <2>5. untold' \in BOOLEAN /\ (untold => untold')
    BY RowsAsTyped
  <2>. HIDE DEF RemoveNodes
  <2>6. Edit /\ UNCHANGED <<sectionVars, sysVars>>
    BY DEF RemoveNodes
  <2>. QED
    BY <2>1, <2>2, <2>3, <2>4, <2>5, <2>6, NodesChanged
<1>. QED
  BY <1>1, <1>2, <1>3 DEF NodeStep

(* A group that is not raised has no node that is replaced: the nodes it    *)
(* holds itself are kept, it is bound to other subscriptions, and no new    *)
(* node got an id it still holds.                                          *)
LEMMA UpdateSubscriptionKeeps ==
    ASSUME IInv, NEW s \in Sub, NEW fetched \in SUBSET Link, UpdateSubscription(s, fetched)
    PROVE  IInv'
<1>. USE DEF IInv
<1>. DEFINE kept  == {n \in NodesOf(s) : Holding({n}) # {}}
            fresh == fetched \ {link[n] : n \in kept}
            free  == {n \in Node : Owner[n] = s} \ kept
<1>1. PICK at \in [fresh -> free] :
        /\ link' = [n \in Node |->
             IF \E l \in fresh : at[l] = n THEN CHOOSE l \in fresh : at[l] = n
             ELSE IF n \in NodesOf(s) \ kept THEN Gone
             ELSE link[n]]
        /\ untold' = (untold \/ Inherits({at[l] : l \in fresh}))
  BY DEF UpdateSubscription
<1>2. Edit /\ UNCHANGED <<sectionVars, sysVars, subs>>
      /\ group' = RaisedFor(group, Bound(s))
  BY DEF UpdateSubscription, UpdatedGroups
<1>. DEFINE given == {at[l] : l \in fresh}
<1>3. ASSUME NEW n \in Node
      PROVE  /\ n \notin NodesOf(s) \ kept /\ n \notin given => link'[n] = link[n]
             /\ n \in given => n \in free
             /\ link'[n] \in Link \cup {Gone}
  <2>1. link[n] \in Link \cup {Gone} /\ fresh \subseteq Link
    BY DEF TypeOK
  <2>2. n \in given <=> \E l \in fresh : at[l] = n
    OBVIOUS
  <2>3. n \in given => n \in free
    BY <1>1
  <2>4. (\E l \in fresh : at[l] = n) => (CHOOSE l \in fresh : at[l] = n) \in fresh
    OBVIOUS
  <2>5. link'[n] = IF \E l \in fresh : at[l] = n THEN CHOOSE l \in fresh : at[l] = n
                   ELSE IF n \in NodesOf(s) \ kept THEN Gone
                   ELSE link[n]
    BY <1>1
  <2>. HIDE DEF kept, fresh, free, given
  <2>. QED
    BY <2>1, <2>2, <2>3, <2>4, <2>5, NoneAssumption
<1>4. link' \in [Node -> Link \cup {Gone}]
  <2>1. \A n \in Node : link'[n] \in Link \cup {Gone}
    BY <1>3
  <2>2. link' = [n \in Node |-> link'[n]]
    BY <1>1
  <2>. QED
    BY <2>1, <2>2
<1>5. ASSUME NEW g \in sysGroups, sys.running, ~untold', group'[g].version = group[g].version
      PROVE  Links(g)' = Links(g)
  <2>1. g \in Group /\ IsGroup(g)
    BY DEF TypeOK
  <2>2. g \notin Bound(s)
    BY <1>2, <1>5, RowsAsTyped, RaisedRows
  <2>3. group[g].binds[s] = "unbound"
    BY <2>1, <2>2 DEF Bound
  <2>4. group'[g].nodes = group[g].nodes /\ group'[g].binds = group[g].binds
    BY <1>2, <2>1, RowsAsTyped, RaisedRows DEF IsGroup
  <2>5. ASSUME NEW n \in Node, n \in group[g].nodes
        PROVE  link'[n] = link[n]
    <3>1. n \in NodesOf(s) => n \in kept
      BY <2>1, <2>5 DEF Holding
    <3>2. n \notin given
      <4>1. ~Inherits(given)
        BY <1>1, <1>5
      <4>. QED
        BY <2>5, <4>1 DEF Inherits
    <3>. QED
      BY <1>3, <3>1, <3>2
  <2>6. ASSUME NEW n \in Node, Owner[n] # s
        PROVE  link'[n] = link[n]
    <3>1. n \notin free /\ n \notin NodesOf(s)
      BY <2>6 DEF NodesOf
    <3>. HIDE DEF kept, fresh, free, given
    <3>. QED
      BY <1>3, <3>1
  <2>7. \A n \in Members(g) : link'[n] = link[n]
    BY <2>3, <2>5, <2>6 DEF Members
  <2>8. Members(g)' = Members(g)
    <3>1. subs' = subs
      BY <1>2
    <3>. HIDE DEF kept, fresh, free, given
    <3>. QED
      BY <2>3, <2>4, <2>5, <2>6, <3>1 DEF Members, IsNode
  <2>. QED
    BY <2>7, <2>8, SameLinks
<1>6. \A g \in Group :
        /\ ~IsGroup(g) => group'[g] = group[g]
        /\ IsGroup(g) =>
             /\ group'[g] \in GroupRow
             /\ group'[g].name = group[g].name /\ group'[g].policy = group[g].policy
             /\ group'[g].nodes = group[g].nodes
             /\ group[g].version <= group'[g].version
  BY <1>2, RowsAsTyped, RaisedRows DEF IsGroup
<1>7. group' \in [Group -> GroupRow \cup {Gone}]
  BY <1>2, RowsAsTyped, RaisedRows
<1>8. subs' \subseteq Sub
  BY <1>2 DEF TypeOK
<1>9. untold' \in BOOLEAN /\ (untold => untold')
  BY <1>1, RowsAsTyped
<1>. HIDE DEF kept, fresh, free, given
<1>. QED
  BY <1>2, <1>4, <1>5, <1>6, <1>7, <1>8, <1>9, NodesChanged

LEMMA RemoveSubscriptionKeeps ==
    ASSUME IInv, NEW s \in Sub, RemoveSubscription(s)
    PROVE  IInv'
<1>. USE DEF IInv
<1>. DEFINE held   == RaisedFor(group, Holding(NodesOf(s)))
            raised == RaisedFor(held, Bound(s))
<1>1. /\ Edit /\ UNCHANGED <<sectionVars, sysVars, untold>>
      /\ group' = [g \in Group |->
           IF IsGroup(g) THEN [raised[g] EXCEPT !.binds[s] = "unbound"] ELSE raised[g]]
      /\ link' = [n \in Node |-> IF n \in NodesOf(s) THEN Gone ELSE link[n]]
      /\ subs' = subs \ {s}
  BY DEF RemoveSubscription
<1>2. /\ held \in [Group -> GroupRow \cup {Gone}]
      /\ sysGroups \subseteq {g \in Group : held[g] # Gone}
      /\ \A g \in Group :
           /\ ~IsGroup(g) => held[g] = group[g]
           /\ IsGroup(g) =>
                /\ held[g] \in GroupRow /\ held[g] # Gone
                /\ held[g].name = group[g].name /\ held[g].policy = group[g].policy
                /\ held[g].nodes = group[g].nodes /\ held[g].binds = group[g].binds
                /\ group[g].version <= held[g].version
           /\ sys.running /\ g \in sysGroups \cap Holding(NodesOf(s)) =>
                held[g].version # group[g].version
  <2>. HIDE DEF held
  <2>1. /\ held \in [Group -> GroupRow \cup {Gone}]
        /\ \A g \in Group :
             /\ ~IsGroup(g) => held[g] = group[g]
             /\ IsGroup(g) =>
                  /\ held[g] \in GroupRow
                  /\ held[g].name = group[g].name /\ held[g].policy = group[g].policy
                  /\ held[g].nodes = group[g].nodes /\ held[g].binds = group[g].binds
                  /\ group[g].version <= held[g].version
             /\ sys.running /\ g \in sysGroups \cap Holding(NodesOf(s)) =>
                  held[g].version # group[g].version
    BY RowsAsTyped, RaisedRows DEF IsGroup, held
  <2>. QED
    BY <2>1, NoneAssumption, RowsAsTyped DEF IsGroup
<1>3. ASSUME NEW g \in Group, IsGroup(g)
      PROVE  /\ raised[g] \in GroupRow
             /\ raised[g].name = group[g].name /\ raised[g].policy = group[g].policy
             /\ raised[g].nodes = group[g].nodes /\ raised[g].binds = group[g].binds
             /\ group[g].version <= raised[g].version
             /\ sys.running /\ g \in sysGroups /\ g \in Holding(NodesOf(s)) \cup Bound(s) =>
                  raised[g].version # group[g].version
  <2>. HIDE DEF held, raised
  <2>1. /\ raised[g] \in GroupRow
        /\ raised[g].name = held[g].name /\ raised[g].policy = held[g].policy
        /\ raised[g].nodes = held[g].nodes /\ raised[g].binds = held[g].binds
        /\ held[g].version <= raised[g].version
        /\ sys.running /\ g \in sysGroups \cap Bound(s) => raised[g].version # held[g].version
    BY <1>2, <1>3, RaisedRows DEF raised
  <2>2. /\ group[g].version \in Nat /\ held[g].version \in Nat /\ raised[g].version \in Nat
    BY <1>2, <1>3, <2>1, LinksOfGroup DEF GroupRow
  <2>. QED
    BY <1>2, <1>3, <2>1, <2>2
<1>4. \A g \in Group : ~IsGroup(g) => raised[g] = group[g]
  <2>1. \A g \in Group : ~IsGroup(g) => held[g] = Gone
    BY <1>2 DEF IsGroup
  <2>2. \A g \in Group : held[g] = Gone => raised[g] = held[g]
    <3>. HIDE DEF held
    <3>. QED
      BY <1>2, RaisedRows
  <2>. HIDE DEF held, raised
  <2>. QED
    BY <1>2, <2>1, <2>2
<1>. HIDE DEF held, raised
<1>5. ASSUME NEW g \in Group, IsGroup(g)
      PROVE  /\ group'[g] \in GroupRow
             /\ group'[g].name = group[g].name /\ group'[g].policy = group[g].policy
             /\ group'[g].nodes = group[g].nodes
             /\ group'[g].binds = [group[g].binds EXCEPT ![s] = "unbound"]
             /\ group'[g].version = raised[g].version
  <2>1. group'[g] = [raised[g] EXCEPT !.binds[s] = "unbound"]
    BY <1>1, <1>5
  <2>2. raised[g] \in GroupRow
    BY <1>3, <1>5
  <2>3. group'[g] = [raised[g] EXCEPT !.binds = [raised[g].binds EXCEPT ![s] = "unbound"]]
    BY <2>1
  <2>. QED
    BY <1>3, <1>5, <2>2, <2>3 DEF GroupRow, Binding
<1>6. \A g \in Group :
        /\ ~IsGroup(g) => group'[g] = group[g]
        /\ IsGroup(g) =>
             /\ group'[g] \in GroupRow
             /\ group'[g].name = group[g].name /\ group'[g].policy = group[g].policy
             /\ group'[g].nodes = group[g].nodes
             /\ group[g].version <= group'[g].version
  BY <1>1, <1>3, <1>4, <1>5
<1>7. group' \in [Group -> GroupRow \cup {Gone}]
  <2>1. \A g \in Group : group'[g] \in GroupRow \cup {Gone}
    BY <1>6 DEF IsGroup
  <2>2. group' = [g \in Group |-> group'[g]]
    BY <1>1
  <2>. QED
    BY <2>1, <2>2
<1>8. link' \in [Node -> Link \cup {Gone}] /\ subs' \subseteq Sub
  BY <1>1, NoneAssumption DEF TypeOK
<1>9. ASSUME NEW g \in sysGroups, sys.running, group'[g].version = group[g].version
      PROVE  Links(g)' = Links(g)
  <2>1. g \in Group /\ IsGroup(g)
    BY DEF TypeOK
  <2>2. g \notin Holding(NodesOf(s)) /\ g \notin Bound(s)
    BY <1>3, <1>5, <1>9, <2>1
  <2>3. group[g].nodes \cap NodesOf(s) = {} /\ group[g].binds[s] = "unbound"
    BY <2>1, <2>2 DEF Holding, Bound
  <2>4. group'[g].binds = group[g].binds
    <3>1. group[g].binds \in [Sub -> Binding]
      BY <2>1, LinksOfGroup DEF GroupRow
    <3>. QED
      BY <1>5, <2>1, <2>3, <3>1
  <2>5. \A n \in Node : link'[n] = IF n \in NodesOf(s) THEN Gone ELSE link[n]
    BY <1>1
  <2>6. Members(g) \cap NodesOf(s) = {}
    BY <2>3 DEF Members, NodesOf
  <2>7. \A n \in Members(g) : link'[n] = link[n]
    BY <2>5, <2>6 DEF Members
  <2>8. ASSUME NEW n \in Node
        PROVE  n \in Members(g)' <=> n \in Members(g)
    <3>1. CASE n \in NodesOf(s)
      <4>1. ~IsNode(n)'
        BY <2>5, <3>1 DEF IsNode
      <4>. QED
        BY <2>6, <3>1, <4>1 DEF Members
    <3>2. CASE n \notin NodesOf(s)
      <4>1. IsNode(n)' <=> IsNode(n)
        BY <2>5, <3>2 DEF IsNode
      <4>2. Owner[n] = s => group[g].binds[Owner[n]] = "unbound"
        BY <2>3
      <4>3. Owner[n] \in subs' <=> Owner[n] \in subs /\ Owner[n] # s
        BY <1>1
      <4>. QED
        BY <1>5, <2>1, <2>4, <4>1, <4>2, <4>3 DEF Members
    <3>. QED
      BY <3>1, <3>2
  <2>9. Members(g)' = Members(g)
    BY <2>8 DEF Members
  <2>. QED
    BY <2>7, <2>9, SameLinks
<1>. QED
  BY <1>1, <1>6, <1>7, <1>8, <1>9, RowsAsTyped, NodesChanged

LEMMA SubscriptionStepKeeps == ASSUME IInv, SubscriptionStep PROVE IInv'
<1>1. ASSUME NEW s \in Sub, UpdateLink(s)
      PROVE  IInv'
  <2>. USE <1>1 DEF IInv, UpdateLink, nodeVars
  <2>1. ASSUME NEW g \in sysGroups, sys.running, group'[g].version = group[g].version
        PROVE  Links(g)' = Links(g)
    <3>1. group'[g].nodes = group[g].nodes /\ group'[g].binds = group[g].binds
      BY RowsAsTyped, RaisedRows DEF TypeOK, IsGroup
    <3>. QED
      BY <3>1 DEF Links, Members, IsNode
  <2>2. \A g \in Group :
          /\ ~IsGroup(g) => group'[g] = group[g]
          /\ IsGroup(g) =>
               /\ group'[g] \in GroupRow
               /\ group'[g].name = group[g].name /\ group'[g].policy = group[g].policy
               /\ group'[g].nodes = group[g].nodes
               /\ group[g].version <= group'[g].version
    BY RowsAsTyped, RaisedRows DEF IsGroup
  <2>3. group' \in [Group -> GroupRow \cup {Gone}]
    BY RowsAsTyped, RaisedRows
  <2>4. link' \in [Node -> Link \cup {Gone}] /\ subs' \subseteq Sub
    BY DEF TypeOK
  <2>. QED
    BY <2>1, <2>2, <2>3, <2>4, RowsAsTyped, NodesChanged
<1>2. ASSUME NEW s \in Sub, TagSubscription(s)
      PROVE  IInv'
  <2>1. UNCHANGED <<group, nodeVars, sysVars, untold>>
    BY <1>2 DEF TagSubscription
  <2>2. TypeOK' /\ CountInv' /\ CreatedInv'
    BY <1>2, BoundAssumption
    DEF IInv, TypeOK, CountInv, CreatedInv, TagSubscription, Edit, sectionVars, nodeVars, sysVars,
        IsSection, IsGroup
  <2>. QED
    BY <2>1, <2>2, SectionsKeep DEF IInv, sysVars
<1>. QED
  BY <1>1, <1>2, UpdateSubscriptionKeeps, RemoveSubscriptionKeeps DEF SubscriptionStep

LEMMA StutterKeeps == ASSUME IInv, UNCHANGED vars PROVE IInv'
<1>. USE DEF IInv, vars, sectionVars, nodeVars, sysVars
<1>1. TypeOK' /\ CountInv' /\ CreatedInv'
  BY DEF TypeOK, CountInv, CreatedInv, IsSection, IsGroup
<1>. QED
  BY <1>1, SectionsKeep

(* The invariant of config.Run, the mutations and the versions they raise. *)
THEOREM Invariance == Spec => []IInv
<1>1. IInv /\ [Next]_vars => IInv'
  BY RunKeeps, StopKeeps, SectionStepKeeps, GroupStepKeeps, NodeStepKeeps,
     SubscriptionStepKeeps, StutterKeeps DEF Next
<1>. QED
  BY InitEstablishes, <1>1, PTL DEF Spec

(* Every row keeps its form: at most one section of a table is selected,   *)
(* and it exists, as do the groups that are noted as running.              *)
THEOREM TypeCorrect == Spec => []TypeOK
<1>1. IInv => TypeOK
  BY DEF IInv
<1>. QED
  BY Invariance, <1>1, PTL

-----------------------------------------------------------------------------
(* What an answer of Modified means. *)

LEMMA NotModified ==
    ASSUME sys.running, Modified = "false"
    PROVE  /\ sys.sections = [r \in selected |-> version[r]]
           /\ sysGroups = sys.ids /\ SumFunctionOnSet(Versions, sysGroups) = sys.sum
  BY DEF Modified, SectionsDiffer, GroupsDiffer, VersionSum

LEMMA SumMeansTerms ==
    ASSUME IInv, sys.running, Modified = "false"
    PROVE  \A g \in sysGroups : ran.versions[g] = group[g].version
<1>. USE DEF IInv
<1>1. IsFiniteSet(sysGroups)
  BY GroupAssumption, FS_Subset DEF TypeOK
<1>2. SumFunctionOnSet(Versions, sysGroups) = SumFunctionOnSet(ran.versions, sysGroups)
  BY NotModified DEF RunInv
<1>3. \A g \in sysGroups : Versions[g] = group[g].version
  BY DEF Versions, TypeOK
<1>4. \A g \in sysGroups : /\ Versions[g] \in Nat /\ ran.versions[g] \in Nat
                           /\ ran.versions[g] <= Versions[g]
  BY <1>3, VersionsAreNat DEF RisenInv
<1>. QED
  BY <1>1, <1>2, <1>3, <1>4, TotalTells

(* DaeResolver.Modified compares one sum: while it answers false, every    *)
(* group that ran has the version it ran with.                             *)
THEOREM SumIsEnough == Spec => []SumTellsAll
<1>1. IInv => SumTellsAll
  <2>. SUFFICES ASSUME IInv, sys.running, Modified = "false",
                       NEW g \in DOMAIN ran.versions
                PROVE  IsGroup(g) /\ group[g].version = ran.versions[g]
    BY DEF SumTellsAll
  <2>1. g \in sysGroups
    BY NotModified DEF IInv, RunInv
  <2>. QED
    BY <2>1, SumMeansTerms DEF IInv, TypeOK
<1>. QED
  BY Invariance, <1>1, PTL

LEMMA SameName ==
    ASSUME NEW g, SameAsRan(g)
    PROVE  ran.groups[g].name = group[g].name
  BY DEF SameAsRan

(* DaeResolver.Modified answers false only when config.Run would load what *)
(* runs, apart from the mutations that raise no version.                   *)
THEOREM FalseMeansSame == Spec => []ModifiedSound
<1>1. IInv => ModifiedSound
  <2>. SUFFICES ASSUME IInv, sys.running, Modified = "false", ~untold
                PROVE  /\ ran.sections = Contents.sections /\ selected \cap created = {}
                       /\ ran.groups = Contents.groups
    BY DEF ModifiedSound
  <2>. USE DEF IInv
  <2>1. ran.sections = Contents.sections
    BY NotModified DEF RunInv, Contents
  <2>2. /\ UNION {Uses[r] : r \in DOMAIN sys.sections} = Outbounds
        /\ selected \cap created = {}
    BY NotModified DEF Outbounds, CreatedInv
  <2>3. \A g \in sysGroups : SameAsRan(g)
    BY SumMeansTerms DEF SameInv
  <2>4. {group[g].name : g \in sysGroups} = Outbounds
    <3>1. \A g \in sysGroups : ran.groups[g].name = group[g].name
      BY <2>3, SameName
    <3>2. {ran.groups[g].name : g \in sysGroups} = Outbounds
      BY <2>2, NotModified DEF RunInv
    <3>. QED
      BY <3>1, <3>2
  <2>5. sysGroups = UsedGroups
    <3>1. sysGroups \subseteq UsedGroups
      BY <2>4 DEF UsedGroups, TypeOK
    <3>2. ASSUME NEW g \in UsedGroups
          PROVE  g \in sysGroups
      <4>1. PICK h \in sysGroups : group[h].name = group[g].name
        BY <2>4 DEF UsedGroups
      <4>2. h \in Group /\ IsGroup(h)
        BY DEF TypeOK
      <4>. QED
        BY <4>1, <4>2 DEF UsedGroups, IndexInv
    <3>. QED
      BY <3>1, <3>2
  <2>6. ran.groups \in [sysGroups -> GroupContents]
    BY NotModified DEF RunInv
  <2>7. ran.groups = Contents.groups
    BY <2>3, <2>5, <2>6 DEF SameAsRan, Contents
  <2>. QED
    BY <2>1, <2>2, <2>7
<1>. QED
  BY Invariance, <1>1, PTL

(* A run in which a group is used leaves nothing modified.                 *)
THEOREM RunsSettle == Spec => RunSettles
<1>1. ASSUME IInv, [Next]_vars, ran' # ran, UsedGroups # {}
      PROVE  Modified' = "false"
  <2>1. Run
    BY <1>1 DEF Next, Stop, SectionStep, CreateSection, UpdateSection, SelectSection,
       RenameSection, RemoveSection, GroupStep, RemoveGroup, RenameGroup, CreateGroup,
       SetPolicy, GroupAddNodes, GroupDelNodes, GroupBind, EditGroup, NodeStep, ImportNode,
       UpdateNode, RemoveNodes, SubscriptionStep, UpdateSubscription, UpdateLink,
       TagSubscription, RemoveSubscription, sysVars, vars
  <2>. USE <2>1 DEF Run, sectionVars, nodeVars
  <2>2. ~Unselected'
    BY DEF CanRun, Unselected
  <2>3. ~SectionsDiffer'
    BY DEF SectionsDiffer
  <2>4. Versions' = Versions
    BY DEF Versions, IsGroup
  <2>5. ~GroupsDiffer'
    BY <2>4 DEF GroupsDiffer, VersionSum, RecordedSum
  <2>. QED
    BY <1>1, <2>2, <2>3, <2>5 DEF Modified
<1>2. IInv /\ [Next]_vars => (ran' # ran /\ UsedGroups # {} => Modified' = "false")
  BY <1>1
<1>. QED
  BY Invariance, <1>2, PTL DEF Spec, RunSettles

=============================================================================
