--------------------------- MODULE NodePagesProofs ---------------------------
(***************************************************************************)
(* Proofs about NodePages, for any collections and any values of first, of *)
(* ids and of mutations.                                                   *)
(*                                                                         *)
(* What a client was shown reaches from the first node to the end cursor   *)
(* without a gap in what is kept, and a page continues it: a limited page  *)
(* is the low end of what is after the cursor.                             *)
(***************************************************************************)
EXTENDS NodePages, FiniteSetTheorems, WellFoundedInduction, TLAPS

(* Up to the end cursor nothing kept was left out, and neither is anything *)
(* between the cursor and any node of the page.                            *)
PageInv ==
    /\ \A n \in kept : n <= after => n \in seen
    /\ pc = "begin" => after = 0
    /\ pc = "done" => kept \subseteq seen
    /\ \A p \in page : p > after
    /\ \A p \in page : \A n \in kept : n > after /\ n < p => n \in page
    /\ pc = "found" /\ page = {} => kept \subseteq seen

IInv ==
    /\ TypeOK
    /\ PageInv

-----------------------------------------------------------------------------
(* Of any nodes there is one with the lowest id and one with the highest: a *)
(* strictly decreasing chain of finite sets, here of those below or above a *)
(* node, ends.                                                              *)
LEMMA LeastSet ==
    ASSUME NEW T, T \subseteq SUBSET Id, T # {}
    PROVE  \E B \in T : \A C \in T : C \subseteq B => C = B
<1>1. IsFiniteSet(Id)
  BY BoundAssumption, FS_Interval DEF Id
<1>2. IsWellFoundedOn(StrictSubsetOrdering(Id), SUBSET Id)
  BY <1>1, FS_StrictSubsetOrderingWellFounded, FS_FiniteSubsetsOfFinite
<1>3. PICK B \in T : \A C \in T : <<C, B>> \notin StrictSubsetOrdering(Id)
  BY <1>2, WFMin
<1>. QED
  BY <1>3 DEF StrictSubsetOrdering

LEMMA LowestAndHighest ==
    ASSUME NEW S, S \subseteq Id, S # {}
    PROVE  /\ \E n \in S : \A m \in S : n <= m
           /\ \E n \in S : \A m \in S : m <= n
<1>. DEFINE Below(n) == {m \in S : m < n}
            Above(n) == {m \in S : m > n}
<1>1. S \subseteq Nat
  BY BoundAssumption DEF Id
<1>2. \A m \in S : Below(m) \in SUBSET Id /\ Above(m) \in SUBSET Id
  OBVIOUS
<1>3. \E n \in S : \A m \in S : n <= m
  <2>. DEFINE T == {Below(m) : m \in S}
  <2>1. T \subseteq SUBSET Id /\ T # {}
    BY <1>2
  <2>. HIDE DEF T
  <2>2. PICK B \in T : \A C \in T : C \subseteq B => C = B
    BY <2>1, LeastSet
  <2>. USE DEF T
  <2>3. PICK n \in S : B = Below(n)
    OBVIOUS
  <2>4. ASSUME NEW m \in S, m < n
        PROVE  FALSE
    <3>1. Below(m) \subseteq Below(n)
      <4>1. ASSUME NEW k \in S, k < m
            PROVE  k < n
        BY <1>1, <2>4, <4>1
      <4>. QED
        BY <4>1
    <3>2. Below(m) \in T
      OBVIOUS
    <3>3. m \in Below(n) /\ m \notin Below(m)
      BY <1>1, <2>4
    <3>. QED
      BY <2>2, <2>3, <3>1, <3>2, <3>3
  <2>. QED
    BY <1>1, <2>4
<1>4. \E n \in S : \A m \in S : m <= n
  <2>. DEFINE T == {Above(m) : m \in S}
  <2>1. T \subseteq SUBSET Id /\ T # {}
    BY <1>2
  <2>. HIDE DEF T
  <2>2. PICK B \in T : \A C \in T : C \subseteq B => C = B
    BY <2>1, LeastSet
  <2>. USE DEF T
  <2>3. PICK n \in S : B = Above(n)
    OBVIOUS
  <2>4. ASSUME NEW m \in S, m > n
        PROVE  FALSE
    <3>1. Above(m) \subseteq Above(n)
      <4>1. ASSUME NEW k \in S, k > m
            PROVE  k > n
        BY <1>1, <2>4, <4>1
      <4>. QED
        BY <4>1
    <3>2. Above(m) \in T
      OBVIOUS
    <3>3. m \in Above(n) /\ m \notin Above(m)
      BY <1>1, <2>4
    <3>. QED
      BY <2>2, <2>3, <3>1, <3>2, <3>3
  <2>. QED
    BY <1>1, <2>4
<1>. QED
  BY <1>3, <1>4

LEMMA HighestIsMax ==
    ASSUME NEW S, S \subseteq Id, S # {}
    PROVE  Max(S) \in S /\ \A n \in S : n <= Max(S)
<1>1. PICK n \in S : \A m \in S : n >= m
  BY LowestAndHighest, BoundAssumption DEF Id
<1>. QED
  BY <1>1, BoundAssumption DEF Max, Id

(* A limited page is the low end of the set, and is empty only if that is. *)
LEMMA LimitedIsLow ==
    ASSUME NEW S, S \subseteq Id, NEW limit \in First
    PROVE  /\ Limited(S, limit) \subseteq S
           /\ \A p \in Limited(S, limit) : \A n \in S : n < p => n \in Limited(S, limit)
           /\ Limited(S, limit) = {} => S = {}
<1>1. Limited(S, limit) \subseteq S
  BY DEF Limited
<1>2. CASE limit = NoLimit
  BY <1>2 DEF Limited
<1>3. CASE limit # NoLimit
  <2>1. limit \in Nat /\ limit > 0
    BY <1>3, FirstAssumption
  <2>2. \A n \in S : /\ IsFiniteSet({m \in S : m < n})
                     /\ Cardinality({m \in S : m < n}) \in Nat
    <3>1. IsFiniteSet(S)
      <4>1. IsFiniteSet(1..MaxId)
        BY BoundAssumption, FS_Interval
      <4>. QED
        BY <4>1, FS_Subset DEF Id
    <3>. QED
      BY <3>1, FS_Subset, FS_CardinalityType
  <2>3. ASSUME NEW p \in Limited(S, limit), NEW n \in S, n < p
        PROVE  n \in Limited(S, limit)
    <3>1. p \in S /\ Cardinality({m \in S : m < p}) < limit
      BY <1>3, <2>3 DEF Limited
    <3>2. {m \in S : m < n} \subseteq {m \in S : m < p}
      <4>1. \A m \in S : m \in Nat
        BY BoundAssumption DEF Id
      <4>. QED
        BY <2>3, <3>1, <4>1
    <3>3. Cardinality({m \in S : m < n}) <= Cardinality({m \in S : m < p})
      BY <2>2, <3>1, <3>2, FS_Subset
    <3>4. Cardinality({m \in S : m < n}) < limit
      BY <2>1, <2>2, <3>1, <3>3
    <3>. QED
      BY <3>4 DEF Limited
  <2>4. ASSUME S # {}
        PROVE  Limited(S, limit) # {}
    <3>1. PICK n \in S : \A m \in S : n <= m
      BY <2>4, LowestAndHighest, Zenon
    <3>2. {m \in S : m < n} = {}
      <4>1. \A m \in S : m \in Nat
        BY BoundAssumption DEF Id
      <4>. QED
        BY <3>1, <4>1
    <3>3. Cardinality({m \in S : m < n}) < limit
      BY <2>1, <3>2, FS_EmptySet
    <3>. QED
      BY <3>3 DEF Limited
  <2>. QED
    BY <1>1, <2>3, <2>4
<1>. QED
  BY <1>1, <1>2, <1>3

-----------------------------------------------------------------------------
LEMMA ChangeStep ==
    ASSUME IInv, NEW R \in SUBSET Nodes, NEW c \in Collection, NEW N \in SUBSET Id,
           Change(R, c, N) \/ (N = {} /\ Change(R, None, N))
    PROVE  IInv'
<1>. USE BoundAssumption DEF IInv, Id
<1>1. /\ UNCHANGED clientVars /\ changes' \in 0..MaxChange /\ kept' = kept \ R
      /\ \A n \in N : \A m \in Nodes \ R : n > m
      /\ \A n \in Id : owner'[n] = owner[n] \/ n \in N \/ n \in R
      /\ owner' \in [Id -> Collection \cup {None}]
  BY DEF Change, TypeOK
<1>2. kept \ R \subseteq Nodes \ R /\ kept \subseteq Id
  BY NoneAssumption DEF TypeOK, BaseQuery, Nodes
<1>3. ASSUME NEW n \in kept'
      PROVE  n \in BaseQuery(walked)'
  <2>1. n \in Id /\ n \in Nodes \ R /\ owner[n] = walked
    BY <1>1, <1>2, <1>3 DEF TypeOK, BaseQuery
  <2>2. n \notin N
    BY <1>1, <2>1
  <2>. QED
    BY <1>1, <2>1, <2>2 DEF BaseQuery, clientVars
<1>4. TypeOK'
  BY <1>1, <1>3 DEF TypeOK, clientVars
<1>5. PageInv'
  BY <1>1 DEF PageInv, clientVars
<1>. QED
  BY <1>4, <1>5

LEMMA FindStep ==
    ASSUME IInv, FindPage
    PROVE  IInv'
<1>. USE BoundAssumption DEF IInv, Id
<1>. DEFINE S == AfterCursor(walked)
<1>1. S \subseteq Id /\ \A n \in Id : n \in S <=> n \in BaseQuery(walked) /\ n > after
  BY DEF AfterCursor, BaseQuery, TypeOK
<1>2. PICK first \in First : page' = Limited(S, first)
  BY DEF FindPage
<1>3. /\ page' \subseteq S
      /\ \A p \in page' : \A n \in S : n < p => n \in page'
      /\ page' = {} => S = {}
  BY <1>1, <1>2, LimitedIsLow
<1>. HIDE DEF S
<1>4. /\ pc' = "found" /\ UNCHANGED <<owner, walked, after, seen, changes>>
      /\ kept' = IF pc = "begin" THEN BaseQuery(walked) ELSE kept
  BY DEF FindPage
<1>5. kept' \subseteq BaseQuery(walked) /\ BaseQuery(walked) \subseteq Id
  BY <1>4 DEF TypeOK, BaseQuery
<1>6. \A n \in kept' : n <= after => n \in seen
  BY <1>4, <1>5 DEF PageInv, TypeOK
<1>7. TypeOK'
  BY <1>1, <1>3, <1>4, <1>5 DEF TypeOK, BaseQuery
<1>8. PageInv'
  <2>1. \A p \in page' : p > after
    BY <1>1, <1>3
  <2>2. \A p \in page' : \A n \in kept' : n > after /\ n < p => n \in page'
    BY <1>1, <1>3, <1>5
  <2>3. page' = {} => kept' \subseteq seen
    <3>. SUFFICES ASSUME page' = {}, NEW n \in kept' PROVE n \in seen
      OBVIOUS
    <3>1. n \in Id /\ ~(n > after)
      BY <1>1, <1>3, <1>5
    <3>. QED
      BY <1>6, <3>1 DEF TypeOK
  <2>. QED
    BY <1>4, <1>6, <2>1, <2>2, <2>3 DEF PageInv
<1>. QED
  BY <1>7, <1>8

(* The end cursor is the last node of the page, and there is no next page  *)
(* when nothing comes after that one.                                      *)
LEMMA AnsweredStep ==
    ASSUME IInv, Answered
    PROVE  IInv'
<1>. USE BoundAssumption DEF IInv, Id
<1>1. /\ pc = "found" /\ page' = {} /\ seen' = seen \cup page
      /\ UNCHANGED <<owner, walked, kept, changes>>
      /\ kept \subseteq BaseQuery(walked) /\ BaseQuery(walked) \subseteq Id /\ page \subseteq Id
  BY DEF Answered, TypeOK, BaseQuery
<1>2. CASE page = {}
  <2>1. after' = after /\ pc' = "done"
    BY <1>2 DEF Answered
  <2>. QED
    BY <1>1, <1>2, <2>1 DEF TypeOK, PageInv, BaseQuery
<1>3. CASE page # {}
  <2>. DEFINE last == Max(page)
              end  == Max(BaseQuery(walked))
  <2>1. last \in page /\ \A p \in page : p <= last
    BY <1>1, <1>3, HighestIsMax
  <2>2. BaseQuery(walked) # {} => end \in Id /\ \A n \in BaseQuery(walked) : n <= end
    BY <1>1, HighestIsMax
  <2>3. /\ after' = last /\ BaseQuery(walked) # {}
        /\ pc' = IF last < end THEN "ask" ELSE "done"
    BY <1>3 DEF Answered, EndCursor, LastId
  <2>. HIDE DEF last, end
  <2>4. \A n \in kept : n <= last => n \in seen \cup page
    BY <1>1, <2>1 DEF PageInv, TypeOK
  <2>5. pc' = "done" => kept \subseteq seen \cup page
    BY <1>1, <2>1, <2>2, <2>3, <2>4
  <2>6. TypeOK'
    <3>1. last > after
      BY <2>1 DEF PageInv
    <3>. QED
      BY <1>1, <2>1, <2>3, <3>1 DEF TypeOK, BaseQuery
  <2>7. PageInv'
    BY <1>1, <2>3, <2>4, <2>5 DEF PageInv
  <2>. QED
    BY <2>6, <2>7
<1>. QED
  BY <1>2, <1>3

LEMMA FailedStep ==
    ASSUME IInv, Failed
    PROVE  IInv'
  BY DEF IInv, Failed, TypeOK, PageInv, BaseQuery

LEMMA NextStep ==
    ASSUME IInv, [Next]_vars
    PROVE  IInv'
<1>1. CASE Walk
  BY <1>1, FindStep, AnsweredStep, FailedStep DEF Walk
<1>2. CASE Mutation
  <2>1. ASSUME NEW c \in Collection, NEW n \in Id, Import(c, n)
        PROVE  IInv'
    BY <2>1, ChangeStep DEF Import
  <2>2. ASSUME NEW R \in SUBSET Nodes, Remove(R)
        PROVE  IInv'
    <3>1. walked \in Collection
      BY DEF IInv, TypeOK
    <3>. QED
      BY <2>2, <3>1, ChangeStep DEF Remove
  <2>3. ASSUME NEW c \in Collection, NEW N \in SUBSET Id, NEW R \in SUBSET BaseQuery(c),
               UpdateById(c, R, N)
        PROVE  IInv'
    <3>1. R \subseteq Nodes
      BY NoneAssumption DEF BaseQuery, Nodes
    <3>. QED
      BY <2>3, <3>1, ChangeStep DEF UpdateById
  <2>. QED
    BY <1>2, <2>1, <2>2, <2>3 DEF Mutation
<1>3. CASE Done \/ UNCHANGED vars
  BY <1>3 DEF Done, vars, clientVars, IInv, TypeOK, PageInv, BaseQuery
<1>. QED
  BY <1>1, <1>2, <1>3 DEF Next

LEMMA InitIInv == Init => IInv
  BY BoundAssumption DEF Init, IInv, TypeOK, PageInv, BaseQuery, Id

(* Every page and every mutation between two statements keeps the invariant. *)
THEOREM Invariance == Spec => []IInv
<1>. QED
  BY InitIInv, NextStep, PTL DEF Spec

(* The variables keep their types; in particular the client was shown nothing *)
(* after its end cursor.                                                       *)
THEOREM TypeCorrect == Spec => []TypeOK
<1>1. IInv => TypeOK
  BY DEF IInv
<1>. QED
  BY Invariance, <1>1, PTL

(* Who follows the end cursors is shown every node that was there all along, *)
(* and none twice, whatever happens to the others meanwhile.                  *)
THEOREM PagesAddUp == Spec => []NoneSkipped
<1>1. IInv => NoneSkipped
  BY BoundAssumption DEF IInv, TypeOK, PageInv, NoneSkipped, Id
<1>. QED
  BY Invariance, <1>1, PTL

=============================================================================
