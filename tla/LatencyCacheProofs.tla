-------------------------- MODULE LatencyCacheProofs --------------------------
(***************************************************************************)
(* Proofs about LatencyCache, for any callers, nodes and links, and        *)
(* whatever happens to them as often as it does.                           *)
(*                                                                         *)
(* Every link on its way into the cache or an answer is one that its node  *)
(* had when it was read, and is that of another node only if the id was    *)
(* given again since; an answer is cut down to nodes that were listed      *)
(* while the query ran, or probed for it.                                  *)
(***************************************************************************)
EXTENDS LatencyCache, TLAPS

(* The links of the nodes, and those that are still to be probed, are among *)
(* those the nodes have had, unless the id has become another node's.       *)
HadInv ==
    /\ \A n \in Nodes : link[n] \in had[n]
    /\ \A c \in Caller : \A n \in DOMAIN todo[c] \ reusedFor[c] : todo[c][n] \in had[n]

(* A caller knows only nodes that it met; the results that are not its     *)
(* answer yet are gone when it might return them, and so is what it has    *)
(* still to probe.                                                         *)
MetInv ==
    \A c \in Caller :
      /\ pc[c] # "idle" => Nodes \subseteq met[c]
      /\ listed[c] \subseteq met[c] /\ (pc[c] = "idle" => listed[c] = {})
      /\ pc[c] \in {"idle", "waiting", "refreshing", "listing", "merging"} => DOMAIN found[c] = {}
      /\ pc[c] = "testing" => DOMAIN todo[c] \cup DOMAIN found[c] \subseteq met[c]
      /\ pc[c] \notin {"probing", "testing"} => DOMAIN todo[c] = {}

IInv ==
    /\ TypeOK
    /\ HadInv
    /\ MetInv
    /\ Attributed
    /\ AnswersMet

-----------------------------------------------------------------------------
(* What the parts of results are made of. *)
LEMMA ResultsAre ==
    ASSUME NEW f
    PROVE  f \in Results <=> /\ DOMAIN f \subseteq Node /\ f \in [DOMAIN f -> Link]
  BY DEF Results

LEMMA OverIs ==
    ASSUME NEW f \in Results, NEW g \in Results
    PROVE  /\ Over(f, g) \in Results
           /\ DOMAIN Over(f, g) = DOMAIN f \cup DOMAIN g
           /\ \A n \in DOMAIN f : Over(f, g)[n] = f[n]
           /\ \A n \in DOMAIN g \ DOMAIN f : Over(f, g)[n] = g[n]
<1>1. /\ DOMAIN f \subseteq Node /\ \A n \in DOMAIN f : f[n] \in Link
      /\ DOMAIN g \subseteq Node /\ \A n \in DOMAIN g : g[n] \in Link
  BY ResultsAre
<1>2. /\ DOMAIN Over(f, g) = DOMAIN f \cup DOMAIN g
      /\ \A n \in DOMAIN f : Over(f, g)[n] = f[n]
      /\ \A n \in DOMAIN g \ DOMAIN f : Over(f, g)[n] = g[n]
  BY DEF Over
<1>3. Over(f, g) \in [DOMAIN f \cup DOMAIN g -> Link]
  BY <1>1 DEF Over
<1>. QED
  BY <1>1, <1>2, <1>3, ResultsAre

LEMMA RestrictIs ==
    ASSUME NEW f \in Results, NEW S, S \subseteq DOMAIN f
    PROVE  /\ Restrict(f, S) \in Results
           /\ DOMAIN Restrict(f, S) = S
           /\ \A n \in S : Restrict(f, S)[n] = f[n]
  BY DEF Restrict, Results

LEMMA NothingIs == Nothing \in Results /\ DOMAIN Nothing = {}
  BY DEF Nothing, Results

(* A reader of the database finds nodes with links that they have now. *)
LEMMA ReadIs ==
    ASSUME TypeOK, HadInv, NEW N, N \subseteq Nodes
    PROVE  /\ [n \in N |-> link[n]] \in Results
           /\ DOMAIN [n \in N |-> link[n]] = N
           /\ \A n \in N : [k \in N |-> link[k]][n] \in had[n]
  BY DEF TypeOK, HadInv, Nodes, IsNode, Results

(* What is matched with the snapshot of a plane are links the nodes have. *)
LEMMA RuntimeIs ==
    ASSUME TypeOK, HadInv, NEW c \in Caller, NEW runtime \in RuntimeResults(snapshot[c])
    PROVE  /\ runtime \in Results
           /\ \A n \in DOMAIN runtime : runtime[n] \in had[n]
<1>1. runtime \in Results /\ \A n \in DOMAIN runtime : runtime[n] \in snapshot[c] /\ runtime[n] = link[n]
  BY DEF RuntimeResults, Matches
<1>2. DOMAIN runtime \subseteq Node
  BY <1>1, ResultsAre
<1>3. \A n \in DOMAIN runtime : link[n] \in Link
  BY <1>1 DEF TypeOK
<1>4. \A n \in DOMAIN runtime : n \in Nodes
  BY <1>2, <1>3, NoneAssumption DEF Nodes, IsNode
<1>. QED
  BY <1>1, <1>4 DEF HadInv

LEMMA ReplyIs ==
    ASSUME NEW c \in Caller, NEW merged \in Results
    PROVE  /\ Reply(c, merged) \in Results
           /\ DOMAIN Reply(c, merged) = listed[c] \cap DOMAIN merged
           /\ \A n \in DOMAIN Reply(c, merged) : Reply(c, merged)[n] = merged[n]
  BY RestrictIs DEF Reply

(* A probe moves one node from what is to do to what is found. *)
LEMMA ProbeIs ==
    ASSUME TypeOK, NEW c \in Caller, Probe(c)
    PROVE  /\ todo' \in [Caller -> Results] /\ found' \in [Caller -> Results]
           /\ \A b \in Caller \ {c} : todo'[b] = todo[b] /\ found'[b] = found[b]
           /\ \E n \in DOMAIN todo[c] :
                /\ DOMAIN todo'[c] = DOMAIN todo[c] \ {n} /\ DOMAIN found'[c] = DOMAIN found[c] \cup {n}
                /\ \A k \in DOMAIN todo'[c] : todo'[c][k] = todo[c][k]
                /\ \A k \in DOMAIN found'[c] : found'[c][k] = IF k = n THEN todo[c][n] ELSE found[c][k]
<1>1. todo[c] \in Results /\ found[c] \in Results
  BY DEF TypeOK
<1>2. PICK n \in DOMAIN todo[c] :
         /\ todo' = [todo EXCEPT ![c] = Restrict(todo[c], DOMAIN todo[c] \ {n})]
         /\ found' = [found EXCEPT ![c] = Over(Restrict(todo[c], {n}), found[c])]
  BY DEF Probe, TypeOK
<1>. DEFINE left == Restrict(todo[c], DOMAIN todo[c] \ {n})
            one  == Restrict(todo[c], {n})
            more == Over(one, found[c])
<1>3. /\ left \in Results /\ DOMAIN left = DOMAIN todo[c] \ {n}
      /\ \A k \in DOMAIN left : left[k] = todo[c][k]
  BY <1>1, RestrictIs
<1>4. one \in Results /\ DOMAIN one = {n} /\ one[n] = todo[c][n]
  BY <1>1, RestrictIs
<1>. HIDE DEF left, one
<1>5. /\ more \in Results /\ DOMAIN more = DOMAIN one \cup DOMAIN found[c]
      /\ \A k \in DOMAIN one : more[k] = one[k]
      /\ \A k \in DOMAIN found[c] \ DOMAIN one : more[k] = found[c][k]
  BY <1>1, <1>4, OverIs
<1>6. todo' = [todo EXCEPT ![c] = left] /\ found' = [found EXCEPT ![c] = more]
  BY <1>2 DEF left, one
<1>. HIDE DEF more
<1>7. /\ todo' \in [Caller -> Results] /\ found' \in [Caller -> Results]
      /\ todo'[c] = left /\ found'[c] = more
      /\ \A b \in Caller \ {c} : todo'[b] = todo[b] /\ found'[b] = found[b]
  BY <1>3, <1>5, <1>6 DEF TypeOK
<1>8. /\ DOMAIN found'[c] = DOMAIN found[c] \cup {n}
      /\ \A k \in DOMAIN found'[c] : found'[c][k] = IF k = n THEN todo[c][n] ELSE found[c][k]
  BY <1>4, <1>5, <1>7
<1>. QED
  BY <1>3, <1>7, <1>8

(* What is had except on S, joined with or cut down, is had except there. *)
LEMMA OverHad ==
    ASSUME NEW S, NEW f \in Results, \A n \in DOMAIN f \ S : f[n] \in had[n],
           NEW T, NEW g \in Results, \A n \in DOMAIN g \ T : g[n] \in had[n]
    PROVE  /\ Over(f, g) \in Results
           /\ \A n \in DOMAIN Over(f, g) \ ((T \ DOMAIN f) \cup (DOMAIN f \cap S)) :
                Over(f, g)[n] \in had[n]
<1>1. /\ Over(f, g) \in Results /\ DOMAIN Over(f, g) = DOMAIN f \cup DOMAIN g
      /\ \A n \in DOMAIN f : Over(f, g)[n] = f[n]
      /\ \A n \in DOMAIN g \ DOMAIN f : Over(f, g)[n] = g[n]
  BY OverIs
<1>. HIDE DEF Over
<1>. QED
  BY <1>1

LEMMA ReplyHad ==
    ASSUME NEW c \in Caller, NEW S, NEW f \in Results, \A n \in DOMAIN f \ S : f[n] \in had[n]
    PROVE  /\ DOMAIN Reply(c, f) \subseteq listed[c]
           /\ \A n \in DOMAIN Reply(c, f) \ S : Reply(c, f)[n] \in had[n]
<1>1. /\ DOMAIN Reply(c, f) = listed[c] \cap DOMAIN f
      /\ \A n \in DOMAIN Reply(c, f) : Reply(c, f)[n] = f[n]
  BY ReplyIs
<1>. QED
  BY <1>1

(* What callers and cache have is typed, and the nodes have had it. *)
LEMMA KnownHad ==
    ASSUME TypeOK, Attributed, NEW c \in Caller
    PROVE  /\ found[c] \in Results /\ \A n \in DOMAIN found[c] \ reusedFor[c] : found[c][n] \in had[n]
           /\ items \in Results /\ \A n \in DOMAIN items \ reused : items[n] \in had[n]
  BY DEF TypeOK, Attributed

LEMMA ReusedType ==
    ASSUME TypeOK, NEW f \in Results, NEW since \in SUBSET Node
    PROVE  ReusedBy(DOMAIN f, since) \in SUBSET Node
  BY ResultsAre DEF ReusedBy, TypeOK

(* So is the cache when a caller has stored what it found. *)
LEMMA StoredHad ==
    ASSUME TypeOK, Attributed, NEW c \in Caller
    PROVE  \A n \in DOMAIN Over(found[c], items) \ ReusedBy(DOMAIN found[c], reusedFor[c]) :
             Over(found[c], items)[n] \in had[n]
  BY KnownHad, OverHad DEF ReusedBy

(* What a step that starts a refresh has found. *)
RefreshApart ==
    \A c \in Caller : pc[c] = "waiting" /\ pc'[c] = "refreshing" =>
        refreshed = 0 \/ now - refreshed >= Interval

(* The variables keep their types. *)
LEMMA TypeStep ==
    ASSUME IInv, [Next]_vars
    PROVE  TypeOK'
<1>. USE NoneAssumption, BoundAssumption
     DEF IInv, TypeOK, world, cache, callers, history, Phase
<1>1. CASE Tick
  BY <1>1 DEF Tick
<1>2. ASSUME NEW n \in Node, NEW l \in Link \cup {Gone}, NodeChange(n, l)
      PROVE  TypeOK'
  BY <1>2 DEF NodeChange, Changes, Results
<1>2a. ASSUME NEW n \in Node, NEW l \in Link, NodeImport(n, l)
      PROVE  TypeOK'
  BY <1>2a DEF NodeImport, Changes, InHand, Results
<1>3. ASSUME NEW L \in SUBSET Link, PlaneReload(L)
      PROVE  TypeOK'
  BY <1>3 DEF PlaneReload, Changes
<1>4. ASSUME NEW l \in Link, PlaneCheck(l)
      PROVE  TypeOK'
  BY <1>4 DEF PlaneCheck
<1>5. ASSUME NEW c \in Caller, QueryBegin(c)
      PROVE  TypeOK'
  BY <1>5 DEF QueryBegin, Goes, Nodes
<1>6. ASSUME NEW c \in Caller, Enter(c)
      PROVE  TypeOK'
  BY <1>6 DEF Enter, Goes
<1>7. ASSUME NEW c \in Caller, RefreshBegin(c)
      PROVE  TypeOK'
  <2>1. [n \in Nodes |-> link[n]] \in Results
    BY ReadIs
  <2>. QED
    BY <1>7, <2>1 DEF RefreshBegin, Goes
<1>8. ASSUME NEW c \in Caller, RefreshFails(c)
      PROVE  TypeOK'
  BY <1>8 DEF RefreshFails, Goes
<1>9. ASSUME NEW c \in Caller, RefreshEnd(c)
      PROVE  TypeOK'
  <2>1. /\ found[c] \in Results /\ Over(found[c], items) \in Results /\ Nothing \in Results
        /\ ReusedBy(DOMAIN found[c], reusedFor[c]) \in SUBSET Node
    BY OverIs, NothingIs, ReusedType
  <2>. QED
    BY <1>9, <2>1 DEF RefreshEnd, Goes, Store
<1>10. ASSUME NEW c \in Caller, NEW N \in Asked, List(c, N)
      PROVE  TypeOK'
  BY <1>10 DEF List, Goes, Nodes
<1>11. ASSUME NEW c \in Caller, ListFails(c)
      PROVE  TypeOK'
  BY <1>11 DEF ListFails, Goes
<1>12. ASSUME NEW c \in Caller, Merge(c)
      PROVE  TypeOK'
  <2>1. Reply(c, items) \in Results
    BY ReplyIs
  <2>. QED
    BY <1>12, <2>1 DEF Merge, Goes
<1>13. ASSUME NEW c \in Caller, StoreRuntime(c)
      PROVE  TypeOK'
  <2>1. PICK runtime \in RuntimeResults(snapshot[c]) :
           /\ Store(runtime) /\ found' = [found EXCEPT ![c] = Reply(c, Over(runtime, found[c]))]
           /\ reused' = ReusedBy(DOMAIN runtime, {})
           /\ reusedFor' = [reusedFor EXCEPT ![c] = reusedFor[c] \ DOMAIN runtime]
    BY <1>13 DEF StoreRuntime
  <2>2. runtime \in Results /\ found[c] \in Results
    BY RuntimeIs
  <2>3. /\ Over(runtime, items) \in Results /\ Reply(c, Over(runtime, found[c])) \in Results
        /\ ReusedBy(DOMAIN runtime, {}) \in SUBSET Node
    BY <2>2, OverIs, ReplyIs, ReusedType
  <2>. QED
    BY <1>13, <2>1, <2>3 DEF StoreRuntime, Goes, Store
<1>14. ASSUME NEW c \in Caller, Probe(c)
      PROVE  TypeOK'
  <2>1. PICK n \in DOMAIN todo[c] :
           /\ DOMAIN todo'[c] = DOMAIN todo[c] \ {n} /\ DOMAIN found'[c] = DOMAIN found[c] \cup {n}
           /\ \A k \in DOMAIN todo'[c] : todo'[c][k] = todo[c][k]
           /\ \A k \in DOMAIN found'[c] : found'[c][k] = IF k = n THEN todo[c][n] ELSE found[c][k]
    BY <1>14, ProbeIs
  <2>2. UNCHANGED <<now, world, cache, refreshMu, pc, listed, snapshot, history>>
    BY <1>14 DEF Probe
  <2>3. pc[c] \in {"probing", "testing"}
    BY <1>14 DEF Probe
  <2>4. /\ todo' \in [Caller -> Results] /\ found' \in [Caller -> Results]
        /\ \A b \in Caller \ {c} : todo'[b] = todo[b] /\ found'[b] = found[b]
    BY <1>14, ProbeIs
  <2>. QED
    BY <2>1, <2>2, <2>3, <2>4
<1>15. ASSUME NEW c \in Caller, TestEnd(c)
      PROVE  TypeOK'
  <2>1. /\ found[c] \in Results /\ Over(found[c], items) \in Results
        /\ ReusedBy(DOMAIN found[c], reusedFor[c]) \in SUBSET Node
    BY OverIs, ReusedType
  <2>. QED
    BY <1>15, <2>1 DEF TestEnd, Goes, Store
<1>16. ASSUME NEW c \in Caller, Return(c)
      PROVE  TypeOK'
  BY <1>16, NothingIs DEF Return, Goes
<1>17. ASSUME NEW c \in Caller, NEW N \in Asked, TestBegin(c, N)
      PROVE  TypeOK'
  <2>1. Nodes \subseteq Node /\ [n \in Nodes \cap N |-> link[n]] \in Results
    BY ReadIs DEF Nodes
  <2>. QED
    BY <1>17, <2>1 DEF TestBegin, Goes
<1>18. CASE UNCHANGED vars
  BY <1>18 DEF vars
<1>. QED
  BY <1>1, <1>2, <1>2a, <1>3, <1>4, <1>5, <1>6, <1>7, <1>8, <1>9, <1>10, <1>11,
     <1>12, <1>13, <1>14, <1>15, <1>16, <1>17, <1>18
     DEF Next, WorldStep, CallerStep, QueryStep, TestStep

(* Links that were read are links the nodes have had. *)
LEMMA HadStep ==
    ASSUME IInv, [Next]_vars
    PROVE  HadInv'
<1>. USE NoneAssumption, BoundAssumption
     DEF IInv, TypeOK, world, cache, callers, history, HadInv, Nodes, IsNode
<1>1. CASE Tick
  BY <1>1 DEF Tick
<1>2. ASSUME NEW n \in Node, NEW l \in Link \cup {Gone}, NodeChange(n, l)
      PROVE  HadInv'
  BY <1>2 DEF NodeChange, Changes
<1>2a. ASSUME NEW n \in Node, NEW l \in Link, NodeImport(n, l)
      PROVE  HadInv'
  BY <1>2a DEF NodeImport, Changes, InHand
<1>3. ASSUME NEW L \in SUBSET Link, PlaneReload(L)
      PROVE  HadInv'
  BY <1>3 DEF PlaneReload, Changes
<1>4. ASSUME NEW l \in Link, PlaneCheck(l)
      PROVE  HadInv'
  BY <1>4 DEF PlaneCheck
<1>5. ASSUME NEW c \in Caller, QueryBegin(c)
      PROVE  HadInv'
  BY <1>5 DEF QueryBegin, Goes
<1>6. ASSUME NEW c \in Caller, Enter(c)
      PROVE  HadInv'
  BY <1>6 DEF Enter, Goes
<1>7. ASSUME NEW c \in Caller, RefreshBegin(c)
      PROVE  HadInv'
  BY <1>7 DEF RefreshBegin, Goes
<1>8. ASSUME NEW c \in Caller, RefreshFails(c)
      PROVE  HadInv'
  BY <1>8 DEF RefreshFails, Goes
<1>9. ASSUME NEW c \in Caller, RefreshEnd(c)
      PROVE  HadInv'
  BY <1>9 DEF RefreshEnd, Goes, Store
<1>10. ASSUME NEW c \in Caller, NEW N \in Asked, List(c, N)
      PROVE  HadInv'
  BY <1>10 DEF List, Goes
<1>11. ASSUME NEW c \in Caller, ListFails(c)
      PROVE  HadInv'
  BY <1>11 DEF ListFails, Goes
<1>12. ASSUME NEW c \in Caller, Merge(c)
      PROVE  HadInv'
  BY <1>12 DEF Merge, Goes, MetInv
<1>13. ASSUME NEW c \in Caller, StoreRuntime(c)
      PROVE  HadInv'
  BY <1>13 DEF StoreRuntime, Goes, Store, MetInv
<1>14. ASSUME NEW c \in Caller, Probe(c)
      PROVE  HadInv'
  <2>1. PICK n \in DOMAIN todo[c] :
           /\ DOMAIN todo'[c] = DOMAIN todo[c] \ {n} /\ DOMAIN found'[c] = DOMAIN found[c] \cup {n}
           /\ \A k \in DOMAIN todo'[c] : todo'[c][k] = todo[c][k]
           /\ \A k \in DOMAIN found'[c] : found'[c][k] = IF k = n THEN todo[c][n] ELSE found[c][k]
    BY <1>14, ProbeIs
  <2>2. UNCHANGED <<now, world, cache, refreshMu, pc, listed, snapshot, history>>
    BY <1>14 DEF Probe
  <2>3. pc[c] \in {"probing", "testing"}
    BY <1>14 DEF Probe
  <2>4. /\ todo' \in [Caller -> Results] /\ found' \in [Caller -> Results]
        /\ \A b \in Caller \ {c} : todo'[b] = todo[b] /\ found'[b] = found[b]
    BY <1>14, ProbeIs
  <2>. QED
    BY <2>1, <2>2, <2>3, <2>4
<1>15. ASSUME NEW c \in Caller, TestEnd(c)
      PROVE  HadInv'
  BY <1>15 DEF TestEnd, Goes, Store
<1>16. ASSUME NEW c \in Caller, Return(c)
      PROVE  HadInv'
  BY <1>16 DEF Return, Goes, MetInv
<1>17. ASSUME NEW c \in Caller, NEW N \in Asked, TestBegin(c, N)
      PROVE  HadInv'
  BY <1>17 DEF TestBegin, Goes
<1>18. CASE UNCHANGED vars
  BY <1>18 DEF vars
<1>. QED
  BY <1>1, <1>2, <1>2a, <1>3, <1>4, <1>5, <1>6, <1>7, <1>8, <1>9, <1>10, <1>11,
     <1>12, <1>13, <1>14, <1>15, <1>16, <1>17, <1>18
     DEF Next, WorldStep, CallerStep, QueryStep, TestStep

(* Callers know only nodes they met. *)
LEMMA MetStep ==
    ASSUME IInv, [Next]_vars
    PROVE  MetInv'
<1>. USE NoneAssumption, BoundAssumption
     DEF IInv, TypeOK, world, cache, callers, history, MetInv, Nodes, IsNode
<1>1. CASE Tick
  BY <1>1 DEF Tick
<1>2. ASSUME NEW n \in Node, NEW l \in Link \cup {Gone}, NodeChange(n, l)
      PROVE  MetInv'
  BY <1>2 DEF NodeChange, Changes
<1>2a. ASSUME NEW n \in Node, NEW l \in Link, NodeImport(n, l)
      PROVE  MetInv'
  BY <1>2a DEF NodeImport, Changes
<1>3. ASSUME NEW L \in SUBSET Link, PlaneReload(L)
      PROVE  MetInv'
  BY <1>3 DEF PlaneReload, Changes
<1>4. ASSUME NEW l \in Link, PlaneCheck(l)
      PROVE  MetInv'
  BY <1>4 DEF PlaneCheck
<1>5. ASSUME NEW c \in Caller, QueryBegin(c)
      PROVE  MetInv'
  BY <1>5 DEF QueryBegin, Goes
<1>6. ASSUME NEW c \in Caller, Enter(c)
      PROVE  MetInv'
  BY <1>6 DEF Enter, Goes
<1>7. ASSUME NEW c \in Caller, RefreshBegin(c)
      PROVE  MetInv'
  BY <1>7 DEF RefreshBegin, Goes
<1>8. ASSUME NEW c \in Caller, RefreshFails(c)
      PROVE  MetInv'
  BY <1>8 DEF RefreshFails, Goes
<1>9. ASSUME NEW c \in Caller, RefreshEnd(c)
      PROVE  MetInv'
  BY <1>9, NothingIs DEF RefreshEnd, Goes
<1>10. ASSUME NEW c \in Caller, NEW N \in Asked, List(c, N)
      PROVE  MetInv'
  BY <1>10 DEF List, Goes
<1>11. ASSUME NEW c \in Caller, ListFails(c)
      PROVE  MetInv'
  BY <1>11 DEF ListFails, Goes
<1>12. ASSUME NEW c \in Caller, Merge(c)
      PROVE  MetInv'
  BY <1>12 DEF Merge, Goes, Reply
<1>13. ASSUME NEW c \in Caller, StoreRuntime(c)
      PROVE  MetInv'
  BY <1>13 DEF StoreRuntime, Goes, Store, Reply
<1>14. ASSUME NEW c \in Caller, Probe(c)
      PROVE  MetInv'
  <2>1. PICK n \in DOMAIN todo[c] :
           /\ DOMAIN todo'[c] = DOMAIN todo[c] \ {n} /\ DOMAIN found'[c] = DOMAIN found[c] \cup {n}
           /\ \A k \in DOMAIN todo'[c] : todo'[c][k] = todo[c][k]
           /\ \A k \in DOMAIN found'[c] : found'[c][k] = IF k = n THEN todo[c][n] ELSE found[c][k]
    BY <1>14, ProbeIs
  <2>2. UNCHANGED <<now, world, cache, refreshMu, pc, listed, snapshot, history>>
    BY <1>14 DEF Probe
  <2>3. pc[c] \in {"probing", "testing"}
    BY <1>14 DEF Probe
  <2>4. /\ todo' \in [Caller -> Results] /\ found' \in [Caller -> Results]
        /\ \A b \in Caller \ {c} : todo'[b] = todo[b] /\ found'[b] = found[b]
    BY <1>14, ProbeIs
  <2>. QED
    BY <2>1, <2>2, <2>3, <2>4
<1>15. ASSUME NEW c \in Caller, TestEnd(c)
      PROVE  MetInv'
  BY <1>15 DEF TestEnd, Goes, Store
<1>16. ASSUME NEW c \in Caller, Return(c)
      PROVE  MetInv'
  BY <1>16, NothingIs DEF Return, Goes
<1>17. ASSUME NEW c \in Caller, NEW N \in Asked, TestBegin(c, N)
      PROVE  MetInv'
  BY <1>17 DEF TestBegin, Goes
<1>18. CASE UNCHANGED vars
  BY <1>18 DEF vars
<1>. QED
  BY <1>1, <1>2, <1>2a, <1>3, <1>4, <1>5, <1>6, <1>7, <1>8, <1>9, <1>10, <1>11,
     <1>12, <1>13, <1>14, <1>15, <1>16, <1>17, <1>18
     DEF Next, WorldStep, CallerStep, QueryStep, TestStep

(* Results stay with the nodes they are about. *)
LEMMA AttributedStep ==
    ASSUME IInv, [Next]_vars
    PROVE  Attributed'
<1>. USE NoneAssumption, BoundAssumption
     DEF IInv, TypeOK, world, cache, callers, history, Attributed, HadInv
<1>1. CASE Tick
  BY <1>1 DEF Tick
<1>2. ASSUME NEW n \in Node, NEW l \in Link \cup {Gone}, NodeChange(n, l)
      PROVE  Attributed'
  BY <1>2 DEF NodeChange, Changes
<1>2a. ASSUME NEW n \in Node, NEW l \in Link, NodeImport(n, l)
      PROVE  Attributed'
  BY <1>2a DEF NodeImport, Changes, InHand
<1>3. ASSUME NEW L \in SUBSET Link, PlaneReload(L)
      PROVE  Attributed'
  BY <1>3 DEF PlaneReload, Changes
<1>4. ASSUME NEW l \in Link, PlaneCheck(l)
      PROVE  Attributed'
  BY <1>4 DEF PlaneCheck
<1>5. ASSUME NEW c \in Caller, QueryBegin(c)
      PROVE  Attributed'
  BY <1>5 DEF QueryBegin, Goes
<1>6. ASSUME NEW c \in Caller, Enter(c)
      PROVE  Attributed'
  BY <1>6 DEF Enter, Goes
<1>7. ASSUME NEW c \in Caller, RefreshBegin(c)
      PROVE  Attributed'
  BY <1>7 DEF RefreshBegin, Goes
<1>8. ASSUME NEW c \in Caller, RefreshFails(c)
      PROVE  Attributed'
  BY <1>8 DEF RefreshFails, Goes
<1>9. ASSUME NEW c \in Caller, RefreshEnd(c)
      PROVE  Attributed'
  <2>. HIDE DEF TypeOK, Attributed, HadInv
  <2>1. /\ items' = Over(found[c], items) /\ had' = had
        /\ reused' = ReusedBy(DOMAIN found[c], reusedFor[c])
        /\ found'[c] = Nothing
        /\ \A b \in Caller \ {c} : found'[b] = found[b] /\ reusedFor'[b] = reusedFor[b]
    BY <1>9 DEF RefreshEnd, Store, TypeOK
  <2>. QED
    BY <2>1, StoredHad, NothingIs DEF Attributed
<1>10. ASSUME NEW c \in Caller, NEW N \in Asked, List(c, N)
      PROVE  Attributed'
  BY <1>10 DEF List, Goes
<1>11. ASSUME NEW c \in Caller, ListFails(c)
      PROVE  Attributed'
  BY <1>11 DEF ListFails, Goes
<1>12. ASSUME NEW c \in Caller, Merge(c)
      PROVE  Attributed'
  <2>. HIDE DEF TypeOK, Attributed, HadInv
  <2>1. \A n \in DOMAIN Reply(c, items) \ reused : Reply(c, items)[n] \in had[n]
    BY KnownHad, ReplyHad
  <2>2. /\ items' = items /\ had' = had /\ reused' = reused
        /\ found'[c] \in {items, Reply(c, items)} /\ reusedFor'[c] = reused
        /\ \A b \in Caller \ {c} : found'[b] = found[b] /\ reusedFor'[b] = reusedFor[b]
    BY <1>12 DEF Merge, TypeOK
  <2>. QED
    BY <2>1, <2>2 DEF Attributed
<1>13. ASSUME NEW c \in Caller, StoreRuntime(c)
      PROVE  Attributed'
  <2>. HIDE DEF TypeOK, Attributed, HadInv
  <2>1. PICK runtime \in RuntimeResults(snapshot[c]) :
           /\ Store(runtime) /\ found' = [found EXCEPT ![c] = Reply(c, Over(runtime, found[c]))]
           /\ reused' = ReusedBy(DOMAIN runtime, {})
           /\ reusedFor' = [reusedFor EXCEPT ![c] = reusedFor[c] \ DOMAIN runtime]
    BY <1>13 DEF StoreRuntime
  <2>2. runtime \in Results /\ \A n \in DOMAIN runtime \ {} : runtime[n] \in had[n]
    BY RuntimeIs
  <2>3. /\ Over(runtime, found[c]) \in Results
        /\ \A n \in DOMAIN Over(runtime, found[c]) \ (reusedFor[c] \ DOMAIN runtime) :
             Over(runtime, found[c])[n] \in had[n]
    BY <2>2, KnownHad, OverHad
  <2>4. \A n \in DOMAIN Over(runtime, items) \ ReusedBy(DOMAIN runtime, {}) :
          Over(runtime, items)[n] \in had[n]
    BY <2>2, KnownHad, OverHad DEF ReusedBy
  <2>5. \A n \in DOMAIN Reply(c, Over(runtime, found[c])) \ (reusedFor[c] \ DOMAIN runtime) :
          Reply(c, Over(runtime, found[c]))[n] \in had[n]
    BY <2>3, ReplyHad
  <2>6. /\ had' = had /\ items' = Over(runtime, items)
        /\ found'[c] = Reply(c, Over(runtime, found[c]))
        /\ reusedFor'[c] = reusedFor[c] \ DOMAIN runtime
        /\ \A b \in Caller \ {c} : found'[b] = found[b] /\ reusedFor'[b] = reusedFor[b]
    BY <1>13, <2>1 DEF StoreRuntime, Store, TypeOK
  <2>. QED
    BY <2>1, <2>4, <2>5, <2>6 DEF Attributed
<1>14. ASSUME NEW c \in Caller, Probe(c)
      PROVE  Attributed'
  <2>1. PICK n \in DOMAIN todo[c] :
           /\ DOMAIN todo'[c] = DOMAIN todo[c] \ {n} /\ DOMAIN found'[c] = DOMAIN found[c] \cup {n}
           /\ \A k \in DOMAIN todo'[c] : todo'[c][k] = todo[c][k]
           /\ \A k \in DOMAIN found'[c] : found'[c][k] = IF k = n THEN todo[c][n] ELSE found[c][k]
    BY <1>14, ProbeIs
  <2>2. UNCHANGED <<now, world, cache, refreshMu, pc, listed, snapshot, history>>
    BY <1>14 DEF Probe
  <2>3. pc[c] \in {"probing", "testing"}
    BY <1>14 DEF Probe
  <2>4. /\ todo' \in [Caller -> Results] /\ found' \in [Caller -> Results]
        /\ \A b \in Caller \ {c} : todo'[b] = todo[b] /\ found'[b] = found[b]
    BY <1>14, ProbeIs
  <2>. QED
    BY <2>1, <2>2, <2>3, <2>4
<1>15. ASSUME NEW c \in Caller, TestEnd(c)
      PROVE  Attributed'
  <2>. HIDE DEF TypeOK, Attributed, HadInv
  <2>1. /\ items' = Over(found[c], items) /\ had' = had /\ found' = found
        /\ reused' = ReusedBy(DOMAIN found[c], reusedFor[c]) /\ reusedFor' = reusedFor
    BY <1>15 DEF TestEnd, Store
  <2>. QED
    BY <2>1, StoredHad DEF Attributed
<1>16. ASSUME NEW c \in Caller, Return(c)
      PROVE  Attributed'
  BY <1>16, NothingIs DEF Return, Goes
<1>17. ASSUME NEW c \in Caller, NEW N \in Asked, TestBegin(c, N)
      PROVE  Attributed'
  BY <1>17 DEF TestBegin, Goes
<1>18. CASE UNCHANGED vars
  BY <1>18 DEF vars
<1>. QED
  BY <1>1, <1>2, <1>2a, <1>3, <1>4, <1>5, <1>6, <1>7, <1>8, <1>9, <1>10, <1>11,
     <1>12, <1>13, <1>14, <1>15, <1>16, <1>17, <1>18
     DEF Next, WorldStep, CallerStep, QueryStep, TestStep

(* Answers are about nodes the caller met. *)
LEMMA AnswersStep ==
    ASSUME IInv, [Next]_vars
    PROVE  AnswersMet'
<1>. USE NoneAssumption, BoundAssumption
     DEF IInv, TypeOK, world, cache, callers, history, AnswersMet, MetInv
<1>1. CASE Tick
  BY <1>1 DEF Tick
<1>2. ASSUME NEW n \in Node, NEW l \in Link \cup {Gone}, NodeChange(n, l)
      PROVE  AnswersMet'
  BY <1>2 DEF NodeChange, Changes
<1>2a. ASSUME NEW n \in Node, NEW l \in Link, NodeImport(n, l)
      PROVE  AnswersMet'
  BY <1>2a DEF NodeImport, Changes
<1>3. ASSUME NEW L \in SUBSET Link, PlaneReload(L)
      PROVE  AnswersMet'
  BY <1>3 DEF PlaneReload, Changes
<1>4. ASSUME NEW l \in Link, PlaneCheck(l)
      PROVE  AnswersMet'
  BY <1>4 DEF PlaneCheck
<1>5. ASSUME NEW c \in Caller, QueryBegin(c)
      PROVE  AnswersMet'
  BY <1>5 DEF QueryBegin, Goes
<1>6. ASSUME NEW c \in Caller, Enter(c)
      PROVE  AnswersMet'
  BY <1>6 DEF Enter, Goes
<1>7. ASSUME NEW c \in Caller, RefreshBegin(c)
      PROVE  AnswersMet'
  BY <1>7 DEF RefreshBegin, Goes
<1>8. ASSUME NEW c \in Caller, RefreshFails(c)
      PROVE  AnswersMet'
  BY <1>8 DEF RefreshFails, Goes
<1>9. ASSUME NEW c \in Caller, RefreshEnd(c)
      PROVE  AnswersMet'
  BY <1>9 DEF RefreshEnd, Goes, Store
<1>10. ASSUME NEW c \in Caller, NEW N \in Asked, List(c, N)
      PROVE  AnswersMet'
  BY <1>10 DEF List, Goes
<1>11. ASSUME NEW c \in Caller, ListFails(c)
      PROVE  AnswersMet'
  BY <1>11 DEF ListFails, Goes
<1>12. ASSUME NEW c \in Caller, Merge(c)
      PROVE  AnswersMet'
  <2>1. DOMAIN Reply(c, items) \subseteq listed[c]
    <3>. HIDE DEF TypeOK, MetInv, AnswersMet
    <3>. QED
      BY KnownHad, ReplyHad
  <2>. QED
    BY <1>12, <2>1 DEF Merge, Goes
<1>13. ASSUME NEW c \in Caller, StoreRuntime(c)
      PROVE  AnswersMet'
  <2>1. PICK runtime \in RuntimeResults(snapshot[c]) :
           found' = [found EXCEPT ![c] = Reply(c, Over(runtime, found[c]))]
    BY <1>13 DEF StoreRuntime
  <2>2. DOMAIN Reply(c, Over(runtime, found[c])) \subseteq listed[c]
    <3>. HIDE DEF TypeOK, MetInv, AnswersMet
    <3>1. runtime \in Results /\ \A n \in DOMAIN runtime \ {} : runtime[n] \in had[n]
      BY <2>1, RuntimeIs
    <3>. QED
      BY <3>1, KnownHad, OverHad, ReplyHad
  <2>. QED
    BY <1>13, <2>1, <2>2 DEF StoreRuntime, Goes
<1>14. ASSUME NEW c \in Caller, Probe(c)
      PROVE  AnswersMet'
  BY <1>14 DEF Probe
<1>15. ASSUME NEW c \in Caller, TestEnd(c)
      PROVE  AnswersMet'
  BY <1>15 DEF TestEnd, Goes, Store
<1>16. ASSUME NEW c \in Caller, Return(c)
      PROVE  AnswersMet'
  BY <1>16 DEF Return, Goes
<1>17. ASSUME NEW c \in Caller, NEW N \in Asked, TestBegin(c, N)
      PROVE  AnswersMet'
  BY <1>17 DEF TestBegin, Goes
<1>18. CASE UNCHANGED vars
  BY <1>18 DEF vars
<1>. QED
  BY <1>1, <1>2, <1>2a, <1>3, <1>4, <1>5, <1>6, <1>7, <1>8, <1>9, <1>10, <1>11,
     <1>12, <1>13, <1>14, <1>15, <1>16, <1>17, <1>18
     DEF Next, WorldStep, CallerStep, QueryStep, TestStep

(* Who refreshes has found the cache old with the mutex in hand. *)
LEMMA ApartStep ==
    ASSUME IInv, [Next]_vars
    PROVE  RefreshApart
<1>. USE NoneAssumption, BoundAssumption
     DEF IInv, TypeOK, world, cache, callers, history, RefreshApart
<1>1. CASE Tick
  BY <1>1 DEF Tick
<1>2. ASSUME NEW n \in Node, NEW l \in Link \cup {Gone}, NodeChange(n, l)
      PROVE  RefreshApart
  BY <1>2 DEF NodeChange, Changes
<1>2a. ASSUME NEW n \in Node, NEW l \in Link, NodeImport(n, l)
      PROVE  RefreshApart
  BY <1>2a DEF NodeImport, Changes
<1>3. ASSUME NEW L \in SUBSET Link, PlaneReload(L)
      PROVE  RefreshApart
  BY <1>3 DEF PlaneReload, Changes
<1>4. ASSUME NEW l \in Link, PlaneCheck(l)
      PROVE  RefreshApart
  BY <1>4 DEF PlaneCheck
<1>5. ASSUME NEW c \in Caller, QueryBegin(c)
      PROVE  RefreshApart
  BY <1>5 DEF QueryBegin, Goes
<1>6. ASSUME NEW c \in Caller, Enter(c)
      PROVE  RefreshApart
  BY <1>6, IntervalAssumption DEF Enter, Goes, Recent
<1>7. ASSUME NEW c \in Caller, RefreshBegin(c)
      PROVE  RefreshApart
  BY <1>7 DEF RefreshBegin, Goes
<1>8. ASSUME NEW c \in Caller, RefreshFails(c)
      PROVE  RefreshApart
  BY <1>8 DEF RefreshFails, Goes
<1>9. ASSUME NEW c \in Caller, RefreshEnd(c)
      PROVE  RefreshApart
  BY <1>9 DEF RefreshEnd, Goes, Store
<1>10. ASSUME NEW c \in Caller, NEW N \in Asked, List(c, N)
      PROVE  RefreshApart
  BY <1>10 DEF List, Goes
<1>11. ASSUME NEW c \in Caller, ListFails(c)
      PROVE  RefreshApart
  BY <1>11 DEF ListFails, Goes
<1>12. ASSUME NEW c \in Caller, Merge(c)
      PROVE  RefreshApart
  BY <1>12 DEF Merge, Goes, Reply
<1>13. ASSUME NEW c \in Caller, StoreRuntime(c)
      PROVE  RefreshApart
  BY <1>13 DEF StoreRuntime, Goes, Store, Reply
<1>14. ASSUME NEW c \in Caller, Probe(c)
      PROVE  RefreshApart
  BY <1>14 DEF Probe
<1>15. ASSUME NEW c \in Caller, TestEnd(c)
      PROVE  RefreshApart
  BY <1>15 DEF TestEnd, Goes, Store
<1>16. ASSUME NEW c \in Caller, Return(c)
      PROVE  RefreshApart
  BY <1>16 DEF Return, Goes
<1>17. ASSUME NEW c \in Caller, NEW N \in Asked, TestBegin(c, N)
      PROVE  RefreshApart
  BY <1>17 DEF TestBegin, Goes
<1>18. CASE UNCHANGED vars
  BY <1>18 DEF vars
<1>. QED
  BY <1>1, <1>2, <1>2a, <1>3, <1>4, <1>5, <1>6, <1>7, <1>8, <1>9, <1>10, <1>11,
     <1>12, <1>13, <1>14, <1>15, <1>16, <1>17, <1>18
     DEF Next, WorldStep, CallerStep, QueryStep, TestStep

LEMMA InitIInv == Init => IInv
<1>. SUFFICES ASSUME Init PROVE IInv
  OBVIOUS
<1>. USE BoundAssumption, FirstAssumption, NoneAssumption, NothingIs DEF Init
<1>1. TypeOK
  BY DEF TypeOK, Phase
<1>2. HadInv /\ MetInv
  BY DEF HadInv, MetInv, Nodes, IsNode
<1>3. Attributed /\ AnswersMet
  BY DEF Attributed, AnswersMet
<1>. QED
  BY <1>1, <1>2, <1>3 DEF IInv

(* Every step of the callers, the nodes and the control plane keeps the invariant. *)
THEOREM Invariance == Spec => []IInv
<1>1. IInv /\ [Next]_vars => IInv'
  BY TypeStep, HadStep, MetStep, AttributedStep, AnswersStep DEF IInv
<1>. QED
  BY InitIInv, <1>1, PTL DEF Spec

(* The variables keep their types; in particular the mutex is held by the one caller *)
(* that refreshes, and an empty cache has no time.                                    *)
THEOREM TypeCorrect == Spec => []TypeOK
<1>1. IInv => TypeOK
  BY DEF IInv
<1>. QED
  BY Invariance, <1>1, PTL

(* No result is cached or answered for a node that never had the link it was measured on, *)
(* unless the node got the id of another one after the measured link was read.             *)
THEOREM ResultsAttributed == Spec => []Attributed
<1>1. IInv => Attributed
  BY DEF IInv
<1>. QED
  BY Invariance, <1>1, PTL

(* No query is answered with a node that was removed before it began. *)
THEOREM OnlyMetAnswered == Spec => []AnswersMet
<1>1. IInv => AnswersMet
  BY DEF IInv
<1>. QED
  BY Invariance, <1>1, PTL

(* Between the end of a refresh and the start of the next one is an Interval. *)
THEOREM OneRefreshForABurst == Spec => RefreshesApart
<1>1. IInv /\ [Next]_vars => [RefreshApart]_vars
  BY ApartStep
<1>. QED
  BY Invariance, <1>1, PTL DEF Spec, RefreshesApart, RefreshApart

================================================================================
