------------------------------ MODULE LatencyCache ------------------------------
(***************************************************************************)
(* The cache of node latencies (graphql/service/node/latency_cache.go) and *)
(* those who fill it: a query that finds it old probes every node, a       *)
(* mutation probes the nodes it names, and every query copies what the     *)
(* running control plane has measured by itself.                           *)
(*                                                                         *)
(* A measurement is the link that was probed; of its time, the properties  *)
(* need only that of the cache.  Nodes come, go and change their links     *)
(* between any two reads of the database, and the id of one that is gone   *)
(* may be given to a new one: the primary key is a plain integer of SQLite *)
(* (db/node.go:15), which gives out the highest id of the table plus one.  *)
(* Any removed id may come back here.  The control plane is external: it   *)
(* measures the links it was loaded with when it likes.  A query reads the *)
(* cache and the plane at one instant.                                     *)
(***************************************************************************)
EXTENDS Naturals, Functions

CONSTANTS
    Caller,     \* requests that are served at the same time
    Node,       \* ids of nodes
    Link,       \* links of nodes
    FirstLink,  \* the nodes in the database at first
    FirstLoaded, \* the links the plane is loaded with at first
    Asked,      \* the sets of nodes a request may name
    Interval,   \* check_interval of the selected config
    MaxTime,    \* bound: the clock stops there
    MaxChange,  \* bound: mutations of nodes and reloads in a behaviour
    New, Gone,  \* an id that no node has had yet, or none has any more
    None

ASSUME IntervalAssumption == Interval \in Nat \ {0}
ASSUME BoundAssumption == MaxTime \in Nat \ {0} /\ MaxChange \in Nat
ASSUME AskedAssumption == Asked \subseteq SUBSET Node
ASSUME FirstAssumption ==
    FirstLink \in [Node -> Link \cup {New}] /\ FirstLoaded \subseteq Link
ASSUME NoneAssumption == None \notin Caller /\ New \notin Link /\ Gone \notin Link

VARIABLES
    now,        \* time.Now(); 0 is the zero time
    link,       \* the link of each node, or New or Gone
    loaded,     \* the links the plane was loaded with
    measured,   \* those of them it has measured
    items,      \* nodeLatencyCache.items
    updatedAt,  \* nodeLatencyCache.updatedAt
    refreshMu,  \* the caller that holds nodeLatencyCache.refreshMu, or None
    pc,         \* where each caller is
    todo,       \* the nodes it read and has still to probe, with their links
    found,      \* its results, at last those it returns
    listed,     \* the nodes its query is about
    snapshot,   \* the links it saw measured by the plane
    had,        \* history: the links each node has had, the last one with this id
    met,        \* history: the nodes there were since its query began
    refreshed,  \* history: the time of the last complete refresh
    reused,     \* history: the ids another node got after what is cached of them was read
    reusedFor,  \* history: the same for what each caller has
    changes     \* history: number of mutations and reloads

world   == <<link, loaded, measured, had, changes>>
cache   == <<items, updatedAt>>
callers == <<pc, todo, found, listed, snapshot>>
history == <<met, refreshed, reused, reusedFor>>
vars    == <<now, world, cache, refreshMu, callers, history>>

IsNode(n) == link[n] \notin {New, Gone}
Nodes == {n \in Node : IsNode(n)}
Nothing == [n \in {} |-> None]

(* The nodes of which c has read or found something. *)
InHand(c) == DOMAIN todo[c] \cup DOMAIN found[c]

(* f, and where it says nothing, g. *)
Over(f, g) == [x \in DOMAIN f \cup DOMAIN g |-> IF x \in DOMAIN f THEN f[x] ELSE g[x]]

Phase == {"idle", "waiting", "refreshing", "probing", "testing", "listing",
          "merging", "matching", "returned"}

(* Links by node, for some of the nodes. *)
Results == UNION {[N -> Link] : N \in SUBSET Node}

TypeOK ==
    /\ now \in 1..MaxTime
    /\ link \in [Node -> Link \cup {New, Gone}]
    /\ loaded \subseteq Link /\ measured \subseteq loaded
    /\ items \in Results
    /\ updatedAt \in 0..now
    /\ updatedAt = 0 => DOMAIN items = {}
    /\ refreshMu \in Caller \cup {None}
    /\ pc \in [Caller -> Phase]
    /\ \A c \in Caller : (pc[c] \in {"refreshing", "probing"}) <=> (refreshMu = c)
    /\ todo \in [Caller -> Results] /\ found \in [Caller -> Results]
    /\ listed \in [Caller -> SUBSET Node] /\ met \in [Caller -> SUBSET Node]
    /\ snapshot \in [Caller -> SUBSET Link]
    /\ had \in [Node -> SUBSET Link]
    /\ changes \in 0..MaxChange
    /\ refreshed \in 0..updatedAt
    /\ reused \in SUBSET Node /\ reusedFor \in [Caller -> SUBSET Node]

Init ==
    /\ now = 1
    /\ link = FirstLink
    /\ loaded = FirstLoaded
    /\ measured = {}
    /\ items = Nothing
    /\ updatedAt = 0
    /\ refreshMu = None
    /\ pc = [c \in Caller |-> "idle"]
    /\ todo = [c \in Caller |-> Nothing]
    /\ found = [c \in Caller |-> Nothing]
    /\ listed = [c \in Caller |-> {}]
    /\ snapshot = [c \in Caller |-> {}]
    /\ had = [n \in Node |-> IF link[n] = New THEN {} ELSE {link[n]}]
    /\ met = [c \in Caller |-> {}]
    /\ refreshed = 0
    /\ reused = {}
    /\ reusedFor = [c \in Caller |-> {}]
    /\ changes = 0

(* The operators commented as a slip stand for a plausible mistake in the   *)
(* definition that follows them; no behaviour of the system uses them.      *)

-----------------------------------------------------------------------------
(* The surroundings. *)

Tick ==
    /\ now < MaxTime
    /\ now' = now + 1
    /\ UNCHANGED <<world, cache, refreshMu, callers, history>>

Changes == changes < MaxChange /\ changes' = changes + 1

(* Update and Remove (l is Gone) of package node. *)
NodeChange(n, l) ==
    /\ Changes
    /\ IsNode(n) /\ l # link[n]
    /\ link' = [link EXCEPT ![n] = l]
    /\ had' = [had EXCEPT ![n] = @ \cup ({l} \ {Gone})]
    /\ UNCHANGED <<now, loaded, measured, cache, refreshMu, callers, history>>

(* importNode, with the id of a removed node or a new one.  The refresh of *)
(* a subscription removes and imports in one transaction, so that an id    *)
(* may go from a node to another without a moment in between.  What was    *)
(* read of it before is of another node.                                   *)
NodeImport(n, l) ==
    /\ Changes
    /\ link' = [link EXCEPT ![n] = l]
    /\ had' = [had EXCEPT ![n] = {l}]
    /\ met' = [c \in Caller |-> IF pc[c] = "idle" THEN met[c] ELSE met[c] \cup {n}]
    /\ reused' = reused \cup ({n} \cap DOMAIN items)
    /\ reusedFor' = [c \in Caller |-> reusedFor[c] \cup ({n} \cap InHand(c))]
    /\ UNCHANGED <<now, loaded, measured, cache, refreshMu, callers, refreshed>>

(* dae loads a configuration: a control plane has measured nothing yet.    *)
PlaneReload(L) ==
    /\ Changes
    /\ loaded' = L
    /\ measured' = {}
    /\ UNCHANGED <<now, link, had, cache, refreshMu, callers, history>>

PlaneCheck(l) ==
    /\ l \in loaded
    /\ measured' = measured \cup {l}
    /\ UNCHANGED <<now, link, loaded, had, changes, cache, refreshMu, callers, history>>

-----------------------------------------------------------------------------
Goes(c, from, to) == pc[c] = from /\ pc' = [pc EXCEPT ![c] = to]

(* storeLatencyResults: the time is set whatever the results are. *)
Store(results) ==
    /\ items' = Over(results, items)
    /\ updatedAt' = now

(* History: the ids given again since the cache read what it has of them,  *)
(* when results for N are stored that know of the reuse of since.          *)
ReusedBy(N, since) == (reused \ N) \cup (N \cap since)

Recent == updatedAt # 0 /\ now - updatedAt < Interval

(* TestLatencies: the nodes it names, or all. *)
TestBegin(c, N) ==
    /\ Goes(c, "idle", "testing")
    /\ todo' = [todo EXCEPT ![c] = [n \in Nodes \cap N |-> link[n]]]
    /\ met' = [met EXCEPT ![c] = Nodes]
    /\ UNCHANGED <<now, world, cache, refreshMu, found, listed, snapshot, refreshed, reused,
                   reusedFor>>

(* testSingleNodeLatency. *)
Probe(c) ==
    /\ pc[c] \in {"probing", "testing"}
    /\ \E n \in DOMAIN todo[c] :
         /\ todo' = [todo EXCEPT ![c] = Restrict(@, DOMAIN @ \ {n})]
         /\ found' = [found EXCEPT ![c] = Over(Restrict(todo[c], {n}), @)]
    /\ UNCHANGED <<now, world, cache, refreshMu, pc, listed, snapshot, history>>

TestEnd(c) ==
    /\ Goes(c, "testing", "returned")
    /\ DOMAIN todo[c] = {}
    /\ Store(found[c])
    /\ reused' = ReusedBy(DOMAIN found[c], reusedFor[c])
    /\ UNCHANGED <<now, world, refreshMu, todo, found, listed, snapshot, met, refreshed,
                   reusedFor>>

(* refreshLatencyCacheIfNeeded before the mutex.  Without a selected config *)
(* or with one that does not parse there is no refresh.                     *)
QueryBegin(c) ==
    /\ \/ Recent /\ Goes(c, "idle", "listing")
       \/ ~Recent /\ Goes(c, "idle", "waiting")
       \/ Goes(c, "idle", "listing")
    /\ met' = [met EXCEPT ![c] = Nodes]
    /\ UNCHANGED <<now, world, cache, refreshMu, todo, found, listed, snapshot, refreshed, reused,
                   reusedFor>>

(* Slip: who waited for the mutex does not look again. *)
EnterAnyhow(c) ==
    /\ refreshMu = None
    /\ Goes(c, "waiting", "refreshing") /\ refreshMu' = c
    /\ UNCHANGED <<now, world, cache, todo, found, listed, snapshot, history>>

(* With the mutex it looks again. *)
Enter(c) ==
    /\ refreshMu = None
    /\ \/ Recent /\ Goes(c, "waiting", "listing") /\ UNCHANGED refreshMu
       \/ ~Recent /\ Goes(c, "waiting", "refreshing") /\ refreshMu' = c
    /\ UNCHANGED <<now, world, cache, todo, found, listed, snapshot, history>>

RefreshBegin(c) ==
    /\ Goes(c, "refreshing", "probing")
    /\ todo' = [todo EXCEPT ![c] = [n \in Nodes |-> link[n]]]
    /\ UNCHANGED <<now, world, cache, refreshMu, found, listed, snapshot, history>>

(* Slip: the mutex is not released on this path. *)
RefreshFailsLocked(c) ==
    /\ Goes(c, "refreshing", "listing")
    /\ UNCHANGED <<now, world, cache, refreshMu, todo, found, listed, snapshot, history>>

(* The config is deselected meanwhile, or the nodes cannot be read: the    *)
(* query goes on with what the cache has.                                  *)
RefreshFails(c) ==
    /\ Goes(c, "refreshing", "listing")
    /\ refreshMu' = None
    /\ UNCHANGED <<now, world, cache, todo, found, listed, snapshot, history>>

RefreshEnd(c) ==
    /\ Goes(c, "probing", "listing")
    /\ DOMAIN todo[c] = {}
    /\ Store(found[c])
    /\ refreshMu' = None
    /\ refreshed' = now
    /\ found' = [found EXCEPT ![c] = Nothing]
    /\ reused' = ReusedBy(DOMAIN found[c], reusedFor[c])
    /\ reusedFor' = [reusedFor EXCEPT ![c] = {}]
    /\ UNCHANGED <<now, world, todo, listed, snapshot, met>>

(* QueryLatencies after the refresh: the nodes N, or all. *)
List(c, N) ==
    /\ Goes(c, "listing", "merging")
    /\ listed' = [listed EXCEPT ![c] = Nodes \cap N]
    /\ UNCHANGED <<now, world, cache, refreshMu, todo, found, snapshot, history>>

ListFails(c) ==
    /\ Goes(c, "listing", "returned")
    /\ UNCHANGED <<now, world, cache, refreshMu, todo, found, listed, snapshot, history>>

(* Slip: the answer is everything there is. *)
ReplyWithAll(c, merged) == merged

Reply(c, merged) == Restrict(merged, listed[c] \cap DOMAIN merged)

(* snapshotCachedLatencyResults and SnapshotNodeLatencies: without a plane *)
(* the query is over.                                                      *)
Merge(c) ==
    /\ \/ /\ loaded = {}
          /\ Goes(c, "merging", "returned")
          /\ found' = [found EXCEPT ![c] = Reply(c, items)]
          /\ UNCHANGED snapshot
       \/ /\ loaded # {}
          /\ Goes(c, "merging", "matching")
          /\ found' = [found EXCEPT ![c] = items]
          /\ snapshot' = [snapshot EXCEPT ![c] = measured]
    /\ reusedFor' = [reusedFor EXCEPT ![c] = reused]
    /\ UNCHANGED <<now, world, cache, refreshMu, todo, listed, met, refreshed, reused>>

(* Slip: the links of the plane are paired with the nodes in order. *)
MatchInOrder(seen, n) == seen

(* The measured link a node in the database has. *)
Matches(seen, n) == seen \cap {link[n]}

(* The results loadRuntimeLatencyResults may make of what it saw: of the   *)
(* nodes with the same link, nodeByLink has one.                           *)
RuntimeResults(seen) ==
    {of \in Results :
        /\ \A n \in DOMAIN of : of[n] \in Matches(seen, n)
        /\ \A n \in Node : \A l \in Matches(seen, n) :
             \E m \in DOMAIN of : of[m] = l /\ \A k \in DOMAIN of : of[k] = l => k = m}

(* What the plane measured is stored and replaces what was cached. *)
StoreRuntime(c) ==
    /\ Goes(c, "matching", "returned")
    /\ \E runtime \in RuntimeResults(snapshot[c]) :
         /\ Store(runtime)
         /\ found' = [found EXCEPT ![c] = Reply(c, Over(runtime, found[c]))]
         /\ reused' = ReusedBy(DOMAIN runtime, {})
         /\ reusedFor' = [reusedFor EXCEPT ![c] = @ \ DOMAIN runtime]
    /\ UNCHANGED <<now, world, refreshMu, todo, listed, snapshot, met, refreshed>>

(* The request is served, and its locals are gone. *)
Return(c) ==
    /\ Goes(c, "returned", "idle")
    /\ found' = [found EXCEPT ![c] = Nothing]
    /\ listed' = [listed EXCEPT ![c] = {}]
    /\ snapshot' = [snapshot EXCEPT ![c] = {}]
    /\ met' = [met EXCEPT ![c] = {}]
    /\ reusedFor' = [reusedFor EXCEPT ![c] = {}]
    /\ UNCHANGED <<now, world, cache, refreshMu, todo, refreshed, reused>>

-----------------------------------------------------------------------------
WorldStep ==
    \/ Tick
    \/ \E n \in Node, l \in Link \cup {Gone} : NodeChange(n, l)
    \/ \E n \in Node, l \in Link : NodeImport(n, l)
    \/ \E L \in SUBSET Link : PlaneReload(L)
    \/ \E l \in Link : PlaneCheck(l)

TestStep(c) == Probe(c) \/ TestEnd(c) \/ Return(c)

QueryStep(c) ==
    \/ Enter(c)
    \/ RefreshBegin(c) \/ RefreshFails(c) \/ RefreshEnd(c)
    \/ \E N \in Asked : List(c, N)
    \/ ListFails(c) \/ Merge(c) \/ StoreRuntime(c)

CallerStep(c) ==
    QueryBegin(c) \/ QueryStep(c) \/ TestStep(c) \/ \E N \in Asked : TestBegin(c, N)

Next == WorldStep \/ \E c \in Caller : CallerStep(c)

(* A probe ends by its timeout; sync.Mutex hands itself to who waits       *)
(* longest.                                                                *)
Fairness ==
    \A c \in Caller :
        WF_vars(TestStep(c)) /\ WF_vars(QueryStep(c)) /\ SF_vars(Enter(c))

Spec == Init /\ [][Next]_vars /\ Fairness

-----------------------------------------------------------------------------
(* A burst of queries on an old cache refreshes it once: whoever gets the  *)
(* mutex starts a refresh only if the last complete one is an Interval     *)
(* ago (latency_cache.go:180-193).                                         *)
RefreshesApart ==
    [][\A c \in Caller :
         pc[c] = "waiting" /\ pc'[c] = "refreshing" =>
             refreshed = 0 \/ now - refreshed >= Interval]_vars

(* What is cached or answered for a node was measured on a link that this  *)
(* node has had, however the nodes change while probes, snapshots of the   *)
(* plane and lists of nodes are under way; unless its id was another       *)
(* node's and was given to it after the measured link was read.  The cache *)
(* is keyed by ids and never cleared, so it answers for the new node with  *)
(* what was measured on the old one until it is probed itself.             *)
Attributed ==
    /\ \A n \in DOMAIN items \ reused : items[n] \in had[n]
    /\ \A c \in Caller : \A n \in DOMAIN found[c] \ reusedFor[c] : found[c][n] \in had[n]

(* Entries are never deleted from the cache, and yet no query is answered  *)
(* with a node that was removed before it began.                           *)
AnswersMet == \A c \in Caller : pc[c] = "returned" => DOMAIN found[c] \subseteq met[c]

(* Every query and every test returns, with failing refreshes and with     *)
(* others before it at the mutex.                                          *)
CallersReturn == \A c \in Caller : pc[c] # "idle" ~> pc[c] = "idle"

=============================================================================
