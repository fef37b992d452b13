------------------------------ MODULE NodePages ------------------------------
(***************************************************************************)
(* Paging through nodes (graphql/service/node/connection_resolver.go)      *)
(* while they are imported, removed and refreshed.                         *)
(*                                                                         *)
(* A client asks for the nodes of a collection, a subscription or the      *)
(* nodes of none, page after page: each time the first so many after the   *)
(* end cursor of the page before, until hasNextPage is false.  The server  *)
(* answers with two statements, each of which sees the table as it is by   *)
(* then: one finds the page, the other the last id.                        *)
(*                                                                         *)
(* A cursor encodes an id and stands for it.  SQLite, external, returns    *)
(* rows by id when nothing else is asked for, and gives a new row an id    *)
(* that is greater than those present; whether that of a removed row can   *)
(* come back is left open.  The client is external too, and asks with a    *)
(* first that is not 0.                                                    *)
(***************************************************************************)
EXTENDS Naturals, FiniteSets, FiniteSetsExt

CONSTANTS
    Collection,     \* subscriptions, and one for the nodes of none
    First,          \* values of first; NoLimit when it is not given, or negative
    NoLimit,
    MaxId,          \* bound: ids of nodes
    MaxChange,      \* bound: mutations
    None

Id == 1..MaxId

ASSUME NoneAssumption == None \notin Collection
ASSUME FirstAssumption == First \subseteq (Nat \ {0}) \cup {NoLimit} /\ NoLimit \notin Nat
ASSUME BoundAssumption == MaxId \in Nat /\ MaxChange \in Nat

VARIABLES
    owner,      \* the nodes table: the collection of each id, or None
    pc,         \* where the request of the client is
    walked,     \* the collection the client pages through
    after,      \* the end cursor of the page before, 0 at first
    page,       \* the models found
    seen,       \* the nodes of the pages before
    kept,       \* history: nodes that are there since the client began
    changes     \* mutations so far

clientVars == <<pc, walked, after, page, seen>>
vars == <<owner, clientVars, kept, changes>>

Nodes == {n \in Id : owner[n] # None}

(* baseQuery *)
BaseQuery(c) == {n \in Id : owner[n] = c}

TypeOK ==
    /\ owner \in [Id -> Collection \cup {None}]
    /\ pc \in {"begin", "ask", "found", "done"}
    /\ walked \in Collection
    /\ after \in Id \cup {0}
    /\ page \subseteq Id
    /\ seen \subseteq 1..after
    /\ kept \subseteq BaseQuery(walked)
    /\ changes \in 0..MaxChange

Init ==
    /\ owner \in [Id -> Collection \cup {None}]
    /\ pc = "begin"
    /\ walked \in Collection
    /\ after = 0
    /\ page = {}
    /\ seen = {}
    /\ kept = {}
    /\ changes = 0

(* The operators commented as a slip stand for a plausible mistake in the   *)
(* definition that follows them; no behaviour of the system uses them.      *)

-----------------------------------------------------------------------------
(* The mutations, each a transaction: R is removed, then N imported for c. *)
Change(R, c, N) ==
    /\ changes < MaxChange
    /\ \A n \in N : \A m \in Nodes \ R : n > m
    /\ owner' = [n \in Id |-> IF n \in N THEN c ELSE IF n \in R THEN None ELSE owner[n]]
    /\ kept' = kept \ R
    /\ changes' = changes + 1
    /\ UNCHANGED clientVars

Import(c, n) == Change({}, c, {n})

Remove(R) == R # {} /\ Change(R, None, {})

(* The update of a subscription removes those nodes that are in no group   *)
(* by themselves, and is rolled back when nothing can be imported.         *)
UpdateById(c, R, N) == N # {} /\ Change(R, c, N)

-----------------------------------------------------------------------------
Limited(S, limit) == {n \in S : limit = NoLimit \/ Cardinality({m \in S : m < n}) < limit}

(* Slip: the cursor itself is included. *)
FromCursor(c) == {n \in BaseQuery(c) : n >= after}

(* Slip: as many as were seen are skipped, an offset in place of a cursor. *)
AfterOffset(c) == {n \in BaseQuery(c) : Cardinality({m \in BaseQuery(c) : m < n}) >= Cardinality(seen)}

AfterCursor(c) == {n \in BaseQuery(c) : n > after}

FindPage ==
    /\ pc \in {"begin", "ask"} /\ pc' = "found"
    /\ \E first \in First : page' = Limited(AfterCursor(walked), first)
    /\ kept' = IF pc = "begin" THEN BaseQuery(walked) ELSE kept
    /\ UNCHANGED <<owner, walked, after, seen, changes>>

(* Slip: in gorm's own order, First reads the lowest id. *)
LowestId(S) == Min(S)

LastId(S) == Max(S)

(* Slip: the start cursor is taken for the end cursor. *)
StartCursor == Min(page)

EndCursor == Max(page)

(* PageInfo; edges and page information arrive together. *)
Answered ==
    /\ pc = "found"
    /\ page # {} => BaseQuery(walked) # {}
    /\ pc' = IF page # {} /\ Max(page) < LastId(BaseQuery(walked)) THEN "ask" ELSE "done"
    /\ after' = IF page = {} THEN after ELSE EndCursor
    /\ seen' = seen \cup page
    /\ page' = {}
    /\ UNCHANGED <<owner, walked, kept, changes>>

(* Nothing is left to read the last id of: the request fails, and the      *)
(* client repeats it.                                                      *)
Failed ==
    /\ pc = "found"
    /\ page # {} /\ BaseQuery(walked) = {}
    /\ pc' = "ask"
    /\ page' = {}
    /\ UNCHANGED <<owner, walked, after, seen, kept, changes>>

-----------------------------------------------------------------------------
Walk == FindPage \/ Answered \/ Failed

Mutation ==
    \/ \E c \in Collection, n \in Id : Import(c, n)
    \/ \E R \in SUBSET Nodes : Remove(R)
    \/ \E c \in Collection, N \in SUBSET Id : \E R \in SUBSET BaseQuery(c) : UpdateById(c, R, N)

Done == pc = "done" /\ UNCHANGED vars

Next == Walk \/ Mutation \/ Done

(* The client does not give up, and the server answers. *)
Spec == Init /\ [][Next]_vars /\ WF_vars(Walk)

-----------------------------------------------------------------------------
(* Whatever is imported, removed or refreshed between two pages, or between *)
(* the two statements that answer for one, a client has in the end seen    *)
(* every node that was there all along, and was never shown one twice      *)
(* (connection_resolver.go:51-107).                                        *)
NoneSkipped ==
    /\ pc = "done" => kept \subseteq seen
    /\ pc = "found" => page \cap seen = {}

(* A client that follows the end cursors gets to a page that has no next   *)
(* one, once the nodes are left alone (connection_resolver.go:57, 106).    *)
PagingEnds == <>(pc = "done")

=============================================================================
