---------------------------- MODULE SubscriptionCron ----------------------------
(***************************************************************************)
(* The schedulers that update subscriptions                                *)
(* (graphql/service/subscription/mutation_utils.go): the cache of          *)
(* schedulers and its mutex, the mutations that change a subscription, the *)
(* jobs the schedulers run, and the start of the process.                  *)
(*                                                                         *)
(* Two locks meet here.  schedulerMu guards the cache and is held while a  *)
(* scheduler stops, which waits for its running job; the write lock of     *)
(* SQLite is held by a mutation from its first write to its commit, and    *)
(* so while it waits for schedulerMu.  A job needs the write lock, but     *)
(* gives up when SQLite's busy timeout expires.                            *)
(*                                                                         *)
(* gocron, external: Stop prevents new jobs and waits for running ones.    *)
(* What an update brings is told by whether a subscription has nodes.      *)
(***************************************************************************)
EXTENDS Naturals, FiniteSets

CONSTANTS
    Sub,            \* ids of subscriptions
    Main,           \* the main goroutine
    Worker,         \* goroutines that execute mutations
    Exp,            \* cron expressions gocron accepts
    DefaultExp,     \* the default of the cron_exp column
    NoExp,          \* "", which passes validation and schedules nothing
    Off,            \* cron_enable is false
    New, Gone,      \* no subscription has the id, yet or any more
    MaxRequest,     \* bound: mutations that start
    None

(* The cron columns of a row: the expression, which does not matter while  *)
(* cron_enable is false.                                                   *)
Row == Exp \cup {NoExp, Off}

ASSUME ExpAssumption ==
    /\ DefaultExp \in Exp
    /\ NoExp \notin Exp /\ Off \notin Exp \cup {NoExp} /\ None \notin Row
ASSUME RowAssumption == New \notin Row \cup {Gone} /\ Gone \notin Row

Thread == Worker \cup {Main}

(* What a transaction is about to make of the rows of subs. *)
Intent == [subs : SUBSET Sub, to : Row \cup {Gone}]

ASSUME NoneAssumption == None \notin Thread \cup Sub \cup Intent
ASSUME RequestAssumption == MaxRequest \in Nat

Op     == {"none", "updateAll", "cron", "remove", "update"}

VARIABLES
    up,         \* "boot" until main has scheduled everything, then "http"
    row,        \* the committed row of each subscription, New or Gone
    hasNodes,   \* the subscriptions that own nodes
    cache,      \* schedulerCache: the expression of the scheduler, or None
    live,       \* how many schedulers of a subscription are started
    mu,         \* the thread that holds schedulerMu, or None
    reserved,   \* the thread whose transaction holds the write lock, or None
    op,         \* the operation each thread executes
    pc,         \* how far it is
    cur,        \* the subscription it is at
    todo,       \* the subscriptions it has still to visit
    seen,       \* the row AddUpdateScheduler read
    tx,         \* what the open transaction of each thread will commit
    job,        \* the job of each subscription's scheduler
    raced,      \* history: served by somebody who had read it before it was
                \* removed or disabled
    requests    \* history: number of mutations

rowVars    == <<row, hasNodes>>
schedVars  == <<cache, live, mu>>
threadVars == <<op, pc, cur, todo, seen, tx>>
vars == <<up, rowVars, schedVars, reserved, threadVars, job, raced, requests>>

Steps == {"idle", "list", "read", "check", "create", "unschedule", "stopping",
          "commit", "fetched"}

TypeOK ==
    /\ up \in {"boot", "http"}
    /\ row \in [Sub -> Row \cup {New, Gone}]
    /\ hasNodes \subseteq Sub
    /\ cache \in [Sub -> Exp \cup {None}]
    /\ live \in [Sub -> 0..1]
    /\ mu \in Thread \cup {None}
    /\ reserved \in Thread \cup {None}
    /\ op \in [Thread -> Op]
    /\ pc \in [Thread -> Steps]
    /\ cur \in [Thread -> Sub \cup {None}]
    /\ todo \in [Thread -> SUBSET Sub]
    /\ seen \in [Thread -> Row \cup {None}]
    /\ tx \in [Thread -> Intent \cup {None}]
    /\ job \in [Sub -> {"idle", "fetching", "fetched"}]
    /\ raced \subseteq Sub
    /\ requests \in 0..MaxRequest

(* main calls UpdateAll before anything else happens. *)
(* The database is one that an earlier life of the process left behind,    *)
(* wherever a crash ended it: only committed rows survive.                 *)
Init ==
    /\ up = "boot"
    /\ row \in [Sub -> Row \cup {New}]
    /\ hasNodes = {s \in Sub : row[s] # New}
    /\ cache = [s \in Sub |-> None]
    /\ live = [s \in Sub |-> 0]
    /\ mu = None
    /\ reserved = None
    /\ op = [t \in Thread |-> IF t = Main THEN "updateAll" ELSE "none"]
    /\ pc = [t \in Thread |-> IF t = Main THEN "list" ELSE "idle"]
    /\ cur = [t \in Thread |-> None]
    /\ todo = [t \in Thread |-> {}]
    /\ seen = [t \in Thread |-> None]
    /\ tx = [t \in Thread |-> None]
    /\ job = [s \in Sub |-> "idle"]
    /\ raced = {}
    /\ requests = 0

Exists(s) == row[s] \in Row

(* The operators commented as a slip stand for a plausible mistake in the   *)
(* definition that follows them; no behaviour of the system uses them.      *)

-----------------------------------------------------------------------------
(* How a thread goes on. *)

Goto(t, step) == pc' = [pc EXCEPT ![t] = step]

(* The next subscription of the loop, or the end of the operation: a       *)
(* transaction commits, main opens the HTTP server.                        *)
Advance(t) ==
    IF todo[t] = {}
    THEN /\ cur' = [cur EXCEPT ![t] = None]
         /\ UNCHANGED todo
         /\ IF op[t] \in {"cron", "remove"}
            THEN Goto(t, "commit") /\ UNCHANGED <<op, up>>
            ELSE /\ Goto(t, "idle")
                 /\ op' = [op EXCEPT ![t] = "none"]
                 /\ up' = IF t = Main THEN "http" ELSE up
    ELSE \E s \in todo[t] :
            /\ cur' = [cur EXCEPT ![t] = s]
            /\ todo' = [todo EXCEPT ![t] = @ \ {s}]
            /\ Goto(t, IF op[t] = "updateAll" THEN "read" ELSE "unschedule")
            /\ UNCHANGED <<op, up>>

-----------------------------------------------------------------------------
(* UpdateAll and AddUpdateScheduler. *)

ListSubscriptions(t) ==
    /\ pc[t] = "list"
    /\ LET all == {s \in Sub : Exists(s)} IN
       IF all = {}
       THEN /\ Goto(t, "idle")
            /\ op' = [op EXCEPT ![t] = "none"]
            /\ up' = IF t = Main THEN "http" ELSE up
            /\ UNCHANGED <<cur, todo>>
       ELSE \E s \in all :
            /\ Goto(t, "read")
            /\ cur' = [cur EXCEPT ![t] = s]
            /\ todo' = [todo EXCEPT ![t] = all \ {s}]
            /\ UNCHANGED <<op, up>>
    /\ UNCHANGED <<rowVars, schedVars, reserved, seen, tx, job, raced, requests>>

(* The ten seconds ImportSubscription allows are over: every read fails. *)
ListExpires(t) ==
    /\ pc[t] \in {"list", "read"}
    /\ op[t] = "updateAll"
    /\ t # Main
    /\ op' = [op EXCEPT ![t] = "none"]
    /\ Goto(t, "idle")
    /\ cur' = [cur EXCEPT ![t] = None]
    /\ todo' = [todo EXCEPT ![t] = {}]
    /\ UNCHANGED <<up, rowVars, schedVars, reserved, seen, tx, job, raced, requests>>

(* Slip: the flag is not looked at. *)
WantsAnything(r) == TRUE

WantsScheduler(r) == r # Off

(* The row is read on a connection of its own, which sees what is          *)
(* committed: UpdateCron's own write is not.                               *)
ReadRow(t) ==
    /\ pc[t] = "read"
    /\ IF Exists(cur[t]) /\ WantsScheduler(row[cur[t]])
       THEN /\ Goto(t, "check")
            /\ seen' = [seen EXCEPT ![t] = row[cur[t]]]
            /\ UNCHANGED <<op, up, cur, todo>>
       ELSE Advance(t) /\ UNCHANGED seen
    /\ UNCHANGED <<rowVars, schedVars, reserved, tx, job, raced, requests>>

(* The read lock. *)
CheckCache(t) ==
    /\ pc[t] = "check"
    /\ mu = None
    /\ IF cache[cur[t]] = None
       THEN Goto(t, "create") /\ UNCHANGED <<op, up, cur, todo, seen>>
       ELSE Advance(t) /\ seen' = [seen EXCEPT ![t] = None]
    /\ UNCHANGED <<rowVars, schedVars, reserved, tx, job, raced, requests>>

(* Slip: the cache is not looked at again under the write lock. *)
CreatesUnchecked(t) == seen[t] # NoExp

Creates(t) == cache[cur[t]] = None /\ seen[t] # NoExp

(* History: t goes on with what it read of s although s is removed or      *)
(* disabled by now, or is about to be by somebody who has unscheduled it.  *)
Overtaken(t, s) ==
    \/ row[s] \in {Off, Gone}
    \/ \E u \in Thread \ {t} :
         /\ tx[u] # None /\ tx[u].to \in {Off, Gone}
         /\ s \in tx[u].subs \ todo[u]
         /\ ~(cur[u] = s /\ pc[u] = "unschedule")

(* The write lock: looked up again, created, started and cached. *)
CreateScheduler(t) ==
    /\ pc[t] = "create"
    /\ mu = None
    /\ IF Creates(t)
       THEN /\ cache' = [cache EXCEPT ![cur[t]] = seen[t]]
            /\ live' = [live EXCEPT ![cur[t]] = @ + 1]
            /\ raced' = raced \cup {s \in {cur[t]} : Overtaken(t, s)}
       ELSE UNCHANGED <<cache, live, raced>>
    /\ Advance(t)
    /\ seen' = [seen EXCEPT ![t] = None]
    /\ UNCHANGED <<rowVars, mu, reserved, tx, job, requests>>

-----------------------------------------------------------------------------
(* RemoveUpdateScheduler, in UpdateCron and Remove, with the write lock of *)
(* the database held.                                                      *)

AfterUnschedule(t) ==
    IF op[t] = "cron" /\ tx[t].to # Off
    THEN Goto(t, "read") /\ UNCHANGED <<op, up, cur, todo>>
    ELSE Advance(t)

Unschedule(t) ==
    /\ pc[t] = "unschedule"
    /\ mu = None
    /\ IF cache[cur[t]] = None
       THEN AfterUnschedule(t) /\ UNCHANGED mu
       ELSE /\ mu' = t
            /\ Goto(t, "stopping")
            /\ UNCHANGED <<op, up, cur, todo>>
    /\ UNCHANGED <<rowVars, cache, live, reserved, seen, tx, job, raced, requests>>

(* Slip: a running job is not waited for. *)
JobIgnored(s) == TRUE

JobDone(s) == job[s] = "idle"

(* Stop returns: the entry is deleted and the mutex released. *)
Stopped(t) ==
    /\ pc[t] = "stopping"
    /\ JobDone(cur[t])
    /\ cache' = [cache EXCEPT ![cur[t]] = None]
    /\ live' = [live EXCEPT ![cur[t]] = @ - 1]
    /\ mu' = None
    /\ raced' = raced \ {cur[t]}
    /\ AfterUnschedule(t)
    /\ UNCHANGED <<rowVars, reserved, seen, tx, job, requests>>

-----------------------------------------------------------------------------
(* The mutations. *)

Begins(t) ==
    /\ up = "http"
    /\ t # Main
    /\ pc[t] = "idle"
    /\ requests < MaxRequest
    /\ requests' = requests + 1

(* ImportSubscription: the subscription and its nodes are committed, and   *)
(* UpdateAll goes over every subscription.  The id may be one that a       *)
(* removed subscription had, and that somebody still has in hand.  A       *)
(* failed import changes nothing.                                          *)
Import(t, s) ==
    /\ Begins(t)
    /\ ~Exists(s)
    /\ reserved = None
    /\ row' = [row EXCEPT ![s] = DefaultExp]
    /\ hasNodes' = hasNodes \cup {s}
    /\ op' = [op EXCEPT ![t] = "updateAll"]
    /\ Goto(t, "list")
    /\ UNCHANGED <<up, schedVars, reserved, cur, todo, seen, tx, job, raced>>

(* Slip: a subscription that is disabled keeps its scheduler. *)
DisableSkips(r) == IF r # Off THEN "unschedule" ELSE "commit"

FirstUnschedule(r) == "unschedule"

(* UpdateCron up to its write; the expression was validated before. *)
CronWrite(t, s, r) ==
    /\ Begins(t)
    /\ Exists(s)
    /\ reserved = None
    /\ reserved' = t
    /\ tx' = [tx EXCEPT ![t] = [subs |-> {s}, to |-> r]]
    /\ op' = [op EXCEPT ![t] = "cron"]
    /\ Goto(t, FirstUnschedule(r))
    /\ cur' = [cur EXCEPT ![t] = s]
    /\ UNCHANGED <<up, rowVars, schedVars, todo, seen, job, raced>>

(* Remove up to its last delete: nodes, bindings and rows. *)
RemoveWrite(t, S) ==
    /\ Begins(t)
    /\ S # {} /\ \A s \in S : Exists(s)
    /\ reserved = None
    /\ reserved' = t
    /\ tx' = [tx EXCEPT ![t] = [subs |-> S, to |-> Gone]]
    /\ op' = [op EXCEPT ![t] = "remove"]
    /\ Goto(t, "unschedule")
    /\ \E s \in S :
         /\ cur' = [cur EXCEPT ![t] = s]
         /\ todo' = [todo EXCEPT ![t] = S \ {s}]
    /\ UNCHANGED <<up, rowVars, schedVars, seen, job, raced>>

TxEnds(t) ==
    /\ pc[t] = "commit"
    /\ reserved' = None
    /\ tx' = [tx EXCEPT ![t] = None]
    /\ op' = [op EXCEPT ![t] = "none"]
    /\ cur' = [cur EXCEPT ![t] = None]
    /\ Goto(t, "idle")
    /\ UNCHANGED <<up, schedVars, todo, seen, job, raced, requests>>

Commit(t) ==
    /\ TxEnds(t)
    /\ LET S  == tx[t].subs
           to == tx[t].to IN
       /\ row' = [s \in Sub |-> IF s \in S THEN to ELSE row[s]]
       /\ hasNodes' = IF to = Gone THEN hasNodes \ S ELSE hasNodes

(* The commit times out behind a long transaction that reads (config.Run); *)
(* its error is not looked at.                                             *)
CommitLost(t) == TxEnds(t) /\ UNCHANGED rowVars

-----------------------------------------------------------------------------
(* UpdateById, as a mutation and as the job of a scheduler: the row is     *)
(* read, the links are fetched, and one transaction replaces the nodes.    *)

UpdateRead(t, s) ==
    /\ Begins(t)
    /\ Exists(s)
    /\ op' = [op EXCEPT ![t] = "update"]
    /\ cur' = [cur EXCEPT ![t] = s]
    /\ Goto(t, "fetched")
    /\ UNCHANGED <<up, rowVars, schedVars, reserved, todo, seen, tx, job, raced>>

UpdateEnds(t) ==
    /\ pc[t] = "fetched"
    /\ op' = [op EXCEPT ![t] = "none"]
    /\ cur' = [cur EXCEPT ![t] = None]
    /\ Goto(t, "idle")
    /\ UNCHANGED <<up, row, schedVars, reserved, todo, seen, tx, job, requests>>

(* Nothing tells whether the subscription is still there. *)
UpdateWrite(t) ==
    /\ UpdateEnds(t)
    /\ reserved = None
    /\ hasNodes' = hasNodes \cup {cur[t]}
    /\ raced' = raced \cup {s \in {cur[t]} : ~Exists(s)}

(* Nothing is fetched, no link is valid, or the write lock does not come.  *)
UpdateFails(t) == UpdateEnds(t) /\ UNCHANGED <<hasNodes, raced>>

(* The job finds no row for a removed subscription and ends. *)
JobStart(s) ==
    /\ live[s] > 0
    /\ job[s] = "idle"
    /\ Exists(s)
    /\ ~ \E t \in Thread : pc[t] = "stopping" /\ cur[t] = s
    /\ job' = [job EXCEPT ![s] = "fetching"]
    /\ UNCHANGED <<up, rowVars, schedVars, reserved, threadVars, raced, requests>>

JobFetched(s) ==
    /\ job[s] = "fetching"
    /\ \E next \in {"fetched", "idle"} : job' = [job EXCEPT ![s] = next]
    /\ UNCHANGED <<up, rowVars, schedVars, reserved, threadVars, raced, requests>>

JobWrite(s) ==
    /\ job[s] = "fetched"
    /\ reserved = None
    /\ hasNodes' = hasNodes \cup {s}
    /\ job' = [job EXCEPT ![s] = "idle"]
    /\ UNCHANGED <<up, row, schedVars, reserved, threadVars, raced, requests>>

(* Slip: a job waits for the write lock as long as it takes. *)
WaitsForever == FALSE

BusyTimeout == reserved # None

JobRefused(s) ==
    /\ job[s] = "fetched"
    /\ BusyTimeout
    /\ job' = [job EXCEPT ![s] = "idle"]
    /\ UNCHANGED <<up, rowVars, schedVars, reserved, threadVars, raced, requests>>

-----------------------------------------------------------------------------
TakesMutex(t) == CheckCache(t) \/ CreateScheduler(t) \/ Unschedule(t)

OtherStep(t) ==
    \/ ListSubscriptions(t) \/ ListExpires(t) \/ ReadRow(t) \/ Stopped(t)
    \/ Commit(t) \/ CommitLost(t) \/ UpdateWrite(t) \/ UpdateFails(t)

JobEnds(s) == JobFetched(s) \/ JobWrite(s) \/ JobRefused(s)

Request(t) ==
    \/ \E s \in Sub : Import(t, s) \/ UpdateRead(t, s) \/ \E r \in Row : CronWrite(t, s, r)
    \/ \E S \in SUBSET Sub : RemoveWrite(t, S)

Next ==
    \/ \E t \in Thread : TakesMutex(t) \/ OtherStep(t) \/ Request(t)
    \/ \E s \in Sub : JobStart(s) \/ JobEnds(s)

(* Goroutines that can go on do; sync.RWMutex starves nobody; a fetch has  *)
(* a timeout of five seconds.  Nobody has to call a mutation, and no clock *)
(* has to strike.                                                          *)
Fairness ==
    /\ \A t \in Thread : SF_vars(TakesMutex(t)) /\ WF_vars(OtherStep(t))
    /\ \A s \in Sub : WF_vars(JobEnds(s))

Spec == Init /\ [][Next]_vars /\ Fairness

-----------------------------------------------------------------------------
(* At most one scheduler of a subscription is started, and it is the one   *)
(* the cache knows and so the one RemoveUpdateScheduler stops: UpdateAll   *)
(* may run in many goroutines (mutation_utils.go:200-216).                 *)
OneScheduler ==
    \A s \in Sub : live[s] = IF cache[s] = None THEN 0 ELSE 1

(* A scheduler belongs to a subscription that is enabled, except when it    *)
(* was created by an AddUpdateScheduler that had read the row before it was *)
(* removed or disabled: that read is outside the mutex                      *)
(* (mutation_utils.go:192).                                                 *)
NothingRunsUnasked ==
    \A s \in Sub \ raced : cache[s] # None => Exists(s) /\ row[s] # Off

(* No nodes are left behind or brought back for a removed subscription,    *)
(* except by an update mutation that overlaps the removal: the jobs        *)
(* of its scheduler are over before the removal commits, although the row  *)
(* is not looked at again when they write (mutation_utils.go:264, 373).    *)
NoOrphanNodes ==
    \A s \in hasNodes \ raced : Exists(s)

Wanted(r) == IF r \in Exp THEN r ELSE None

(* A start schedules exactly the subscriptions that are enabled, with      *)
(* their expressions, before the first request (cmd/run.go:85).            *)
BootSchedules ==
    [][(up = "boot" /\ up' = "http") => \A s \in Sub : cache'[s] = Wanted(row'[s])]_vars

(* Every operation returns, although a mutation waits for the mutex with   *)
(* the write lock held, the holder of the mutex waits for a job, and the   *)
(* job waits for the write lock.                                           *)
OperationsReturn ==
    \A t \in Thread : (pc[t] # "idle") ~> (pc[t] = "idle")

(* mutation_utils.go:475, "Update scheduler": once UpdateCron has committed *)
(* a row, its scheduler is the one the row asks for.                       *)
SchedulerUpdated ==
    [][\A t \in Thread : op[t] = "cron" /\ op'[t] = "none" /\ row' # row =>
           \A s \in tx[t].subs : cache'[s] = Wanted(row'[s])]_vars

=============================================================================
