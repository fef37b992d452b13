# A TLA+ model of dae-wing

dae-wing is the server of the dae proxy: it keeps configurations, nodes,
subscriptions and groups in a SQLite database, offers them over GraphQL, and
embeds dae, whose control plane it reloads with what is selected. These modules
model the parts of it in which several goroutines, the database and dae itself
meet, say what they must do together, and check it: TLC on small instances, TLAPS
at every size.

Paths below are relative to `src/`. `PROJECT.json` maps every definition that
models code to its lines.

## The system

| part | state | operations | talks to |
|---|---|---|---|
| reload loop, `dae/run.go` | the global control plane `c`, locals `conf`, `newConf`, `reloading`, `errReload`, `chCallback`, `listener` | `Run`, `newControlPlane`, serving goroutines | everybody through `ChReloadConfigs` |
| run mutation, `config.Run` | `runLock`, its transaction | read what is selected, build the configuration, have it loaded, record it | the loop (channel and callback), the systems row |
| start and exit, `cmd/run.go` | none of its own | `UpdateAll`, `restoreRunningState`, HTTP, `errorExit` | loop, database, schedulers |
| sections: `config`, `dns`, `routing` | rows with `version` and `selected` | create, update, remove, select, rename | run, modified |
| groups | rows with version, members, bindings, policy | create, rename, remove, policy, nodes, subscriptions | run, modified |
| nodes | rows with link and owner | import, update, remove, tag | groups, run |
| subscriptions | rows with link, cron columns | import, update, link, cron, remove, tag | nodes, groups, schedulers |
| schedulers | `schedulerCache`, `schedulerMu`, gocron | add, remove, jobs | subscriptions, SQLite |
| modified, `dae_resolver.go` | the systems row, running groups | compare versions | everything above |
| latency cache, `latency_cache.go` | `items`, `updatedAt`, two mutexes | query with refresh, test, runtime results | nodes, control plane |
| users, `mutation.go`, `auth` | the users rows; a copy of one in every request | create, log in, storage, names, password, `resetpass` | every request |
| pagination of nodes | none; a client keeps a cursor | page, total, hasNextPage | nodes |
| resolvers, schema, web UI, export, su | none | read, print | - |

What is hard: the loop gives one kind of message, nil, three meanings; a caller
waits on a callback with a lock held while three other goroutines have to take
their turns; dae switches before the record of it is saved and the record is saved
before it is committed; two locks (`schedulerMu`, SQLite's write lock) are taken in
either order around a wait for jobs; rows are read on one connection while another
has not committed; `modified` compares version numbers that five packages must
remember to raise; every request works on a copy of its user that others may have
outdated; names are made unique against tags, dots and prefixes that can meet; a
client pages through rows that come and go. `PROJECT.json` lists these hazards at their lines with the
properties aimed at them.

## The modules

| module | models | composes |
|---|---|---|
| `ReloadService` | what the loop promises its callers; abstract | - |
| `ControlLoop` | the loop, serving goroutines, `config.Run` as the loop sees it, exit senders | implements `ReloadService` |
| `HotReload` | runs, restore, edits, crashes, SQLite's locks | uses `ReloadService` in place of the loop |
| `SubscriptionCron` | schedulers, their jobs, subscription mutations, the start | - |
| `ConfigStore` | every mutation of the database as one step, run records, `Modified` | - |
| `LatencyCache` | queries, tests, refreshes, the plane's results | - |
| `NodeNames` | the names under which a run hands nodes to dae | - |
| `UserStore` | users, tokens, storage, and requests with copies of them | - |
| `NodePages` | a client that pages through nodes | - |
| `<component>Proofs` | theorems about the component; see Proofs | the component |

Each `MC...` module gives sizes to one of them. An operator commented *Slip* is not
used by any behaviour: it stands for a plausible mistake in the definition that
follows it, so that one can see each property notice the mistake (`mutants` in
`PROJECT.json`).

### ControlLoop

`lpc` is the line at which `dae.Run` is: `recv` the range over the channel (100),
`load` while a plane is being built (134-183), `built`, `injected` and `swapped` after that,
after `InjectBpf` (186) and after the swap (189-195), up to the `Close` of the old plane
(198), `ready` at `<-readyChan` (125), `answer` at the send on the callback (128). Control planes are
numbers in order of their making; `closed` and `bpf` are the planes that were closed and
those that own the bpf objects, so that each order of eject, inject and close can be told
from the others, and a mistake in it seen (`OneOpenPlane`).
A serving goroutine is named after the plane that was current when it was spawned and
reads the global `c` in a step of its own (`ServerEval`), as its closure does. The
unbuffered channel is the set of goroutines blocked in a send: a receive takes any of
them. `excuse` is a history variable: somebody asked to exit, or serving failed.

### HotReload

One table stands for the three that `config.Run` reads. The steps of a run are those at
which others can come between: the lock, the read, the request to the loop, the answer,
the save (which, with the deferred unlock, releases `runLock`), the commit by the caller.
SQLite is external and modelled by the locks of its rollback journal: reading takes
SHARED, writing RESERVED, and a commit needs the other readers gone; a refused lock is an
error, and the error of a commit is dropped, as `mutation.go:265` does. `Crash` loses all
but committed rows. `fault` records events, never what the record looks like: that the
process crashed, or that SQLite refused to write or commit a record (`SaveRefused`,
`CommitRunRefused`, `MarkStoppedRefused`). It is reset when dae is switched, and, after a
crash, by a start that finds that nothing ran or has written that nothing runs; committing a record does not
reset it. `Agreement` asks for nothing while it is set. `RestoreSettles` has no exception for
a crash: a start that was not refused leaves the record and dae in agreement, whatever step
the crash interrupted; a start with nothing selected (`NothingSelected`) is the one that
does not. An editor is also the goroutine of a scheduled
job (`JobWrite`): `UpdateAll` has started the schedulers before the restore, so that a job
may hold the write lock when the restore wants to save, or to record that it failed
(`MarkStoppedRefused`). The rows a job writes are none of those a run selects.

### SubscriptionCron

A thread's `pc` follows `UpdateAll`, `AddUpdateScheduler` and `RemoveUpdateScheduler`
between their locks. `tx` is what an open transaction will commit; `ReadRow` reads
`row`, which is what is committed, because `AddUpdateScheduler` uses a connection of its
own. Stopping a scheduler keeps `schedulerMu` until its job is over (gocron's `Stop`);
a job that does not get the write lock gives up. `raced` marks subscriptions that were
removed or disabled while somebody went on with an older read of them: for these the
code does leave a scheduler, or nodes, behind, and the invariants say that this is the
only way. An import may get the id of a removed subscription that somebody still has
in hand. A restart is an initial state with any rows.

### ConfigStore

Mutations are single steps. Contents are what a run depends on: the versions of the
selected sections, and name, policy and links of the groups they refer to. `untold` is
set by the three changes that raise no version: `updateNode`, removing a node that a
group has through a subscription, and a `Rename` after which gorm says that nothing
changed (it is asked after the update; its answer is left open). It is set, too, when the id of
something that ran is given again. SQLite gives the
id of a removed row to a later one (the primary keys are plain integers with the dialect of
`go.mod:10`), and here any removed id may be given again, that of a node to one of the same
owner. A section then starts from version 0 like the one that ran, which `created`, the
sections since the last run, notices; a node is in the groups whose rows in `group_nodes` the
removal of the other left behind (`Inherits`).

`RenameSection` and `TagSubscription` change columns that no run reads.

### NodeNames

One run at a time: `Gather` stands for the queries and `deduplicateNodes`, then
`uniquefyNodesName` takes the nodes one by one, nodes with a tag first, and tries numbers
until a name is free; `FillConfig` writes the filters of the groups and the node section.
A name is the sequence of its parts between dots, as parts meet there: `1.a` is node `a`
of subscription 1 and may also be what another node is called. The colon and the quote,
which `normNodeName` replaces, are in the parts that are not `Clean`. Orders that Go or
SQLite leave open (rows, maps, the sort among equals) are choices. The names are compared
with what dae, external, makes of them: it takes what stands before the first colon for
the name (`KnownAs`).

### UserStore

A request is authenticated with a token, gets a copy of the user's row (`copy`, the
`*db.User` in its context), and executes the fields of its mutation one after the other,
each on this copy: `StoreJson` writes the whole storage back, `UpdatePassword` verifies with
the copy, draws a secret, writes both columns, makes a token and commits. `resetpass` is an
actor of its own on the same database. gorm sets the fields of the copy whether or not the
update succeeds (`CopySecret`, `StoreJsonFails`), which later fields of the same request
see; so does what `sjson` had edited before it refused a path. A commit that cannot get its lock is lost and the token is returned all the same.
A `createUser` that finds a user holds SHARED until its rollback (`refused`); a commit of
another can be lost to it, as to any transaction that is only reading.
Secrets are never drawn twice; a hash is the pair it is made from. `wanted` and `stale` are
history: what the storage operations amount to, as long as no outdated copy was written.

### NodePages

The server answers a page with two statements, `FindPage` and the one of `PageInfo`
(`Answered`, `Failed`), between which the table may change; imports, removals and the
refresh of a subscription are one transaction each. Whether SQLite may give the id of a
removed row to a new one is left open: the model does both. `kept` is history: the nodes
that were there since the client began. The client stops at a page without a next one
and repeats a request that failed.

### LatencyCache

A caller is a query or a test. Its `pc` follows the refresh behind `refreshMu`, the list
of nodes, the copy of the cache and the results of the plane. A measurement is the link
that was probed. The database changes between any two reads, and the id of a removed node
may be given to a new one, while `items` keeps what it has: `had` are the links of the node
that has the id now, and `reused` and `reusedFor` the ids that were given again since the
cache, or a caller, read what it holds of them. The time of a single
result is left out, that of the cache is not.

## The runs

| run | module | question | answer |
|---|---|---|---|
| `ControlLoopSafety` | `ControlLoop` | safety in both modes, first server arbitrarily late | holds |
| `ControlLoopFair` | `ControlLoop` | refinement of `ReloadService`; every caller answered; exits heard | holds |
| `ControlLoopLate` | `ControlLoop` | `run.go:105`: nil follows a Close, or the loop ends, with a late first server | violated |
| `HotReload` | `HotReload` | dae and its record agree; restore settles; the lock comes back | holds |
| `SubscriptionCron` | `SubscriptionCron` | one scheduler each, none unasked, no orphan nodes, no deadlock | holds |
| `SubscriptionCronUpdate` | `SubscriptionCron` | `mutation_utils.go:475`: the scheduler follows the row | violated |
| `ConfigStore` | `ConfigStore` | `modified = false` means what runs is what a run would load | holds |
| `ConfigStoreUpdate` | `ConfigStore` | a changed node of what runs counts as modified | violated |
| `LatencyCache` | `LatencyCache` | one refresh per interval, results belong to their nodes or to who had the id when they were read, requests return | holds |
| `NodeNames` | `NodeNames` | every node has a name of its own, filters name exactly the nodes of a group | holds |
| `UserStore` | `UserStore` | one user at most; a new password logs the others out; the storage adds up | holds |
| `NodePages` | `NodePages` | a client sees what was there throughout, nothing twice, and ends | holds |

The violations are disagreements between a comment or document of the repository and
its code; `findings` in `PROJECT.json` quotes both sides. `ControlLoopLate` and
`ControlLoopFair` differ in `PromptStart` alone. `NilAfterClose` allows the loop to end in the
middle of a reload, by an exit or an error of serving; what violates it in `ControlLoopLate` is
a loop that stays in its receive with nobody left to serve the plane it has closed. With
`PromptStart` it holds: a loop in the middle of a reload has a caller to answer, and
`Responsive` says that it is answered, which takes the nil, or that the loop ends.

### Bounds

- `ControlLoop`: two callers are enough for one to meet what the other left; `MaxPlane`
  3 or 4 allows two or three reloads in a row, the second of which finds an old
  `errReload`, listener and goroutine. The configurations are the empty one and another.
  `MaxPlane` stops callers from starting, not a behaviour in the middle of a reload.
- `HotReload`: two runs, one editor, two rows, one update per row (`MaxVersion`),
  two crashes (`MaxCrash`): one at every step, and another in the restore that follows.
- `SubscriptionCron`: two workers and the start, two subscriptions, `MaxRequest` 3
  mutations, so that one can follow on a race of two. When they are used up and no
  subscription is left the system rests, hence no deadlock check.
  `SubscriptionCronUpdate` has two expressions and one mutation.
- `NodeNames`: three nodes, in two groups that share one (or of which one is empty), with
  the names `a`, one that normalises to it, `a.0` and `1.a`, three ways to share links,
  three to belong to subscriptions, and the tags `a` and `1.a`: two nodes can want a name
  that a third has as tag or made from a number. The initial states are all of these.
- `UserStore`: two requests and resetpass, two names and paths, one value, one password
  (every hash has its own salt, so that an old one does not fit a new one anyway), and two secrets (`MaxSecret`): the first user and one change of the password, or two attempts
  to create a user. A third secret makes the run too long and adds a change after the
  change, which meets the same copies. Requests, names and paths are symmetric.
- `NodePages`: two collections, five ids, pages of one, two or all nodes, and two mutations
  (`MaxChange`) that may each remove and import any number: one before a page and one inside
  an answer. The initial states are all distributions of the ids.
- `ConfigStore`: two tables, three sections, three groups, two group names, one
  subscription, two ids for its nodes and two for nodes of none; `MaxEdit` 4 mutations,
  with any number of runs between. Versions are bounded by the mutations. The violations
  need one or two.
- `LatencyCache`: two callers, two nodes, two links, a clock of three instants (`MaxTime`) with an
  interval of one, and one change (a mutation or a reload) in a behaviour (`MaxChange`);
  the plane's own checks are not bounded. One change is
  enough for an id to go to another node around a test or a refresh, as the update of a
  subscription does it in one transaction (`NodeImport`).

Symmetry is used in `ControlLoopSafety` (callers, exit senders) and in `UserStore`, where no temporal property is checked.

### Fairness

- A goroutine that can go on does (weak fairness of each step of each goroutine), and
  building a control plane ends, one way or another.
- Strong fairness of each receive on `ChReloadConfigs`: Go queues the senders of a channel
  first in, first out, so while the loop goes on receiving no sender is passed over for
  ever. Likewise for `sync.RWMutex` and `sync.Mutex`, which hand themselves over to who
  waits.
- Nobody has to call a mutation, to fail, to edit, to crash or to exit, and no clock has to
  strike.
- `NodePages`: the client goes on asking and the server answers (weak fairness); it ends
  because the mutations do (`MaxChange`), since with nodes imported for ever there may
  always be a next page. `NodeNames`: the run goes on.
- `PromptStart` in `ControlLoopFair`: the first serving goroutine runs before the first
  reload has been built and swapped in, which takes seconds. The code does not enforce it, and
  `ControlLoopLate` shows what hangs on it.
- `ExitHonoured` relies on reloads coming to an end, which the bound on planes provides:
  with reloads for ever, a nil sent in the middle of one stands in for that of the old
  plane, whose nil in turn is taken in the next.

## Proofs

| module | theorems, each for `Safety` or `Spec` of its component |
|---|---|
| `ControlLoopProofs` | `TypeCorrect`, `CallersAnswered` (`NoForgottenCaller`), `AnswersTrue` (`ToldWhatRuns`), `PlanesRetired` (`OneOpenPlane`), `ExitsExcused` (`NoSpuriousExit`), `IdleServed` (`ServedWhenIdle`), `Implementation` (`ImplementsReloadService`) |
| `HotReloadProofs` | `TypeCorrect`, `RecordAgrees` (`Agreement`), `NoStaleRecord` (`NothingStaleSaved`), `StartsSettle` (`RestoreSettles`) |
| `ConfigStoreProofs` | `TypeCorrect`, `FalseMeansSame` (`ModifiedSound`), `SumIsEnough` (`SumTellsAll`), `RunsSettle` (`RunSettles`) |
| `SubscriptionCronProofs` | `TypeCorrect`, `CacheKnowsAll` (`OneScheduler`), `NoneOutlives` (`NothingRunsUnasked`), `NodesGoWithThem` (`NoOrphanNodes`), `StartSchedules` (`BootSchedules`) |
| `UserStoreProofs` | `TypeCorrect`, `OneUser` (`SoleUser`), `OldTokensRefused` (`OthersLoggedOut`), `StorageIsExact` (`StorageAddsUp`) |
| `NodeNamesProofs` | `TypeCorrect`, `NamesAreUnique` (`NamesUnique`), `GroupsKeepTheirLinks` (`FiltersExact`) |
| `LatencyCacheProofs` | `TypeCorrect`, `ResultsAttributed` (`Attributed`), `OnlyMetAnswered` (`AnswersMet`), `OneRefreshForABurst` (`RefreshesApart`) |
| `NodePagesProofs` | `TypeCorrect`, `PagesAddUp` (`NoneSkipped`) |

Every safety property of the passing runs is there, invariant or about steps. The theorems
hold for any sets of callers, rows, nodes, names and so on, and any values of the bounds,
which are natural numbers. Their assumptions are the named ASSUMEs of the components:
bounds are numbers (`BoundAssumption`, `MaxPlane` at least 2), model values such as `None`
are nothing else (`NoneAssumption`), and what the database is like at first. TLC evaluates them
in every run. `Group` of `ConfigStore` is finite, as a table is.

No module's invariant is inductive by itself. Each `IInv` adds what the code relies on without
saying it, in named parts; TLC checked these as invariants of the instances first. There is a
lemma for each group of steps, with a step of the proof for each action, and `Invariance` puts
them together. The action properties follow from the same invariants.

**ControlLoop.** Whoever is not idle in `config.Run` holds `runLock` (`LockInv`), a swapped
reload without an error runs what its caller asked for (`SwapInv`), a goroutine other than the
first serves the plane it is named after and the loop answers only after it has read `c`
(`ServesInv`), at each step of a reload the bpf objects are where eject, inject and close have
left them by then (`PlaneInv`), and, as long as nothing failed, exactly one goroutine is alive, it has a nil to
send only in a reload, and the listener is assigned by then (`ServerInv`). The last is why
the loop may tell the three meanings of nil apart by two booleans. `StepMaps` matches each
action to a step of `ReloadService` or a stutter, under the invariant; `Implementation` is about
the modes other than api-only.

**HotReload.** `runLock` is released before the commit, so two runs overlap: one that has
saved, and one that loads. They are kept apart by SQLite: the first holds the write lock
(`TxInv`), and cannot commit over a reader, which the second is from its first query on;
what a run has read therefore still is what is selected when it saves (`RowInv`). `SyncInv`
says at each moment whom dae agrees with: the thread for which it was last switched, else
what was saved, else what is recorded. Without the case of the saved run in the middle it is
not inductive. `FaultInv` says what a start may rely on: after a crash dae runs the empty
configuration until the restore switches it, and only from the switch on, or once the run is
saved, does the restore count as made up for.

**ConfigStore.** `Modified` compares one sum for all groups. The versions of the groups that
ran only rise (`RisenInv`) and a removed group leaves the record, so with the recorded ids
the sum is as it was only if each term is (`TotalTells`). What a run reads of a group is as it
was while the version is, unless an exception was noted (`SameInv`): each mutation either
raises it, or does not touch the links of the group. For the refresh of a subscription that
means that nodes a group holds itself are kept. A section with the id of one that ran is
noted when it is created (`CreatedInv`). That the groups of the record are those a new run
would use rests on the uniqueness of names (`IndexInv`).
The lemmas about `SumFunctionOnSet`, which is defined by recursion, take the place of an
induction: among the subsets for which the claim is wrong there would be a smallest one
(`SmallestSet`).

**SubscriptionCron.** A scheduler is stopped by the thread that holds `schedulerMu` and
found it in the cache (`MuInv`), so that cache and running schedulers are one. The rows that
a transaction is about to remove or disable exist until it ends, and nobody else writes them
(`TxInv`); what it has unscheduled so far is unscheduled, or known to be raced by a reader of
the row (`UnscheduledInv`). Until the server listens `Main` is alone, and has scheduled
exactly the rows that it has passed (`BootInv`).

**UserStore.** Who has counted the users and found none holds SHARED, which a commit has
to wait for, so that none is created in between (`CreateInv`). A secret that is drawn and not
yet stored is new to all tokens, and that of a user is none of a token that was retired
(`SecretInv`): hence every token from before a change of the password stays refused.
Copies that nobody outdated have the storage of the row (`JsonInv`).

**NodeNames.** Nodes that have a name and names that were given correspond one to one
(`GivenInv`). A tag is taken without a look at who has it; that nothing is overwritten is
because tags are unique and nodes with a tag come first, so that until the last of them
there are only tags. Names have only `Clean` parts, so that dae reads them whole (`CleanInv`);
one node of each link is kept, for the groups of all with this link (`LinkInv`).

**LatencyCache.** The links on their way into the cache or an answer are those their nodes
had since they got their ids, unless an id was given again after the read (`HadInv`); a caller
holds results only of nodes it met since it began, and links to probe only while it probes
(`MetInv`), which is why a store knows what to take out of `reused` and what to put in.

**NodePages.** What is kept, up to the cursor, has been seen, and between the cursor and
any node of a page nothing kept is missing (`PageInv`): a page of limited size is the low end
of what is after the cursor (`LimitedIsLow`), which needs that finite sets of ids have a lowest and
a highest one (`LowestAndHighest`).

Model-checked only: liveness (`Responsive`, `ExitHonoured`, `LockComesBack`,
`OperationsReturn`, `CallersReturn`, `NamingEnds`, `PagingEnds`), which this prover does not
handle. The refinement in the api-only mode is neither proved nor claimed.

## What is not modelled

- dae: what a control plane does with packets; it is loaded, serves, ends or fails.
- gorm, SQLite, gocron: external, by the behaviour the code depends on. Foreign keys are
  not enforced, ids of removed rows may be given again, gorm's `First` answers `ErrRecordNotFound`.
- Text: what is parsed, printed or logged, and the cursors that encode ids.
- Users: `UpdateAvatar` and `UpdateName`, whose columns nothing but a query reads; the time
  at which a token expires; what a request that was authenticated before a change of the
  password still does after it (it is served to its end).
- Pagination: `totalCount`, a count of its own, and a client that asks with `first: 0`.
- Resolvers, schema, web UI, export: see `components`.

Seen in the code and not (yet) the subject of a run:

- `README.md:118` says that selecting a configuration reloads dae; `SelectConfig` only
  changes the row.
- `UpdateById` fails with "no any valid node" when everything it fetched is already there
  and held by groups (`ConfigStore!UpdateSubscription` has this guard).
- `Modified` is always true for a configuration that uses no group.
- `cmd/run.go:205-209` wants to reset `running` when no selected config is found, but `First`
  answers `ErrRecordNotFound` there and the branch is not reached: `running` stays true while
  dae runs the empty configuration (`HotReload!NothingSelected`).
- `dae_resolver.go:44-57` pairs `true` with that same error, so that GraphQL reports an error
  in place of `modified: true` (`ConfigStore!Modified`).
- `README.md:134` says that nodes are deduplicated by link within a collection; for nodes of
  no subscription `subscription_id = NULL` is never true and the same link is imported any
  number of times (`ConfigStore!ImportNode`). A run tells nodes apart by link again.
- Of nodes with one link only one gets a name, so that a tag on another is not used; and
  since maps are iterated in any order, names with numbers differ between runs
  (`NodeNames!OnePerLink`, `BeginName`).
- Renaming the user makes every token handed out invalid, as tokens carry the name, until
  the user is renamed back (`UserStore!Accepts`).
- `createUser` and `updatePassword` return a token although their commit was lost
  (`UserStore!CommitLost`); a storage edit that failed is written by the next field of the
  same request that succeeds (`UserStore!StoreJsonFails`); and of two requests that change the
  storage at the same time the later one restores what it had read (`wanted = None`).
- `root_schema.go:58` says that empty paths clear the storage; a missing `paths` does, an empty
  list removes nothing (`mutation.go:107-118`).
- `nodes(first: 0)` answers an empty page without a next one (`connection_resolver.go:60`).
- The latency cache is never cleared: a new node with the id of a removed one is answered with
  its result until it is measured (`reused`), and a test under way may store one after that.
- A section created after the running one was removed may get its id, and has its version 0: once
  selected, it runs nowhere and `modified` is false (`untold` in `ConfigStore!CreateSection`).
- Rows of `group_nodes` stay when their node is removed, so that a new node with its id is a
  member of these groups (`ConfigStore!Inherits`).
- Any store into the latency cache sets `updatedAt` and so puts off the next complete
  refresh.

## Plan

Done: the core (`ReloadService`, `ControlLoop`), `HotReload` with the jobs that run before the
restore, `SubscriptionCron`, `ConfigStore`, `LatencyCache`, `NodeNames`, `UserStore`,
`NodePages`, and proofs of the safety properties of each.

Next, in this order:

1. An abstract specification of `Modified`, a flag that what changes a run sets and a run
   resets, with `ConfigStore` shown to implement it.
2. The same for the schedulers: a table of expressions that follows the rows, apart from the
   subscriptions that are raced, implemented by `SubscriptionCron`.
3. The time of a single result in `LatencyCache`, and `totalCount` in `NodePages`.
