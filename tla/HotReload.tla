------------------------------- MODULE HotReload -------------------------------
(***************************************************************************)
(* How the configuration that dae runs and the record of it in the         *)
(* database stay together.  Composes                                       *)
(*                                                                         *)
(*   - the reload loop, by its specification ReloadService;                *)
(*   - the run mutation and the start-up restore, which read the selected  *)
(*     rows, have them loaded, save what runs, release runLock and only    *)
(*     then commit their transaction;                                      *)
(*   - mutations that edit, select or remove a row meanwhile, and the jobs *)
(*     that update subscriptions, from before the restore on;              *)
(*   - SQLite's locks, through which these transactions meet;              *)
(*   - crashes of the process, from which only committed rows survive.     *)
(*                                                                         *)
(* One table of selectable rows stands for the three that config.Run reads *)
(* (configs, dns, routings); what a row holds is told by its version.      *)
(*                                                                         *)
(* SQLite, external, is modelled by the locks of its rollback journal: a   *)
(* transaction that has read holds SHARED and one that has written also    *)
(* RESERVED, of which there is one; a commit needs every other SHARED to   *)
(* be gone.  A step that does not get its lock waits, or is refused once   *)
(* the busy timeout expires.                                               *)
(***************************************************************************)
EXTENDS Naturals

CONSTANTS
    Runner,         \* goroutines that execute the run mutation
    Main,           \* the main goroutine, which restores the running state
    Editor,         \* goroutines that execute mutations on the rows, and jobs
    Id,             \* ids of rows
    EmptyConfig,    \* dae.EmptyConfig
    MaxVersion,     \* bound: updates of a row
    MaxCrash,       \* bound: crashes
    None

Thread  == Runner \cup {Main}
Content == [id : Id, version : 0..MaxVersion]
Config  == Content \cup {EmptyConfig}
System  == [running : BOOLEAN, id : Id \cup {None}, version : 0..MaxVersion]
Refresh == [op |-> "refresh", id |-> None]
Edit    == [op : {"update", "select", "remove"}, id : Id] \cup {Refresh}

ASSUME BoundAssumption   == MaxVersion \in Nat /\ MaxCrash \in Nat
ASSUME EmptyAssumption   == EmptyConfig \notin Content
ASSUME EditorAssumption  == Editor \cap Thread = {}
ASSUME NoneAssumption ==
    /\ None \notin Thread \cup Editor
    /\ None \notin Id /\ None \notin Edit /\ None \notin 0..MaxVersion

VARIABLES
    phase, active, owner, verdict, ask, status,     \* of ReloadService
    version,    \* version column of each row, None when there is no such row
    selected,   \* the row whose selected column is true, or None
    sys,        \* the row of the systems table
    shared,     \* transactions that hold SHARED
    reserved,   \* the transaction that holds RESERVED, or None
    edit,       \* what each editor has written and not committed
    up,         \* how far main has come
    pc,         \* where each thread is in config.Run and after
    target,     \* the configuration each thread is about to run
    runLock,    \* the thread that holds runLock
    fault,      \* history: what has happened to the record and not been made up for
    crashes     \* history: number of crashes

daeVars     == <<phase, active, owner, verdict, ask, status>>
rowVars     == <<version, selected>>
lockVars    == <<shared, reserved>>
threadVars  == <<pc, target, runLock>>
historyVars == <<fault, crashes>>
vars == <<daeVars, rowVars, sys, lockVars, edit, up, threadVars, historyVars>>

Dae == INSTANCE ReloadService WITH Client <- Thread

TypeOK ==
    /\ Dae!TypeOK
    /\ version \in [Id -> 0..MaxVersion \cup {None}]
    /\ selected \in Id \cup {None}
    /\ sys \in System
    /\ shared \subseteq Thread \cup Editor
    /\ reserved \in Thread \cup Editor \cup {None}
    /\ edit \in [Editor -> Edit \cup {None}]
    /\ up \in {"boot", "restoring", "failed", "http"}
    /\ pc \in [Thread -> {"idle", "locked", "ready", "asked", "saved"}]
    /\ target \in [Thread -> Config \cup {None}]
    /\ runLock \in Thread \cup {None}
    /\ fault \in {"none", "crash", "refused"}
    /\ crashes \in 0..MaxCrash

(* A fresh database: rows were created and none is selected. *)
Init ==
    /\ Dae!Init
    /\ version = [i \in Id |-> 0]
    /\ selected = None
    /\ sys = [running |-> FALSE, id |-> None, version |-> 0]
    /\ shared = {}
    /\ reserved = None
    /\ edit = [e \in Editor |-> None]
    /\ up = "boot"
    /\ pc = [k \in Thread |-> "idle"]
    /\ target = [k \in Thread |-> None]
    /\ runLock = None
    /\ fault = "none"
    /\ crashes = 0

(* The operators commented as a slip stand for a plausible mistake in the   *)
(* definition that follows them; no behaviour of the system uses them.      *)

-----------------------------------------------------------------------------
(* SQLite. *)

(* Slip: a transaction that waits for readers to leave does not. *)
CommitsOverReaders(t) == TRUE

MayCommit(t) == shared \subseteq {t}

MayWrite(t) == reserved \in {None, t}

(* Slip: the rows are read outside the transaction of the run. *)
ReadsUnlocked(t) == shared' = shared

Reads(t) == shared' = shared \cup {t}

Ends(t) ==
    /\ shared' = shared \ {t}
    /\ reserved' = IF reserved = t THEN None ELSE reserved

-----------------------------------------------------------------------------
(* The reload loop. *)

(* dae switches: whatever kept the record of an earlier configuration from  *)
(* being right, it is for the thread that asked to record the new one.      *)
DaeSwitch ==
    /\ Dae!Switch
    /\ fault' = "none"
    /\ UNCHANGED <<rowVars, sys, lockVars, edit, up, threadVars, crashes>>

DaeOther ==
    /\ Dae!Boot \/ Dae!Refuse \/ Dae!Reply \/ \E k \in Thread : Dae!Accept(k)
    /\ UNCHANGED <<rowVars, sys, lockVars, edit, up, threadVars, historyVars>>

DaeStep == DaeSwitch \/ DaeOther

-----------------------------------------------------------------------------
(* config.Run, and the transaction around it. *)

LockFree == runLock = None

(* Slip: a return forgets the lock. *)
LockKept == runLock' = runLock

Unlock == runLock' = None

(* The thread leaves config.Run with an error, and its caller rolls back;  *)
(* main goes on to record that nothing runs.                               *)
RunFails(k) ==
    /\ Ends(k)
    /\ Unlock
    /\ pc' = [pc EXCEPT ![k] = "idle"]
    /\ target' = [target EXCEPT ![k] = None]
    /\ up' = IF k = Main THEN "failed" ELSE up

BeginRun(k) ==
    /\ up = "http"
    /\ k # Main
    /\ pc[k] = "idle"
    /\ LockFree
    /\ runLock' = k
    /\ pc' = [pc EXCEPT ![k] = "locked"]
    /\ UNCHANGED <<daeVars, rowVars, sys, lockVars, edit, up, target, historyVars>>

(* The dry run reads nothing: it loads EmptyConfig. *)
BeginDry(k) ==
    /\ up = "http"
    /\ k # Main
    /\ pc[k] = "idle"
    /\ LockFree
    /\ runLock' = k
    /\ pc' = [pc EXCEPT ![k] = "ready"]
    /\ target' = [target EXCEPT ![k] = EmptyConfig]
    /\ UNCHANGED <<daeVars, rowVars, sys, lockVars, edit, up, historyVars>>

ReadSelected(k) ==
    /\ pc[k] = "locked"
    /\ selected # None
    /\ target' = [target EXCEPT ![k] = [id |-> selected, version |-> version[selected]]]
    /\ pc' = [pc EXCEPT ![k] = "ready"]
    /\ Reads(k)
    /\ UNCHANGED <<daeVars, rowVars, sys, reserved, edit, up, runLock, historyVars>>

(* Nothing is selected, or what is selected does not parse, names a group  *)
(* that does not exist or a group without nodes.                           *)
GiveUp(k) ==
    /\ \/ pc[k] = "locked" /\ selected = None
       \/ pc[k] = "ready" /\ target[k] # EmptyConfig
    /\ RunFails(k)
    /\ UNCHANGED <<daeVars, rowVars, sys, edit, historyVars>>

Request(k) ==
    /\ pc[k] = "ready"
    /\ Dae!Ask(k, target[k])
    /\ pc' = [pc EXCEPT ![k] = "asked"]
    /\ UNCHANGED <<rowVars, sys, lockVars, edit, up, target, runLock, historyVars>>

(* Slip: the error on the callback channel is not looked at. *)
AnsweredAnyhow(k) == status[k] \in {"ok", "failed"}

Loaded(k) == status[k] = "ok"

NotLoaded(k) ==
    /\ pc[k] = "asked"
    /\ status[k] = "failed"
    /\ Dae!Settle(k)
    /\ RunFails(k)
    /\ UNCHANGED <<rowVars, sys, edit, historyVars>>

(* The record is written and the lock released; the commit comes after. *)
Save(k) ==
    /\ pc[k] = "asked"
    /\ Loaded(k)
    /\ MayWrite(k)
    /\ Dae!Settle(k)
    /\ shared' = shared \cup {k}
    /\ reserved' = k
    /\ pc' = [pc EXCEPT ![k] = "saved"]
    /\ Unlock
    /\ UNCHANGED <<rowVars, sys, edit, up, target, historyVars>>

(* Another transaction writes: the save is refused after dae has switched. *)
SaveRefused(k) ==
    /\ pc[k] = "asked"
    /\ status[k] = "ok"
    /\ ~MayWrite(k)
    /\ Dae!Settle(k)
    /\ RunFails(k)
    /\ fault' = "refused"
    /\ UNCHANGED <<rowVars, sys, edit, crashes>>

(* Slip: the save leaves the versions out. *)
RecordRow(conf) ==
    IF conf = EmptyConfig THEN [sys EXCEPT !.running = FALSE]
    ELSE [sys EXCEPT !.running = TRUE, !.id = conf.id]

(* What a thread has written to the systems table. *)
Record(conf) ==
    IF conf = EmptyConfig THEN [sys EXCEPT !.running = FALSE]
    ELSE [running |-> TRUE, id |-> conf.id, version |-> conf.version]

(* The caller has committed, or believes it has: the error of Commit is    *)
(* not looked at.                                                          *)
RunReturns(k) ==
    /\ pc[k] = "saved"
    /\ Ends(k)
    /\ pc' = [pc EXCEPT ![k] = "idle"]
    /\ target' = [target EXCEPT ![k] = None]
    /\ up' = IF k = Main THEN "http" ELSE up
    /\ UNCHANGED <<daeVars, rowVars, edit, runLock, crashes>>

CommitRun(k) ==
    /\ MayCommit(k)
    /\ RunReturns(k)
    /\ sys' = Record(target[k])
    /\ UNCHANGED fault

CommitRunRefused(k) ==
    /\ ~MayCommit(k)
    /\ RunReturns(k)
    /\ fault' = "refused"
    /\ UNCHANGED sys

-----------------------------------------------------------------------------
(* restoreRunningState. *)

(* shouldReload: nothing ran when the process died. *)
NothingRan ==
    /\ up = "boot"
    /\ ~sys.running
    /\ up' = "http"
    /\ fault' = "none"
    /\ UNCHANGED <<daeVars, rowVars, sys, lockVars, edit, threadVars, crashes>>

(* Something ran and nothing is selected any more: First returns an error, *)
(* and the branch for RowsAffected = 0, which would reset running, is not  *)
(* reached.                                                                *)
NothingSelected ==
    /\ up = "boot"
    /\ sys.running /\ selected = None
    /\ up' = "http"
    /\ UNCHANGED <<daeVars, rowVars, sys, lockVars, edit, threadVars, historyVars>>

Restore ==
    /\ up = "boot"
    /\ sys.running /\ selected # None
    /\ up' = "restoring"
    /\ pc' = [pc EXCEPT ![Main] = "locked"]
    /\ runLock' = Main
    /\ UNCHANGED <<daeVars, rowVars, sys, lockVars, edit, target, historyVars>>

(* Slip: a restore that failed leaves the record as it was. *)
KeepRunning == sys' = sys

StopRunning == sys' = [sys EXCEPT !.running = FALSE]

(* Another transaction: running = false, which is true after a crash, and  *)
(* not when dae has switched and the save of that was refused.             *)
MarkStopped ==
    /\ up = "failed"
    /\ MayWrite(Main) /\ MayCommit(Main)
    /\ up' = "http"
    /\ StopRunning
    /\ fault' = IF fault = "crash" THEN "none" ELSE fault
    /\ UNCHANGED <<daeVars, rowVars, lockVars, edit, threadVars, crashes>>

(* A job writes meanwhile, and the record stays as it was. *)
MarkStoppedRefused ==
    /\ up = "failed"
    /\ ~(MayWrite(Main) /\ MayCommit(Main))
    /\ up' = "http"
    /\ fault' = "refused"
    /\ UNCHANGED <<daeVars, rowVars, sys, lockVars, edit, threadVars, crashes>>

-----------------------------------------------------------------------------
(* Mutations on the rows: each writes in a transaction and commits it.     *)

Writes(e, ed) ==
    /\ edit[e] = None
    /\ MayWrite(e)
    /\ edit' = [edit EXCEPT ![e] = ed]
    /\ shared' = shared \cup {e}
    /\ reserved' = e
    /\ UNCHANGED <<daeVars, rowVars, sys, up, threadVars, historyVars>>

EditWrite(e, ed) ==
    /\ up = "http"
    /\ ed # Refresh
    /\ version[ed.id] # None
    /\ ed.op = "update" => version[ed.id] < MaxVersion
    /\ Writes(e, ed)

(* A scheduled update of a subscription: UpdateAll has started the         *)
(* schedulers before dae and the restore, and it writes none of the rows.  *)
JobWrite(e) == Writes(e, Refresh)

(* Slip: the selection survives the row. *)
StillSelected(i) == selected

SelectedWithout(i) == IF selected = i THEN None ELSE selected

EditCommit(e) ==
    /\ edit[e] # None
    /\ MayCommit(e)
    /\ LET i == edit[e].id IN
       CASE edit[e].op = "update" ->
              /\ version' = [version EXCEPT ![i] = @ + 1]
              /\ UNCHANGED selected
         [] edit[e].op = "select" ->
              /\ selected' = i
              /\ UNCHANGED version
         [] edit[e].op = "remove" ->
              /\ version' = [version EXCEPT ![i] = None]
              /\ selected' = SelectedWithout(i)
         [] edit[e] = Refresh -> UNCHANGED rowVars
    /\ edit' = [edit EXCEPT ![e] = None]
    /\ Ends(e)
    /\ UNCHANGED <<daeVars, sys, up, threadVars, historyVars>>

(* The commit times out behind a reader; the mutation reports success. *)
EditLost(e) ==
    /\ edit[e] # None
    /\ ~MayCommit(e)
    /\ edit' = [edit EXCEPT ![e] = None]
    /\ Ends(e)
    /\ UNCHANGED <<daeVars, rowVars, sys, up, threadVars, historyVars>>

-----------------------------------------------------------------------------
(* The process dies, whatever for, and is started again. *)
Crash ==
    /\ crashes < MaxCrash
    /\ crashes' = crashes + 1
    /\ phase' = "off"
    /\ active' = EmptyConfig
    /\ owner' = None
    /\ verdict' = None
    /\ ask' = [k \in Thread |-> None]
    /\ status' = [k \in Thread |-> "quiet"]
    /\ shared' = {}
    /\ reserved' = None
    /\ edit' = [e \in Editor |-> None]
    /\ up' = "boot"
    /\ pc' = [k \in Thread |-> "idle"]
    /\ target' = [k \in Thread |-> None]
    /\ runLock' = None
    /\ fault' = "crash"
    /\ UNCHANGED <<rowVars, sys>>

-----------------------------------------------------------------------------
RunStep(k) ==
    \/ ReadSelected(k) \/ GiveUp(k) \/ Request(k)
    \/ NotLoaded(k) \/ Save(k) \/ SaveRefused(k)
    \/ CommitRun(k) \/ CommitRunRefused(k)

MainStep == NothingRan \/ NothingSelected \/ Restore \/ MarkStopped \/ MarkStoppedRefused

EditEnds(e) == EditCommit(e) \/ EditLost(e)

Next ==
    \/ DaeStep
    \/ \E k \in Thread : BeginRun(k) \/ BeginDry(k) \/ RunStep(k)
    \/ MainStep
    \/ \E e \in Editor : EditEnds(e) \/ JobWrite(e) \/ \E ed \in Edit : EditWrite(e, ed)
    \/ Crash

(* Goroutines that can go on do, a commit ends one way or the other, and   *)
(* the reload loop handles what it is sent (ControlLoop!Responsive).       *)
(* Nobody has to run, edit or crash anything.                              *)
Fairness ==
    /\ WF_vars(DaeStep)
    /\ WF_vars(MainStep)
    /\ \A k \in Thread : WF_vars(RunStep(k))
    /\ \A e \in Editor : WF_vars(EditEnds(e))

Spec == Init /\ [][Next]_vars /\ Fairness

-----------------------------------------------------------------------------
(* The record and what dae runs say the same. *)
InSync(conf, s) ==
    IF s.running THEN conf = [id |-> s.id, version |-> s.version]
                 ELSE conf = EmptyConfig

Quiet == up = "http" /\ \A k \in Thread : pc[k] = "idle"

(* When nobody is running anything, the record and dae agree: releasing     *)
(* runLock before the commit (mutation_utils.go:265, mutation.go:265) does  *)
(* not let two runs leave the record of one and the configuration of the    *)
(* other.  A write that was refused after dae had switched is excepted      *)
(* until dae switches again, and a start that finds nothing selected        *)
(* (cmd/run.go:202-204) until the first run after it.                       *)
Agreement == (Quiet /\ fault = "none") => InSync(active, sys)

(* The record that is committed names the row that is selected at that      *)
(* moment, in its current version, although the reload in between takes     *)
(* seconds and nothing but the read locks of the transaction holds the      *)
(* editors back.                                                            *)
NothingStaleSaved ==
    [][(sys' # sys /\ sys'.running) =>
           /\ selected = sys'.id
           /\ version[selected] = sys'.version]_vars

(* A start settles what an earlier life of the process left behind: when    *)
(* it lets requests in, and a row is selected, the record and dae agree,    *)
(* whichever step the crash interrupted and whether or not the restore      *)
(* succeeded (cmd/run.go:156-188).  Excepted is a start one of whose own    *)
(* writes of the record SQLite refused, for a scheduled job that held it.   *)
RestoreSettles ==
    [][(up # "http" /\ up' = "http" /\ selected # None /\ fault' # "refused")
           => InSync(active, sys')]_vars

(* runLock always comes back: neither a failed run nor a transaction that   *)
(* waits behind another one keeps every later run out.                      *)
LockComesBack == []<>(runLock = None)

=============================================================================
