---------------------------- MODULE HotReloadProofs ----------------------------
(***************************************************************************)
(* Proofs about HotReload, for any number of runs, editors, rows, updates  *)
(* and crashes.                                                            *)
(*                                                                         *)
(* runLock is released before the commit, so that two runs overlap: one    *)
(* that has saved and one that loads.  What keeps them apart is the write  *)
(* lock of SQLite, which the first holds, and its readers, for which it    *)
(* waits.  SyncInv says what the record, dae and these two have to do with *)
(* each other at every moment; the other parts are what it rests on.       *)
(***************************************************************************)
EXTENDS HotReload, TLAPS

(* A thread is inside config.Run exactly when it holds runLock. *)
LockInv == \A k \in Thread : pc[k] \in {"locked", "ready", "asked"} <=> runLock = k

(* Who has written, and not committed, holds RESERVED, and SHARED with it. *)
TxInv ==
    /\ reserved # None => reserved \in shared
    /\ \A k \in Thread : pc[k] = "saved" <=> reserved = k
    /\ \A e \in Editor : edit[e] # None <=> reserved = e

(* Main runs in the restore and nowhere else, and nobody before it. *)
MainInv ==
    /\ pc[Main] # "idle" <=> up = "restoring"
    /\ up # "http" => \A k \in Thread : k = Main \/ pc[k] = "idle"
    /\ up = "boot" => active = EmptyConfig /\ phase \in {"off", "idle"}

(* A thread waits for the answer to what it asked dae for; dae handles one *)
(* request at a time.                                                      *)
AskInv ==
    /\ \A k \in Thread : pc[k] = "asked" <=> status[k] # "quiet"
    /\ \A k \in Thread : pc[k] = "asked" => ask[k] = target[k]
    /\ \A k \in Thread : pc[k] \in {"ready", "asked", "saved"} => target[k] \in Config
    /\ phase \in {"busy", "done"} => owner \in Thread /\ status[owner] = "asking"
    /\ phase = "done" => verdict \in {"ok", "failed"}

(* dae has switched to what k asked for, whether or not k knows. *)
Switched(k) ==
    /\ pc[k] = "asked"
    /\ status[k] = "ok" \/ (phase = "done" /\ owner = k /\ verdict = "ok")

(* What a thread has read is what is selected, as long as it may save it.  *)
RowInv ==
    /\ selected # None => version[selected] # None
    /\ \A k \in Thread :
         pc[k] \in {"ready", "asked", "saved"} /\ target[k] # EmptyConfig =>
             k \in shared /\ target[k] = [id |-> selected, version |-> version[selected]]
    /\ \A e \in Editor : edit[e] # None /\ edit[e] # Refresh =>
         /\ version[edit[e].id] # None
         /\ edit[e].op = "update" => version[edit[e].id] < MaxVersion

(* dae runs what the thread asked for that was last to have it switched,   *)
(* else what was saved, else what is recorded.                             *)
SyncInv ==
    /\ sys.running => sys.id \in Id
    /\ \A k \in Thread : Switched(k) => active = target[k]
    /\ fault = "none" => \/ \E k \in Thread : Switched(k)
                         \/ \E k \in Thread : pc[k] = "saved" /\ active = target[k]
                         \/ (\A k \in Thread : pc[k] # "saved") /\ InSync(active, sys)

(* A start has a crash to make up for, unless nothing ran: dae runs nothing *)
(* until it has switched in the restore, and a restore that failed without  *)
(* a refused write has not switched.                                        *)
FaultInv ==
    /\ fault = "crash" => active = EmptyConfig
    /\ up = "boot" /\ sys.running => fault = "crash"
    /\ up \in {"boot", "restoring"} => fault # "refused"
    /\ up = "restoring" => (fault = "none" <=> Switched(Main) \/ pc[Main] = "saved")
    /\ up = "failed" => fault # "none"

IInv ==
    /\ TypeOK
    /\ LockInv
    /\ TxInv
    /\ MainInv
    /\ AskInv
    /\ RowInv
    /\ SyncInv
    /\ FaultInv

(* What an editor commits keeps the rows and the selection in their types, and *)
(* what is selected exists.                                                    *)
LEMMA CommitEffect ==
    ASSUME IInv, NEW e \in Editor, EditCommit(e)
    PROVE  /\ version' \in [Id -> 0..MaxVersion \cup {None}]
           /\ selected' \in Id \cup {None}
           /\ selected' # None => version'[selected'] # None
<1>. USE BoundAssumption, NoneAssumption DEF IInv, TypeOK, RowInv, TxInv, rowVars
<1>. DEFINE i == edit[e].id
<1>1. CASE edit[e] = Refresh
  <2>1. UNCHANGED rowVars
    BY <1>1 DEF EditCommit, Refresh
  <2>. QED
    BY <2>1
<1>2. CASE edit[e] # Refresh
  <2>1. edit[e] \in [op : {"update", "select", "remove"}, id : Id]
    BY <1>2 DEF EditCommit, Edit
  <2>2. i \in Id /\ version[i] \in 0..MaxVersion
    BY <1>2, <2>1 DEF EditCommit
  <2>3. CASE edit[e].op = "update"
    <3>1. version' = [version EXCEPT ![i] = @ + 1] /\ selected' = selected
      BY <1>2, <2>3 DEF EditCommit
    <3>2. version[i] + 1 \in 0..MaxVersion
      BY <1>2, <2>2, <2>3 DEF EditCommit
    <3>. QED
      BY <2>2, <3>1, <3>2
  <2>4. CASE edit[e].op = "select"
    <3>1. version' = version /\ selected' = i
      BY <1>2, <2>4 DEF EditCommit
    <3>. QED
      BY <2>2, <3>1
  <2>5. CASE edit[e].op = "remove"
    <3>1. version' = [version EXCEPT ![i] = None] /\ selected' = SelectedWithout(i)
      BY <1>2, <2>5 DEF EditCommit
    <3>. QED
      BY <2>2, <3>1 DEF SelectedWithout
  <2>. QED
    BY <2>1, <2>3, <2>4, <2>5
<1>. QED
  BY <1>1, <1>2

(* The variables keep their types. *)
LEMMA TypeStep ==
    ASSUME IInv, [Next]_vars
    PROVE  TypeOK'
<1>. USE BoundAssumption, EmptyAssumption, EditorAssumption, NoneAssumption
     DEF IInv, TypeOK, Thread, daeVars, rowVars, lockVars, threadVars, historyVars,
         Edit, Refresh,
         Dae!TypeOK, Dae!Phases, Dae!Verdicts, AskInv, LockInv, TxInv
<1>1. CASE DaeOther /\ Dae!Boot
  BY <1>1 DEF DaeOther, Dae!Boot
<1>2. CASE DaeSwitch
  BY <1>2 DEF DaeSwitch, Dae!Switch
<1>3. CASE DaeOther /\ Dae!Refuse
  BY <1>3 DEF DaeOther, Dae!Refuse
<1>4. CASE DaeOther /\ Dae!Reply
  BY <1>4 DEF DaeOther, Dae!Reply
<1>5. ASSUME NEW k \in Thread, DaeOther /\ Dae!Accept(k)
      PROVE  TypeOK'
  BY <1>5 DEF DaeOther, Dae!Accept
<1>6. ASSUME NEW k \in Thread, BeginRun(k)
      PROVE  TypeOK'
  BY <1>6 DEF BeginRun, LockFree
<1>7. ASSUME NEW k \in Thread, BeginDry(k)
      PROVE  TypeOK'
  BY <1>7 DEF BeginDry, LockFree, Config
<1>8. ASSUME NEW k \in Thread, ReadSelected(k)
      PROVE  TypeOK'
  <2>1. [id |-> selected, version |-> version[selected]] \in Content
    BY <1>8 DEF ReadSelected, RowInv, Content
  <2>. QED
    BY <1>8, <2>1 DEF ReadSelected, Reads, Config
<1>9. ASSUME NEW k \in Thread, GiveUp(k)
      PROVE  TypeOK'
  BY <1>9 DEF GiveUp, RunFails, Ends, Unlock
<1>10. ASSUME NEW k \in Thread, Request(k)
      PROVE  TypeOK'
  BY <1>10 DEF Request, Dae!Ask
<1>11. ASSUME NEW k \in Thread, NotLoaded(k)
      PROVE  TypeOK'
  BY <1>11 DEF NotLoaded, Dae!Settle, RunFails, Ends, Unlock
<1>12. ASSUME NEW k \in Thread, Save(k)
      PROVE  TypeOK'
  BY <1>12 DEF Save, Loaded, MayWrite, Dae!Settle, Unlock
<1>13. ASSUME NEW k \in Thread, SaveRefused(k)
      PROVE  TypeOK'
  BY <1>13 DEF SaveRefused, MayWrite, Dae!Settle, RunFails, Ends, Unlock
<1>14. ASSUME NEW k \in Thread, CommitRun(k)
      PROVE  TypeOK'
  <2>1. target[k] \in Config
    BY <1>14 DEF CommitRun, RunReturns, AskInv
  <2>2. sys' \in System
    BY <1>14, <2>1 DEF CommitRun, Record, System, Config, Content
  <2>. QED
    BY <1>14, <2>2 DEF CommitRun, RunReturns, Ends
<1>15. ASSUME NEW k \in Thread, CommitRunRefused(k)
      PROVE  TypeOK'
  BY <1>15 DEF CommitRunRefused, MayCommit, RunReturns, Ends
<1>16. CASE NothingRan \/ NothingSelected
  BY <1>16 DEF NothingRan, NothingSelected
<1>17. CASE Restore
  BY <1>17 DEF Restore
<1>18. CASE MarkStopped
  <2>1. sys' \in System
    BY <1>18 DEF MarkStopped, StopRunning, System
  <2>. QED
    BY <1>18, <2>1 DEF MarkStopped
<1>19. CASE MarkStoppedRefused
  BY <1>19 DEF MarkStoppedRefused, MayWrite, MayCommit
<1>20. ASSUME NEW e \in Editor, JobWrite(e)
      PROVE  TypeOK'
  BY <1>20 DEF JobWrite, Writes, MayWrite
<1>21. ASSUME NEW e \in Editor, NEW ed \in Edit, EditWrite(e, ed)
      PROVE  TypeOK'
  BY <1>21 DEF EditWrite, Writes, MayWrite
<1>22. ASSUME NEW e \in Editor, EditCommit(e)
      PROVE  TypeOK'
  <2>1. shared' \subseteq Thread \cup Editor /\ reserved' \in Thread \cup Editor \cup {None}
    BY <1>22 DEF EditCommit, Ends
  <2>2. edit' \in [Editor -> Edit \cup {None}]
    BY <1>22 DEF EditCommit
  <2>3. version' \in [Id -> 0..MaxVersion \cup {None}] /\ selected' \in Id \cup {None}
    BY <1>22, CommitEffect
  <2>. QED
    BY <1>22, <2>1, <2>2, <2>3 DEF EditCommit
<1>23. ASSUME NEW e \in Editor, EditLost(e)
      PROVE  TypeOK'
  BY <1>23 DEF EditLost, MayCommit, Ends
<1>24. CASE Crash
  BY <1>24 DEF Crash, Config
<1>25. CASE UNCHANGED vars
  BY <1>25 DEF vars
<1>. QED
  BY <1>1, <1>2, <1>3, <1>4, <1>5, <1>6, <1>7, <1>8, <1>9, <1>10, <1>11,
     <1>12, <1>13, <1>14, <1>15, <1>16, <1>17, <1>18, <1>19, <1>20, <1>21,
     <1>22, <1>23, <1>24, <1>25
     DEF Next, RunStep, MainStep, EditEnds, DaeStep, DaeOther

(* Every way out of config.Run releases runLock, and nobody gets in past it. *)
LEMMA LockStep ==
    ASSUME IInv, [Next]_vars
    PROVE  LockInv'
<1>. USE BoundAssumption, EmptyAssumption, EditorAssumption, NoneAssumption
     DEF IInv, TypeOK, Thread, daeVars, rowVars, lockVars, threadVars, historyVars, LockInv, MainInv
<1>1. ASSUME NEW k \in Thread, BeginRun(k)
      PROVE  LockInv'
  BY <1>1 DEF BeginRun, LockFree
<1>2. ASSUME NEW k \in Thread, BeginDry(k)
      PROVE  LockInv'
  BY <1>2 DEF BeginDry, LockFree
<1>3. ASSUME NEW k \in Thread, ReadSelected(k)
      PROVE  LockInv'
  BY <1>3 DEF ReadSelected, Reads
<1>4. ASSUME NEW k \in Thread, GiveUp(k)
      PROVE  LockInv'
  BY <1>4 DEF GiveUp, RunFails, Ends, Unlock
<1>5. ASSUME NEW k \in Thread, Request(k)
      PROVE  LockInv'
  BY <1>5 DEF Request, Dae!Ask
<1>6. ASSUME NEW k \in Thread, NotLoaded(k)
      PROVE  LockInv'
  BY <1>6 DEF NotLoaded, Dae!Settle, RunFails, Ends, Unlock
<1>7. ASSUME NEW k \in Thread, Save(k)
      PROVE  LockInv'
  BY <1>7 DEF Save, Loaded, MayWrite, Dae!Settle, Unlock
<1>8. ASSUME NEW k \in Thread, SaveRefused(k)
      PROVE  LockInv'
  BY <1>8 DEF SaveRefused, MayWrite, Dae!Settle, RunFails, Ends, Unlock
<1>9. ASSUME NEW k \in Thread, CommitRun(k)
      PROVE  LockInv'
  BY <1>9 DEF CommitRun, MayCommit, RunReturns, Ends, Record
<1>10. ASSUME NEW k \in Thread, CommitRunRefused(k)
      PROVE  LockInv'
  BY <1>10 DEF CommitRunRefused, MayCommit, RunReturns, Ends
<1>11. CASE Restore
  BY <1>11 DEF Restore
<1>12. CASE Crash
  BY <1>12 DEF Crash
<1>13. CASE UNCHANGED vars
  BY <1>13 DEF vars
<1>. QED
  BY <1>1, <1>2, <1>3, <1>4, <1>5, <1>6, <1>7, <1>8, <1>9, <1>10, <1>11,
     <1>12, <1>13
     DEF DaeStep, DaeSwitch, DaeOther, Dae!Boot, Dae!Switch, Dae!Refuse, Dae!Reply, Dae!Accept,
         NothingRan, NothingSelected, MarkStopped, StopRunning, MayWrite, MayCommit,
         MarkStoppedRefused, JobWrite, Writes, EditWrite, EditCommit, Ends,
         SelectedWithout, EditLost, Next, RunStep, MainStep, EditEnds

(* RESERVED belongs to the one transaction that has written. *)
LEMMA TxStep ==
    ASSUME IInv, [Next]_vars
    PROVE  TxInv'
<1>. USE BoundAssumption, EmptyAssumption, EditorAssumption, NoneAssumption
     DEF IInv, TypeOK, Thread, daeVars, rowVars, lockVars, threadVars, historyVars,
         Edit, Refresh, TxInv, MainInv
<1>1. ASSUME NEW k \in Thread, GiveUp(k)
      PROVE  TxInv'
  BY <1>1 DEF GiveUp, RunFails, Ends, Unlock
<1>2. ASSUME NEW k \in Thread, NotLoaded(k)
      PROVE  TxInv'
  BY <1>2 DEF NotLoaded, Dae!Settle, RunFails, Ends, Unlock
<1>3. ASSUME NEW k \in Thread, Save(k)
      PROVE  TxInv'
  BY <1>3 DEF Save, Loaded, MayWrite, Dae!Settle, Unlock
<1>4. ASSUME NEW k \in Thread, SaveRefused(k)
      PROVE  TxInv'
  BY <1>4 DEF SaveRefused, MayWrite, Dae!Settle, RunFails, Ends, Unlock
<1>5. ASSUME NEW k \in Thread, CommitRun(k)
      PROVE  TxInv'
  BY <1>5 DEF CommitRun, MayCommit, RunReturns, Ends, Record
<1>6. ASSUME NEW k \in Thread, CommitRunRefused(k)
      PROVE  TxInv'
  BY <1>6 DEF CommitRunRefused, MayCommit, RunReturns, Ends
<1>7. CASE Restore
  BY <1>7 DEF Restore
<1>8. ASSUME NEW e \in Editor, JobWrite(e)
      PROVE  TxInv'
  BY <1>8 DEF JobWrite, Writes, MayWrite
<1>9. ASSUME NEW e \in Editor, NEW ed \in Edit, EditWrite(e, ed)
      PROVE  TxInv'
  BY <1>9 DEF EditWrite, Writes, MayWrite
<1>10. ASSUME NEW e \in Editor, EditCommit(e)
      PROVE  TxInv'
  BY <1>10 DEF EditCommit, MayCommit, Ends, SelectedWithout
<1>11. ASSUME NEW e \in Editor, EditLost(e)
      PROVE  TxInv'
  BY <1>11 DEF EditLost, MayCommit, Ends
<1>12. CASE Crash
  BY <1>12 DEF Crash
<1>13. CASE UNCHANGED vars
  BY <1>13 DEF vars
<1>. QED
  BY <1>1, <1>2, <1>3, <1>4, <1>5, <1>6, <1>7, <1>8, <1>9, <1>10, <1>11,
     <1>12, <1>13
     DEF DaeStep, DaeSwitch, DaeOther, Dae!Boot, Dae!Switch, Dae!Refuse, Dae!Reply, Dae!Accept,
         BeginRun, LockFree, BeginDry, ReadSelected, Reads, Request, Dae!Ask,
         NothingRan, NothingSelected, MarkStopped, StopRunning, MayWrite, MayCommit,
         MarkStoppedRefused, Next, RunStep, MainStep, EditEnds

(* The restore comes before any other run, and begins with an empty dae. *)
LEMMA RestoreStep ==
    ASSUME IInv, [Next]_vars
    PROVE  MainInv'
<1>. USE BoundAssumption, EmptyAssumption, EditorAssumption, NoneAssumption
     DEF IInv, TypeOK, Thread, daeVars, rowVars, lockVars, threadVars, historyVars,
         MainInv, LockInv, TxInv, AskInv
<1>1. CASE DaeOther /\ Dae!Boot
  BY <1>1 DEF DaeOther, Dae!Boot
<1>2. CASE DaeSwitch
  BY <1>2 DEF DaeSwitch, Dae!Switch
<1>3. CASE DaeOther /\ Dae!Refuse
  BY <1>3 DEF DaeOther, Dae!Refuse
<1>4. CASE DaeOther /\ Dae!Reply
  BY <1>4 DEF DaeOther, Dae!Reply
<1>5. ASSUME NEW k \in Thread, DaeOther /\ Dae!Accept(k)
      PROVE  MainInv'
  BY <1>5 DEF DaeOther, Dae!Accept
<1>6. ASSUME NEW k \in Thread, BeginRun(k)
      PROVE  MainInv'
  BY <1>6 DEF BeginRun, LockFree
<1>7. ASSUME NEW k \in Thread, BeginDry(k)
      PROVE  MainInv'
  BY <1>7 DEF BeginDry, LockFree
<1>8. ASSUME NEW k \in Thread, ReadSelected(k)
      PROVE  MainInv'
  BY <1>8 DEF ReadSelected, Reads
<1>9. ASSUME NEW k \in Thread, GiveUp(k)
      PROVE  MainInv'
  BY <1>9 DEF GiveUp, RunFails, Ends, Unlock
<1>10. ASSUME NEW k \in Thread, Request(k)
      PROVE  MainInv'
  BY <1>10 DEF Request, Dae!Ask
<1>11. ASSUME NEW k \in Thread, NotLoaded(k)
      PROVE  MainInv'
  BY <1>11 DEF NotLoaded, Dae!Settle, RunFails, Ends, Unlock
<1>12. ASSUME NEW k \in Thread, Save(k)
      PROVE  MainInv'
  BY <1>12 DEF Save, Loaded, MayWrite, Dae!Settle, Unlock
<1>13. ASSUME NEW k \in Thread, SaveRefused(k)
      PROVE  MainInv'
  BY <1>13 DEF SaveRefused, MayWrite, Dae!Settle, RunFails, Ends, Unlock
<1>14. ASSUME NEW k \in Thread, CommitRun(k)
      PROVE  MainInv'
  BY <1>14 DEF CommitRun, MayCommit, RunReturns, Ends, Record
<1>15. ASSUME NEW k \in Thread, CommitRunRefused(k)
      PROVE  MainInv'
  BY <1>15 DEF CommitRunRefused, MayCommit, RunReturns, Ends
<1>16. CASE NothingRan \/ NothingSelected
  BY <1>16 DEF NothingRan, NothingSelected
<1>17. CASE Restore
  BY <1>17 DEF Restore
<1>18. CASE MarkStopped
  BY <1>18 DEF MarkStopped, StopRunning, MayWrite, MayCommit
<1>19. CASE MarkStoppedRefused
  BY <1>19 DEF MarkStoppedRefused, MayWrite, MayCommit
<1>20. ASSUME NEW e \in Editor, JobWrite(e)
      PROVE  MainInv'
  BY <1>20 DEF JobWrite, Writes, MayWrite
<1>21. ASSUME NEW e \in Editor, NEW ed \in Edit, EditWrite(e, ed)
      PROVE  MainInv'
  BY <1>21 DEF EditWrite, Writes, MayWrite
<1>22. ASSUME NEW e \in Editor, EditCommit(e)
      PROVE  MainInv'
  BY <1>22 DEF EditCommit, MayCommit, Ends, SelectedWithout
<1>23. ASSUME NEW e \in Editor, EditLost(e)
      PROVE  MainInv'
  BY <1>23 DEF EditLost, MayCommit, Ends
<1>24. CASE Crash
  <2>1. sys.running => [id |-> sys.id, version |-> sys.version] \in Content
    BY DEF SyncInv, Content, System
  <2>2. InSync(EmptyConfig, sys) <=> ~sys.running
    BY <2>1 DEF InSync
  <2>. QED
    BY <1>24, <2>2 DEF Crash, System
<1>25. CASE UNCHANGED vars
  BY <1>25 DEF vars
<1>. QED
  BY <1>1, <1>2, <1>3, <1>4, <1>5, <1>6, <1>7, <1>8, <1>9, <1>10, <1>11,
     <1>12, <1>13, <1>14, <1>15, <1>16, <1>17, <1>18, <1>19, <1>20, <1>21,
     <1>22, <1>23, <1>24, <1>25
     DEF Next, RunStep, MainStep, EditEnds, DaeStep, DaeOther

(* Requests and their answers belong to the threads inside config.Run. *)
LEMMA AskStep ==
    ASSUME IInv, [Next]_vars
    PROVE  AskInv'
<1>. USE BoundAssumption, EmptyAssumption, EditorAssumption, NoneAssumption
     DEF IInv, TypeOK, Thread, daeVars, rowVars, lockVars, threadVars, historyVars,
         Dae!TypeOK, Dae!Phases, Dae!Verdicts, AskInv, LockInv, MainInv
<1>1. CASE DaeOther /\ Dae!Boot
  BY <1>1 DEF DaeOther, Dae!Boot
<1>2. CASE DaeSwitch
  BY <1>2 DEF DaeSwitch, Dae!Switch
<1>3. CASE DaeOther /\ Dae!Refuse
  BY <1>3 DEF DaeOther, Dae!Refuse
<1>4. CASE DaeOther /\ Dae!Reply
  BY <1>4 DEF DaeOther, Dae!Reply
<1>5. ASSUME NEW k \in Thread, DaeOther /\ Dae!Accept(k)
      PROVE  AskInv'
  BY <1>5 DEF DaeOther, Dae!Accept
<1>6. ASSUME NEW k \in Thread, BeginRun(k)
      PROVE  AskInv'
  BY <1>6 DEF BeginRun, LockFree
<1>7. ASSUME NEW k \in Thread, BeginDry(k)
      PROVE  AskInv'
  BY <1>7 DEF BeginDry, LockFree, Config
<1>8. ASSUME NEW k \in Thread, ReadSelected(k)
      PROVE  AskInv'
  <2>1. [id |-> selected, version |-> version[selected]] \in Content
    BY <1>8 DEF ReadSelected, RowInv, Content
  <2>. QED
    BY <1>8, <2>1 DEF ReadSelected, Config
<1>9. ASSUME NEW k \in Thread, GiveUp(k)
      PROVE  AskInv'
  BY <1>9 DEF GiveUp, RunFails, Ends, Unlock
<1>10. ASSUME NEW k \in Thread, Request(k)
      PROVE  AskInv'
  BY <1>10 DEF Request, Dae!Ask
<1>11. ASSUME NEW k \in Thread, NotLoaded(k)
      PROVE  AskInv'
  BY <1>11 DEF NotLoaded, Dae!Settle, RunFails, Ends, Unlock
<1>12. ASSUME NEW k \in Thread, Save(k)
      PROVE  AskInv'
  BY <1>12 DEF Save, Loaded, MayWrite, Dae!Settle, Unlock
<1>13. ASSUME NEW k \in Thread, SaveRefused(k)
      PROVE  AskInv'
  BY <1>13 DEF SaveRefused, MayWrite, Dae!Settle, RunFails, Ends, Unlock
<1>14. ASSUME NEW k \in Thread, CommitRun(k)
      PROVE  AskInv'
  BY <1>14 DEF CommitRun, MayCommit, RunReturns, Ends, Record
<1>15. ASSUME NEW k \in Thread, CommitRunRefused(k)
      PROVE  AskInv'
  BY <1>15 DEF CommitRunRefused, MayCommit, RunReturns, Ends
<1>16. CASE NothingRan \/ NothingSelected
  BY <1>16 DEF NothingRan, NothingSelected
<1>17. CASE Restore
  BY <1>17 DEF Restore
<1>18. CASE MarkStopped
  BY <1>18 DEF MarkStopped, StopRunning, MayWrite, MayCommit
<1>19. CASE MarkStoppedRefused
  BY <1>19 DEF MarkStoppedRefused, MayWrite, MayCommit
<1>20. ASSUME NEW e \in Editor, JobWrite(e)
      PROVE  AskInv'
  BY <1>20 DEF JobWrite, Writes, MayWrite
<1>21. ASSUME NEW e \in Editor, NEW ed \in Edit, EditWrite(e, ed)
      PROVE  AskInv'
  BY <1>21 DEF EditWrite, Writes, MayWrite
<1>22. ASSUME NEW e \in Editor, EditCommit(e)
      PROVE  AskInv'
  BY <1>22 DEF EditCommit, MayCommit, Ends, SelectedWithout
<1>23. ASSUME NEW e \in Editor, EditLost(e)
      PROVE  AskInv'
  BY <1>23 DEF EditLost, MayCommit, Ends
<1>24. CASE Crash
  BY <1>24 DEF Crash
<1>25. CASE UNCHANGED vars
  BY <1>25 DEF vars
<1>. QED
  BY <1>1, <1>2, <1>3, <1>4, <1>5, <1>6, <1>7, <1>8, <1>9, <1>10, <1>11,
     <1>12, <1>13, <1>14, <1>15, <1>16, <1>17, <1>18, <1>19, <1>20, <1>21,
     <1>22, <1>23, <1>24, <1>25
     DEF Next, RunStep, MainStep, EditEnds, DaeStep, DaeOther

(* The readers' locks keep what a run has read. *)
LEMMA RowStep ==
    ASSUME IInv, [Next]_vars
    PROVE  RowInv'
<1>. USE BoundAssumption, EmptyAssumption, EditorAssumption, NoneAssumption
     DEF IInv, TypeOK, Thread, daeVars, rowVars, lockVars, threadVars, historyVars,
         RowInv, LockInv, TxInv, AskInv, MainInv, Edit, Refresh
<1>1. ASSUME NEW k \in Thread, BeginRun(k)
      PROVE  RowInv'
  BY <1>1 DEF BeginRun, LockFree
<1>2. ASSUME NEW k \in Thread, BeginDry(k)
      PROVE  RowInv'
  BY <1>2 DEF BeginDry, LockFree
<1>3. ASSUME NEW k \in Thread, ReadSelected(k)
      PROVE  RowInv'
  BY <1>3 DEF ReadSelected, Reads
<1>4. ASSUME NEW k \in Thread, GiveUp(k)
      PROVE  RowInv'
  BY <1>4 DEF GiveUp, RunFails, Ends, Unlock
<1>5. ASSUME NEW k \in Thread, Request(k)
      PROVE  RowInv'
  BY <1>5 DEF Request, Dae!Ask
<1>6. ASSUME NEW k \in Thread, NotLoaded(k)
      PROVE  RowInv'
  BY <1>6 DEF NotLoaded, Dae!Settle, RunFails, Ends, Unlock
<1>7. ASSUME NEW k \in Thread, Save(k)
      PROVE  RowInv'
  BY <1>7 DEF Save, Loaded, MayWrite, Dae!Settle, Unlock
<1>8. ASSUME NEW k \in Thread, SaveRefused(k)
      PROVE  RowInv'
  BY <1>8 DEF SaveRefused, MayWrite, Dae!Settle, RunFails, Ends, Unlock
<1>9. ASSUME NEW k \in Thread, CommitRun(k)
      PROVE  RowInv'
  BY <1>9 DEF CommitRun, MayCommit, RunReturns, Ends, Record
<1>10. ASSUME NEW k \in Thread, CommitRunRefused(k)
      PROVE  RowInv'
  BY <1>10 DEF CommitRunRefused, MayCommit, RunReturns, Ends
<1>11. CASE Restore
  BY <1>11 DEF Restore
<1>12. ASSUME NEW e \in Editor, JobWrite(e)
      PROVE  RowInv'
  BY <1>12 DEF JobWrite, Writes, MayWrite
<1>13. ASSUME NEW e \in Editor, NEW ed \in Edit, EditWrite(e, ed)
      PROVE  RowInv'
  BY <1>13 DEF EditWrite, Writes, MayWrite
<1>14. ASSUME NEW e \in Editor, EditCommit(e)
      PROVE  RowInv'
  <2>1. \A k \in Thread : ~(pc[k] \in {"ready", "asked", "saved"} /\ target[k] # EmptyConfig)
    BY <1>14 DEF EditCommit, MayCommit
  <2>2. \A f \in Editor : edit'[f] = None
    BY <1>14 DEF EditCommit
  <2>. QED
    BY <1>14, <2>1, <2>2, CommitEffect DEF EditCommit
<1>15. ASSUME NEW e \in Editor, EditLost(e)
      PROVE  RowInv'
  BY <1>15 DEF EditLost, MayCommit, Ends
<1>16. CASE Crash
  BY <1>16 DEF Crash
<1>17. CASE UNCHANGED vars
  BY <1>17 DEF vars
<1>. QED
  BY <1>1, <1>2, <1>3, <1>4, <1>5, <1>6, <1>7, <1>8, <1>9, <1>10, <1>11,
     <1>12, <1>13, <1>14, <1>15, <1>16, <1>17
     DEF DaeStep, DaeSwitch, DaeOther, Dae!Boot, Dae!Switch, Dae!Refuse, Dae!Reply, Dae!Accept,
         NothingRan, NothingSelected, MarkStopped, StopRunning, MayWrite, MayCommit,
         MarkStoppedRefused, Next, RunStep, MainStep, EditEnds

(* Nothing but a fault separates the record from what dae runs. *)
LEMMA SyncStep ==
    ASSUME IInv, [Next]_vars
    PROVE  SyncInv'
<1>. USE BoundAssumption, EmptyAssumption, EditorAssumption, NoneAssumption
     DEF IInv, TypeOK, Thread, daeVars, rowVars, lockVars, threadVars, historyVars,
         SyncInv, FaultInv, Switched, InSync, LockInv, TxInv, MainInv, AskInv, RowInv,
         Dae!TypeOK, Dae!Verdicts, Dae!Phases
<1>1. CASE DaeOther /\ Dae!Boot
  BY <1>1 DEF DaeOther, Dae!Boot
<1>2. CASE DaeSwitch
  BY <1>2 DEF DaeSwitch, Dae!Switch
<1>3. CASE DaeOther /\ Dae!Refuse
  BY <1>3 DEF DaeOther, Dae!Refuse
<1>4. CASE DaeOther /\ Dae!Reply
  BY <1>4 DEF DaeOther, Dae!Reply
<1>5. ASSUME NEW k \in Thread, DaeOther /\ Dae!Accept(k)
      PROVE  SyncInv'
  BY <1>5 DEF DaeOther, Dae!Accept
<1>6. ASSUME NEW k \in Thread, BeginRun(k)
      PROVE  SyncInv'
  BY <1>6 DEF BeginRun, LockFree
<1>7. ASSUME NEW k \in Thread, BeginDry(k)
      PROVE  SyncInv'
  BY <1>7 DEF BeginDry, LockFree
<1>8. ASSUME NEW k \in Thread, ReadSelected(k)
      PROVE  SyncInv'
  BY <1>8 DEF ReadSelected, Reads
<1>9. ASSUME NEW k \in Thread, GiveUp(k)
      PROVE  SyncInv'
  BY <1>9 DEF GiveUp, RunFails, Ends, Unlock
<1>10. ASSUME NEW k \in Thread, Request(k)
      PROVE  SyncInv'
  BY <1>10 DEF Request, Dae!Ask
<1>11. ASSUME NEW k \in Thread, NotLoaded(k)
      PROVE  SyncInv'
  BY <1>11 DEF NotLoaded, Dae!Settle, RunFails, Ends, Unlock
<1>12. ASSUME NEW k \in Thread, Save(k)
      PROVE  SyncInv'
  BY <1>12 DEF Save, Loaded, MayWrite, Dae!Settle, Unlock
<1>13. ASSUME NEW k \in Thread, SaveRefused(k)
      PROVE  SyncInv'
  BY <1>13 DEF SaveRefused, MayWrite, Dae!Settle, RunFails, Ends, Unlock
<1>14. ASSUME NEW k \in Thread, CommitRun(k)
      PROVE  SyncInv'
  <2>1. target[k] \in Config
    BY <1>14 DEF CommitRun, RunReturns
  <2>2. InSync(target[k], sys') /\ (sys'.running => sys'.id \in Id)
    <3>1. CASE target[k] = EmptyConfig
      BY <1>14, <3>1 DEF CommitRun, Record, System
    <3>2. CASE target[k] # EmptyConfig
      BY <1>14, <2>1, <3>2 DEF CommitRun, Record, Config, Content
    <3>. QED
      BY <3>1, <3>2
  <2>3. \A t \in Thread : pc'[t] # "saved"
    BY <1>14 DEF CommitRun, RunReturns
  <2>4. \A t \in Thread : Switched(t)' <=> Switched(t)
    BY <1>14 DEF CommitRun, RunReturns
  <2>5. \A t \in Thread : Switched(t) => active' = target'[t]
    BY <1>14 DEF CommitRun, RunReturns
  <2>6. fault' = "none" => (\E t \in Thread : Switched(t)) \/ InSync(active', sys')
    <3>1. fault = "none" => (\E t \in Thread : Switched(t)) \/ active = target[k]
      BY <1>14 DEF CommitRun, RunReturns
    <3>. QED
      BY <1>14, <2>2, <3>1 DEF CommitRun, RunReturns
  <2>. QED
    BY <2>2, <2>3, <2>4, <2>5, <2>6 DEF SyncInv
<1>15. ASSUME NEW k \in Thread, CommitRunRefused(k)
      PROVE  SyncInv'
  BY <1>15 DEF CommitRunRefused, MayCommit, RunReturns, Ends
<1>16. CASE NothingRan \/ NothingSelected
  BY <1>16 DEF NothingRan, NothingSelected
<1>17. CASE Restore
  BY <1>17 DEF Restore
<1>18. CASE MarkStopped
  <2>1. sys' = [sys EXCEPT !.running = FALSE] /\ sys'.running = FALSE
    BY <1>18 DEF MarkStopped, StopRunning, System
  <2>2. \A k \in Thread : pc[k] = "idle"
    BY <1>18 DEF MarkStopped
  <2>. QED
    BY <1>18, <2>1, <2>2 DEF MarkStopped
<1>19. CASE MarkStoppedRefused
  BY <1>19 DEF MarkStoppedRefused, MayWrite, MayCommit
<1>20. ASSUME NEW e \in Editor, JobWrite(e)
      PROVE  SyncInv'
  BY <1>20 DEF JobWrite, Writes, MayWrite
<1>21. ASSUME NEW e \in Editor, NEW ed \in Edit, EditWrite(e, ed)
      PROVE  SyncInv'
  BY <1>21 DEF EditWrite, Writes, MayWrite
<1>22. ASSUME NEW e \in Editor, EditCommit(e)
      PROVE  SyncInv'
  BY <1>22 DEF EditCommit, MayCommit, Ends, SelectedWithout
<1>23. ASSUME NEW e \in Editor, EditLost(e)
      PROVE  SyncInv'
  BY <1>23 DEF EditLost, MayCommit, Ends
<1>24. CASE Crash
  BY <1>24 DEF Crash
<1>25. CASE UNCHANGED vars
  BY <1>25 DEF vars
<1>. QED
  BY <1>1, <1>2, <1>3, <1>4, <1>5, <1>6, <1>7, <1>8, <1>9, <1>10, <1>11,
     <1>12, <1>13, <1>14, <1>15, <1>16, <1>17, <1>18, <1>19, <1>20, <1>21,
     <1>22, <1>23, <1>24, <1>25
     DEF Next, RunStep, MainStep, EditEnds, DaeStep, DaeOther

(* What a start has to make up for, and when it has. *)
LEMMA FaultStep ==
    ASSUME IInv, [Next]_vars
    PROVE  FaultInv'
<1>. USE BoundAssumption, EmptyAssumption, EditorAssumption, NoneAssumption
     DEF IInv, TypeOK, Thread, daeVars, rowVars, lockVars, threadVars, historyVars,
         FaultInv, Switched, LockInv, TxInv, MainInv, AskInv,
         Dae!TypeOK, Dae!Verdicts, Dae!Phases
<1>1. CASE DaeOther /\ Dae!Boot
  BY <1>1 DEF DaeOther, Dae!Boot
<1>2. CASE DaeSwitch
  BY <1>2 DEF DaeSwitch, Dae!Switch
<1>3. CASE DaeOther /\ Dae!Refuse
  BY <1>3 DEF DaeOther, Dae!Refuse
<1>4. CASE DaeOther /\ Dae!Reply
  BY <1>4 DEF DaeOther, Dae!Reply
<1>5. ASSUME NEW k \in Thread, DaeOther /\ Dae!Accept(k)
      PROVE  FaultInv'
  BY <1>5 DEF DaeOther, Dae!Accept
<1>6. ASSUME NEW k \in Thread, BeginRun(k)
      PROVE  FaultInv'
  BY <1>6 DEF BeginRun, LockFree
<1>7. ASSUME NEW k \in Thread, BeginDry(k)
      PROVE  FaultInv'
  BY <1>7 DEF BeginDry, LockFree
<1>8. ASSUME NEW k \in Thread, ReadSelected(k)
      PROVE  FaultInv'
  BY <1>8 DEF ReadSelected, Reads
<1>9. ASSUME NEW k \in Thread, GiveUp(k)
      PROVE  FaultInv'
  BY <1>9 DEF GiveUp, RunFails, Ends, Unlock
<1>10. ASSUME NEW k \in Thread, Request(k)
      PROVE  FaultInv'
  BY <1>10 DEF Request, Dae!Ask
<1>11. ASSUME NEW k \in Thread, NotLoaded(k)
      PROVE  FaultInv'
  BY <1>11 DEF NotLoaded, Dae!Settle, RunFails, Ends, Unlock
<1>12. ASSUME NEW k \in Thread, Save(k)
      PROVE  FaultInv'
  BY <1>12 DEF Save, Loaded, MayWrite, Dae!Settle, Unlock
<1>13. ASSUME NEW k \in Thread, SaveRefused(k)
      PROVE  FaultInv'
  BY <1>13 DEF SaveRefused, MayWrite, Dae!Settle, RunFails, Ends, Unlock
<1>14. ASSUME NEW k \in Thread, CommitRun(k)
      PROVE  FaultInv'
  BY <1>14 DEF CommitRun, MayCommit, RunReturns, Ends, Record
<1>15. ASSUME NEW k \in Thread, CommitRunRefused(k)
      PROVE  FaultInv'
  BY <1>15 DEF CommitRunRefused, MayCommit, RunReturns, Ends
<1>16. CASE NothingRan \/ NothingSelected
  BY <1>16 DEF NothingRan, NothingSelected
<1>17. CASE Restore
  BY <1>17 DEF Restore
<1>18. CASE MarkStopped
  BY <1>18 DEF MarkStopped, StopRunning, MayWrite, MayCommit
<1>19. CASE MarkStoppedRefused
  BY <1>19 DEF MarkStoppedRefused, MayWrite, MayCommit
<1>20. ASSUME NEW e \in Editor, JobWrite(e)
      PROVE  FaultInv'
  BY <1>20 DEF JobWrite, Writes, MayWrite
<1>21. ASSUME NEW e \in Editor, NEW ed \in Edit, EditWrite(e, ed)
      PROVE  FaultInv'
  BY <1>21 DEF EditWrite, Writes, MayWrite
<1>22. ASSUME NEW e \in Editor, EditCommit(e)
      PROVE  FaultInv'
  BY <1>22 DEF EditCommit, MayCommit, Ends, SelectedWithout
<1>23. ASSUME NEW e \in Editor, EditLost(e)
      PROVE  FaultInv'
  BY <1>23 DEF EditLost, MayCommit, Ends
<1>24. CASE Crash
  BY <1>24 DEF Crash
<1>25. CASE UNCHANGED vars
  BY <1>25 DEF vars
<1>. QED
  BY <1>1, <1>2, <1>3, <1>4, <1>5, <1>6, <1>7, <1>8, <1>9, <1>10, <1>11,
     <1>12, <1>13, <1>14, <1>15, <1>16, <1>17, <1>18, <1>19, <1>20, <1>21,
     <1>22, <1>23, <1>24, <1>25
     DEF Next, RunStep, MainStep, EditEnds, DaeStep, DaeOther

-----------------------------------------------------------------------------
LEMMA InitIInv == Init => IInv
<1>. SUFFICES ASSUME Init PROVE IInv
  OBVIOUS
<1>. USE BoundAssumption, NoneAssumption DEF Init
<1>1. TypeOK
  <2>1. Dae!TypeOK
    BY DEF Dae!Init, Dae!TypeOK, Dae!Phases, Dae!Verdicts, Config
  <2>2. /\ version \in [Id -> 0..MaxVersion \cup {None}]
        /\ sys \in System
    BY DEF System
  <2>3. edit \in [Editor -> Edit \cup {None}]
    OBVIOUS
  <2>4. /\ pc \in [Thread -> {"idle", "locked", "ready", "asked", "saved"}]
        /\ target \in [Thread -> Config \cup {None}]
    OBVIOUS
  <2>5. crashes \in 0..MaxCrash /\ up \in {"boot", "restoring", "failed", "http"}
    OBVIOUS
  <2>6. shared \subseteq Thread \cup Editor /\ selected \in Id \cup {None} /\ fault \in {"none", "crash", "refused"}
    OBVIOUS
  <2>. QED
    BY <2>1, <2>2, <2>3, <2>4, <2>5, <2>6 DEF TypeOK
<1>2. LockInv /\ TxInv /\ MainInv
  BY DEF LockInv, TxInv, MainInv, Thread, Dae!Init
<1>3. AskInv /\ RowInv
  BY DEF AskInv, RowInv, Dae!Init
<1>4. SyncInv /\ FaultInv
  BY DEF SyncInv, FaultInv, Switched, InSync, Dae!Init
<1>. QED
  BY <1>1, <1>2, <1>3, <1>4 DEF IInv

(* The inductive invariant holds in every behaviour. *)
THEOREM Invariance == Spec => []IInv
<1>1. IInv /\ [Next]_vars => IInv'
  BY TypeStep, LockStep, TxStep, RestoreStep, AskStep, RowStep, SyncStep,
     FaultStep DEF IInv
<1>. QED
  BY InitIInv, <1>1, PTL DEF Spec

(* Type correctness: a selected row exists, so that a run reads a version, *)
(* and what a thread asks dae for is a configuration.                      *)
THEOREM TypeCorrect == Spec => []TypeOK
  BY Invariance, PTL DEF IInv

(* Once nobody runs anything the record and dae agree, for any number of   *)
(* overlapping runs, unless a crash or a refused write came between        *)
(* (mutation_utils.go:265, mutation.go:265).                               *)
THEOREM RecordAgrees == Spec => []Agreement
<1>1. IInv => Agreement
  <2>. SUFFICES ASSUME IInv, Quiet, fault = "none" PROVE InSync(active, sys)
    BY DEF Agreement
  <2>1. \A k \in Thread : ~Switched(k) /\ pc[k] # "saved"
    BY DEF Quiet, Switched
  <2>. QED
    BY <2>1 DEF IInv, SyncInv
<1>. QED
  BY Invariance, <1>1, PTL

(* The only step that records a running configuration commits what is      *)
(* selected at that moment, in the version it then has.                    *)
LEMMA SavedIsSelected ==
    ASSUME IInv, [Next]_vars, sys' # sys, sys'.running
    PROVE  selected = sys'.id /\ version[selected] = sys'.version
<1>. USE DEF IInv, daeVars, rowVars, lockVars, threadVars, historyVars
<1>1. ASSUME NEW k \in Thread, CommitRun(k)
      PROVE  selected = sys'.id /\ version[selected] = sys'.version
  <2>1. target[k] # EmptyConfig
    BY <1>1 DEF CommitRun, Record, TypeOK, System
  <2>2. target[k] = [id |-> selected, version |-> version[selected]]
    BY <1>1, <2>1 DEF CommitRun, RunReturns, RowInv
  <2>. QED
    BY <1>1, <2>1, <2>2 DEF CommitRun, Record
<1>2. CASE MarkStopped
  BY <1>2 DEF MarkStopped, StopRunning, TypeOK, System
<1>. QED
  BY <1>1, <1>2
     DEF Next, RunStep, MainStep, EditEnds, DaeStep, DaeSwitch, DaeOther, BeginRun, BeginDry, ReadSelected,
         GiveUp, Request, NotLoaded, Save, SaveRefused, CommitRunRefused, RunReturns,
         NothingRan, NothingSelected, Restore, MarkStoppedRefused, JobWrite, EditWrite, Writes,
         EditCommit, EditLost, Crash, vars

(* No run records a row, or a version of it, that was replaced while dae   *)
(* was loading it.                                                         *)
THEOREM NoStaleRecord == Spec => NothingStaleSaved
<1>1. IInv /\ [Next]_vars =>
        [(sys' # sys /\ sys'.running) =>
            selected = sys'.id /\ version[selected] = sys'.version]_vars
  BY SavedIsSelected
<1>. QED
  BY Invariance, <1>1, PTL DEF Spec, NothingStaleSaved

(* The steps that let requests in after a start leave the record and dae in *)
(* agreement, or are excepted: what main commits is what dae has switched   *)
(* to, and it marks nothing as stopped that dae has switched to.            *)
LEMMA StartSettles ==
    ASSUME IInv, [Next]_vars, up # "http", up' = "http", selected # None,
           fault' # "refused"
    PROVE  InSync(active, sys')
<1>. USE DEF IInv, daeVars, rowVars, lockVars, threadVars, historyVars
<1>1. CASE NothingRan \/ NothingSelected
  BY <1>1 DEF NothingRan, NothingSelected, MainInv, InSync
<1>2. CASE MarkStopped
  <2>1. fault = "crash"
    BY <1>2 DEF MarkStopped, FaultInv, TypeOK
  <2>2. active = EmptyConfig /\ ~sys'.running
    BY <1>2, <2>1 DEF MarkStopped, StopRunning, FaultInv, TypeOK, System
  <2>. QED
    BY <2>2 DEF InSync
<1>3. ASSUME NEW k \in Thread, CommitRun(k)
      PROVE  InSync(active, sys')
  <2>1. k = Main /\ up = "restoring"
    BY <1>3 DEF CommitRun, RunReturns, MainInv, TypeOK, Thread
  <2>2. \A t \in Thread : ~Switched(t)' /\ pc'[t] # "saved"
    BY <1>3, <2>1 DEF CommitRun, RunReturns, MainInv, TypeOK, Thread, Switched
  <2>3. fault' = "none"
    BY <1>3, <2>1 DEF CommitRun, RunReturns, FaultInv, TypeOK
  <2>4. InSync(active', sys')
    BY <2>2, <2>3, SyncStep DEF SyncInv
  <2>. QED
    BY <1>3, <2>4 DEF CommitRun, RunReturns
<1>4. CASE MarkStoppedRefused
  BY <1>4 DEF MarkStoppedRefused
<1>. QED
  BY <1>1, <1>2, <1>3, <1>4
     DEF Next, RunStep, MainStep, EditEnds, DaeStep, DaeSwitch, DaeOther, BeginRun,
         BeginDry, ReadSelected, GiveUp, RunFails, Request, NotLoaded, Save,
         SaveRefused, CommitRunRefused, RunReturns, Restore, JobWrite, EditWrite,
         Writes, EditCommit, EditLost, Crash, vars

(* A start settles what an earlier life of the process left behind         *)
(* (cmd/run.go:156-188), whichever step a crash interrupted, for any number *)
(* of crashes, in the restore too; only a write of its own that SQLite      *)
(* refused is excepted.                                                     *)
THEOREM StartsSettle == Spec => RestoreSettles
<1>1. IInv /\ [Next]_vars =>
        [(up # "http" /\ up' = "http" /\ selected # None /\ fault' # "refused")
            => InSync(active, sys')]_vars
  BY StartSettles
<1>. QED
  BY Invariance, <1>1, PTL DEF Spec, RestoreSettles

================================================================================
