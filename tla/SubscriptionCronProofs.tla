------------------------ MODULE SubscriptionCronProofs ------------------------
(***************************************************************************)
(* Proofs about SubscriptionCron, for any number of subscriptions, of      *)
(* goroutines that execute mutations, of cron expressions and of requests. *)
(*                                                                         *)
(* Two locks carry the argument.  A scheduler is stopped by the one thread *)
(* that holds schedulerMu, so that the cache and the schedulers that run   *)
(* stay one; and the rows a transaction is about to remove or to disable   *)
(* are out of reach of the others until it ends, so that what it has       *)
(* unscheduled stays unscheduled, but for those that had read the row.     *)
(***************************************************************************)
EXTENDS SubscriptionCron, TLAPS

(* What each operation may be at. *)
StepInv ==
    \A t \in Thread :
      /\ \/ op[t] = "none" /\ pc[t] = "idle"
         \/ op[t] = "updateAll" /\ pc[t] \in {"list", "read", "check", "create"}
         \/ op[t] = "cron" /\ pc[t] \in {"unschedule", "stopping", "read", "check", "create", "commit"}
         \/ op[t] = "remove" /\ pc[t] \in {"unschedule", "stopping", "commit"}
         \/ op[t] = "update" /\ pc[t] = "fetched"
      /\ pc[t] \notin {"idle", "list", "commit"} => cur[t] \in Sub
      /\ op[t] \in {"none", "cron", "update"} \/ pc[t] \in {"list", "commit"} => todo[t] = {}
      /\ pc[t] \in {"check", "create"} => seen[t] \in Row \ {Off}

(* Until main has scheduled everything, nobody else does anything. *)
MainInv ==
    /\ up = "boot" => /\ op[Main] = "updateAll"
                      /\ \A t \in Thread \ {Main} : pc[t] = "idle"
    /\ up = "http" => pc[Main] = "idle"

(* The open transaction is that of who unschedules, and nobody else        *)
(* removes or changes the rows it is about.                                *)
TxInv ==
    \A t \in Thread :
      /\ op[t] \in {"cron", "remove"} <=> reserved = t
      /\ tx[t] # None <=> reserved = t
      /\ tx[t] # None =>
           /\ \A s \in tx[t].subs : Exists(s)
           /\ todo[t] \subseteq tx[t].subs
           /\ pc[t] # "commit" => cur[t] \in tx[t].subs \ todo[t]
           /\ op[t] = "remove" => tx[t].to = Gone
           /\ op[t] = "cron" => tx[t].to \in Row
           /\ pc[t] \in {"read", "check", "create"} => tx[t].to # Off

(* Whom a loop visits was there when it began. *)
VisitInv ==
    \A t \in Thread, s \in Sub : s \in todo[t] \/ s = cur[t] => row[s] # New

(* The holder of the mutex stops a scheduler that is in the cache. *)
MuInv ==
    \A t \in Thread :
      /\ pc[t] = "stopping" <=> mu = t
      /\ pc[t] = "stopping" => cache[cur[t]] # None

(* Only a scheduler that runs has a job. *)
JobInv == \A s \in Sub : job[s] # "idle" => cache[s] # None

(* What a transaction that removes or disables has visited stays           *)
(* unscheduled, or is known to be raced.                                   *)
UnscheduledInv ==
    \A t \in Thread : tx[t] # None /\ tx[t].to \in {Off, Gone} =>
      \A s \in tx[t].subs \ todo[t] :
        cache[s] = None \/ s \in raced \/ (cur[t] = s /\ pc[t] \in {"unschedule", "stopping"})

(* What main has scheduled, and what it has still to schedule. *)
BootInv ==
    up = "boot" =>
      /\ pc[Main] = "list" => \A s \in Sub : cache[s] = None
      /\ pc[Main] # "list" =>
           /\ \A s \in Sub : IF s \in todo[Main] \/ s = cur[Main]
                             THEN cache[s] = None ELSE cache[s] = Wanted(row[s])
           /\ cur[Main] \notin todo[Main]
      /\ pc[Main] \in {"check", "create"} => seen[Main] = row[cur[Main]]

IInv ==
    /\ TypeOK
    /\ StepInv
    /\ MainInv
    /\ TxInv
    /\ VisitInv
    /\ MuInv
    /\ JobInv
    /\ OneScheduler
    /\ UnscheduledInv
    /\ NothingRunsUnasked
    /\ NoOrphanNodes
    /\ BootInv

(* What a step that opens the server leaves behind. *)
SchedulesAll == up = "boot" /\ up' = "http" => \A s \in Sub : cache'[s] = Wanted(row'[s])

(* The variables keep their types. *)
LEMMA TypeStep ==
    ASSUME IInv, [Next]_vars
    PROVE  TypeOK'
<1>. USE ExpAssumption, RowAssumption, NoneAssumption, RequestAssumption
     DEF IInv, TypeOK, StepInv, Thread, Row, rowVars, schedVars, threadVars,
         Goto, Exists, Steps, Op, Intent, TxInv, MuInv, OneScheduler
<1>1. ASSUME NEW t \in Thread, CheckCache(t)
      PROVE  TypeOK'
  BY <1>1 DEF CheckCache, Advance
<1>2. ASSUME NEW t \in Thread, CreateScheduler(t)
      PROVE  TypeOK'
  <2>1. cur[t] \in Sub /\ seen[t] \in Row \ {Off}
    BY <1>2 DEF CreateScheduler
  <2>2. cache' \in [Sub -> Exp \cup {None}] /\ live' \in [Sub -> 0..1] /\ raced' \subseteq Sub
    <3>1. CASE Creates(t)
      <4>1. live[cur[t]] = 0
        BY <2>1, <3>1 DEF Creates
      <4>2. live' = [live EXCEPT ![cur[t]] = 1]
        BY <1>2, <2>1, <3>1, <4>1 DEF CreateScheduler
      <4>. QED
        BY <1>2, <2>1, <3>1, <4>2 DEF CreateScheduler, Creates
    <3>2. CASE ~Creates(t)
      BY <1>2, <3>2 DEF CreateScheduler
    <3>. QED
      BY <3>1, <3>2
  <2>. QED
    BY <1>2, <2>1, <2>2 DEF CreateScheduler, Advance
<1>3. ASSUME NEW t \in Thread, Unschedule(t)
      PROVE  TypeOK'
  BY <1>3 DEF Unschedule, AfterUnschedule, Advance
<1>4. ASSUME NEW t \in Thread, ListSubscriptions(t)
      PROVE  TypeOK'
  BY <1>4 DEF ListSubscriptions
<1>5. ASSUME NEW t \in Thread, ListExpires(t)
      PROVE  TypeOK'
  BY <1>5 DEF ListExpires
<1>6. ASSUME NEW t \in Thread, ReadRow(t)
      PROVE  TypeOK'
  BY <1>6 DEF ReadRow, WantsScheduler, Advance
<1>7. ASSUME NEW t \in Thread, Stopped(t)
      PROVE  TypeOK'
  BY <1>7 DEF Stopped, JobDone, AfterUnschedule, Advance
<1>8. ASSUME NEW t \in Thread, Commit(t)
      PROVE  TypeOK'
  BY <1>8 DEF Commit, TxEnds
<1>9. ASSUME NEW t \in Thread, CommitLost(t)
      PROVE  TypeOK'
  BY <1>9 DEF CommitLost, TxEnds
<1>10. ASSUME NEW t \in Thread, UpdateWrite(t)
      PROVE  TypeOK'
  BY <1>10 DEF UpdateWrite, UpdateEnds
<1>11. ASSUME NEW t \in Thread, UpdateFails(t)
      PROVE  TypeOK'
  BY <1>11 DEF UpdateFails, UpdateEnds
<1>12. ASSUME NEW t \in Thread, NEW s \in Sub, Import(t, s)
      PROVE  TypeOK'
  BY <1>12 DEF Import, Begins
<1>13. ASSUME NEW t \in Thread, NEW s \in Sub, UpdateRead(t, s)
      PROVE  TypeOK'
  BY <1>13 DEF UpdateRead, Begins
<1>14. ASSUME NEW t \in Thread, NEW s \in Sub, NEW r \in Row, CronWrite(t, s, r)
      PROVE  TypeOK'
  BY <1>14 DEF CronWrite, FirstUnschedule, Begins
<1>15. ASSUME NEW t \in Thread, NEW R \in SUBSET Sub, RemoveWrite(t, R)
      PROVE  TypeOK'
  BY <1>15 DEF RemoveWrite, Begins
<1>16. ASSUME NEW s \in Sub, JobStart(s)
      PROVE  TypeOK'
  BY <1>16 DEF JobStart
<1>17. ASSUME NEW s \in Sub, JobFetched(s)
      PROVE  TypeOK'
  BY <1>17 DEF JobFetched
<1>18. ASSUME NEW s \in Sub, JobWrite(s)
      PROVE  TypeOK'
  BY <1>18 DEF JobWrite
<1>19. ASSUME NEW s \in Sub, JobRefused(s)
      PROVE  TypeOK'
  BY <1>19 DEF JobRefused, BusyTimeout
<1>20. CASE UNCHANGED vars
  BY <1>20 DEF vars
<1>. QED
  BY <1>1, <1>2, <1>3, <1>4, <1>5, <1>6, <1>7, <1>8, <1>9, <1>10, <1>11,
     <1>12, <1>13, <1>14, <1>15, <1>16, <1>17, <1>18, <1>19, <1>20
     DEF Next, TakesMutex, OtherStep, Request, JobEnds

(* Each operation stays at a step of its own. *)
LEMMA StepStep ==
    ASSUME IInv, [Next]_vars
    PROVE  StepInv'
<1>. USE ExpAssumption, RowAssumption, NoneAssumption, RequestAssumption
     DEF IInv, TypeOK, StepInv, Thread, Row, rowVars, schedVars, threadVars,
         Goto, Exists, TxInv
<1>1. ASSUME NEW t \in Thread, CheckCache(t)
      PROVE  StepInv'
  BY <1>1 DEF CheckCache, Advance
<1>2. ASSUME NEW t \in Thread, CreateScheduler(t)
      PROVE  StepInv'
  BY <1>2 DEF CreateScheduler, Creates, Advance
<1>3. ASSUME NEW t \in Thread, Unschedule(t)
      PROVE  StepInv'
  BY <1>3 DEF Unschedule, AfterUnschedule, Advance
<1>4. ASSUME NEW t \in Thread, ListSubscriptions(t)
      PROVE  StepInv'
  BY <1>4 DEF ListSubscriptions
<1>5. ASSUME NEW t \in Thread, ListExpires(t)
      PROVE  StepInv'
  BY <1>5 DEF ListExpires
<1>6. ASSUME NEW t \in Thread, ReadRow(t)
      PROVE  StepInv'
  BY <1>6 DEF ReadRow, WantsScheduler, Advance
<1>7. ASSUME NEW t \in Thread, Stopped(t)
      PROVE  StepInv'
  BY <1>7 DEF Stopped, JobDone, AfterUnschedule, Advance
<1>8. ASSUME NEW t \in Thread, Commit(t)
      PROVE  StepInv'
  BY <1>8 DEF Commit, TxEnds
<1>9. ASSUME NEW t \in Thread, CommitLost(t)
      PROVE  StepInv'
  BY <1>9 DEF CommitLost, TxEnds
<1>10. ASSUME NEW t \in Thread, UpdateWrite(t)
      PROVE  StepInv'
  BY <1>10 DEF UpdateWrite, UpdateEnds
<1>11. ASSUME NEW t \in Thread, UpdateFails(t)
      PROVE  StepInv'
  BY <1>11 DEF UpdateFails, UpdateEnds
<1>12. ASSUME NEW t \in Thread, NEW s \in Sub, Import(t, s)
      PROVE  StepInv'
  BY <1>12 DEF Import, Begins
<1>13. ASSUME NEW t \in Thread, NEW s \in Sub, UpdateRead(t, s)
      PROVE  StepInv'
  BY <1>13 DEF UpdateRead, Begins
<1>14. ASSUME NEW t \in Thread, NEW s \in Sub, NEW r \in Row, CronWrite(t, s, r)
      PROVE  StepInv'
  BY <1>14 DEF CronWrite, FirstUnschedule, Begins
<1>15. ASSUME NEW t \in Thread, NEW R \in SUBSET Sub, RemoveWrite(t, R)
      PROVE  StepInv'
  BY <1>15 DEF RemoveWrite, Begins
<1>16. ASSUME NEW s \in Sub, JobStart(s)
      PROVE  StepInv'
  BY <1>16 DEF JobStart
<1>17. ASSUME NEW s \in Sub, JobFetched(s)
      PROVE  StepInv'
  BY <1>17 DEF JobFetched
<1>18. ASSUME NEW s \in Sub, JobWrite(s)
      PROVE  StepInv'
  BY <1>18 DEF JobWrite
<1>19. ASSUME NEW s \in Sub, JobRefused(s)
      PROVE  StepInv'
  BY <1>19 DEF JobRefused, BusyTimeout
<1>20. CASE UNCHANGED vars
  BY <1>20 DEF vars
<1>. QED
  BY <1>1, <1>2, <1>3, <1>4, <1>5, <1>6, <1>7, <1>8, <1>9, <1>10, <1>11,
     <1>12, <1>13, <1>14, <1>15, <1>16, <1>17, <1>18, <1>19, <1>20
     DEF Next, TakesMutex, OtherStep, Request, JobEnds

(* Nobody but main acts before the server is up. *)
LEMMA MainStep ==
    ASSUME IInv, [Next]_vars
    PROVE  MainInv'
<1>. USE ExpAssumption, RowAssumption, NoneAssumption, RequestAssumption
     DEF IInv, TypeOK, StepInv, Thread, Row, rowVars, schedVars, threadVars,
         Goto, Exists, MainInv
<1>1. ASSUME NEW t \in Thread, CheckCache(t)
      PROVE  MainInv'
  BY <1>1 DEF CheckCache, Advance
<1>2. ASSUME NEW t \in Thread, CreateScheduler(t)
      PROVE  MainInv'
  BY <1>2 DEF CreateScheduler, Creates, Advance
<1>3. ASSUME NEW t \in Thread, Unschedule(t)
      PROVE  MainInv'
  BY <1>3 DEF Unschedule, AfterUnschedule, Advance
<1>4. ASSUME NEW t \in Thread, ListSubscriptions(t)
      PROVE  MainInv'
  BY <1>4 DEF ListSubscriptions
<1>5. ASSUME NEW t \in Thread, ListExpires(t)
      PROVE  MainInv'
  BY <1>5 DEF ListExpires
<1>6. ASSUME NEW t \in Thread, ReadRow(t)
      PROVE  MainInv'
  BY <1>6 DEF ReadRow, WantsScheduler, Advance
<1>7. ASSUME NEW t \in Thread, Stopped(t)
      PROVE  MainInv'
  BY <1>7 DEF Stopped, JobDone, AfterUnschedule, Advance
<1>8. ASSUME NEW t \in Thread, Commit(t)
      PROVE  MainInv'
  BY <1>8 DEF Commit, TxEnds
<1>9. ASSUME NEW t \in Thread, CommitLost(t)
      PROVE  MainInv'
  BY <1>9 DEF CommitLost, TxEnds
<1>10. ASSUME NEW t \in Thread, UpdateWrite(t)
      PROVE  MainInv'
  BY <1>10 DEF UpdateWrite, UpdateEnds
<1>11. ASSUME NEW t \in Thread, UpdateFails(t)
      PROVE  MainInv'
  BY <1>11 DEF UpdateFails, UpdateEnds
<1>12. ASSUME NEW t \in Thread, NEW s \in Sub, Import(t, s)
      PROVE  MainInv'
  BY <1>12 DEF Import, Begins
<1>13. ASSUME NEW t \in Thread, NEW s \in Sub, UpdateRead(t, s)
      PROVE  MainInv'
  BY <1>13 DEF UpdateRead, Begins
<1>14. ASSUME NEW t \in Thread, NEW s \in Sub, NEW r \in Row, CronWrite(t, s, r)
      PROVE  MainInv'
  BY <1>14 DEF CronWrite, FirstUnschedule, Begins
<1>15. ASSUME NEW t \in Thread, NEW R \in SUBSET Sub, RemoveWrite(t, R)
      PROVE  MainInv'
  BY <1>15 DEF RemoveWrite, Begins
<1>16. ASSUME NEW s \in Sub, JobStart(s)
      PROVE  MainInv'
  BY <1>16 DEF JobStart
<1>17. ASSUME NEW s \in Sub, JobFetched(s)
      PROVE  MainInv'
  BY <1>17 DEF JobFetched
<1>18. ASSUME NEW s \in Sub, JobWrite(s)
      PROVE  MainInv'
  BY <1>18 DEF JobWrite
<1>19. ASSUME NEW s \in Sub, JobRefused(s)
      PROVE  MainInv'
  BY <1>19 DEF JobRefused, BusyTimeout
<1>20. CASE UNCHANGED vars
  BY <1>20 DEF vars
<1>. QED
  BY <1>1, <1>2, <1>3, <1>4, <1>5, <1>6, <1>7, <1>8, <1>9, <1>10, <1>11,
     <1>12, <1>13, <1>14, <1>15, <1>16, <1>17, <1>18, <1>19, <1>20
     DEF Next, TakesMutex, OtherStep, Request, JobEnds

(* The rows of a transaction are nobody else's. *)
LEMMA TxStep ==
    ASSUME IInv, [Next]_vars
    PROVE  TxInv'
<1>. USE ExpAssumption, RowAssumption, NoneAssumption, RequestAssumption
     DEF IInv, TypeOK, StepInv, Thread, Row, rowVars, schedVars, threadVars,
         Goto, Exists, TxInv, Intent
<1>1. ASSUME NEW t \in Thread, CheckCache(t)
      PROVE  TxInv'
  BY <1>1 DEF CheckCache, Advance
<1>2. ASSUME NEW t \in Thread, CreateScheduler(t)
      PROVE  TxInv'
  BY <1>2 DEF CreateScheduler, Creates, Advance
<1>3. ASSUME NEW t \in Thread, Unschedule(t)
      PROVE  TxInv'
  BY <1>3 DEF Unschedule, AfterUnschedule, Advance
<1>4. ASSUME NEW t \in Thread, ListSubscriptions(t)
      PROVE  TxInv'
  BY <1>4 DEF ListSubscriptions
<1>5. ASSUME NEW t \in Thread, ListExpires(t)
      PROVE  TxInv'
  BY <1>5 DEF ListExpires
<1>6. ASSUME NEW t \in Thread, ReadRow(t)
      PROVE  TxInv'
  BY <1>6 DEF ReadRow, WantsScheduler, Advance
<1>7. ASSUME NEW t \in Thread, Stopped(t)
      PROVE  TxInv'
  BY <1>7 DEF Stopped, JobDone, AfterUnschedule, Advance
<1>8. ASSUME NEW t \in Thread, Commit(t)
      PROVE  TxInv'
  BY <1>8 DEF Commit, TxEnds
<1>9. ASSUME NEW t \in Thread, CommitLost(t)
      PROVE  TxInv'
  BY <1>9 DEF CommitLost, TxEnds
<1>10. ASSUME NEW t \in Thread, UpdateWrite(t)
      PROVE  TxInv'
  BY <1>10 DEF UpdateWrite, UpdateEnds
<1>11. ASSUME NEW t \in Thread, UpdateFails(t)
      PROVE  TxInv'
  BY <1>11 DEF UpdateFails, UpdateEnds
<1>12. ASSUME NEW t \in Thread, NEW s \in Sub, Import(t, s)
      PROVE  TxInv'
  BY <1>12 DEF Import, Begins
<1>13. ASSUME NEW t \in Thread, NEW s \in Sub, UpdateRead(t, s)
      PROVE  TxInv'
  BY <1>13 DEF UpdateRead, Begins
<1>14. ASSUME NEW t \in Thread, NEW s \in Sub, NEW r \in Row, CronWrite(t, s, r)
      PROVE  TxInv'
  BY <1>14 DEF CronWrite, FirstUnschedule, Begins
<1>15. ASSUME NEW t \in Thread, NEW R \in SUBSET Sub, RemoveWrite(t, R)
      PROVE  TxInv'
  BY <1>15 DEF RemoveWrite, Begins
<1>16. ASSUME NEW s \in Sub, JobStart(s)
      PROVE  TxInv'
  BY <1>16 DEF JobStart
<1>17. ASSUME NEW s \in Sub, JobFetched(s)
      PROVE  TxInv'
  BY <1>17 DEF JobFetched
<1>18. ASSUME NEW s \in Sub, JobWrite(s)
      PROVE  TxInv'
  BY <1>18 DEF JobWrite
<1>19. ASSUME NEW s \in Sub, JobRefused(s)
      PROVE  TxInv'
  BY <1>19 DEF JobRefused, BusyTimeout
<1>20. CASE UNCHANGED vars
  BY <1>20 DEF vars
<1>. QED
  BY <1>1, <1>2, <1>3, <1>4, <1>5, <1>6, <1>7, <1>8, <1>9, <1>10, <1>11,
     <1>12, <1>13, <1>14, <1>15, <1>16, <1>17, <1>18, <1>19, <1>20
     DEF Next, TakesMutex, OtherStep, Request, JobEnds

(* A subscription that is visited does not become a new one. *)
LEMMA VisitStep ==
    ASSUME IInv, [Next]_vars
    PROVE  VisitInv'
<1>. USE ExpAssumption, RowAssumption, NoneAssumption, RequestAssumption
     DEF IInv, TypeOK, StepInv, Thread, Row, rowVars, schedVars, threadVars,
         Goto, Exists, VisitInv, TxInv, Intent
<1>1. ASSUME NEW t \in Thread, CheckCache(t)
      PROVE  VisitInv'
  BY <1>1 DEF CheckCache, Advance
<1>2. ASSUME NEW t \in Thread, CreateScheduler(t)
      PROVE  VisitInv'
  BY <1>2 DEF CreateScheduler, Creates, Advance
<1>3. ASSUME NEW t \in Thread, Unschedule(t)
      PROVE  VisitInv'
  BY <1>3 DEF Unschedule, AfterUnschedule, Advance
<1>4. ASSUME NEW t \in Thread, ListSubscriptions(t)
      PROVE  VisitInv'
  BY <1>4 DEF ListSubscriptions
<1>5. ASSUME NEW t \in Thread, ListExpires(t)
      PROVE  VisitInv'
  BY <1>5 DEF ListExpires
<1>6. ASSUME NEW t \in Thread, ReadRow(t)
      PROVE  VisitInv'
  BY <1>6 DEF ReadRow, WantsScheduler, Advance
<1>7. ASSUME NEW t \in Thread, Stopped(t)
      PROVE  VisitInv'
  BY <1>7 DEF Stopped, JobDone, AfterUnschedule, Advance
<1>8. ASSUME NEW t \in Thread, Commit(t)
      PROVE  VisitInv'
  BY <1>8 DEF Commit, TxEnds
<1>9. ASSUME NEW t \in Thread, CommitLost(t)
      PROVE  VisitInv'
  BY <1>9 DEF CommitLost, TxEnds
<1>10. ASSUME NEW t \in Thread, UpdateWrite(t)
      PROVE  VisitInv'
  BY <1>10 DEF UpdateWrite, UpdateEnds
<1>11. ASSUME NEW t \in Thread, UpdateFails(t)
      PROVE  VisitInv'
  BY <1>11 DEF UpdateFails, UpdateEnds
<1>12. ASSUME NEW t \in Thread, NEW s \in Sub, Import(t, s)
      PROVE  VisitInv'
  BY <1>12 DEF Import, Begins
<1>13. ASSUME NEW t \in Thread, NEW s \in Sub, UpdateRead(t, s)
      PROVE  VisitInv'
  BY <1>13 DEF UpdateRead, Begins
<1>14. ASSUME NEW t \in Thread, NEW s \in Sub, NEW r \in Row, CronWrite(t, s, r)
      PROVE  VisitInv'
  BY <1>14 DEF CronWrite, FirstUnschedule, Begins
<1>15. ASSUME NEW t \in Thread, NEW R \in SUBSET Sub, RemoveWrite(t, R)
      PROVE  VisitInv'
  BY <1>15 DEF RemoveWrite, Begins
<1>16. ASSUME NEW s \in Sub, JobStart(s)
      PROVE  VisitInv'
  BY <1>16 DEF JobStart
<1>17. ASSUME NEW s \in Sub, JobFetched(s)
      PROVE  VisitInv'
  BY <1>17 DEF JobFetched
<1>18. ASSUME NEW s \in Sub, JobWrite(s)
      PROVE  VisitInv'
  BY <1>18 DEF JobWrite
<1>19. ASSUME NEW s \in Sub, JobRefused(s)
      PROVE  VisitInv'
  BY <1>19 DEF JobRefused, BusyTimeout
<1>20. CASE UNCHANGED vars
  BY <1>20 DEF vars
<1>. QED
  BY <1>1, <1>2, <1>3, <1>4, <1>5, <1>6, <1>7, <1>8, <1>9, <1>10, <1>11,
     <1>12, <1>13, <1>14, <1>15, <1>16, <1>17, <1>18, <1>19, <1>20
     DEF Next, TakesMutex, OtherStep, Request, JobEnds

(* The mutex is held by who stops a scheduler. *)
LEMMA MuStep ==
    ASSUME IInv, [Next]_vars
    PROVE  MuInv'
<1>. USE ExpAssumption, RowAssumption, NoneAssumption, RequestAssumption
     DEF IInv, TypeOK, StepInv, Thread, Row, rowVars, schedVars, threadVars,
         Goto, Exists, MuInv
<1>1. ASSUME NEW t \in Thread, CheckCache(t)
      PROVE  MuInv'
  BY <1>1 DEF CheckCache, Advance
<1>2. ASSUME NEW t \in Thread, CreateScheduler(t)
      PROVE  MuInv'
  BY <1>2 DEF CreateScheduler, Creates, Advance
<1>3. ASSUME NEW t \in Thread, Unschedule(t)
      PROVE  MuInv'
  BY <1>3 DEF Unschedule, AfterUnschedule, Advance
<1>4. ASSUME NEW t \in Thread, ListSubscriptions(t)
      PROVE  MuInv'
  BY <1>4 DEF ListSubscriptions
<1>5. ASSUME NEW t \in Thread, ListExpires(t)
      PROVE  MuInv'
  BY <1>5 DEF ListExpires
<1>6. ASSUME NEW t \in Thread, ReadRow(t)
      PROVE  MuInv'
  BY <1>6 DEF ReadRow, WantsScheduler, Advance
<1>7. ASSUME NEW t \in Thread, Stopped(t)
      PROVE  MuInv'
  BY <1>7 DEF Stopped, JobDone, AfterUnschedule, Advance
<1>8. ASSUME NEW t \in Thread, Commit(t)
      PROVE  MuInv'
  BY <1>8 DEF Commit, TxEnds
<1>9. ASSUME NEW t \in Thread, CommitLost(t)
      PROVE  MuInv'
  BY <1>9 DEF CommitLost, TxEnds
<1>10. ASSUME NEW t \in Thread, UpdateWrite(t)
      PROVE  MuInv'
  BY <1>10 DEF UpdateWrite, UpdateEnds
<1>11. ASSUME NEW t \in Thread, UpdateFails(t)
      PROVE  MuInv'
  BY <1>11 DEF UpdateFails, UpdateEnds
<1>12. ASSUME NEW t \in Thread, NEW s \in Sub, Import(t, s)
      PROVE  MuInv'
  BY <1>12 DEF Import, Begins
<1>13. ASSUME NEW t \in Thread, NEW s \in Sub, UpdateRead(t, s)
      PROVE  MuInv'
  BY <1>13 DEF UpdateRead, Begins
<1>14. ASSUME NEW t \in Thread, NEW s \in Sub, NEW r \in Row, CronWrite(t, s, r)
      PROVE  MuInv'
  BY <1>14 DEF CronWrite, FirstUnschedule, Begins
<1>15. ASSUME NEW t \in Thread, NEW R \in SUBSET Sub, RemoveWrite(t, R)
      PROVE  MuInv'
  BY <1>15 DEF RemoveWrite, Begins
<1>16. ASSUME NEW s \in Sub, JobStart(s)
      PROVE  MuInv'
  BY <1>16 DEF JobStart
<1>17. ASSUME NEW s \in Sub, JobFetched(s)
      PROVE  MuInv'
  BY <1>17 DEF JobFetched
<1>18. ASSUME NEW s \in Sub, JobWrite(s)
      PROVE  MuInv'
  BY <1>18 DEF JobWrite
<1>19. ASSUME NEW s \in Sub, JobRefused(s)
      PROVE  MuInv'
  BY <1>19 DEF JobRefused, BusyTimeout
<1>20. CASE UNCHANGED vars
  BY <1>20 DEF vars
<1>. QED
  BY <1>1, <1>2, <1>3, <1>4, <1>5, <1>6, <1>7, <1>8, <1>9, <1>10, <1>11,
     <1>12, <1>13, <1>14, <1>15, <1>16, <1>17, <1>18, <1>19, <1>20
     DEF Next, TakesMutex, OtherStep, Request, JobEnds

(* A job is waited for before its scheduler goes. *)
LEMMA JobStep ==
    ASSUME IInv, [Next]_vars
    PROVE  JobInv'
<1>. USE ExpAssumption, RowAssumption, NoneAssumption, RequestAssumption
     DEF IInv, TypeOK, StepInv, Thread, Row, rowVars, schedVars, threadVars,
         Goto, Exists, JobInv, OneScheduler
<1>1. ASSUME NEW t \in Thread, CheckCache(t)
      PROVE  JobInv'
  BY <1>1 DEF CheckCache, Advance
<1>2. ASSUME NEW t \in Thread, CreateScheduler(t)
      PROVE  JobInv'
  BY <1>2 DEF CreateScheduler, Creates, Advance
<1>3. ASSUME NEW t \in Thread, Unschedule(t)
      PROVE  JobInv'
  BY <1>3 DEF Unschedule, AfterUnschedule, Advance
<1>4. ASSUME NEW t \in Thread, ListSubscriptions(t)
      PROVE  JobInv'
  BY <1>4 DEF ListSubscriptions
<1>5. ASSUME NEW t \in Thread, ListExpires(t)
      PROVE  JobInv'
  BY <1>5 DEF ListExpires
<1>6. ASSUME NEW t \in Thread, ReadRow(t)
      PROVE  JobInv'
  BY <1>6 DEF ReadRow, WantsScheduler, Advance
<1>7. ASSUME NEW t \in Thread, Stopped(t)
      PROVE  JobInv'
  BY <1>7 DEF Stopped, JobDone, AfterUnschedule, Advance
<1>8. ASSUME NEW t \in Thread, Commit(t)
      PROVE  JobInv'
  BY <1>8 DEF Commit, TxEnds
<1>9. ASSUME NEW t \in Thread, CommitLost(t)
      PROVE  JobInv'
  BY <1>9 DEF CommitLost, TxEnds
<1>10. ASSUME NEW t \in Thread, UpdateWrite(t)
      PROVE  JobInv'
  BY <1>10 DEF UpdateWrite, UpdateEnds
<1>11. ASSUME NEW t \in Thread, UpdateFails(t)
      PROVE  JobInv'
  BY <1>11 DEF UpdateFails, UpdateEnds
<1>12. ASSUME NEW t \in Thread, NEW s \in Sub, Import(t, s)
      PROVE  JobInv'
  BY <1>12 DEF Import, Begins
<1>13. ASSUME NEW t \in Thread, NEW s \in Sub, UpdateRead(t, s)
      PROVE  JobInv'
  BY <1>13 DEF UpdateRead, Begins
<1>14. ASSUME NEW t \in Thread, NEW s \in Sub, NEW r \in Row, CronWrite(t, s, r)
      PROVE  JobInv'
  BY <1>14 DEF CronWrite, FirstUnschedule, Begins
<1>15. ASSUME NEW t \in Thread, NEW R \in SUBSET Sub, RemoveWrite(t, R)
      PROVE  JobInv'
  BY <1>15 DEF RemoveWrite, Begins
<1>16. ASSUME NEW s \in Sub, JobStart(s)
      PROVE  JobInv'
  BY <1>16 DEF JobStart
<1>17. ASSUME NEW s \in Sub, JobFetched(s)
      PROVE  JobInv'
  BY <1>17 DEF JobFetched
<1>18. ASSUME NEW s \in Sub, JobWrite(s)
      PROVE  JobInv'
  BY <1>18 DEF JobWrite
<1>19. ASSUME NEW s \in Sub, JobRefused(s)
      PROVE  JobInv'
  BY <1>19 DEF JobRefused, BusyTimeout
<1>20. CASE UNCHANGED vars
  BY <1>20 DEF vars
<1>. QED
  BY <1>1, <1>2, <1>3, <1>4, <1>5, <1>6, <1>7, <1>8, <1>9, <1>10, <1>11,
     <1>12, <1>13, <1>14, <1>15, <1>16, <1>17, <1>18, <1>19, <1>20
     DEF Next, TakesMutex, OtherStep, Request, JobEnds

(* The cache and the schedulers that run stay one. *)
LEMMA OneStep ==
    ASSUME IInv, [Next]_vars
    PROVE  OneScheduler'
<1>. USE ExpAssumption, RowAssumption, NoneAssumption, RequestAssumption
     DEF IInv, TypeOK, StepInv, Thread, Row, rowVars, schedVars, threadVars,
         Goto, Exists, OneScheduler, MuInv
<1>1. ASSUME NEW t \in Thread, CheckCache(t)
      PROVE  OneScheduler'
  BY <1>1 DEF CheckCache, Advance
<1>2. ASSUME NEW t \in Thread, CreateScheduler(t)
      PROVE  OneScheduler'
  BY <1>2 DEF CreateScheduler, Creates, Advance
<1>3. ASSUME NEW t \in Thread, Unschedule(t)
      PROVE  OneScheduler'
  BY <1>3 DEF Unschedule, AfterUnschedule, Advance
<1>4. ASSUME NEW t \in Thread, ListSubscriptions(t)
      PROVE  OneScheduler'
  BY <1>4 DEF ListSubscriptions
<1>5. ASSUME NEW t \in Thread, ListExpires(t)
      PROVE  OneScheduler'
  BY <1>5 DEF ListExpires
<1>6. ASSUME NEW t \in Thread, ReadRow(t)
      PROVE  OneScheduler'
  BY <1>6 DEF ReadRow, WantsScheduler, Advance
<1>7. ASSUME NEW t \in Thread, Stopped(t)
      PROVE  OneScheduler'
  BY <1>7 DEF Stopped, JobDone, AfterUnschedule, Advance
<1>8. ASSUME NEW t \in Thread, Commit(t)
      PROVE  OneScheduler'
  BY <1>8 DEF Commit, TxEnds
<1>9. ASSUME NEW t \in Thread, CommitLost(t)
      PROVE  OneScheduler'
  BY <1>9 DEF CommitLost, TxEnds
<1>10. ASSUME NEW t \in Thread, UpdateWrite(t)
      PROVE  OneScheduler'
  BY <1>10 DEF UpdateWrite, UpdateEnds
<1>11. ASSUME NEW t \in Thread, UpdateFails(t)
      PROVE  OneScheduler'
  BY <1>11 DEF UpdateFails, UpdateEnds
<1>12. ASSUME NEW t \in Thread, NEW s \in Sub, Import(t, s)
      PROVE  OneScheduler'
  BY <1>12 DEF Import, Begins
<1>13. ASSUME NEW t \in Thread, NEW s \in Sub, UpdateRead(t, s)
      PROVE  OneScheduler'
  BY <1>13 DEF UpdateRead, Begins
<1>14. ASSUME NEW t \in Thread, NEW s \in Sub, NEW r \in Row, CronWrite(t, s, r)
      PROVE  OneScheduler'
  BY <1>14 DEF CronWrite, FirstUnschedule, Begins
<1>15. ASSUME NEW t \in Thread, NEW R \in SUBSET Sub, RemoveWrite(t, R)
      PROVE  OneScheduler'
  BY <1>15 DEF RemoveWrite, Begins
<1>16. ASSUME NEW s \in Sub, JobStart(s)
      PROVE  OneScheduler'
  BY <1>16 DEF JobStart
<1>17. ASSUME NEW s \in Sub, JobFetched(s)
      PROVE  OneScheduler'
  BY <1>17 DEF JobFetched
<1>18. ASSUME NEW s \in Sub, JobWrite(s)
      PROVE  OneScheduler'
  BY <1>18 DEF JobWrite
<1>19. ASSUME NEW s \in Sub, JobRefused(s)
      PROVE  OneScheduler'
  BY <1>19 DEF JobRefused, BusyTimeout
<1>20. CASE UNCHANGED vars
  BY <1>20 DEF vars
<1>. QED
  BY <1>1, <1>2, <1>3, <1>4, <1>5, <1>6, <1>7, <1>8, <1>9, <1>10, <1>11,
     <1>12, <1>13, <1>14, <1>15, <1>16, <1>17, <1>18, <1>19, <1>20
     DEF Next, TakesMutex, OtherStep, Request, JobEnds

(* What was unscheduled stays so. *)
LEMMA UnscheduledStep ==
    ASSUME IInv, [Next]_vars
    PROVE  UnscheduledInv'
<1>. USE ExpAssumption, RowAssumption, NoneAssumption, RequestAssumption
     DEF IInv, TypeOK, StepInv, Thread, Row, rowVars, schedVars, threadVars,
         Goto, Exists, UnscheduledInv, TxInv, MuInv
<1>1. ASSUME NEW t \in Thread, CheckCache(t)
      PROVE  UnscheduledInv'
  BY <1>1 DEF CheckCache, Advance
<1>2. ASSUME NEW t \in Thread, CreateScheduler(t)
      PROVE  UnscheduledInv'
  <2>1. /\ mu = None /\ pc[t] = "create" /\ cur[t] \in Sub
        /\ tx' = tx /\ row' = row /\ reserved' = reserved /\ Advance(t)
    BY <1>2 DEF CreateScheduler
  <2>2. ASSUME NEW u \in Thread, tx[u] # None, tx[u].to \in {Off, Gone}
        PROVE  u # t /\ pc'[u] = pc[u] /\ cur'[u] = cur[u] /\ todo'[u] = todo[u] /\ pc[u] # "stopping"
    BY <2>1, <2>2 DEF Advance
  <2>3. ASSUME NEW u \in Thread, tx[u] # None, tx[u].to \in {Off, Gone},
               NEW s \in tx[u].subs \ todo[u]
        PROVE  cache'[s] = None \/ s \in raced' \/ (cur[u] = s /\ pc[u] \in {"unschedule", "stopping"})
    <3>1. CASE Creates(t) /\ s = cur[t]
      BY <1>2, <2>1, <2>2, <2>3, <3>1 DEF CreateScheduler, Overtaken
    <3>2. CASE ~(Creates(t) /\ s = cur[t])
      <4>1. cache'[s] = cache[s] /\ raced \subseteq raced' /\ s \in Sub
        BY <1>2, <2>1, <2>3, <3>2 DEF CreateScheduler, Intent
      <4>. QED
        BY <2>3, <4>1
    <3>. QED
      BY <3>1, <3>2
  <2>. HIDE DEF TypeOK, StepInv
  <2>. QED
    BY <2>1, <2>2, <2>3
<1>3. ASSUME NEW t \in Thread, Unschedule(t)
      PROVE  UnscheduledInv'
  BY <1>3 DEF Unschedule, AfterUnschedule, Advance
<1>4. ASSUME NEW t \in Thread, ListSubscriptions(t)
      PROVE  UnscheduledInv'
  BY <1>4 DEF ListSubscriptions
<1>5. ASSUME NEW t \in Thread, ListExpires(t)
      PROVE  UnscheduledInv'
  BY <1>5 DEF ListExpires
<1>6. ASSUME NEW t \in Thread, ReadRow(t)
      PROVE  UnscheduledInv'
  BY <1>6 DEF ReadRow, WantsScheduler, Advance
<1>7. ASSUME NEW t \in Thread, Stopped(t)
      PROVE  UnscheduledInv'
  BY <1>7 DEF Stopped, JobDone, AfterUnschedule, Advance
<1>8. ASSUME NEW t \in Thread, Commit(t)
      PROVE  UnscheduledInv'
  BY <1>8 DEF Commit, TxEnds
<1>9. ASSUME NEW t \in Thread, CommitLost(t)
      PROVE  UnscheduledInv'
  BY <1>9 DEF CommitLost, TxEnds
<1>10. ASSUME NEW t \in Thread, UpdateWrite(t)
      PROVE  UnscheduledInv'
  BY <1>10 DEF UpdateWrite, UpdateEnds
<1>11. ASSUME NEW t \in Thread, UpdateFails(t)
      PROVE  UnscheduledInv'
  BY <1>11 DEF UpdateFails, UpdateEnds
<1>12. ASSUME NEW t \in Thread, NEW s \in Sub, Import(t, s)
      PROVE  UnscheduledInv'
  BY <1>12 DEF Import, Begins
<1>13. ASSUME NEW t \in Thread, NEW s \in Sub, UpdateRead(t, s)
      PROVE  UnscheduledInv'
  BY <1>13 DEF UpdateRead, Begins
<1>14. ASSUME NEW t \in Thread, NEW s \in Sub, NEW r \in Row, CronWrite(t, s, r)
      PROVE  UnscheduledInv'
  BY <1>14 DEF CronWrite, FirstUnschedule, Begins
<1>15. ASSUME NEW t \in Thread, NEW R \in SUBSET Sub, RemoveWrite(t, R)
      PROVE  UnscheduledInv'
  BY <1>15 DEF RemoveWrite, Begins
<1>16. ASSUME NEW s \in Sub, JobStart(s)
      PROVE  UnscheduledInv'
  BY <1>16 DEF JobStart
<1>17. ASSUME NEW s \in Sub, JobFetched(s)
      PROVE  UnscheduledInv'
  BY <1>17 DEF JobFetched
<1>18. ASSUME NEW s \in Sub, JobWrite(s)
      PROVE  UnscheduledInv'
  BY <1>18 DEF JobWrite
<1>19. ASSUME NEW s \in Sub, JobRefused(s)
      PROVE  UnscheduledInv'
  BY <1>19 DEF JobRefused, BusyTimeout
<1>20. CASE UNCHANGED vars
  BY <1>20 DEF vars
<1>. QED
  BY <1>1, <1>2, <1>3, <1>4, <1>5, <1>6, <1>7, <1>8, <1>9, <1>10, <1>11,
     <1>12, <1>13, <1>14, <1>15, <1>16, <1>17, <1>18, <1>19, <1>20
     DEF Next, TakesMutex, OtherStep, Request, JobEnds

(* No scheduler runs for a subscription that is removed or disabled, but   *)
(* for those that were raced.                                              *)
LEMMA UnaskedStep ==
    ASSUME IInv, [Next]_vars
    PROVE  NothingRunsUnasked'
<1>. USE ExpAssumption, RowAssumption, NoneAssumption, RequestAssumption
     DEF IInv, TypeOK, StepInv, Thread, Row, rowVars, schedVars, threadVars,
         Goto, Exists, NothingRunsUnasked, UnscheduledInv, TxInv, VisitInv,
         Overtaken
<1>1. ASSUME NEW t \in Thread, CheckCache(t)
      PROVE  NothingRunsUnasked'
  BY <1>1 DEF CheckCache, Advance
<1>2. ASSUME NEW t \in Thread, CreateScheduler(t)
      PROVE  NothingRunsUnasked'
  BY <1>2 DEF CreateScheduler, Creates, Advance
<1>3. ASSUME NEW t \in Thread, Unschedule(t)
      PROVE  NothingRunsUnasked'
  BY <1>3 DEF Unschedule, AfterUnschedule, Advance
<1>4. ASSUME NEW t \in Thread, ListSubscriptions(t)
      PROVE  NothingRunsUnasked'
  BY <1>4 DEF ListSubscriptions
<1>5. ASSUME NEW t \in Thread, ListExpires(t)
      PROVE  NothingRunsUnasked'
  BY <1>5 DEF ListExpires
<1>6. ASSUME NEW t \in Thread, ReadRow(t)
      PROVE  NothingRunsUnasked'
  BY <1>6 DEF ReadRow, WantsScheduler, Advance
<1>7. ASSUME NEW t \in Thread, Stopped(t)
      PROVE  NothingRunsUnasked'
  BY <1>7 DEF Stopped, JobDone, AfterUnschedule, Advance
<1>8. ASSUME NEW t \in Thread, Commit(t)
      PROVE  NothingRunsUnasked'
  BY <1>8 DEF Commit, TxEnds
<1>9. ASSUME NEW t \in Thread, CommitLost(t)
      PROVE  NothingRunsUnasked'
  BY <1>9 DEF CommitLost, TxEnds
<1>10. ASSUME NEW t \in Thread, UpdateWrite(t)
      PROVE  NothingRunsUnasked'
  BY <1>10 DEF UpdateWrite, UpdateEnds
<1>11. ASSUME NEW t \in Thread, UpdateFails(t)
      PROVE  NothingRunsUnasked'
  BY <1>11 DEF UpdateFails, UpdateEnds
<1>12. ASSUME NEW t \in Thread, NEW s \in Sub, Import(t, s)
      PROVE  NothingRunsUnasked'
  BY <1>12 DEF Import, Begins
<1>13. ASSUME NEW t \in Thread, NEW s \in Sub, UpdateRead(t, s)
      PROVE  NothingRunsUnasked'
  BY <1>13 DEF UpdateRead, Begins
<1>14. ASSUME NEW t \in Thread, NEW s \in Sub, NEW r \in Row, CronWrite(t, s, r)
      PROVE  NothingRunsUnasked'
  BY <1>14 DEF CronWrite, FirstUnschedule, Begins
<1>15. ASSUME NEW t \in Thread, NEW R \in SUBSET Sub, RemoveWrite(t, R)
      PROVE  NothingRunsUnasked'
  BY <1>15 DEF RemoveWrite, Begins
<1>16. ASSUME NEW s \in Sub, JobStart(s)
      PROVE  NothingRunsUnasked'
  BY <1>16 DEF JobStart
<1>17. ASSUME NEW s \in Sub, JobFetched(s)
      PROVE  NothingRunsUnasked'
  BY <1>17 DEF JobFetched
<1>18. ASSUME NEW s \in Sub, JobWrite(s)
      PROVE  NothingRunsUnasked'
  BY <1>18 DEF JobWrite
<1>19. ASSUME NEW s \in Sub, JobRefused(s)
      PROVE  NothingRunsUnasked'
  BY <1>19 DEF JobRefused, BusyTimeout
<1>20. CASE UNCHANGED vars
  BY <1>20 DEF vars
<1>. QED
  BY <1>1, <1>2, <1>3, <1>4, <1>5, <1>6, <1>7, <1>8, <1>9, <1>10, <1>11,
     <1>12, <1>13, <1>14, <1>15, <1>16, <1>17, <1>18, <1>19, <1>20
     DEF Next, TakesMutex, OtherStep, Request, JobEnds

(* No nodes are left behind, but for those that were raced. *)
LEMMA OrphanStep ==
    ASSUME IInv, [Next]_vars
    PROVE  NoOrphanNodes'
<1>. USE ExpAssumption, RowAssumption, NoneAssumption, RequestAssumption
     DEF IInv, TypeOK, StepInv, Thread, Row, rowVars, schedVars, threadVars,
         Goto, Exists, NoOrphanNodes, NothingRunsUnasked, TxInv, JobInv,
         Intent
<1>1. ASSUME NEW t \in Thread, CheckCache(t)
      PROVE  NoOrphanNodes'
  BY <1>1 DEF CheckCache, Advance
<1>2. ASSUME NEW t \in Thread, CreateScheduler(t)
      PROVE  NoOrphanNodes'
  BY <1>2 DEF CreateScheduler, Creates, Advance
<1>3. ASSUME NEW t \in Thread, Unschedule(t)
      PROVE  NoOrphanNodes'
  BY <1>3 DEF Unschedule, AfterUnschedule, Advance
<1>4. ASSUME NEW t \in Thread, ListSubscriptions(t)
      PROVE  NoOrphanNodes'
  BY <1>4 DEF ListSubscriptions
<1>5. ASSUME NEW t \in Thread, ListExpires(t)
      PROVE  NoOrphanNodes'
  BY <1>5 DEF ListExpires
<1>6. ASSUME NEW t \in Thread, ReadRow(t)
      PROVE  NoOrphanNodes'
  BY <1>6 DEF ReadRow, WantsScheduler, Advance
<1>7. ASSUME NEW t \in Thread, Stopped(t)
      PROVE  NoOrphanNodes'
  BY <1>7 DEF Stopped, JobDone, AfterUnschedule, Advance
<1>8. ASSUME NEW t \in Thread, Commit(t)
      PROVE  NoOrphanNodes'
  BY <1>8 DEF Commit, TxEnds
<1>9. ASSUME NEW t \in Thread, CommitLost(t)
      PROVE  NoOrphanNodes'
  BY <1>9 DEF CommitLost, TxEnds
<1>10. ASSUME NEW t \in Thread, UpdateWrite(t)
      PROVE  NoOrphanNodes'
  BY <1>10 DEF UpdateWrite, UpdateEnds
<1>11. ASSUME NEW t \in Thread, UpdateFails(t)
      PROVE  NoOrphanNodes'
  BY <1>11 DEF UpdateFails, UpdateEnds
<1>12. ASSUME NEW t \in Thread, NEW s \in Sub, Import(t, s)
      PROVE  NoOrphanNodes'
  BY <1>12 DEF Import, Begins
<1>13. ASSUME NEW t \in Thread, NEW s \in Sub, UpdateRead(t, s)
      PROVE  NoOrphanNodes'
  BY <1>13 DEF UpdateRead, Begins
<1>14. ASSUME NEW t \in Thread, NEW s \in Sub, NEW r \in Row, CronWrite(t, s, r)
      PROVE  NoOrphanNodes'
  BY <1>14 DEF CronWrite, FirstUnschedule, Begins
<1>15. ASSUME NEW t \in Thread, NEW R \in SUBSET Sub, RemoveWrite(t, R)
      PROVE  NoOrphanNodes'
  BY <1>15 DEF RemoveWrite, Begins
<1>16. ASSUME NEW s \in Sub, JobStart(s)
      PROVE  NoOrphanNodes'
  BY <1>16 DEF JobStart
<1>17. ASSUME NEW s \in Sub, JobFetched(s)
      PROVE  NoOrphanNodes'
  BY <1>17 DEF JobFetched
<1>18. ASSUME NEW s \in Sub, JobWrite(s)
      PROVE  NoOrphanNodes'
  BY <1>18 DEF JobWrite
<1>19. ASSUME NEW s \in Sub, JobRefused(s)
      PROVE  NoOrphanNodes'
  BY <1>19 DEF JobRefused, BusyTimeout
<1>20. CASE UNCHANGED vars
  BY <1>20 DEF vars
<1>. QED
  BY <1>1, <1>2, <1>3, <1>4, <1>5, <1>6, <1>7, <1>8, <1>9, <1>10, <1>11,
     <1>12, <1>13, <1>14, <1>15, <1>16, <1>17, <1>18, <1>19, <1>20
     DEF Next, TakesMutex, OtherStep, Request, JobEnds

(* main schedules what it has visited. *)
LEMMA BootStep ==
    ASSUME IInv, [Next]_vars
    PROVE  BootInv'
<1>. USE ExpAssumption, RowAssumption, NoneAssumption, RequestAssumption
     DEF IInv, TypeOK, StepInv, Thread, Row, rowVars, schedVars, threadVars,
         Goto, Exists, BootInv, MainInv, TxInv, Wanted
<1>1. ASSUME NEW t \in Thread, CheckCache(t)
      PROVE  BootInv'
  BY <1>1 DEF CheckCache, Advance
<1>2. ASSUME NEW t \in Thread, CreateScheduler(t)
      PROVE  BootInv'
  BY <1>2 DEF CreateScheduler, Creates, Advance
<1>3. ASSUME NEW t \in Thread, Unschedule(t)
      PROVE  BootInv'
  BY <1>3 DEF Unschedule, AfterUnschedule, Advance
<1>4. ASSUME NEW t \in Thread, ListSubscriptions(t)
      PROVE  BootInv'
  BY <1>4 DEF ListSubscriptions
<1>5. ASSUME NEW t \in Thread, ListExpires(t)
      PROVE  BootInv'
  BY <1>5 DEF ListExpires
<1>6. ASSUME NEW t \in Thread, ReadRow(t)
      PROVE  BootInv'
  BY <1>6 DEF ReadRow, WantsScheduler, Advance
<1>7. ASSUME NEW t \in Thread, Stopped(t)
      PROVE  BootInv'
  BY <1>7 DEF Stopped, JobDone, AfterUnschedule, Advance
<1>8. ASSUME NEW t \in Thread, Commit(t)
      PROVE  BootInv'
  BY <1>8 DEF Commit, TxEnds
<1>9. ASSUME NEW t \in Thread, CommitLost(t)
      PROVE  BootInv'
  BY <1>9 DEF CommitLost, TxEnds
<1>10. ASSUME NEW t \in Thread, UpdateWrite(t)
      PROVE  BootInv'
  BY <1>10 DEF UpdateWrite, UpdateEnds
<1>11. ASSUME NEW t \in Thread, UpdateFails(t)
      PROVE  BootInv'
  BY <1>11 DEF UpdateFails, UpdateEnds
<1>12. ASSUME NEW t \in Thread, NEW s \in Sub, Import(t, s)
      PROVE  BootInv'
  BY <1>12 DEF Import, Begins
<1>13. ASSUME NEW t \in Thread, NEW s \in Sub, UpdateRead(t, s)
      PROVE  BootInv'
  BY <1>13 DEF UpdateRead, Begins
<1>14. ASSUME NEW t \in Thread, NEW s \in Sub, NEW r \in Row, CronWrite(t, s, r)
      PROVE  BootInv'
  BY <1>14 DEF CronWrite, FirstUnschedule, Begins
<1>15. ASSUME NEW t \in Thread, NEW R \in SUBSET Sub, RemoveWrite(t, R)
      PROVE  BootInv'
  BY <1>15 DEF RemoveWrite, Begins
<1>16. ASSUME NEW s \in Sub, JobStart(s)
      PROVE  BootInv'
  BY <1>16 DEF JobStart
<1>17. ASSUME NEW s \in Sub, JobFetched(s)
      PROVE  BootInv'
  BY <1>17 DEF JobFetched
<1>18. ASSUME NEW s \in Sub, JobWrite(s)
      PROVE  BootInv'
  BY <1>18 DEF JobWrite
<1>19. ASSUME NEW s \in Sub, JobRefused(s)
      PROVE  BootInv'
  BY <1>19 DEF JobRefused, BusyTimeout
<1>20. CASE UNCHANGED vars
  BY <1>20 DEF vars
<1>. QED
  BY <1>1, <1>2, <1>3, <1>4, <1>5, <1>6, <1>7, <1>8, <1>9, <1>10, <1>11,
     <1>12, <1>13, <1>14, <1>15, <1>16, <1>17, <1>18, <1>19, <1>20
     DEF Next, TakesMutex, OtherStep, Request, JobEnds

(* Who opens the server has scheduled everything. *)
LEMMA OpensScheduled ==
    ASSUME IInv, [Next]_vars
    PROVE  SchedulesAll
<1>. USE ExpAssumption, RowAssumption, NoneAssumption, RequestAssumption
     DEF IInv, TypeOK, StepInv, Thread, Row, rowVars, schedVars, threadVars,
         Goto, Exists, SchedulesAll, BootInv, MainInv, TxInv, Wanted
<1>1. ASSUME NEW t \in Thread, CheckCache(t)
      PROVE  SchedulesAll
  BY <1>1 DEF CheckCache, Advance
<1>2. ASSUME NEW t \in Thread, CreateScheduler(t)
      PROVE  SchedulesAll
  BY <1>2 DEF CreateScheduler, Creates, Advance
<1>3. ASSUME NEW t \in Thread, Unschedule(t)
      PROVE  SchedulesAll
  BY <1>3 DEF Unschedule, AfterUnschedule, Advance
<1>4. ASSUME NEW t \in Thread, ListSubscriptions(t)
      PROVE  SchedulesAll
  BY <1>4 DEF ListSubscriptions
<1>5. ASSUME NEW t \in Thread, ListExpires(t)
      PROVE  SchedulesAll
  BY <1>5 DEF ListExpires
<1>6. ASSUME NEW t \in Thread, ReadRow(t)
      PROVE  SchedulesAll
  BY <1>6 DEF ReadRow, WantsScheduler, Advance
<1>7. ASSUME NEW t \in Thread, Stopped(t)
      PROVE  SchedulesAll
  BY <1>7 DEF Stopped, JobDone, AfterUnschedule, Advance
<1>8. ASSUME NEW t \in Thread, Commit(t)
      PROVE  SchedulesAll
  BY <1>8 DEF Commit, TxEnds
<1>9. ASSUME NEW t \in Thread, CommitLost(t)
      PROVE  SchedulesAll
  BY <1>9 DEF CommitLost, TxEnds
<1>10. ASSUME NEW t \in Thread, UpdateWrite(t)
      PROVE  SchedulesAll
  BY <1>10 DEF UpdateWrite, UpdateEnds
<1>11. ASSUME NEW t \in Thread, UpdateFails(t)
      PROVE  SchedulesAll
  BY <1>11 DEF UpdateFails, UpdateEnds
<1>12. ASSUME NEW t \in Thread, NEW s \in Sub, Import(t, s)
      PROVE  SchedulesAll
  BY <1>12 DEF Import, Begins
<1>13. ASSUME NEW t \in Thread, NEW s \in Sub, UpdateRead(t, s)
      PROVE  SchedulesAll
  BY <1>13 DEF UpdateRead, Begins
<1>14. ASSUME NEW t \in Thread, NEW s \in Sub, NEW r \in Row, CronWrite(t, s, r)
      PROVE  SchedulesAll
  BY <1>14 DEF CronWrite, FirstUnschedule, Begins
<1>15. ASSUME NEW t \in Thread, NEW R \in SUBSET Sub, RemoveWrite(t, R)
      PROVE  SchedulesAll
  BY <1>15 DEF RemoveWrite, Begins
<1>16. ASSUME NEW s \in Sub, JobStart(s)
      PROVE  SchedulesAll
  BY <1>16 DEF JobStart
<1>17. ASSUME NEW s \in Sub, JobFetched(s)
      PROVE  SchedulesAll
  BY <1>17 DEF JobFetched
<1>18. ASSUME NEW s \in Sub, JobWrite(s)
      PROVE  SchedulesAll
  BY <1>18 DEF JobWrite
<1>19. ASSUME NEW s \in Sub, JobRefused(s)
      PROVE  SchedulesAll
  BY <1>19 DEF JobRefused, BusyTimeout
<1>20. CASE UNCHANGED vars
  BY <1>20 DEF vars
<1>. QED
  BY <1>1, <1>2, <1>3, <1>4, <1>5, <1>6, <1>7, <1>8, <1>9, <1>10, <1>11,
     <1>12, <1>13, <1>14, <1>15, <1>16, <1>17, <1>18, <1>19, <1>20
     DEF Next, TakesMutex, OtherStep, Request, JobEnds

LEMMA InitIInv == Init => IInv
<1>. SUFFICES ASSUME Init PROVE IInv
  OBVIOUS
<1>. USE ExpAssumption, RowAssumption, NoneAssumption, RequestAssumption
     DEF Init, Thread, Row, Exists
<1>1. TypeOK
  BY DEF TypeOK, Steps, Op
<1>2. StepInv /\ MainInv /\ TxInv /\ VisitInv /\ MuInv
  BY DEF StepInv, MainInv, TxInv, VisitInv, MuInv
<1>3. JobInv /\ OneScheduler /\ UnscheduledInv /\ NothingRunsUnasked
  BY DEF JobInv, OneScheduler, UnscheduledInv, NothingRunsUnasked
<1>4. NoOrphanNodes /\ BootInv
  BY DEF NoOrphanNodes, BootInv
<1>. QED
  BY <1>1, <1>2, <1>3, <1>4 DEF IInv

(* Every step of main, of the mutations and of the jobs keeps the invariant. *)
THEOREM Invariance == Spec => []IInv
<1>1. IInv /\ [Next]_vars => IInv'
  BY TypeStep, StepStep, MainStep, TxStep, VisitStep, MuStep, JobStep, OneStep,
     UnscheduledStep, UnaskedStep, OrphanStep, BootStep DEF IInv
<1>. QED
  BY InitIInv, <1>1, PTL DEF Spec

(* The variables keep their types; in particular no scheduler of a subscription is *)
(* started beside another, or stopped twice.                                        *)
THEOREM TypeCorrect == Spec => []TypeOK
<1>1. IInv => TypeOK
  BY DEF IInv
<1>. QED
  BY Invariance, <1>1, PTL

(* The cache knows of each subscription the one scheduler that is started, or that there *)
(* is none, however many goroutines schedule and unschedule.                             *)
THEOREM CacheKnowsAll == Spec => []OneScheduler
<1>1. IInv => OneScheduler
  BY DEF IInv
<1>. QED
  BY Invariance, <1>1, PTL

(* Nobody's scheduler outlives the transaction that removes or disables a subscription, *)
(* but one created by who had read the row before.                                      *)
THEOREM NoneOutlives == Spec => []NothingRunsUnasked
<1>1. IInv => NothingRunsUnasked
  BY DEF IInv
<1>. QED
  BY Invariance, <1>1, PTL

(* The nodes of a removed subscription are gone and no job brings them back. *)
THEOREM NodesGoWithThem == Spec => []NoOrphanNodes
<1>1. IInv => NoOrphanNodes
  BY DEF IInv
<1>. QED
  BY Invariance, <1>1, PTL

(* The first request finds every subscription scheduled as its row says, whatever an *)
(* earlier life of the process left in the database.                                  *)
THEOREM StartSchedules == Spec => BootSchedules
<1>1. IInv /\ [Next]_vars => [SchedulesAll]_vars
  BY OpensScheduled
<1>. QED
  BY Invariance, <1>1, PTL DEF Spec, BootSchedules, SchedulesAll

================================================================================
