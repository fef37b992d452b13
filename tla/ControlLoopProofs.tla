--------------------------- MODULE ControlLoopProofs ---------------------------
(***************************************************************************)
(* Proofs about ControlLoop, for every set of configurations, callers and  *)
(* exit senders, and whichever way the first goroutine is scheduled.       *)
(*                                                                         *)
(* No safety invariant of ControlLoop is inductive by itself.  IInv adds,  *)
(* in named parts, what the loop relies on without saying so: that the     *)
(* lock admits one caller, that at most one message is handled, and that   *)
(* without a failure exactly one goroutine serves or has a nil to send.    *)
(***************************************************************************)
EXTENDS ControlLoop, TLAPS

(* A reload whose planes have been swapped and whose caller is not answered. *)
Swapped == (lpc = "recv" /\ reloading) \/ lpc \in {"swapped", "ready", "answer"}

LockInv == \A k \in Caller : cpc[k] # "idle" <=> runLock = k

BoundInv ==
    /\ \A k \in Caller : cpc[k] \in {"locked", "sending"} => c < MaxPlane
    /\ lpc \in {"load", "built", "injected"} => c < MaxPlane

WantInv == \A k \in Caller : cpc[k] \in {"sending", "waiting"} => want[k] \in Config

PhaseInv ==
    /\ lpc \in {"recv", "load", "built", "injected", "swapped", "ready", "answer", "closing"} => c > 0
    /\ lpc \in {"start", "dry", "dryanswer"} => c = 0
    /\ lpc \in {"load", "built", "injected", "ready", "answer", "start", "dry", "dryanswer"} => ~reloading
    /\ lpc = "swapped" => reloading
    /\ lpc \in {"load", "built", "injected", "dryanswer"} => msg \in Caller
    /\ Swapped => chCallback \in Caller
    /\ lpc = "start" => closed = {} /\ \A k \in Caller : cpc[k] # "answered"

(* Planes are closed in the order they were built, the last but one as soon *)
(* as c names its successor, and the objects have moved on by then.         *)
PlaneInv ==
    (Alive /\ c > 0) =>
        /\ closed = IF lpc = "swapped" THEN 1..(c - 2) ELSE 1..(c - 1)
        /\ bpf = CASE lpc \in {"load", "built"} -> {}
                   [] lpc = "injected" -> {c + 1}
                   [] OTHER -> {c}

(* What a plane is built for, and runs once it is swapped in, is what the   *)
(* caller asked for, or the previous configuration again.                   *)
SwapInv ==
    /\ lpc = "load" => newConf = want[msg]
    /\ lpc \in {"built", "injected"} => newConf = IF errReload THEN conf ELSE want[msg]
    /\ (Swapped /\ ~errReload) => conf = want[chCallback]

Live(s) == srv[s] \in {"spawned", "serving", "exiting"}

(* An answer has arrived; the api-only loop runs only with its flag. *)
ResultInv == \A k \in Caller : cpc[k] = "answered" => result[k] \in {"ok", "failed"}

FlagInv == lpc \in {"dry", "dryanswer"} => TRUE \in DryFlags

(* What each goroutine serves, failures or not: only the first can serve   *)
(* another plane than the one it is named after, and the loop does not     *)
(* answer before the goroutine of the new plane has read c.                *)
ServesInv ==
    /\ c = 0 => \A s \in Plane : srv[s] = "none"
    /\ \A s \in Plane : srv[s] # "none" => s <= c
    /\ \A s \in Plane : s > 1 /\ srv[s] = "spawned" => s = c /\ lpc = "ready"
    /\ \A s \in Plane : s > 1 /\ srv[s] \in {"serving", "exiting"} => srvPlane[s] = s
    /\ Swapped => c > 1
    /\ lpc = "answer" => srv[c] \in {"serving", "exiting"}

(* Without a failure: one goroutine is alive from the first control plane  *)
(* on; it has a nil to send only in a reload, and by then the listener is  *)
(* assigned.                                                               *)
ServerInv ==
    ~excuse =>
        /\ \A s, t \in Plane : Live(s) /\ Live(t) => s = t
        /\ \A s \in Plane : srv[s] = "exiting" => reloading /\ lpc = "recv"
        /\ \A s \in Plane : srv[s] = "exiting" => listener
        /\ \A s \in Plane : Live(s) /\ s > 1 => listener
        /\ \A s \in Plane : srv[s] = "serving" => srvPlane[s] \in {c, c - 1}
        /\ \A s \in Plane : srv[s] = "serving" /\ srvPlane[s] # c => reloading
        /\ lpc \notin {"closing", "dead"}
        /\ \A e \in ExitSender : epc[e] # "sending"

IInv ==
    /\ TypeOK
    /\ LockInv
    /\ BoundInv
    /\ WantInv
    /\ PhaseInv
    /\ SwapInv
    /\ NoForgottenCaller
    /\ ToldWhatRuns
    /\ PlaneInv
    /\ ResultInv
    /\ FlagInv
    /\ ServesInv
    /\ ServedWhenIdle
    /\ ServerInv

(* The variables keep their types.  A load needs the bound on the planes, and   *)
(* a caller with a configuration behind the message.                            *)
LEMMA TypeStep ==
    ASSUME IInv, [Next]_vars
    PROVE  TypeOK'
<1>. USE ConfigAssumption, CallerAssumption, FlagAssumption, MaxPlaneAssumption
     DEF IInv, Plane, loopVars, serverVars, callerVars, exitVars,
         TypeOK, Alive, LockInv, BoundInv, WantInv, PhaseInv,
         LoopStates, CallerStates, ServerStates
<1>1. CASE Start
  BY <1>1 DEF Start
<1>2. CASE StartFail
  BY <1>2 DEF StartFail
<1>3. CASE StartDry
  BY <1>3 DEF StartDry
<1>4. CASE LoadOk
  BY <1>4 DEF LoadOk
<1>5. CASE LoadRollback
  BY <1>5 DEF LoadRollback
<1>6. CASE InjectBpf
  BY <1>6 DEF InjectBpf
<1>7. CASE SwapPlane
  <2>1. msg \in Caller /\ cpc[msg] = "waiting"
    BY <1>7 DEF SwapPlane, NoForgottenCaller, Owed
  <2>2. want[msg] \in Config
    BY <2>1
  <2>3. c' \in 0..MaxPlane
    BY <1>7 DEF SwapPlane
  <2>4. /\ conf' \in Config /\ newConf' = None
        /\ msg' \in Caller \cup {None} /\ chCallback' \in Caller \cup {None}
    BY <1>7, <2>1, <2>2 DEF SwapPlane, SwapInv
  <2>. QED
    BY <1>7, <2>3, <2>4 DEF SwapPlane
<1>8. CASE CloseOld
  <2>1. c - 1 \in Plane
    BY <1>8 DEF CloseOld, ServesInv, Swapped
  <2>. QED
    BY <1>8, <2>1 DEF CloseOld, Close
<1>9. CASE LoadFatal
  BY <1>9 DEF LoadFatal, Close
<1>10. CASE Ready
  BY <1>10 DEF Ready
<1>11. CASE Answer
  BY <1>11 DEF Answer, Outcome
<1>12. CASE CloseAndExit
  BY <1>12 DEF CloseAndExit, Close
<1>13. CASE DryAnswer
  BY <1>13 DEF DryAnswer
<1>14. ASSUME NEW k \in Caller, RecvReload(k)
      PROVE  TypeOK'
  BY <1>14 DEF RecvReload, EjectBpf
<1>15. ASSUME NEW k \in Caller, DryRecv(k)
      PROVE  TypeOK'
  BY <1>15 DEF DryRecv
<1>16. ASSUME NEW s \in Plane, RecvNilServer(s)
      PROVE  TypeOK'
  BY <1>16 DEF RecvNilServer, TakeNil, AfterNil, Respawn, Resumes
<1>17. ASSUME NEW e \in ExitSender, RecvNilExit(e)
      PROVE  TypeOK'
  BY <1>17 DEF RecvNilExit, TakeNil, AfterNil, Respawn, Resumes
<1>18. ASSUME NEW e \in ExitSender, DryRecvNil(e)
      PROVE  TypeOK'
  BY <1>18 DEF DryRecvNil
<1>19. ASSUME NEW s \in Plane, ServerEval(s)
      PROVE  TypeOK'
  BY <1>19 DEF ServerEval
<1>20. ASSUME NEW s \in Plane, ServerReturn(s)
      PROVE  TypeOK'
  BY <1>20 DEF ServerReturn
<1>21. ASSUME NEW s \in Plane, ServerFail(s)
      PROVE  TypeOK'
  BY <1>21 DEF ServerFail
<1>22. ASSUME NEW k \in Caller, Acquire(k)
      PROVE  TypeOK'
  BY <1>22 DEF Acquire, LockFree
<1>23. ASSUME NEW k \in Caller, Abort(k)
      PROVE  TypeOK'
  BY <1>23 DEF Abort
<1>24. ASSUME NEW k \in Caller, NEW cfg \in Config, Send(k, cfg)
      PROVE  TypeOK'
  BY <1>24 DEF Send
<1>25. ASSUME NEW k \in Caller, Release(k)
      PROVE  TypeOK'
  BY <1>25 DEF Release
<1>26. ASSUME NEW e \in ExitSender, RequestExit(e)
      PROVE  TypeOK'
  BY <1>26 DEF RequestExit
<1>27. CASE UNCHANGED vars
  BY <1>27 DEF vars
<1>. QED
  BY <1>1, <1>2, <1>3, <1>4, <1>5, <1>6, <1>7, <1>8, <1>9, <1>10,
     <1>11, <1>12, <1>13, <1>14, <1>15, <1>16, <1>17, <1>18, <1>19,
     <1>20, <1>21, <1>22, <1>23, <1>24, <1>25, <1>26, <1>27
     DEF Next, LoopStep, ServerStep, CallerStep, ExitStep

(* A caller is inside config.Run exactly when it holds runLock.                 *)
LEMMA LockStep ==
    ASSUME IInv, [Next]_vars
    PROVE  LockInv'
<1>. USE ConfigAssumption, CallerAssumption, FlagAssumption, MaxPlaneAssumption
     DEF IInv, Plane, loopVars, serverVars, callerVars, exitVars,
         TypeOK, LockInv
<1>1. ASSUME NEW k \in Caller, Acquire(k)
      PROVE  LockInv'
  BY <1>1 DEF Acquire, LockFree
<1>2. ASSUME NEW k \in Caller, Abort(k)
      PROVE  LockInv'
  BY <1>2 DEF Abort
<1>3. ASSUME NEW k \in Caller, Release(k)
      PROVE  LockInv'
  BY <1>3 DEF Release
<1>4. CASE UNCHANGED vars
  BY <1>4 DEF vars
<1>5. CASE Start \/ StartFail \/ StartDry \/ CloseAndExit
  BY <1>5 DEF Start, StartFail, StartDry, CloseAndExit
<1>6. CASE LoadOk \/ LoadRollback \/ LoadFatal
  BY <1>6 DEF LoadOk, LoadRollback, LoadFatal
<1>7. CASE InjectBpf \/ SwapPlane \/ CloseOld \/ Ready
  BY <1>7 DEF InjectBpf, SwapPlane, CloseOld, Ready
<1>8. CASE Answer \/ DryAnswer
  BY <1>8 DEF Answer, DryAnswer
<1>9. ASSUME NEW k \in Caller,
              RecvReload(k) \/ DryRecv(k)
       PROVE  LockInv'
  BY <1>9 DEF RecvReload, DryRecv
<1>10. ASSUME NEW k \in Caller, NEW cfg \in Config,
              Send(k, cfg)
       PROVE  LockInv'
  BY <1>10 DEF Send
<1>11. ASSUME NEW s \in Plane,
              RecvNilServer(s)
       PROVE  LockInv'
  BY <1>11 DEF RecvNilServer, TakeNil
<1>12. ASSUME NEW e \in ExitSender,
              RecvNilExit(e) \/ DryRecvNil(e) \/ RequestExit(e)
       PROVE  LockInv'
  BY <1>12 DEF RecvNilExit, TakeNil, DryRecvNil, RequestExit
<1>13. CASE ServerStep
  BY <1>13 DEF ServerStep, ServerEval, ServerReturn, ServerFail
<1>. HIDE DEF IInv, Plane, TypeOK, LockInv
<1>. QED
  BY <1>1, <1>2, <1>3, <1>4, <1>5, <1>6, <1>7, <1>8, <1>9, <1>10,
     <1>11, <1>12, <1>13
     DEF Next, LoopStep, CallerStep, ExitStep

(* The caller that holds the lock is the only one that can use up a plane, so   *)
(* the bound it saw when it took the lock still holds when the plane is built.  *)
LEMMA BoundStep ==
    ASSUME IInv, [Next]_vars
    PROVE  BoundInv'
<1>. USE ConfigAssumption, CallerAssumption, FlagAssumption, MaxPlaneAssumption
     DEF IInv, Plane, loopVars, serverVars, callerVars, exitVars,
         TypeOK, LockInv, BoundInv
<1>1. CASE Start
  BY <1>1 DEF Start
<1>2. CASE LoadOk
  BY <1>2 DEF LoadOk, PhaseInv, NoForgottenCaller, Owed
<1>3. CASE LoadRollback
  BY <1>3 DEF LoadRollback, PhaseInv, NoForgottenCaller, Owed
<1>4. CASE InjectBpf
  BY <1>4 DEF InjectBpf, PhaseInv, NoForgottenCaller, Owed
<1>5. CASE SwapPlane
  BY <1>5 DEF SwapPlane, PhaseInv, NoForgottenCaller, Owed
<1>6. CASE CloseOld
  BY <1>6 DEF CloseOld, Close, PhaseInv, NoForgottenCaller, Owed
<1>7. ASSUME NEW k \in Caller, RecvReload(k)
      PROVE  BoundInv'
  BY <1>7 DEF RecvReload, EjectBpf
<1>8. ASSUME NEW k \in Caller, Acquire(k)
      PROVE  BoundInv'
  BY <1>8 DEF Acquire, LockFree
<1>9. CASE UNCHANGED vars
  BY <1>9 DEF vars
<1>10. CASE StartFail \/ StartDry \/ LoadFatal \/ CloseAndExit
  BY <1>10 DEF StartFail, StartDry, LoadFatal, CloseAndExit
<1>11. CASE Ready \/ Answer \/ DryAnswer
  BY <1>11 DEF Ready, Answer, DryAnswer
<1>12. ASSUME NEW k \in Caller,
              DryRecv(k) \/ Abort(k) \/ Release(k)
       PROVE  BoundInv'
  BY <1>12 DEF DryRecv, Abort, Release
<1>13. ASSUME NEW k \in Caller, NEW cfg \in Config,
              Send(k, cfg)
       PROVE  BoundInv'
  BY <1>13 DEF Send
<1>14. ASSUME NEW s \in Plane,
              RecvNilServer(s)
       PROVE  BoundInv'
  BY <1>14 DEF RecvNilServer, TakeNil, AfterNil
<1>15. ASSUME NEW e \in ExitSender,
              RecvNilExit(e) \/ DryRecvNil(e) \/ RequestExit(e)
       PROVE  BoundInv'
  BY <1>15 DEF RecvNilExit, TakeNil, AfterNil, DryRecvNil, RequestExit
<1>16. CASE ServerStep
  BY <1>16 DEF ServerStep, ServerEval, ServerReturn, ServerFail
<1>. HIDE DEF IInv, Plane, TypeOK, LockInv, BoundInv
<1>. QED
  BY <1>1, <1>2, <1>3, <1>4, <1>5, <1>6, <1>7, <1>8, <1>9, <1>10,
     <1>11, <1>12, <1>13, <1>14, <1>15, <1>16
     DEF Next, LoopStep, CallerStep, ExitStep

(* A caller that sends or waits has a configuration.                            *)
LEMMA WantStep ==
    ASSUME IInv, [Next]_vars
    PROVE  WantInv'
<1>. USE ConfigAssumption, CallerAssumption, FlagAssumption, MaxPlaneAssumption
     DEF IInv, Plane, loopVars, serverVars, callerVars, exitVars,
         TypeOK, LockInv, WantInv
<1>1. CASE Answer
  BY <1>1 DEF Answer, Outcome
<1>2. CASE DryAnswer
  BY <1>2 DEF DryAnswer
<1>3. ASSUME NEW k \in Caller, RecvReload(k)
      PROVE  WantInv'
  BY <1>3 DEF RecvReload, EjectBpf
<1>4. ASSUME NEW k \in Caller, DryRecv(k)
      PROVE  WantInv'
  BY <1>4 DEF DryRecv
<1>5. ASSUME NEW k \in Caller, Acquire(k)
      PROVE  WantInv'
  BY <1>5 DEF Acquire, LockFree
<1>6. ASSUME NEW k \in Caller, Abort(k)
      PROVE  WantInv'
  BY <1>6 DEF Abort
<1>7. ASSUME NEW k \in Caller, NEW cfg \in Config, Send(k, cfg)
      PROVE  WantInv'
  BY <1>7 DEF Send
<1>8. ASSUME NEW k \in Caller, Release(k)
      PROVE  WantInv'
  BY <1>8 DEF Release
<1>9. CASE UNCHANGED vars
  BY <1>9 DEF vars
<1>. QED
  BY <1>1, <1>2, <1>3, <1>4, <1>5, <1>6, <1>7, <1>8, <1>9
     DEF Start, StartFail, StartDry, LoadOk, LoadRollback, LoadFatal,
         InjectBpf, SwapPlane, CloseOld, Close, EjectBpf, Ready, CloseAndExit, RecvNilServer,
         TakeNil, AfterNil, Respawn, Resumes, RecvNilExit, DryRecvNil,
         ServerEval, ServerReturn, ServerFail, RequestExit, Next,
         LoopStep, ServerStep, CallerStep, ExitStep

(* The phases of the loop and its local variables agree.  No message is taken   *)
(* in a reload: the caller that waits for its answer holds the lock.            *)
LEMMA PhaseStep ==
    ASSUME IInv, [Next]_vars
    PROVE  PhaseInv'
<1>. USE ConfigAssumption, CallerAssumption, FlagAssumption, MaxPlaneAssumption
     DEF IInv, Plane, loopVars, serverVars, callerVars, exitVars,
         TypeOK, LockInv, PhaseInv, NoForgottenCaller, Owed, Swapped
<1>1. CASE Start
  BY <1>1 DEF Start
<1>2. CASE StartFail
  BY <1>2 DEF StartFail
<1>3. CASE StartDry
  BY <1>3 DEF StartDry
<1>4. CASE LoadOk
  BY <1>4 DEF LoadOk
<1>5. CASE LoadRollback
  BY <1>5 DEF LoadRollback
<1>6. CASE InjectBpf
  BY <1>6 DEF InjectBpf
<1>7. CASE SwapPlane
  BY <1>7 DEF SwapPlane
<1>8. CASE CloseOld
  BY <1>8 DEF CloseOld, Close
<1>9. CASE LoadFatal
  BY <1>9 DEF LoadFatal, Close
<1>10. CASE Ready
  BY <1>10 DEF Ready
<1>11. CASE Answer
  BY <1>11 DEF Answer, Outcome
<1>12. CASE CloseAndExit
  BY <1>12 DEF CloseAndExit, Close
<1>13. CASE DryAnswer
  BY <1>13 DEF DryAnswer
<1>14. ASSUME NEW k \in Caller, RecvReload(k)
      PROVE  PhaseInv'
  BY <1>14 DEF RecvReload, EjectBpf
<1>15. ASSUME NEW k \in Caller, DryRecv(k)
      PROVE  PhaseInv'
  BY <1>15 DEF DryRecv
<1>16. ASSUME NEW s \in Plane, RecvNilServer(s)
      PROVE  PhaseInv'
  BY <1>16 DEF RecvNilServer, TakeNil, AfterNil, Respawn, Resumes
<1>17. ASSUME NEW e \in ExitSender, RecvNilExit(e)
      PROVE  PhaseInv'
  BY <1>17 DEF RecvNilExit, TakeNil, AfterNil, Respawn, Resumes
<1>18. ASSUME NEW e \in ExitSender, DryRecvNil(e)
      PROVE  PhaseInv'
  BY <1>18 DEF DryRecvNil
<1>19. ASSUME NEW s \in Plane, ServerEval(s)
      PROVE  PhaseInv'
  BY <1>19 DEF ServerEval
<1>20. ASSUME NEW s \in Plane, ServerReturn(s)
      PROVE  PhaseInv'
  BY <1>20 DEF ServerReturn
<1>21. ASSUME NEW s \in Plane, ServerFail(s)
      PROVE  PhaseInv'
  BY <1>21 DEF ServerFail
<1>22. ASSUME NEW k \in Caller, Acquire(k)
      PROVE  PhaseInv'
  BY <1>22 DEF Acquire, LockFree
<1>23. ASSUME NEW k \in Caller, Abort(k)
      PROVE  PhaseInv'
  BY <1>23 DEF Abort
<1>24. ASSUME NEW k \in Caller, NEW cfg \in Config, Send(k, cfg)
      PROVE  PhaseInv'
  BY <1>24 DEF Send
<1>25. ASSUME NEW k \in Caller, Release(k)
      PROVE  PhaseInv'
  BY <1>25 DEF Release
<1>26. ASSUME NEW e \in ExitSender, RequestExit(e)
      PROVE  PhaseInv'
  BY <1>26 DEF RequestExit
<1>27. CASE UNCHANGED vars
  BY <1>27 DEF vars
<1>. QED
  BY <1>1, <1>2, <1>3, <1>4, <1>5, <1>6, <1>7, <1>8, <1>9, <1>10,
     <1>11, <1>12, <1>13, <1>14, <1>15, <1>16, <1>17, <1>18, <1>19,
     <1>20, <1>21, <1>22, <1>23, <1>24, <1>25, <1>26, <1>27
     DEF Next, LoopStep, ServerStep, CallerStep, ExitStep

(* Without an error, the configuration swapped in is the one the caller waits   *)
(* for; with one, it is that of before.                                         *)
LEMMA SwapStep ==
    ASSUME IInv, [Next]_vars
    PROVE  SwapInv'
<1>. USE ConfigAssumption, CallerAssumption, FlagAssumption, MaxPlaneAssumption
     DEF IInv, Plane, loopVars, serverVars, callerVars, exitVars,
         TypeOK, LockInv, WantInv, PhaseInv, SwapInv, NoForgottenCaller,
         Owed, Swapped
<1>1. CASE LoadOk
  BY <1>1 DEF LoadOk
<1>2. CASE LoadRollback
  BY <1>2 DEF LoadRollback
<1>3. CASE InjectBpf
  BY <1>3 DEF InjectBpf
<1>4. CASE SwapPlane
  BY <1>4 DEF SwapPlane
<1>5. CASE CloseOld
  BY <1>5 DEF CloseOld, Close
<1>6. CASE Ready
  BY <1>6 DEF Ready
<1>7. CASE Answer
  BY <1>7 DEF Answer, Outcome
<1>8. ASSUME NEW k \in Caller, RecvReload(k)
      PROVE  SwapInv'
  BY <1>8 DEF RecvReload, EjectBpf
<1>9. ASSUME NEW s \in Plane, RecvNilServer(s)
      PROVE  SwapInv'
  BY <1>9 DEF RecvNilServer, TakeNil, AfterNil, Respawn, Resumes
<1>10. ASSUME NEW e \in ExitSender, RecvNilExit(e)
      PROVE  SwapInv'
  BY <1>10 DEF RecvNilExit, TakeNil, AfterNil, Respawn, Resumes
<1>11. ASSUME NEW k \in Caller, NEW cfg \in Config, Send(k, cfg)
      PROVE  SwapInv'
  BY <1>11 DEF Send
<1>12. ASSUME NEW k \in Caller, Release(k)
      PROVE  SwapInv'
  BY <1>12 DEF Release
<1>13. CASE UNCHANGED vars
  BY <1>13 DEF vars
<1>14. CASE Start \/ StartFail \/ StartDry \/ LoadFatal \/ CloseAndExit \/ DryAnswer
  <2>1. CASE Start \/ StartFail \/ StartDry
    <3>1. lpc = "start"
      BY <2>1 DEF Start, StartFail, StartDry
    <3>2. lpc' \in {"recv", "dry", "dead"} /\ reloading' = reloading
      BY <2>1 DEF Start, StartFail, StartDry
    <3>3. ~Swapped'
      BY <3>1, <3>2
    <3>. QED
      BY <3>2, <3>3
  <2>2. CASE LoadFatal \/ CloseAndExit
    BY <2>2 DEF LoadFatal, CloseAndExit
  <2>3. CASE DryAnswer
    BY <2>3 DEF DryAnswer
  <2>. QED
    BY <1>14, <2>1, <2>2, <2>3
<1>15. CASE ServerStep
  BY <1>15 DEF ServerStep, ServerEval, ServerReturn, ServerFail
<1>16. ASSUME NEW k \in Caller, Acquire(k) \/ Abort(k) \/ DryRecv(k)
       PROVE  SwapInv'
  BY <1>16 DEF Acquire, LockFree, Abort, DryRecv
<1>17. ASSUME NEW e \in ExitSender, DryRecvNil(e) \/ RequestExit(e)
       PROVE  SwapInv'
  BY <1>17 DEF DryRecvNil, RequestExit
<1>. QED
  BY <1>1, <1>2, <1>3, <1>4, <1>5, <1>6, <1>7, <1>8, <1>9, <1>10, <1>11,
     <1>12, <1>13, <1>14, <1>15, <1>16, <1>17
     DEF Next, LoopStep, CallerStep, ExitStep

(* The waiting caller is the one the loop owes an answer.                       *)
LEMMA ForgottenStep ==
    ASSUME IInv, [Next]_vars
    PROVE  NoForgottenCaller'
<1>. USE ConfigAssumption, CallerAssumption, FlagAssumption, MaxPlaneAssumption
     DEF IInv, Plane, loopVars, serverVars, callerVars, exitVars,
         TypeOK, LockInv, PhaseInv, NoForgottenCaller, Owed, Swapped
<1>1. CASE Start
  BY <1>1 DEF Start
<1>2. CASE StartFail
  BY <1>2 DEF StartFail
<1>3. CASE StartDry
  BY <1>3 DEF StartDry
<1>4. CASE LoadOk
  BY <1>4 DEF LoadOk
<1>5. CASE LoadRollback
  BY <1>5 DEF LoadRollback
<1>6. CASE InjectBpf
  BY <1>6 DEF InjectBpf
<1>7. CASE SwapPlane
  BY <1>7 DEF SwapPlane
<1>8. CASE CloseOld
  BY <1>8 DEF CloseOld, Close
<1>9. CASE LoadFatal
  BY <1>9 DEF LoadFatal, Close
<1>10. CASE Ready
  BY <1>10 DEF Ready
<1>11. CASE Answer
  BY <1>11 DEF Answer, Outcome
<1>12. CASE CloseAndExit
  BY <1>12 DEF CloseAndExit, Close
<1>13. CASE DryAnswer
  BY <1>13 DEF DryAnswer
<1>14. ASSUME NEW k \in Caller, RecvReload(k)
      PROVE  NoForgottenCaller'
  BY <1>14 DEF RecvReload, EjectBpf
<1>15. ASSUME NEW k \in Caller, DryRecv(k)
      PROVE  NoForgottenCaller'
  BY <1>15 DEF DryRecv
<1>16. ASSUME NEW s \in Plane, RecvNilServer(s)
      PROVE  NoForgottenCaller'
  BY <1>16 DEF RecvNilServer, TakeNil, AfterNil, Respawn, Resumes
<1>17. ASSUME NEW e \in ExitSender, RecvNilExit(e)
      PROVE  NoForgottenCaller'
  BY <1>17 DEF RecvNilExit, TakeNil, AfterNil, Respawn, Resumes
<1>18. ASSUME NEW e \in ExitSender, DryRecvNil(e)
      PROVE  NoForgottenCaller'
  BY <1>18 DEF DryRecvNil
<1>19. ASSUME NEW s \in Plane, ServerEval(s)
      PROVE  NoForgottenCaller'
  BY <1>19 DEF ServerEval
<1>20. ASSUME NEW s \in Plane, ServerReturn(s)
      PROVE  NoForgottenCaller'
  BY <1>20 DEF ServerReturn
<1>21. ASSUME NEW s \in Plane, ServerFail(s)
      PROVE  NoForgottenCaller'
  BY <1>21 DEF ServerFail
<1>22. ASSUME NEW k \in Caller, Acquire(k)
      PROVE  NoForgottenCaller'
  BY <1>22 DEF Acquire, LockFree
<1>23. ASSUME NEW k \in Caller, Abort(k)
      PROVE  NoForgottenCaller'
  BY <1>23 DEF Abort
<1>24. ASSUME NEW k \in Caller, NEW cfg \in Config, Send(k, cfg)
      PROVE  NoForgottenCaller'
  BY <1>24 DEF Send
<1>25. ASSUME NEW k \in Caller, Release(k)
      PROVE  NoForgottenCaller'
  BY <1>25 DEF Release
<1>26. ASSUME NEW e \in ExitSender, RequestExit(e)
      PROVE  NoForgottenCaller'
  BY <1>26 DEF RequestExit
<1>27. CASE UNCHANGED vars
  BY <1>27 DEF vars
<1>. QED
  BY <1>1, <1>2, <1>3, <1>4, <1>5, <1>6, <1>7, <1>8, <1>9, <1>10,
     <1>11, <1>12, <1>13, <1>14, <1>15, <1>16, <1>17, <1>18, <1>19,
     <1>20, <1>21, <1>22, <1>23, <1>24, <1>25, <1>26, <1>27
     DEF Next, LoopStep, ServerStep, CallerStep, ExitStep

(* What an answered caller was told stays true: nobody else can load another    *)
(* configuration before it releases the lock.                                   *)
LEMMA ToldStep ==
    ASSUME IInv, [Next]_vars
    PROVE  ToldWhatRuns'
<1>. USE ConfigAssumption, CallerAssumption, FlagAssumption, MaxPlaneAssumption
     DEF IInv, Plane, loopVars, serverVars, callerVars, exitVars,
         TypeOK, LockInv, PhaseInv, SwapInv, NoForgottenCaller,
         Owed, Swapped, ToldWhatRuns
<1>1. CASE Start
  BY <1>1 DEF Start
<1>2. CASE LoadOk
  BY <1>2 DEF LoadOk
<1>3. CASE LoadRollback
  BY <1>3 DEF LoadRollback
<1>4. CASE InjectBpf
  BY <1>4 DEF InjectBpf
<1>5. CASE SwapPlane
  BY <1>5 DEF SwapPlane
<1>6. CASE CloseOld
  BY <1>6 DEF CloseOld, Close
<1>7. CASE Answer
  BY <1>7 DEF Answer, Outcome
<1>8. CASE DryAnswer
  BY <1>8 DEF DryAnswer
<1>9. ASSUME NEW k \in Caller, RecvReload(k)
      PROVE  ToldWhatRuns'
  BY <1>9 DEF RecvReload, EjectBpf
<1>10. ASSUME NEW k \in Caller, DryRecv(k)
      PROVE  ToldWhatRuns'
  BY <1>10 DEF DryRecv
<1>11. ASSUME NEW k \in Caller, Acquire(k)
      PROVE  ToldWhatRuns'
  BY <1>11 DEF Acquire, LockFree
<1>12. ASSUME NEW k \in Caller, Abort(k)
      PROVE  ToldWhatRuns'
  BY <1>12 DEF Abort
<1>13. ASSUME NEW k \in Caller, NEW cfg \in Config, Send(k, cfg)
      PROVE  ToldWhatRuns'
  BY <1>13 DEF Send
<1>14. ASSUME NEW k \in Caller, Release(k)
      PROVE  ToldWhatRuns'
  BY <1>14 DEF Release
<1>15. CASE UNCHANGED vars
  BY <1>15 DEF vars
<1>16. CASE StartFail \/ StartDry \/ LoadFatal \/ Ready \/ CloseAndExit
  BY <1>16 DEF StartFail, StartDry, LoadFatal, Ready, CloseAndExit
<1>17. ASSUME NEW s \in Plane, RecvNilServer(s)
       PROVE  ToldWhatRuns'
  BY <1>17 DEF RecvNilServer, TakeNil
<1>18. ASSUME NEW e \in ExitSender,
              RecvNilExit(e) \/ DryRecvNil(e) \/ RequestExit(e)
       PROVE  ToldWhatRuns'
  BY <1>18 DEF RecvNilExit, TakeNil, DryRecvNil, RequestExit
<1>19. CASE ServerStep
  BY <1>19 DEF ServerStep, ServerEval, ServerReturn, ServerFail
<1>. HIDE DEF IInv, Plane, TypeOK, LockInv, PhaseInv, SwapInv,
              NoForgottenCaller, Owed, Swapped, ToldWhatRuns
<1>. QED
  BY <1>1, <1>2, <1>3, <1>4, <1>5, <1>6, <1>7, <1>8, <1>9, <1>10, <1>11,
     <1>12, <1>13, <1>14, <1>15, <1>16, <1>17, <1>18, <1>19
     DEF Next, LoopStep, CallerStep, ExitStep

(* Planes are closed in the order they were built, and the bpf objects move     *)
(* on with them.                                                                *)
LEMMA PlaneStep ==
    ASSUME IInv, [Next]_vars
    PROVE  PlaneInv'
<1>. USE ConfigAssumption, CallerAssumption, FlagAssumption, MaxPlaneAssumption
     DEF IInv, Plane, loopVars, serverVars, callerVars, exitVars,
         TypeOK, LockInv, PhaseInv, PlaneInv, Alive
<1>1. CASE Start
  BY <1>1 DEF Start
<1>2. CASE LoadOk
  BY <1>2 DEF LoadOk
<1>3. CASE LoadRollback
  BY <1>3 DEF LoadRollback
<1>4. CASE InjectBpf
  BY <1>4 DEF InjectBpf
<1>5. CASE SwapPlane
  BY <1>5 DEF SwapPlane
<1>6. CASE CloseOld
  <2>1. c \in Nat /\ c > 1
    BY <1>6 DEF CloseOld, ServesInv, Swapped
  <2>2. closed' = 1..(c - 2) \cup {c - 1}
    BY <1>6, <2>1 DEF CloseOld, Close
  <2>3. 1..(c - 2) \cup {c - 1} = 1..(c - 1)
    BY <2>1
  <2>4. bpf = {c}
    BY <1>6, <2>1 DEF CloseOld
  <2>. QED
    BY <1>6, <2>2, <2>3, <2>4 DEF CloseOld
<1>7. CASE CloseAndExit
  BY <1>7 DEF CloseAndExit, Close
<1>8. ASSUME NEW k \in Caller, RecvReload(k)
      PROVE  PlaneInv'
  BY <1>8 DEF RecvReload, EjectBpf
<1>9. ASSUME NEW s \in Plane, RecvNilServer(s)
      PROVE  PlaneInv'
  BY <1>9 DEF RecvNilServer, TakeNil, AfterNil, Respawn, Resumes
<1>10. ASSUME NEW e \in ExitSender, RecvNilExit(e)
      PROVE  PlaneInv'
  BY <1>10 DEF RecvNilExit, TakeNil, AfterNil, Respawn, Resumes
<1>11. CASE UNCHANGED vars
  BY <1>11 DEF vars
<1>. QED
  BY <1>1, <1>2, <1>3, <1>4, <1>5, <1>6, <1>7, <1>8, <1>9, <1>10,
     <1>11
     DEF StartFail, StartDry, LoadFatal, Close, Ready, Answer, Outcome,
         DryAnswer, DryRecv, DryRecvNil, ServerEval, ServerReturn,
         ServerFail, Acquire, LockFree, Abort, Send, Release,
         RequestExit, Next, LoopStep, ServerStep, CallerStep, ExitStep

(* A caller that was answered knows how its reload ended.                       *)
LEMMA ResultStep ==
    ASSUME IInv, [Next]_vars
    PROVE  ResultInv'
<1>. USE ConfigAssumption, CallerAssumption, FlagAssumption, MaxPlaneAssumption
     DEF IInv, Plane, loopVars, serverVars, callerVars, exitVars,
         TypeOK, PhaseInv, ResultInv
<1>1. CASE Answer
  BY <1>1 DEF Answer, Outcome, Swapped
<1>2. CASE DryAnswer
  BY <1>2 DEF DryAnswer
<1>3. ASSUME NEW k \in Caller, RecvReload(k)
      PROVE  ResultInv'
  BY <1>3 DEF RecvReload, EjectBpf
<1>4. ASSUME NEW k \in Caller, DryRecv(k)
      PROVE  ResultInv'
  BY <1>4 DEF DryRecv
<1>5. ASSUME NEW k \in Caller, Acquire(k)
      PROVE  ResultInv'
  BY <1>5 DEF Acquire, LockFree
<1>6. ASSUME NEW k \in Caller, Abort(k)
      PROVE  ResultInv'
  BY <1>6 DEF Abort
<1>7. ASSUME NEW k \in Caller, NEW cfg \in Config, Send(k, cfg)
      PROVE  ResultInv'
  BY <1>7 DEF Send
<1>8. ASSUME NEW k \in Caller, Release(k)
      PROVE  ResultInv'
  BY <1>8 DEF Release
<1>9. CASE UNCHANGED vars
  BY <1>9 DEF vars
<1>. QED
  BY <1>1, <1>2, <1>3, <1>4, <1>5, <1>6, <1>7, <1>8, <1>9
     DEF Start, StartFail, StartDry, LoadOk, LoadRollback, LoadFatal,
         InjectBpf, SwapPlane, CloseOld, Close, EjectBpf, Ready, CloseAndExit, RecvNilServer,
         TakeNil, AfterNil, Respawn, Resumes, RecvNilExit, DryRecvNil,
         ServerEval, ServerReturn, ServerFail, RequestExit, Next,
         LoopStep, ServerStep, CallerStep, ExitStep

(* The two loops do not mix.                                                    *)
LEMMA FlagStep ==
    ASSUME IInv, [Next]_vars
    PROVE  FlagInv'
<1>. USE ConfigAssumption, CallerAssumption, FlagAssumption, MaxPlaneAssumption
     DEF IInv, Plane, loopVars, serverVars, callerVars, exitVars,
         TypeOK, FlagInv
<1>1. CASE Start
  BY <1>1 DEF Start
<1>2. CASE StartFail
  BY <1>2 DEF StartFail
<1>3. CASE StartDry
  BY <1>3 DEF StartDry
<1>4. CASE LoadOk
  BY <1>4 DEF LoadOk
<1>5. CASE LoadRollback
  BY <1>5 DEF LoadRollback
<1>6. CASE InjectBpf
  BY <1>6 DEF InjectBpf
<1>7. CASE SwapPlane
  BY <1>7 DEF SwapPlane
<1>8. CASE CloseOld
  BY <1>8 DEF CloseOld, Close
<1>9. CASE LoadFatal
  BY <1>9 DEF LoadFatal, Close
<1>10. CASE Ready
  BY <1>10 DEF Ready
<1>11. CASE Answer
  BY <1>11 DEF Answer, Outcome
<1>12. CASE CloseAndExit
  BY <1>12 DEF CloseAndExit, Close
<1>13. CASE DryAnswer
  BY <1>13 DEF DryAnswer
<1>14. ASSUME NEW k \in Caller, RecvReload(k)
      PROVE  FlagInv'
  BY <1>14 DEF RecvReload, EjectBpf
<1>15. ASSUME NEW k \in Caller, DryRecv(k)
      PROVE  FlagInv'
  BY <1>15 DEF DryRecv
<1>16. ASSUME NEW s \in Plane, RecvNilServer(s)
      PROVE  FlagInv'
  BY <1>16 DEF RecvNilServer, TakeNil, AfterNil, Respawn, Resumes
<1>17. ASSUME NEW e \in ExitSender, RecvNilExit(e)
      PROVE  FlagInv'
  BY <1>17 DEF RecvNilExit, TakeNil, AfterNil, Respawn, Resumes
<1>18. ASSUME NEW e \in ExitSender, DryRecvNil(e)
      PROVE  FlagInv'
  BY <1>18 DEF DryRecvNil
<1>19. CASE UNCHANGED vars
  BY <1>19 DEF vars
<1>. QED
  BY <1>1, <1>2, <1>3, <1>4, <1>5, <1>6, <1>7, <1>8, <1>9, <1>10,
     <1>11, <1>12, <1>13, <1>14, <1>15, <1>16, <1>17, <1>18, <1>19
     DEF ServerEval, ServerReturn, ServerFail, Acquire, LockFree, Abort,
         Send, Release, RequestExit, Next, LoopStep, ServerStep,
         CallerStep, ExitStep

(* Who serves what: c does not move while a goroutine that was just spawned     *)
(* has not read it, for the loop waits for it to be ready.                      *)
LEMMA ServesStep ==
    ASSUME IInv, [Next]_vars
    PROVE  ServesInv'
<1>. USE ConfigAssumption, CallerAssumption, FlagAssumption, MaxPlaneAssumption
     DEF IInv, Plane, loopVars, serverVars, callerVars, exitVars,
         TypeOK, PhaseInv, ServesInv, Swapped
<1>1. CASE Start
  BY <1>1 DEF Start
<1>2. CASE StartFail
  BY <1>2 DEF StartFail
<1>3. CASE StartDry
  BY <1>3 DEF StartDry
<1>4. CASE LoadOk
  BY <1>4 DEF LoadOk
<1>5. CASE LoadRollback
  BY <1>5 DEF LoadRollback
<1>6. CASE InjectBpf
  BY <1>6 DEF InjectBpf
<1>7. CASE SwapPlane
  BY <1>7 DEF SwapPlane
<1>8. CASE CloseOld
  BY <1>8 DEF CloseOld, Close
<1>9. CASE LoadFatal
  BY <1>9 DEF LoadFatal, Close
<1>10. CASE Ready
  BY <1>10 DEF Ready
<1>11. CASE Answer
  BY <1>11 DEF Answer, Outcome
<1>12. CASE CloseAndExit
  BY <1>12 DEF CloseAndExit, Close
<1>13. CASE DryAnswer
  BY <1>13 DEF DryAnswer
<1>14. ASSUME NEW k \in Caller, RecvReload(k)
      PROVE  ServesInv'
  BY <1>14 DEF RecvReload, EjectBpf, NoForgottenCaller, Owed, LockInv
<1>15. ASSUME NEW k \in Caller, DryRecv(k)
      PROVE  ServesInv'
  BY <1>15 DEF DryRecv
<1>16. ASSUME NEW s \in Plane, RecvNilServer(s)
      PROVE  ServesInv'
  BY <1>16 DEF RecvNilServer, TakeNil, AfterNil, Respawn, Resumes
<1>17. ASSUME NEW e \in ExitSender, RecvNilExit(e)
      PROVE  ServesInv'
  BY <1>17 DEF RecvNilExit, TakeNil, AfterNil, Respawn, Resumes
<1>18. ASSUME NEW e \in ExitSender, DryRecvNil(e)
      PROVE  ServesInv'
  BY <1>18 DEF DryRecvNil
<1>19. ASSUME NEW s \in Plane, ServerEval(s)
      PROVE  ServesInv'
  BY <1>19 DEF ServerEval
<1>20. ASSUME NEW s \in Plane, ServerReturn(s)
      PROVE  ServesInv'
  BY <1>20 DEF ServerReturn
<1>21. ASSUME NEW s \in Plane, ServerFail(s)
      PROVE  ServesInv'
  BY <1>21 DEF ServerFail
<1>22. ASSUME NEW k \in Caller, Acquire(k)
      PROVE  ServesInv'
  BY <1>22 DEF Acquire, LockFree
<1>23. ASSUME NEW k \in Caller, Abort(k)
      PROVE  ServesInv'
  BY <1>23 DEF Abort
<1>24. ASSUME NEW k \in Caller, NEW cfg \in Config, Send(k, cfg)
      PROVE  ServesInv'
  BY <1>24 DEF Send
<1>25. ASSUME NEW k \in Caller, Release(k)
      PROVE  ServesInv'
  BY <1>25 DEF Release
<1>26. ASSUME NEW e \in ExitSender, RequestExit(e)
      PROVE  ServesInv'
  BY <1>26 DEF RequestExit
<1>27. CASE UNCHANGED vars
  BY <1>27 DEF vars
<1>. QED
  BY <1>1, <1>2, <1>3, <1>4, <1>5, <1>6, <1>7, <1>8, <1>9, <1>10,
     <1>11, <1>12, <1>13, <1>14, <1>15, <1>16, <1>17, <1>18, <1>19,
     <1>20, <1>21, <1>22, <1>23, <1>24, <1>25, <1>26, <1>27
     DEF Next, LoopStep, ServerStep, CallerStep, ExitStep

(* A loop back at work outside a reload left a goroutine serving c.             *)
LEMMA IdleStep ==
    ASSUME IInv, [Next]_vars
    PROVE  ServedWhenIdle'
<1>. USE ConfigAssumption, CallerAssumption, FlagAssumption, MaxPlaneAssumption
     DEF IInv, Plane, loopVars, serverVars, callerVars, exitVars,
         TypeOK, PhaseInv, ServesInv, ServedWhenIdle, Swapped
<1>1. CASE Start
  BY <1>1 DEF Start
<1>2. CASE StartFail
  BY <1>2 DEF StartFail
<1>3. CASE LoadOk
  BY <1>3 DEF LoadOk
<1>4. CASE LoadRollback
  BY <1>4 DEF LoadRollback
<1>5. CASE InjectBpf
  BY <1>5 DEF InjectBpf
<1>6. CASE SwapPlane
  BY <1>6 DEF SwapPlane
<1>7. CASE CloseOld
  BY <1>7 DEF CloseOld, Close
<1>8. CASE LoadFatal
  BY <1>8 DEF LoadFatal, Close
<1>9. CASE Ready
  BY <1>9 DEF Ready
<1>10. CASE Answer
  BY <1>10 DEF Answer, Outcome
<1>11. CASE CloseAndExit
  BY <1>11 DEF CloseAndExit, Close
<1>12. CASE DryAnswer
  BY <1>12 DEF DryAnswer
<1>13. ASSUME NEW k \in Caller, RecvReload(k)
      PROVE  ServedWhenIdle'
  BY <1>13 DEF RecvReload, EjectBpf
<1>14. ASSUME NEW k \in Caller, DryRecv(k)
      PROVE  ServedWhenIdle'
  BY <1>14 DEF DryRecv
<1>15. ASSUME NEW s \in Plane, RecvNilServer(s)
      PROVE  ServedWhenIdle'
  BY <1>15 DEF RecvNilServer, TakeNil, AfterNil, Respawn, Resumes
<1>16. ASSUME NEW e \in ExitSender, RecvNilExit(e)
      PROVE  ServedWhenIdle'
  BY <1>16 DEF RecvNilExit, TakeNil, AfterNil, Respawn, Resumes
<1>17. ASSUME NEW e \in ExitSender, DryRecvNil(e)
      PROVE  ServedWhenIdle'
  BY <1>17 DEF DryRecvNil
<1>18. ASSUME NEW s \in Plane, ServerEval(s)
      PROVE  ServedWhenIdle'
  BY <1>18 DEF ServerEval
<1>19. ASSUME NEW s \in Plane, ServerReturn(s)
      PROVE  ServedWhenIdle'
  BY <1>19 DEF ServerReturn
<1>20. ASSUME NEW s \in Plane, ServerFail(s)
      PROVE  ServedWhenIdle'
  BY <1>20 DEF ServerFail
<1>21. CASE UNCHANGED vars
  BY <1>21 DEF vars
<1>. QED
  BY <1>1, <1>2, <1>3, <1>4, <1>5, <1>6, <1>7, <1>8, <1>9, <1>10,
     <1>11, <1>12, <1>13, <1>14, <1>15, <1>16, <1>17, <1>18, <1>19,
     <1>20, <1>21
     DEF StartDry, Acquire, LockFree, Abort, Send, Release, RequestExit,
         Next, LoopStep, ServerStep, CallerStep, ExitStep

(* Without a failure there is one live goroutine, and its nil comes in a reload. *)
LEMMA ServersStep ==
    ASSUME IInv, [Next]_vars
    PROVE  ServerInv'
<1>. USE ConfigAssumption, CallerAssumption, FlagAssumption, MaxPlaneAssumption
     DEF IInv, Plane, loopVars, serverVars, callerVars, exitVars,
         TypeOK, PhaseInv, PlaneInv, ServesInv, ServerInv, Live,
         Alive, Swapped
<1>1. CASE Start
  BY <1>1 DEF Start
<1>2. CASE LoadOk
  BY <1>2 DEF LoadOk
<1>3. CASE LoadRollback
  BY <1>3 DEF LoadRollback
<1>4. CASE InjectBpf
  BY <1>4 DEF InjectBpf
<1>5. CASE SwapPlane
  BY <1>5 DEF SwapPlane
<1>6. CASE CloseOld
  BY <1>6 DEF CloseOld, Close
<1>7. CASE Ready
  BY <1>7 DEF Ready
<1>8. ASSUME NEW k \in Caller, RecvReload(k)
      PROVE  ServerInv'
  BY <1>8 DEF RecvReload, EjectBpf, NoForgottenCaller, Owed, LockInv
<1>9. ASSUME NEW s \in Plane, RecvNilServer(s)
      PROVE  ServerInv'
  BY <1>9 DEF RecvNilServer, TakeNil, AfterNil, Respawn, Resumes
<1>10. ASSUME NEW e \in ExitSender, RecvNilExit(e)
      PROVE  ServerInv'
  BY <1>10 DEF RecvNilExit, TakeNil, AfterNil, Respawn, Resumes
<1>11. ASSUME NEW s \in Plane, ServerEval(s)
      PROVE  ServerInv'
  BY <1>11 DEF ServerEval
<1>12. ASSUME NEW s \in Plane, ServerReturn(s)
      PROVE  ServerInv'
  BY <1>12 DEF ServerReturn, LoopStates
<1>13. CASE UNCHANGED vars
  BY <1>13 DEF vars
<1>14. CASE StartFail \/ StartDry \/ LoadFatal \/ CloseAndExit
  BY <1>14 DEF StartFail, StartDry, LoadFatal, CloseAndExit
<1>15. CASE Answer \/ DryAnswer
  BY <1>15 DEF Answer, DryAnswer
<1>16. ASSUME NEW k \in Caller,
              DryRecv(k) \/ Acquire(k) \/ Abort(k) \/ Release(k)
       PROVE  ServerInv'
  BY <1>16 DEF DryRecv, Acquire, Abort, Release
<1>17. ASSUME NEW k \in Caller, NEW cfg \in Config,
              Send(k, cfg)
       PROVE  ServerInv'
  BY <1>17 DEF Send
<1>18. ASSUME NEW e \in ExitSender,
              DryRecvNil(e) \/ RequestExit(e)
       PROVE  ServerInv'
  BY <1>18 DEF DryRecvNil, RequestExit
<1>19. ASSUME NEW s \in Plane,
              ServerFail(s)
       PROVE  ServerInv'
  BY <1>19 DEF ServerFail
<1>. HIDE DEF IInv, Plane, TypeOK, PhaseInv, PlaneInv, ServesInv, ServerInv,
              Live, Alive, Swapped
<1>. QED
  BY <1>1, <1>2, <1>3, <1>4, <1>5, <1>6, <1>7, <1>8, <1>9, <1>10,
     <1>11, <1>12, <1>13, <1>14, <1>15, <1>16, <1>17, <1>18, <1>19
     DEF Next, LoopStep, ServerStep, CallerStep, ExitStep

-----------------------------------------------------------------------------
LEMMA InitIInv == Init => IInv
<1>. SUFFICES ASSUME Init PROVE IInv
  OBVIOUS
<1>. USE ConfigAssumption, CallerAssumption, FlagAssumption, MaxPlaneAssumption
     DEF Init, Plane
<1>1. TypeOK
  <2>1. c \in 0..MaxPlane /\ bpf \subseteq Plane
    OBVIOUS
  <2>2. /\ srv \in [Plane -> ServerStates]
        /\ srvPlane \in [Plane -> 0..MaxPlane]
    BY DEF ServerStates
  <2>3. /\ cpc \in [Caller -> CallerStates]
        /\ want \in [Caller -> Config \cup {None}]
        /\ result \in [Caller -> {"none", "ok", "failed"}]
        /\ epc \in [ExitSender -> {"idle", "sending", "waiting"}]
    BY DEF CallerStates
  <2>. QED
    BY <2>1, <2>2, <2>3 DEF TypeOK, LoopStates
<1>2. LockInv /\ BoundInv /\ WantInv
  BY DEF LockInv, BoundInv, WantInv
<1>3. PhaseInv /\ SwapInv
  BY DEF PhaseInv, SwapInv, Swapped
<1>4. NoForgottenCaller /\ ToldWhatRuns /\ PlaneInv
  BY DEF NoForgottenCaller, Owed, ToldWhatRuns, PlaneInv
<1>5. ResultInv /\ FlagInv
  BY DEF ResultInv, FlagInv
<1>6. ServesInv /\ ServedWhenIdle /\ ServerInv
  BY DEF ServesInv, Swapped, ServedWhenIdle, ServerInv, Live
<1>. QED
  BY <1>1, <1>2, <1>3, <1>4, <1>5, <1>6 DEF IInv

(* The inductive invariant holds in every behaviour of the loop. *)
THEOREM Invariance == Safety => []IInv
<1>1. IInv /\ [Next]_vars => IInv'
  BY TypeStep, LockStep, BoundStep, WantStep, PhaseStep, SwapStep,
     ForgottenStep, ToldStep, PlaneStep, ResultStep, FlagStep,
     ServesStep, IdleStep, ServersStep DEF IInv
<1>. QED
  BY InitIInv, <1>1, PTL DEF Safety

(* Type correctness of the loop, its goroutines and its callers: with two  *)
(* callers or more it rests on runLock, which bounds the planes.           *)
THEOREM TypeCorrect == Safety => []TypeOK
  BY Invariance, PTL DEF IInv

(* The caller blocked on its callback is the one the loop answers, however *)
(* many goroutines execute config.Run (dae/run.go:194, mutation_utils.go:  *)
(* 262-265, 456-462).                                                      *)
THEOREM CallersAnswered == Safety => []NoForgottenCaller
  BY Invariance, PTL DEF IInv

(* A caller told that its reload succeeded records the configuration that  *)
(* runs.                                                                   *)
THEOREM AnswersTrue == Safety => []ToldWhatRuns
  BY Invariance, PTL DEF IInv

(* One control plane is open and owns the bpf objects, whichever loads     *)
(* fail.                                                                   *)
THEOREM PlanesRetired == Safety => []OneOpenPlane
<1>1. IInv => OneOpenPlane
  BY DEF IInv, TypeOK, PhaseInv, PlaneInv, OneOpenPlane
<1>. QED
  BY Invariance, <1>1, PTL

(* The process exits only for a reason: the nil of a closed plane is never *)
(* taken for a listening error, even when the first goroutine starts late. *)
THEOREM ExitsExcused == Safety => []NoSpuriousExit
<1>1. IInv => NoSpuriousExit
  BY DEF IInv, ServerInv, NoSpuriousExit, TypeOK
<1>. QED
  BY Invariance, <1>1, PTL

(* Traffic is served, or the process is about to exit, whenever the loop   *)
(* waits for work.                                                         *)
THEOREM IdleServed == Safety => []ServedWhenIdle
  BY Invariance, PTL DEF IInv

-----------------------------------------------------------------------------
(* The loop implements ReloadService, for every value of the constants     *)
(* with which dae.Run is not in the api-only mode.                         *)

LEMMA InitMaps == Init => Service!Init
  BY DEF Init, Service!Init, Owed, Outcome

(* A step of the loop, of a goroutine or of a caller is a step of the      *)
(* service, or one no client can see.                                      *)
LEMMA StepMaps ==
    ASSUME DryFlags = {FALSE}, IInv, [Next]_vars
    PROVE  [Service!Next]_(Service!vars)
<1>. USE ConfigAssumption, CallerAssumption, FlagAssumption, MaxPlaneAssumption
     DEF IInv, Plane, loopVars, serverVars, callerVars, exitVars,
         TypeOK, LockInv, WantInv, PhaseInv, Swapped, NoForgottenCaller,
         Owed, Outcome, Service!vars
<1>1. CASE Start
  BY <1>1 DEF Start, Service!Next, Service!ServiceStep, Service!Boot
<1>2. CASE StartFail
  BY <1>2 DEF StartFail, Service!Next, Service!ServiceStep, Service!GoDown
<1>3. CASE StartDry
  BY <1>3 DEF StartDry
<1>4. CASE LoadOk \/ LoadRollback \/ InjectBpf \/ CloseOld
  BY <1>4 DEF LoadOk, LoadRollback, InjectBpf, CloseOld
<1>5. CASE SwapPlane
  BY <1>5 DEF SwapPlane, Service!Next, Service!ServiceStep,
              Service!Switch, Service!Refuse, SwapInv
<1>6. CASE LoadFatal
  BY <1>6 DEF LoadFatal, Service!Next, Service!ServiceStep, Service!GoDown
<1>7. CASE Ready
  BY <1>7 DEF Ready
<1>8. CASE Answer
  BY <1>8 DEF Answer, Service!Next, Service!ServiceStep, Service!Reply
<1>9. CASE CloseAndExit
  BY <1>9 DEF CloseAndExit
<1>10. CASE DryAnswer
  BY <1>10 DEF DryAnswer, FlagInv
<1>11. ASSUME NEW k \in Caller, RecvReload(k)
       PROVE  [Service!Next]_(Service!vars)
  BY <1>11 DEF RecvReload, EjectBpf, Service!Next, Service!ServiceStep, Service!Accept
<1>12. ASSUME NEW k \in Caller, DryRecv(k)
       PROVE  [Service!Next]_(Service!vars)
  BY <1>12 DEF DryRecv, FlagInv
<1>13. CASE TakeNil /\ UNCHANGED callerVars
  BY <1>13 DEF TakeNil, AfterNil, Resumes, Service!Next, Service!ServiceStep,
               Service!GoDown
<1>14. ASSUME NEW s \in Plane, RecvNilServer(s)
       PROVE  [Service!Next]_(Service!vars)
  BY <1>13, <1>14 DEF RecvNilServer
<1>15. ASSUME NEW e \in ExitSender, RecvNilExit(e)
       PROVE  [Service!Next]_(Service!vars)
  BY <1>13, <1>15 DEF RecvNilExit
<1>16. ASSUME NEW e \in ExitSender, DryRecvNil(e)
       PROVE  [Service!Next]_(Service!vars)
  BY <1>16 DEF DryRecvNil, FlagInv
<1>17. CASE ServerStep
  BY <1>17 DEF ServerStep, ServerEval, ServerReturn, ServerFail
<1>18. ASSUME NEW k \in Caller, Acquire(k) \/ Abort(k)
       PROVE  [Service!Next]_(Service!vars)
  BY <1>18 DEF Acquire, Abort
<1>19. ASSUME NEW k \in Caller, NEW cfg \in Config, Send(k, cfg)
       PROVE  [Service!Next]_(Service!vars)
  BY <1>19 DEF Send, Service!Next, Service!ClientStep, Service!Ask
<1>20. ASSUME NEW k \in Caller, Release(k)
       PROVE  [Service!Next]_(Service!vars)
  BY <1>20 DEF Release, ResultInv, Service!Next, Service!ClientStep,
               Service!Settle, Service!Verdicts
<1>21. CASE ExitStep
  BY <1>21 DEF ExitStep, RequestExit
<1>22. CASE UNCHANGED vars
  BY <1>22 DEF vars
<1>. QED
  BY <1>1, <1>2, <1>3, <1>4, <1>5, <1>6, <1>7, <1>8, <1>9, <1>10, <1>11,
     <1>12, <1>14, <1>15, <1>16, <1>17, <1>18, <1>19, <1>20, <1>21, <1>22
  DEF Next, LoopStep, CallerStep

(* The loop of dae/run.go, with config.Run and errorExit around it, keeps  *)
(* the promise of ReloadService: one request at a time, switched or        *)
(* refused with the previous configuration kept, then answered truthfully. *)
THEOREM Implementation ==
    DryFlags = {FALSE} => (Safety => ImplementsReloadService)
<1>1. SUFFICES ASSUME DryFlags = {FALSE}
               PROVE  Safety => ImplementsReloadService
  OBVIOUS
<1>2. IInv /\ [Next]_vars => [Service!Next]_(Service!vars)
  BY <1>1, StepMaps
<1>. QED
  BY InitMaps, <1>2, Invariance, PTL
  DEF Safety, ImplementsReloadService, Service!Spec

=============================================================================
