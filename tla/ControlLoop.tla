------------------------------ MODULE ControlLoop ------------------------------
(***************************************************************************)
(* The reload loop of dae/run.go, the goroutines that serve its control    *)
(* planes, and the clients that meet it on ChReloadConfigs: config.Run     *)
(* (graphql/service/config/mutation_utils.go) with its runLock, and the    *)
(* goroutines of cmd/run.go that ask the process to exit.                  *)
(*                                                                         *)
(* ChReloadConfigs is unbuffered and carries two kinds of message: a       *)
(* ReloadMessage, and nil, which a serving goroutine sends when it         *)
(* returns and errorExit sends to stop the process.  The loop cannot tell  *)
(* one nil from another: it decides by `reloading` alone.                  *)
(*                                                                         *)
(* An unbuffered channel is the set of the goroutines blocked in a send:   *)
(* a step of the loop takes one of them.  What a control plane does with   *)
(* traffic is outside this repository; it is a number, with the            *)
(* configuration it was built from.                                        *)
(***************************************************************************)
EXTENDS Naturals

CONSTANTS
    Config,         \* the configurations config.Run may send
    EmptyConfig,    \* dae.EmptyConfig
    Caller,         \* the goroutines that may execute config.Run
    ExitSender,     \* the goroutines that may execute errorExit
    DryFlags,       \* the values the dry flag of dae.Run may have
    PromptStart,    \* TRUE: the first goroutine runs before a reload is built
    MaxPlane,       \* bound: control planes built in a behaviour
    None            \* nobody, nothing

ASSUME ConfigAssumption   == EmptyConfig \in Config /\ None \notin Config
ASSUME CallerAssumption   == None \notin Caller
ASSUME FlagAssumption     == DryFlags \subseteq BOOLEAN /\ PromptStart \in BOOLEAN
ASSUME MaxPlaneAssumption == MaxPlane \in Nat /\ MaxPlane > 1

VARIABLES
    lpc,        \* where dae.Run is
    c,          \* the control plane held by the global c, 0 before the first
    conf,       \* the local conf: the configuration c was built from
    bpf,        \* the planes whose life-cycle owns the bpf objects
    closed,     \* the control planes Close was called on
    reloading,  \* the local reloading
    errReload,  \* the local errReload, TRUE when not nil
    listener,   \* the local listener, TRUE when not nil
    msg,        \* the caller whose ReloadMessage this iteration handles
    newConf,    \* the configuration it builds, and rebuilds, a plane for
    chCallback, \* the caller waiting on the local chCallback
    srv,        \* the state of each serving goroutine
    srvPlane,   \* the control plane each serving goroutine serves
    cpc,        \* where each caller is in config.Run
    want,       \* the configuration each caller sends
    result,     \* what each caller received on its callback channel
    runLock,    \* the caller holding config.runLock
    epc,        \* where each exit sender is in errorExit
    excuse      \* history: somebody asked to exit, or serving failed

loopVars   == <<lpc, c, conf, bpf, closed, reloading, errReload, msg, newConf, chCallback>>
serverVars == <<srv, srvPlane, listener>>
callerVars == <<cpc, want, result, runLock>>
exitVars   == <<epc>>
vars       == <<loopVars, serverVars, callerVars, exitVars, excuse>>

Plane == 1..MaxPlane

(* A serving goroutine is named after the plane that was current when it   *)
(* was spawned; the first one may end up serving a later plane.            *)
ServerStates == {"none", "spawned", "serving", "exiting", "gone"}

LoopStates == {"start", "recv", "load", "built", "injected", "swapped",
               "ready", "answer", "closing", "dry", "dryanswer", "dead"}

CallerStates == {"idle", "locked", "sending", "waiting", "answered"}

TypeOK ==
    /\ lpc \in LoopStates
    /\ c \in 0..MaxPlane
    /\ conf \in Config
    /\ bpf \subseteq Plane
    /\ closed \subseteq Plane
    /\ reloading \in BOOLEAN
    /\ errReload \in BOOLEAN
    /\ listener \in BOOLEAN
    /\ msg \in Caller \cup {None}
    /\ newConf \in Config \cup {None}
    /\ chCallback \in Caller \cup {None}
    /\ srv \in [Plane -> ServerStates]
    /\ srvPlane \in [Plane -> 0..MaxPlane]
    /\ cpc \in [Caller -> CallerStates]
    /\ want \in [Caller -> Config \cup {None}]
    /\ result \in [Caller -> {"none", "ok", "failed"}]
    /\ runLock \in Caller \cup {None}
    /\ epc \in [ExitSender -> {"idle", "sending", "waiting"}]
    /\ excuse \in BOOLEAN

Init ==
    /\ lpc = "start"
    /\ c = 0
    /\ conf = EmptyConfig
    /\ bpf = {}
    /\ closed = {}
    /\ reloading = FALSE
    /\ errReload = FALSE
    /\ listener = FALSE
    /\ msg = None
    /\ newConf = None
    /\ chCallback = None
    /\ srv = [p \in Plane |-> "none"]
    /\ srvPlane = [p \in Plane |-> 0]
    /\ cpc = [k \in Caller |-> "idle"]
    /\ want = [k \in Caller |-> None]
    /\ result = [k \in Caller |-> "none"]
    /\ runLock = None
    /\ epc = [e \in ExitSender |-> "idle"]
    /\ excuse = FALSE

(* Every goroutine stops with the process. *)
Alive == lpc # "dead"

(* The operators commented as a slip stand for a plausible mistake in the   *)
(* definition that follows them; no behaviour of the system uses them.      *)

-----------------------------------------------------------------------------
(* dae.Run: the first control plane. *)

Start ==
    /\ lpc = "start"
    /\ FALSE \in DryFlags
    /\ lpc' = "recv"
    /\ c' = 1
    /\ bpf' = {1}
    /\ srv' = [srv EXCEPT ![1] = "spawned"]
    /\ UNCHANGED <<conf, closed, reloading, errReload, msg, newConf, chCallback,
                   srvPlane, listener, callerVars, exitVars, excuse>>

(* newControlPlane fails: Run returns the error and its goroutine Fatals. *)
StartFail ==
    /\ lpc = "start"
    /\ FALSE \in DryFlags
    /\ lpc' = "dead"
    /\ excuse' = TRUE
    /\ UNCHANGED <<c, conf, bpf, closed, reloading, errReload, msg, newConf, chCallback,
                   serverVars, callerVars, exitVars>>

StartDry ==
    /\ lpc = "start"
    /\ TRUE \in DryFlags
    /\ lpc' = "dry"
    /\ UNCHANGED <<c, conf, bpf, closed, reloading, errReload, msg, newConf, chCallback,
                   serverVars, callerVars, exitVars, excuse>>

-----------------------------------------------------------------------------
(* The serving goroutines.  Both closures read the global c when they run, *)
(* not when they are spawned.                                              *)

ServerEval(s) ==
    /\ Alive
    /\ srv[s] = "spawned"
    /\ srv' = [srv EXCEPT ![s] = "serving"]
    /\ srvPlane' = [srvPlane EXCEPT ![s] = c]
    /\ UNCHANGED <<loopVars, listener, callerVars, exitVars, excuse>>

(* The plane was closed: serving ends without an error, and only now does  *)
(* the first goroutine assign listener.                                    *)
ServerReturn(s) ==
    /\ Alive
    /\ srv[s] = "serving"
    /\ srvPlane[s] \in closed
    /\ srv' = [srv EXCEPT ![s] = "exiting"]
    /\ listener' = (listener \/ s = 1)
    /\ UNCHANGED <<loopVars, srvPlane, callerVars, exitVars, excuse>>

(* Listening or serving ends with an error: no listener is assigned. *)
ServerFail(s) ==
    /\ Alive
    /\ srv[s] = "serving"
    /\ srv' = [srv EXCEPT ![s] = "exiting"]
    /\ excuse' = TRUE
    /\ UNCHANGED <<loopVars, srvPlane, listener, callerVars, exitVars>>

-----------------------------------------------------------------------------
(* The loop receives a ReloadMessage and builds a new control plane, which *)
(* takes seconds: every other goroutine runs meanwhile.                    *)

(* Slip: the objects stay with the old plane, which closes them. *)
EjectSkipped == bpf' = bpf

EjectBpf == bpf' = {}

RecvReload(k) ==
    /\ lpc = "recv"
    /\ cpc[k] = "sending"
    /\ cpc' = [cpc EXCEPT ![k] = "waiting"]
    /\ msg' = k
    /\ newConf' = want[k]
    /\ EjectBpf
    /\ lpc' = "load"
    /\ UNCHANGED <<c, conf, closed, reloading, errReload, chCallback,
                   serverVars, want, result, runLock, exitVars, excuse>>

(* Slip: the error of an earlier reload is left behind. *)
LoadOkStale ==
    /\ lpc = "load"
    /\ lpc' = "built"
    /\ UNCHANGED <<c, conf, bpf, closed, reloading, errReload, msg, newConf, chCallback,
                   serverVars, callerVars, exitVars, excuse>>

LoadOk ==
    /\ lpc = "load"
    /\ lpc' = "built"
    /\ errReload' = FALSE
    /\ UNCHANGED <<c, conf, bpf, closed, reloading, msg, newConf, chCallback,
                   serverVars, callerVars, exitVars, excuse>>

(* The previous configuration is loaded back. *)
LoadRollback ==
    /\ lpc = "load"
    /\ lpc' = "built"
    /\ errReload' = TRUE
    /\ newConf' = conf
    /\ UNCHANGED <<c, conf, bpf, closed, reloading, msg, chCallback,
                   serverVars, callerVars, exitVars, excuse>>

(* What both outcomes have in common: the objects go to the new plane, c   *)
(* is replaced and the callback remembered, and the old plane is closed,   *)
(* in this order and with every other goroutine running in between.        *)
InjectBpf ==
    /\ lpc = "built"
    /\ lpc' = "injected"
    /\ bpf' = bpf \cup {c + 1}
    /\ UNCHANGED <<c, conf, closed, reloading, errReload, msg, newConf, chCallback,
                   serverVars, callerVars, exitVars, excuse>>

(* PromptStart says how late the first goroutine may run. *)
SwapPlane ==
    /\ lpc = "injected"
    /\ PromptStart => srv[1] # "spawned"
    /\ lpc' = "swapped"
    /\ c' = c + 1
    /\ conf' = newConf
    /\ reloading' = TRUE
    /\ chCallback' = msg
    /\ msg' = None /\ newConf' = None
    /\ UNCHANGED <<bpf, closed, errReload, serverVars, callerVars, exitVars, excuse>>

(* Slip: the old plane is not closed. *)
CloseSkipped(plane) == closed' = closed

Close(plane) == closed' = closed \cup {plane}

CloseOld ==
    /\ lpc = "swapped"
    /\ lpc' = "recv"
    /\ Close(c - 1)
    /\ UNCHANGED <<c, conf, bpf, reloading, errReload, msg, newConf, chCallback,
                   serverVars, callerVars, exitVars, excuse>>

(* Not even the previous configuration loads: Fatalln. *)
LoadFatal ==
    /\ lpc = "load"
    /\ Close(c)
    /\ lpc' = "dead"
    /\ excuse' = TRUE
    /\ UNCHANGED <<c, conf, bpf, reloading, errReload, msg, newConf, chCallback,
                   serverVars, callerVars, exitVars>>

-----------------------------------------------------------------------------
(* The loop receives nil.  In a reload it hands the listener to a new      *)
(* goroutine that serves c; otherwise, or without a listener, it breaks.   *)

(* Slip: a reload that was rolled back counts as no reload. *)
ResumesIfLoaded == reloading /\ listener /\ ~errReload

Resumes == reloading /\ listener

(* Slip: a listening error is ignored. *)
AfterNilIgnored == IF Resumes THEN "ready" ELSE "recv"

AfterNil == IF Resumes THEN "ready" ELSE "closing"

(* Slip: nobody serves the new plane. *)
RespawnNothing(states) == states

(* The goroutines once nil has been received. *)
Respawn(states) ==
    IF Resumes THEN [states EXCEPT ![c] = "spawned"] ELSE states

TakeNil ==
    /\ lpc = "recv"
    /\ lpc' = AfterNil
    /\ reloading' = (reloading /\ ~Resumes)
    /\ UNCHANGED <<c, conf, bpf, closed, errReload, msg, newConf, chCallback>>

RecvNilServer(s) ==
    /\ srv[s] = "exiting"
    /\ TakeNil
    /\ srv' = Respawn([srv EXCEPT ![s] = "gone"])
    /\ UNCHANGED <<srvPlane, listener, callerVars, exitVars, excuse>>

RecvNilExit(e) ==
    /\ epc[e] = "sending"
    /\ TakeNil
    /\ epc' = [epc EXCEPT ![e] = "waiting"]
    /\ srv' = Respawn(srv)
    /\ UNCHANGED <<srvPlane, listener, callerVars, excuse>>

(* <-readyChan: Serve signals it once it serves, or when it gives up. *)
Ready ==
    /\ lpc = "ready"
    /\ srv[c] \in {"serving", "exiting"}
    /\ lpc' = "answer"
    /\ UNCHANGED <<c, conf, bpf, closed, reloading, errReload, msg, newConf, chCallback,
                   serverVars, callerVars, exitVars, excuse>>

(* Slip: the callback always gets nil. *)
OutcomeNil == "ok"

(* What a caller is told: nil or the error the loop remembered. *)
Outcome == IF errReload THEN "failed" ELSE "ok"

(* chCallback <- errReload: a rendezvous with the caller. *)
Answer ==
    /\ lpc = "answer"
    /\ cpc[chCallback] = "waiting"
    /\ cpc' = [cpc EXCEPT ![chCallback] = "answered"]
    /\ result' = [result EXCEPT ![chCallback] = Outcome]
    /\ lpc' = "recv"
    /\ UNCHANGED <<c, conf, bpf, closed, reloading, errReload, msg, newConf, chCallback,
                   serverVars, want, runLock, exitVars, excuse>>

(* After the loop: the plane is closed, Run returns and the process exits. *)
CloseAndExit ==
    /\ lpc = "closing"
    /\ Close(c)
    /\ lpc' = "dead"
    /\ UNCHANGED <<c, conf, bpf, reloading, errReload, msg, newConf, chCallback,
                   serverVars, callerVars, exitVars, excuse>>

-----------------------------------------------------------------------------
(* The loop of the api-only mode: it answers nil to every message. *)

DryRecv(k) ==
    /\ lpc = "dry"
    /\ cpc[k] = "sending"
    /\ cpc' = [cpc EXCEPT ![k] = "waiting"]
    /\ msg' = k
    /\ lpc' = "dryanswer"
    /\ UNCHANGED <<c, conf, bpf, closed, reloading, errReload, newConf, chCallback,
                   serverVars, want, result, runLock, exitVars, excuse>>

DryAnswer ==
    /\ lpc = "dryanswer"
    /\ cpc[msg] = "waiting"
    /\ cpc' = [cpc EXCEPT ![msg] = "answered"]
    /\ result' = [result EXCEPT ![msg] = "ok"]
    /\ msg' = None
    /\ lpc' = "dry"
    /\ UNCHANGED <<c, conf, bpf, closed, reloading, errReload, newConf, chCallback,
                   serverVars, want, runLock, exitVars, excuse>>

DryRecvNil(e) ==
    /\ lpc = "dry"
    /\ epc[e] = "sending"
    /\ epc' = [epc EXCEPT ![e] = "waiting"]
    /\ lpc' = "dead"
    /\ UNCHANGED <<c, conf, bpf, closed, reloading, errReload, msg, newConf, chCallback,
                   serverVars, callerVars, excuse>>

-----------------------------------------------------------------------------
(* config.Run, as far as the loop sees it. *)

(* Slip: the lock is not taken. *)
LockIgnored == TRUE

LockFree == runLock = None

(* runLock.TryLock(); a caller that does not get the lock returns an error *)
(* at once, which changes nothing.  Bound: no caller starts once MaxPlane  *)
(* control planes exist.                                                   *)
Acquire(k) ==
    /\ Alive
    /\ cpc[k] = "idle"
    /\ LockFree
    /\ c < MaxPlane
    /\ runLock' = k
    /\ cpc' = [cpc EXCEPT ![k] = "locked"]
    /\ UNCHANGED <<loopVars, serverVars, want, result, exitVars, excuse>>

(* Nothing is selected, or the database or the parser refuses. *)
Abort(k) ==
    /\ Alive
    /\ cpc[k] = "locked"
    /\ runLock' = None
    /\ cpc' = [cpc EXCEPT ![k] = "idle"]
    /\ UNCHANGED <<loopVars, serverVars, want, result, exitVars, excuse>>

(* The caller blocks in ChReloadConfigs <- &ReloadMessage{...}. *)
Send(k, cfg) ==
    /\ Alive
    /\ cpc[k] = "locked"
    /\ cpc' = [cpc EXCEPT ![k] = "sending"]
    /\ want' = [want EXCEPT ![k] = cfg]
    /\ UNCHANGED <<loopVars, serverVars, result, runLock, exitVars, excuse>>

(* The caller has saved what it did and returns, releasing the lock. *)
Release(k) ==
    /\ Alive
    /\ cpc[k] = "answered"
    /\ runLock' = None
    /\ cpc' = [cpc EXCEPT ![k] = "idle"]
    /\ want' = [want EXCEPT ![k] = None]
    /\ result' = [result EXCEPT ![k] = "none"]
    /\ UNCHANGED <<loopVars, serverVars, exitVars, excuse>>

-----------------------------------------------------------------------------
(* errorExit: a signal, or the HTTP server that cannot listen. *)

RequestExit(e) ==
    /\ Alive
    /\ epc[e] = "idle"
    /\ epc' = [epc EXCEPT ![e] = "sending"]
    /\ excuse' = TRUE
    /\ UNCHANGED <<loopVars, serverVars, callerVars>>

-----------------------------------------------------------------------------
LoopStep ==
    \/ Start \/ StartFail \/ StartDry
    \/ LoadOk \/ LoadRollback \/ LoadFatal
    \/ InjectBpf \/ SwapPlane \/ CloseOld
    \/ Ready \/ Answer \/ CloseAndExit \/ DryAnswer
    \/ \E k \in Caller : RecvReload(k) \/ DryRecv(k)
    \/ \E s \in Plane : RecvNilServer(s)
    \/ \E e \in ExitSender : RecvNilExit(e) \/ DryRecvNil(e)

ServerStep ==
    \E s \in Plane : ServerEval(s) \/ ServerReturn(s) \/ ServerFail(s)

CallerStep ==
    \E k \in Caller :
        \/ Acquire(k) \/ Abort(k) \/ Release(k)
        \/ \E cfg \in Config : Send(k, cfg)

ExitStep == \E e \in ExitSender : RequestExit(e)

Next == LoopStep \/ ServerStep \/ CallerStep \/ ExitStep

Safety == Init /\ [][Next]_vars

-----------------------------------------------------------------------------
(* Fairness.  A goroutine that can run is run; a build of a control plane  *)
(* ends, one way or another; and since Go queues the senders of a channel  *)
(* first in first out, a sender cannot be passed over for ever while the   *)
(* loop goes on receiving, which is strong fairness of its own receive.    *)
(* Nobody is obliged to call Run, to fail, or to ask the process to exit.  *)

LoadEnds == LoadOk \/ LoadRollback \/ LoadFatal

CallerProceeds(k) == Abort(k) \/ Release(k) \/ \E cfg \in Config : Send(k, cfg)

Fairness ==
    /\ WF_vars(Start \/ StartFail \/ StartDry)
    /\ WF_vars(LoadEnds)
    /\ WF_vars(InjectBpf \/ SwapPlane \/ CloseOld)
    /\ WF_vars(Ready)
    /\ WF_vars(Answer \/ DryAnswer)
    /\ WF_vars(CloseAndExit)
    /\ \A s \in Plane :
          /\ WF_vars(ServerEval(s))
          /\ WF_vars(ServerReturn(s))
          /\ SF_vars(RecvNilServer(s))
    /\ \A k \in Caller :
          /\ WF_vars(CallerProceeds(k))
          /\ SF_vars(RecvReload(k) \/ DryRecv(k))
    /\ \A e \in ExitSender : SF_vars(RecvNilExit(e) \/ DryRecvNil(e))

Spec == Safety /\ Fairness

-----------------------------------------------------------------------------
(* Safety. *)

(* The caller the loop has to answer: the one whose message it handles, or *)
(* the one it remembered when it swapped the planes.                       *)
Owed ==
    IF lpc \in {"load", "built", "injected", "dryanswer"} THEN msg
    ELSE IF reloading \/ lpc \in {"ready", "answer"} THEN chCallback ELSE None

(* While the loop runs, a caller is blocked on its callback channel exactly *)
(* when it is the one the loop is going to answer.  chCallback is a single  *)
(* variable that every reload overwrites (dae/run.go:194); what keeps two   *)
(* callers from meeting there is runLock, in another package.               *)
NoForgottenCaller ==
    lpc \notin {"closing", "dead"} =>
        \A k \in Caller : cpc[k] = "waiting" <=> k = Owed

(* A caller that was told its reload succeeded, and has not yet returned    *)
(* from config.Run, is about to record its configuration as the running one *)
(* (mutation_utils.go:467-496): it is the one the loop runs.                *)
ToldWhatRuns ==
    \A k \in Caller :
        (cpc[k] = "answered" /\ result[k] = "ok" /\ c > 0) => conf = want[k]

(* The current control plane is never one that Close was called on, and no  *)
(* Close takes the bpf objects away: who owns them is open.  When the loop  *)
(* is back at the channel no plane has been leaked, and the objects belong  *)
(* to the current one (dae/run.go:150, 186-198).                            *)
OneOpenPlane ==
    (Alive /\ c > 0) =>
        /\ c \notin closed
        /\ bpf \cap closed = {}
        /\ lpc \in {"recv", "ready", "answer", "closing"} =>
               closed = 1..(c - 1) /\ bpf = {c}

(* A loop that waits for work outside a reload has a goroutine that serves  *)
(* the current plane, is about to, or has a nil to send for it, which       *)
(* brings the process down: traffic is never left unserved in silence.      *)
ServedWhenIdle ==
    (lpc = "recv" /\ ~reloading) =>
        \E s \in Plane :
            \/ srv[s] = "spawned"
            \/ srv[s] \in {"serving", "exiting"} /\ srvPlane[s] = c

(* The loop breaks, and the process exits, only when somebody asked for it  *)
(* or something failed: the nil of a plane closed by a reload is always     *)
(* taken as such, and never as a listening error (dae/run.go:103-133).      *)
NoSpuriousExit == lpc \in {"closing", "dead"} => excuse

-----------------------------------------------------------------------------
(* What the loop promises its clients.  In the api-only mode nothing is     *)
(* switched, so this is claimed for DryFlags = {FALSE}.                     *)

Service == INSTANCE ReloadService WITH
    Client  <- Caller,
    phase   <- CASE lpc = "start" -> "off"
                 [] lpc \in {"load", "built", "injected"} -> "busy"
                 [] lpc = "recv" /\ ~reloading -> "idle"
                 [] lpc = "recv" /\ reloading -> "done"
                 [] lpc \in {"swapped", "ready", "answer"} -> "done"
                 [] OTHER -> "down",
    active  <- conf,
    owner   <- IF lpc \in {"closing", "dead"} THEN None ELSE Owed,
    verdict <- IF lpc \in {"swapped", "ready", "answer"} \/ (lpc = "recv" /\ reloading)
               THEN Outcome ELSE None,
    ask     <- want,
    status  <- [k \in Caller |->
                   CASE cpc[k] \in {"sending", "waiting"} -> "asking"
                     [] cpc[k] = "answered" -> result[k]
                     [] OTHER -> "quiet"]

(* Every step of the loop, its servers and its callers is a step of the     *)
(* reload service or changes nothing a client can see: in particular a      *)
(* caller that is refused finds the configuration that ran before it asked. *)
ImplementsReloadService == Service!Spec

-----------------------------------------------------------------------------
(* Liveness, under Fairness and PromptStart. *)

(* A caller that sends a reload is answered, unless the process exits: the  *)
(* old plane's goroutine always returns and its nil lets the loop finish.   *)
Responsive ==
    \A k \in Caller : cpc[k] = "sending" ~> (cpc[k] = "answered" \/ lpc = "dead")

(* Whoever asks the process to exit is heard, once reloads stop coming: a   *)
(* nil taken in the middle of a reload stands for the nil of the old plane, *)
(* which then ends the loop in its place.                                   *)
ExitHonoured ==
    \A e \in ExitSender : epc[e] = "sending" ~> lpc = "dead"

(* dae/run.go:105, "We will receive nil after control plane being Closed.": *)
(* a loop that has closed the old plane of a reload goes on with it, or     *)
(* ends for another reason.                                                 *)
NilAfterClose == (lpc = "recv" /\ reloading) ~> (~reloading \/ lpc = "dead")

=============================================================================
