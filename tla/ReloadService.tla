----------------------------- MODULE ReloadService -----------------------------
(***************************************************************************)
(* What the reload loop of dae/run.go promises to its clients, seen from   *)
(* outside: a single service that holds one active configuration, takes    *)
(* one reload request at a time, either switches to the configuration the  *)
(* request asks for or refuses and keeps the one it had, and then tells    *)
(* the client that asked which of the two happened.                        *)
(*                                                                         *)
(* ControlLoop.tla is shown to implement it; HotReload.tla uses it in the  *)
(* place of the loop.                                                      *)
(***************************************************************************)
CONSTANTS
    Config,         \* the configurations a request may ask for
    EmptyConfig,    \* dae.EmptyConfig, what the service boots with
    Client,         \* the goroutines that may request a reload
    None            \* no client, no configuration

VARIABLES
    phase,      \* "off", "idle", "busy", "done" or "down"
    active,     \* the configuration the service runs
    owner,      \* the client whose request is being handled
    verdict,    \* the outcome of the request being handled
    ask,        \* the configuration each client asks for
    status      \* what each client knows of its request

vars == <<phase, active, owner, verdict, ask, status>>

Phases   == {"off", "idle", "busy", "done", "down"}
Verdicts == {"ok", "failed"}

TypeOK ==
    /\ phase \in Phases
    /\ active \in Config
    /\ owner \in Client \cup {None}
    /\ verdict \in Verdicts \cup {None}
    /\ ask \in [Client -> Config \cup {None}]
    /\ status \in [Client -> {"quiet", "asking"} \cup Verdicts]

Init ==
    /\ phase = "off"
    /\ active = EmptyConfig
    /\ owner = None
    /\ verdict = None
    /\ ask = [k \in Client |-> None]
    /\ status = [k \in Client |-> "quiet"]

-----------------------------------------------------------------------------
(* Steps of the service. *)

Boot ==
    /\ phase = "off"
    /\ phase' = "idle"
    /\ UNCHANGED <<active, owner, verdict, ask, status>>

Accept(k) ==
    /\ phase = "idle"
    /\ status[k] = "asking"
    /\ phase' = "busy"
    /\ owner' = k
    /\ UNCHANGED <<active, verdict, ask, status>>

(* The new control plane was built: it replaces the one that ran. *)
Switch ==
    /\ phase = "busy"
    /\ phase' = "done"
    /\ active' = ask[owner]
    /\ verdict' = "ok"
    /\ UNCHANGED <<owner, ask, status>>

(* It could not be built: the previous configuration is loaded back. *)
Refuse ==
    /\ phase = "busy"
    /\ phase' = "done"
    /\ verdict' = "failed"
    /\ UNCHANGED <<active, owner, ask, status>>

Reply ==
    /\ phase = "done"
    /\ phase' = "idle"
    /\ status' = [status EXCEPT ![owner] = verdict]
    /\ owner' = None
    /\ verdict' = None
    /\ UNCHANGED <<active, ask>>

(* The service is gone for good; a request in progress gets no reply. *)
GoDown ==
    /\ phase # "down"
    /\ phase' = "down"
    /\ owner' = None
    /\ verdict' = None
    /\ UNCHANGED <<active, ask, status>>

-----------------------------------------------------------------------------
(* Steps of a client. *)

Ask(k, conf) ==
    /\ status[k] = "quiet"
    /\ status' = [status EXCEPT ![k] = "asking"]
    /\ ask' = [ask EXCEPT ![k] = conf]
    /\ UNCHANGED <<phase, active, owner, verdict>>

(* The client has used the reply and is ready for another request. *)
Settle(k) ==
    /\ status[k] \in Verdicts
    /\ status' = [status EXCEPT ![k] = "quiet"]
    /\ ask' = [ask EXCEPT ![k] = None]
    /\ UNCHANGED <<phase, active, owner, verdict>>

ServiceStep ==
    \/ Boot \/ Switch \/ Refuse \/ Reply \/ GoDown
    \/ \E k \in Client : Accept(k)

ClientStep ==
    \E k \in Client :
        \/ \E conf \in Config : Ask(k, conf)
        \/ Settle(k)

Next == ServiceStep \/ ClientStep

Spec == Init /\ [][Next]_vars

=============================================================================
