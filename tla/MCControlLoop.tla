----------------------------- MODULE MCControlLoop -----------------------------
(***************************************************************************)
(* Instances of ControlLoop for TLC.  Two callers make every reload and    *)
(* its answer race with the next request; three planes allow two reloads   *)
(* in a row, so that a second reload meets what the first one left behind  *)
(* (a stale errReload, the nil of an older goroutine); two exit senders    *)
(* are the signal loop and the HTTP server of cmd/run.go.                  *)
(***************************************************************************)
EXTENDS ControlLoop, TLC

CONSTANTS empty, conf1, caller1, caller2, signal, http, nobody

MCConfig     == {empty, conf1}
MCCaller     == {caller1, caller2}
MCExitSender == {signal, http}

(* Callers, and exit senders, differ by name only. *)
MCSymmetry == Permutations(MCCaller) \cup Permutations(MCExitSender)

=============================================================================
