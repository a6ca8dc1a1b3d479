---------------------------- MODULE SignalContract ----------------------------
(***************************************************************************)
(* What the proxy promises for every Reconcile ID it has handed out, on    *)
(* the read path and on the write path alike: "Reconciliation is always    *)
(* explicit".  An ID is opened by a speculative (or provisional) response  *)
(* and then receives exactly one sequence of signals: CONFIRM, REPLACE,    *)
(* PATCH, FILL, PATCH followed by FILL, or ABORT, unless the process ends. *)
(* The tracks of the code (ReadTrack, WriteTrack) are shown to implement   *)
(* this module.                                                            *)
(***************************************************************************)
EXTENDS Sequences

CONSTANT Id   (* Reconcile IDs *)

VARIABLES
  phase,  (* where the ID is in its life                                   *)
  log,    (* names of the signals published for it so far                  *)
  alive   (* the process has not ended                                     *)

vars == <<phase, log, alive>>

Phase == {"none", "open", "patched", "settled", "aborted"}

ClosedPhase == {"settled", "aborted"}

SignalLog ==
  {<<>>, <<"PATCH">>, <<"FILL">>, <<"PATCH", "FILL">>, <<"REPLACE">>,
   <<"CONFIRM">>, <<"ABORT">>}

Init ==
  /\ phase = [i \in Id |-> "none"]
  /\ log = [i \in Id |-> <<>>]
  /\ alive = TRUE

Open(i) ==
  /\ alive
  /\ phase[i] = "none"
  /\ phase' = [phase EXCEPT ![i] = "open"]
  /\ UNCHANGED <<log, alive>>

Emit(i, name, next) ==
  /\ alive
  /\ phase' = [phase EXCEPT ![i] = next]
  /\ log' = [log EXCEPT ![i] = Append(@, name)]
  /\ UNCHANGED alive

\* A PATCH that a FILL must follow.
Patch(i) ==
  /\ phase[i] = "open"
  /\ Emit(i, "PATCH", "patched")

Settle(i) ==
  \/ /\ phase[i] = "open"
     /\ \E name \in {"PATCH", "FILL", "REPLACE", "CONFIRM"} : Emit(i, name, "settled")
  \/ phase[i] = "patched" /\ Emit(i, "FILL", "settled")

Abort(i) ==
  /\ phase[i] = "open"
  /\ Emit(i, "ABORT", "aborted")

\* The process ends, and nothing is published any more.
Crash ==
  /\ alive
  /\ alive' = FALSE
  /\ UNCHANGED <<phase, log>>

Next == Crash \/ \E i \in Id : Open(i) \/ Patch(i) \/ Settle(i) \/ Abort(i)

Spec ==
  /\ Init
  /\ [][Next]_vars
  /\ \A i \in Id : WF_vars(Patch(i) \/ Settle(i) \/ Abort(i))

-----------------------------------------------------------------------------
\* The log of an ID is one of the sequences the contract allows.
TypeOK ==
  /\ phase \in [Id -> Phase]
  /\ log \in [Id -> SignalLog]
  /\ alive \in BOOLEAN

\* Nothing closes an ID twice, and nothing follows an ABORT: once an ID is
\* closed, its log is final.
ClosedIsFinal ==
  [][\A i \in Id : phase[i] \in ClosedPhase =>
       phase'[i] = phase[i] /\ log'[i] = log[i]]_vars

=============================================================================
