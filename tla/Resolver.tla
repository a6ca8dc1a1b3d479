------------------------------- MODULE Resolver -------------------------------
(***************************************************************************)
(* One AnticipationResolver of the JavaScript SDK (packages/resolver) and  *)
(* its part of the page's SignalChannel: fetch and mutate, the handling of *)
(* signals, the max-window timer, the 50 ms a FILL waits for its PATCH and *)
(* the refetch that follows a retryable ABORT.                             *)
(*                                                                         *)
(* JavaScript runs one task at a time, so a step is what happens between   *)
(* two awaits or inside one callback.  Timers are sets of the calls they   *)
(* were started for, next to the one handle the resolver remembers; a      *)
(* timer may fire at any time.  The proxy keeps SignalContract; the        *)
(* channel may lose signals, reorder them (see SignalHub) and deliver them *)
(* before the HTTP response.                                               *)
(***************************************************************************)
EXTENDS Integers, Sequences, SequencesExt

CONSTANTS
  MaxCalls,   (* bound: how many HTTP requests get a reply                  *)
  Overlap     (* may the application call fetch or mutate while a request   *)
              (* of the resolver is under way or a refetch is due?          *)

ASSUME ResolverAssumption == MaxCalls \in Nat /\ Overlap \in BOOLEAN

VARIABLES
  onTimeout,         (* the option of that name                             *)
  status,            (* the resolver's status                               *)
  deferredFields,    (* X-Antic-Deferred-Fields of the last fetch not empty *)
  pendingFill,       (* the call whose FILL is held back, or None           *)
  fillBufferTimer,   (* the handles the resolver remembers, each as         *)
  maxWindowTimer,    (*   the call it belongs to, or None                   *)
  unsubscribeSignal, (*                                                     *)
  handlers,          (* calls whose Reconcile ID the channel has a handler for *)
  fillTimers,        (* calls with a pending 50 ms timer                    *)
  maxTimers,         (* calls with a pending max-window timer               *)
  refetchTimers,     (* number of pending refetches                         *)
  calls,             (* number of HTTP requests sent                        *)
  pending,           (* requests whose reply has not been handled           *)
  reply,             (* what the proxy answers each request                 *)
  inbound,           (* signals for each request not delivered yet          *)
  view,              (* what the application shows: the data of a call and  *)
                     (*   the signals emitted on top of it                  *)
  disturbed          (* history: calls one of whose signals was lost, came  *)
                     (*   before its reply or more than 50 ms out of order  *)

resolver == <<onTimeout, deferredFields, pendingFill, fillBufferTimer,
              maxWindowTimer, unsubscribeSignal, handlers, fillTimers, maxTimers>>

requests == <<calls, pending, reply>>

vars == <<resolver, status, refetchTimers, requests, inbound, view, disturbed>>

Call == 1 .. MaxCalls

None == 0

\* "filling" lasts only for the event handler that emit calls.
Status == {"idle", "speculative", "patching", "confirmed", "error"}

Name == {"PATCH", "FILL", "CONFIRM", "REPLACE", "ABORT", "RETRYABLE ABORT"}

-----------------------------------------------------------------------------
(***************************************************************************)
(* What a proxy may answer.  By ReadTrack!FillIsAnnounced the header names *)
(* deferred fields exactly if a FILL follows a PATCH.                      *)
(***************************************************************************)

Closing == {<<"REPLACE">>, <<"ABORT">>, <<"RETRYABLE ABORT">>}

Reply(state, deferred, signals) ==
  [state |-> state, deferred |-> deferred, signals |-> signals]

\* No connection, an HTTP error, or a body that is not JSON; and a response that
\* needs no signal.
PlainReply == {Reply("failed", FALSE, <<>>), Reply("confirmed", FALSE, <<>>)}

FetchReply ==
  PlainReply
    \cup {Reply("speculative", FALSE, s) : s \in Closing \cup {<<"CONFIRM">>, <<"PATCH">>}}
    \cup {Reply("speculative", TRUE, s) : s \in Closing \cup {<<"FILL">>, <<"PATCH", "FILL">>}}

\* A write announces no deferred fields, and mutate does not read the header.
MutateReply ==
  PlainReply
    \cup {Reply("provisional", FALSE, s) :
            s \in {<<"CONFIRM">>, <<"ABORT">>, <<"RETRYABLE ABORT">>}}

Init ==
  /\ onTimeout \in {"refetch", "error"}
  /\ status = "idle"
  /\ deferredFields = FALSE
  /\ pendingFill = None
  /\ fillBufferTimer = None
  /\ maxWindowTimer = None
  /\ unsubscribeSignal = None
  /\ handlers = {}
  /\ fillTimers = {}
  /\ maxTimers = {}
  /\ refetchTimers = 0
  /\ calls = 0
  /\ pending = {}
  /\ reply = [c \in Call |-> Reply("failed", FALSE, <<>>)]
  /\ inbound = [c \in Call |-> <<>>]
  /\ view = [of |-> None, signals |-> <<>>]
  /\ disturbed = {}

-----------------------------------------------------------------------------
(***************************************************************************)
(* cleanup: forgets what the resolver remembers, and only that.  firedMax  *)
(* and firedFill are the timers whose callback is running, or None.        *)
(***************************************************************************)

\* Mutant: the handler stays in the channel.
cleanupKeepsHandler(firedMax, firedFill) ==
  /\ maxTimers' = maxTimers \ {maxWindowTimer, firedMax}
  /\ fillTimers' = fillTimers \ {fillBufferTimer, firedFill}
  /\ maxWindowTimer' = None
  /\ fillBufferTimer' = None
  /\ unsubscribeSignal' = None
  /\ pendingFill' = None
  /\ UNCHANGED <<onTimeout, handlers>>

\* Mutant: the max-window timer keeps running.
cleanupKeepsTimer(firedMax, firedFill) ==
  /\ maxTimers' = maxTimers \ {firedMax}
  /\ fillTimers' = fillTimers \ {fillBufferTimer, firedFill}
  /\ handlers' = handlers \ {unsubscribeSignal}
  /\ maxWindowTimer' = None
  /\ fillBufferTimer' = None
  /\ unsubscribeSignal' = None
  /\ pendingFill' = None
  /\ UNCHANGED onTimeout

cleanup(firedMax, firedFill) ==
  /\ maxTimers' = maxTimers \ {maxWindowTimer, firedMax}
  /\ fillTimers' = fillTimers \ {fillBufferTimer, firedFill}
  /\ handlers' = handlers \ {unsubscribeSignal}
  /\ maxWindowTimer' = None
  /\ fillBufferTimer' = None
  /\ unsubscribeSignal' = None
  /\ pendingFill' = None
  /\ UNCHANGED onTimeout

-----------------------------------------------------------------------------
(***************************************************************************)
(* fetch and mutate, up to the first await.                                *)
(***************************************************************************)

\* A request beyond the bound gets no reply: fetch has no time-out of its own.
Send(replies) ==
  IF calls < MaxCalls
    THEN \E r \in replies :
           /\ calls' = calls + 1
           /\ pending' = pending \cup {calls + 1}
           /\ reply' = [reply EXCEPT ![calls + 1] = r]
           /\ inbound' = [inbound EXCEPT ![calls + 1] = r.signals]
    ELSE UNCHANGED <<requests, inbound>>

\* fetch as another action of the resolver calls it, having cleaned up.
SendFetch == status' = "idle" /\ Send(FetchReply)

MayCall ==
  /\ calls < MaxCalls
  /\ Overlap \/ (pending = {} /\ refetchTimers = 0)

\* The application calls fetch or mutate.
Request(replies) ==
  /\ MayCall
  /\ cleanup(None, None)
  /\ status' = "idle"
  /\ Send(replies)
  /\ UNCHANGED <<deferredFields, refetchTimers, view, disturbed>>

fetch == Request(FetchReply)

mutate == Request(MutateReply)

-----------------------------------------------------------------------------
(***************************************************************************)
(* The rest of fetch and mutate, once the response is there.               *)
(***************************************************************************)

Handle(c) == c \in pending /\ pending' = pending \ {c}

Show(c) == view' = [of |-> c, signals |-> <<>>]

ReplyFailed(c) ==
  /\ Handle(c)
  /\ reply[c].state = "failed"
  /\ status' = "error"
  /\ UNCHANGED <<resolver, refetchTimers, calls, reply, inbound, view, disturbed>>

ReplyConfirmed(c) ==
  /\ Handle(c)
  /\ reply[c].state = "confirmed"
  /\ status' = "confirmed"
  /\ Show(c)
  /\ UNCHANGED <<resolver, refetchTimers, calls, reply, inbound, disturbed>>

\* Mutant: no max-window timer.
startNoTimeout(c) == UNCHANGED <<maxTimers, maxWindowTimer>>

startTimeout(c) ==
  /\ maxTimers' = maxTimers \cup {c}
  /\ maxWindowTimer' = c

\* Show the data, subscribe, start the timer.
ReplySpeculative(c) ==
  /\ Handle(c)
  /\ reply[c].state \in {"speculative", "provisional"}
  /\ status' = "speculative"
  /\ Show(c)
  /\ deferredFields' =
       IF reply[c].state = "speculative" THEN reply[c].deferred ELSE deferredFields
  /\ handlers' = handlers \cup {c}
  /\ unsubscribeSignal' = c
  /\ startTimeout(c)
  /\ UNCHANGED <<onTimeout, pendingFill, fillBufferTimer, fillTimers, refetchTimers,
                 calls, reply, inbound, disturbed>>

-----------------------------------------------------------------------------
(***************************************************************************)
(* handleSignal.                                                           *)
(***************************************************************************)

\* A signal and the call whose Reconcile ID it carries.
Emitted(name, c) == [name |-> name, call |-> c]

Emit(seq) == view' = [view EXCEPT !.signals = @ \o seq]

finalize(firedFill) == cleanup(None, firedFill) /\ status' = "confirmed"

\* Mutant: a PATCH closes the speculation, deferred fields or not.
PatchAlwaysFinal(c) ==
  /\ Emit(<<Emitted("PATCH", c)>>)
  /\ finalize(None)
  /\ UNCHANGED <<deferredFields, refetchTimers, requests, disturbed>>

\* The FILL that waited is emitted with it; without deferred fields it is final.
Patch(c) ==
  /\ IF pendingFill # None
       THEN /\ Emit(<<Emitted("PATCH", c), Emitted("FILL", pendingFill)>>)
            /\ finalize(None)
       ELSE /\ Emit(<<Emitted("PATCH", c)>>)
            /\ IF deferredFields
                 THEN /\ status' = "patching"
                      /\ UNCHANGED <<onTimeout, pendingFill, fillBufferTimer,
                                     maxWindowTimer, unsubscribeSignal, handlers,
                                     fillTimers, maxTimers>>
                 ELSE finalize(None)
  /\ UNCHANGED <<deferredFields, refetchTimers, requests, disturbed>>

\* A FILL that is the first signal is held back.
HoldFill(c) ==
  /\ status = "speculative"
  /\ pendingFill' = c
  /\ fillTimers' = fillTimers \cup {c}
  /\ fillBufferTimer' = c
  /\ UNCHANGED <<onTimeout, deferredFields, maxWindowTimer, unsubscribeSignal,
                 handlers, maxTimers, status, refetchTimers, requests, view, disturbed>>

Fill(c) ==
  /\ status # "speculative"
  /\ Emit(<<Emitted("FILL", c)>>)
  /\ finalize(None)
  /\ UNCHANGED <<deferredFields, refetchTimers, requests, disturbed>>

\* CONFIRM and REPLACE.
Close(c, name) ==
  /\ Emit(<<Emitted(name, c)>>)
  /\ finalize(None)
  /\ UNCHANGED <<deferredFields, refetchTimers, requests, disturbed>>

\* A retryable ABORT sets a timer that nothing remembers.
AbortSignal(name) ==
  /\ cleanup(None, None)
  /\ status' = "error"
  /\ refetchTimers' = IF name = "RETRYABLE ABORT" /\ onTimeout = "refetch"
                        THEN refetchTimers + 1
                        ELSE refetchTimers
  /\ UNCHANGED <<deferredFields, requests, view, disturbed>>

handleSignal(c, name) ==
  \/ name = "PATCH" /\ Patch(c)
  \/ name = "FILL" /\ (HoldFill(c) \/ Fill(c))
  \/ name \in {"CONFIRM", "REPLACE"} /\ Close(c, name)
  \/ name \in {"ABORT", "RETRYABLE ABORT"} /\ AbortSignal(name)

-----------------------------------------------------------------------------
(***************************************************************************)
(* SignalChannel.                                                          *)
(***************************************************************************)

Take(c, i) == inbound' = [inbound EXCEPT ![c] = RemoveAt(@, i)]

\* A handler is found by Reconcile ID.
Deliver(c, i) ==
  /\ c \in handlers
  /\ Take(c, i)
  /\ handleSignal(c, inbound[c][i])

\* No handler: the signal is ignored, whether it is too early or too late.
Discard(c, i) ==
  /\ c \notin handlers
  /\ Take(c, i)
  /\ disturbed' = IF c \in pending THEN disturbed \cup {c} ELSE disturbed
  /\ UNCHANGED <<resolver, status, refetchTimers, requests, view>>

\* The hub or the network loses the signal.
Lose(c, i) ==
  /\ Take(c, i)
  /\ disturbed' = disturbed \cup {c}
  /\ UNCHANGED <<resolver, status, refetchTimers, requests, view>>

\* onerror: every handler is told of a "connection_lost", which is retryable but
\* not refetched.
ConnectionLost ==
  /\ handlers # {}
  /\ cleanup(None, None)
  /\ status' = "error"
  /\ UNCHANGED <<deferredFields, refetchTimers, requests, inbound, view, disturbed>>

-----------------------------------------------------------------------------
(***************************************************************************)
(* Timers.                                                                 *)
(***************************************************************************)

\* Mutant: a status the resolver does not have.
AbandonWithStatus(c) ==
  /\ onTimeout = "error"
  /\ status' = "timeout"
  /\ UNCHANGED <<requests, inbound>>

\* speculationAbandoned, and what the option asks for.
Abandon(c) ==
  \/ onTimeout = "refetch" /\ SendFetch
  \/ onTimeout = "error" /\ status' = "error" /\ UNCHANGED <<requests, inbound>>

MaxWindow(c) ==
  /\ c \in maxTimers
  /\ cleanup(c, None)
  /\ Abandon(c)
  /\ UNCHANGED <<deferredFields, refetchTimers, view, disturbed>>

EmitHeldFill(c) ==
  /\ c \in fillTimers
  /\ Emit(<<Emitted("FILL", pendingFill)>>)
  /\ finalize(c)
  /\ UNCHANGED <<deferredFields, refetchTimers, requests>>

FillWindow(c) ==
  /\ EmitHeldFill(c)
  /\ disturbed' = IF inbound[c] # <<>> THEN disturbed \cup {c} ELSE disturbed
  /\ UNCHANGED inbound

refetch ==
  /\ refetchTimers > 0
  /\ refetchTimers' = refetchTimers - 1
  /\ cleanup(None, None)
  /\ SendFetch
  /\ UNCHANGED <<deferredFields, view, disturbed>>

-----------------------------------------------------------------------------
Next ==
  \/ fetch \/ mutate
  \/ \E c \in Call : ReplyFailed(c) \/ ReplyConfirmed(c) \/ ReplySpeculative(c)
  \/ \E c \in Call : \E i \in DOMAIN inbound[c] :
       Deliver(c, i) \/ Discard(c, i) \/ Lose(c, i)
  \/ ConnectionLost
  \/ \E c \in Call : MaxWindow(c) \/ FillWindow(c)
  \/ refetch

\* A timer that is not cleared fires.  The application, the proxy and the network
\* are not forced to do anything.
Spec ==
  /\ Init
  /\ [][Next]_vars
  /\ \A c \in Call : WF_vars(MaxWindow(c)) /\ WF_vars(FillWindow(c))

-----------------------------------------------------------------------------
(***************************************************************************)
(* Properties.                                                             *)
(***************************************************************************)

CallOrNone == Call \cup {None}

View == [of : CallOrNone, signals : Seq([name : Name, call : CallOrNone])]

\* What each variable holds.
TypeOK ==
  /\ onTimeout \in {"refetch", "error"}
  /\ status \in Status
  /\ deferredFields \in BOOLEAN
  /\ {pendingFill, fillBufferTimer, maxWindowTimer, unsubscribeSignal} \subseteq CallOrNone
  /\ handlers \cup fillTimers \cup maxTimers \cup pending \cup disturbed \subseteq Call
  /\ refetchTimers \in Nat
  /\ calls \in 0 .. MaxCalls
  /\ reply \in [Call -> FetchReply \cup MutateReply]
  /\ inbound \in [Call -> Seq(Name)]
  /\ view \in View

Speculating == status \in {"speculative", "patching"}

\* cleanup is to "clean up all timers and subscriptions", and does so for those
\* the resolver remembers.  As long as calls do not overlap, they are all there
\* are while it speculates and none is left when it does not: no callback of a
\* settled or abandoned speculation can run.  The exception is the timer that
\* follows a retryable ABORT, which nothing remembers or cancels: such a refetch
\* is due at most once, in a resolver that has failed and asks for nothing else.
NothingLeftBehind ==
  /\ handlers = IF Speculating THEN {unsubscribeSignal} ELSE {}
  /\ maxTimers = IF Speculating THEN {maxWindowTimer} ELSE {}
  /\ fillTimers = IF pendingFill # None THEN {fillBufferTimer} ELSE {}
  /\ pendingFill # None => status = "speculative"
  /\ refetchTimers # 0 =>
       refetchTimers = 1 /\ status = "error" /\ onTimeout = "refetch" /\ pending = {}

\* What is shown was only ever changed by signals for its own Reconcile ID.
OnlyOwnSignals ==
  \A i \in DOMAIN view.signals : view.signals[i].call = view.of

\* A resolver that says "confirmed" has emitted exactly the signals the proxy sent
\* for what it shows, in the proxy's order even if they came in another; unless
\* the channel lost one, or delivered one before the reply or 50 ms too late.
ConfirmedIsComplete ==
  status = "confirmed" /\ view.of \notin disturbed =>
    [i \in DOMAIN view.signals |-> view.signals[i].name] = reply[view.of].signals

\* Once a speculation is settled or given up, no signal revises what it showed.
SettledIsFinal ==
  [][~Speculating /\ view'.of = view.of => view' = view]_vars

\* "Silence is not confirmation", and the client does not wait for ever: every
\* speculation ends, whatever becomes of its signals.
SpeculationEnds == Speculating ~> ~Speculating

\* ANTIC-PT-SPEC.md: the SDK must not "emit a confirm event before the
\* reconciliation signal is received".
ConfirmAwaitsSignal ==
  \A i \in DOMAIN view.signals :
    view.signals[i].name = "CONFIRM" => view.signals[i].call = view.of

=============================================================================
