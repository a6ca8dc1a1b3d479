----------------------------- MODULE AnticSystem -----------------------------
(***************************************************************************)
(* A page and a proxy together: the Resolver, the hub's channel for its    *)
(* client id (SignalHub) and, between them, the streams the page's         *)
(* EventSource opens one after the other.  A request that is answered      *)
(* speculatively leaves signals with the proxy's tracks, which publish     *)
(* them in order; the page dispatches what the streams bring to the        *)
(* resolver's handler.                                                     *)
(*                                                                         *)
(* Resolver assumes a channel that may lose, delay and reorder signals.    *)
(* Here the hub and the network are that channel: Client is the Resolver   *)
(* with the signals that are still under way in place of its channel.      *)
(***************************************************************************)
EXTENDS Integers, Sequences, SequencesExt

CONSTANTS
  Stream,    (* connections of the EventSource                             *)
  Capacity,  (* of the hub's channel                                       *)
  MaxCalls,  (* bound: how many requests get a reply                       *)
  Overlap    (* may requests overlap?                                      *)

ASSUME SystemAssumption ==
  /\ Capacity \in Nat \ {0}
  /\ MaxCalls \in Nat
  /\ Overlap \in BOOLEAN

VARIABLES
  (* SignalHub *)
  count, active, ch, buffer, pc, up, replay, expired, received, gone, overlapped,
  (* Resolver *)
  onTimeout, status, deferredFields, pendingFill, fillBufferTimer, maxWindowTimer,
  unsubscribeSignal, handlers, fillTimers, maxTimers, refetchTimers, calls, pending,
  reply, view, disturbed,
  outbox,     (* signals of each request that its track has not published   *)
  log,        (* request and name of each message of the hub                *)
  dispatched, (* how many of the received messages the page has dispatched  *)
  down        (* the connection is gone and onerror has not run since       *)

hub == <<count, active, ch, buffer, pc, up, replay, expired, received, gone, overlapped>>

resolver == <<onTimeout, deferredFields, pendingFill, fillBufferTimer, maxWindowTimer,
              unsubscribeSignal, handlers, fillTimers, maxTimers>>

page == <<resolver, status, refetchTimers, calls, pending, reply, view>>

vars == <<hub, page, disturbed, outbox, log, dispatched, down>>

Call == 1 .. MaxCalls

Hub == INSTANCE SignalHub WITH MaxMsgs <- 2 * MaxCalls

\* The resolver's own steps; a request's reply puts its signals into the outbox.
Page == INSTANCE Resolver WITH inbound <- outbox

\* Messages that will reach no one: an expired one in the buffer is as good as gone.
Lost == gone \cup (expired \cap ToSet(buffer))

UnderWay(m) ==
  m \notin Lost /\ m \notin ToSet(SubSeq(received, 1, dispatched))

\* The signals of a request that may still be dispatched, oldest first.
Outstanding ==
  [c \in Call |->
     LET messages == Hub!Kept([m \in 1 .. count |-> m],
                              {m \in 1 .. count : log[m].call = c /\ UnderWay(m)})
     IN  [i \in DOMAIN messages |-> log[messages[i]].name] \o outbox[c]]

Client == INSTANCE Resolver WITH inbound <- Outstanding

Init ==
  /\ Hub!Init
  /\ Page!Init
  /\ log = <<>>
  /\ dispatched = 0
  /\ down = FALSE

-----------------------------------------------------------------------------
(***************************************************************************)
(* The proxy.  Its steps do not touch the page, but what they lose is      *)
(* remembered.                                                             *)
(***************************************************************************)

NoteLosses ==
  disturbed' = disturbed \cup {log'[m].call : m \in Lost' \ Lost}

\* A Formal or Commit Track publishes its next signal.
PublishNext(c) ==
  /\ outbox[c] # <<>>
  /\ Hub!Publish
  /\ outbox' = [outbox EXCEPT ![c] = Tail(@)]
  /\ log' = Append(log, [call |-> c, name |-> Head(outbox[c])])
  /\ UNCHANGED <<page, dispatched, down>>
  /\ NoteLosses

ServeSignals(s) ==
  /\ Hub!ServeSignals(s)
  /\ UNCHANGED <<page, outbox, log, dispatched, down>>
  /\ NoteLosses

\* Whether a window has passed is asked of buffered messages only.
Expire(m) ==
  /\ m \in ToSet(buffer)
  /\ Hub!Expire(m)
  /\ UNCHANGED <<page, outbox, log, dispatched, down>>
  /\ NoteLosses

-----------------------------------------------------------------------------
(***************************************************************************)
(* The page's channel.                                                     *)
(***************************************************************************)

\* An EventSource has one connection, and reconnects after onerror.
OpenStream(s) ==
  /\ up = {}
  /\ ~down
  /\ Hub!Connect(s)
  /\ UNCHANGED <<page, disturbed, outbox, log, dispatched, down>>

Drop(s) ==
  /\ Hub!Drop(s)
  /\ down' = TRUE
  /\ UNCHANGED <<page, disturbed, outbox, log, dispatched>>

\* Mutant: two listeners are registered for an event.
DispatchTwice ==
  /\ dispatched < Len(received)
  /\ dispatched' \in {dispatched, dispatched + 1}
  /\ LET message == log[received[dispatched + 1]] IN
       IF message.call \in handlers
         THEN Page!handleSignal(message.call, message.name)
         ELSE /\ disturbed' = disturbed \cup ({message.call} \cap pending)
              /\ UNCHANGED page
  /\ UNCHANGED <<hub, outbox, log, down>>

\* Events are dispatched in the order they came.
Dispatch ==
  /\ dispatched < Len(received)
  /\ dispatched' = dispatched + 1
  /\ LET message == log[received[dispatched + 1]] IN
       IF message.call \in handlers
         THEN Page!handleSignal(message.call, message.name)
         ELSE /\ disturbed' = disturbed \cup ({message.call} \cap pending)
              /\ UNCHANGED page
  /\ UNCHANGED <<hub, outbox, log, down>>

\* onerror, after the last event of the connection; also when a connection cannot
\* be opened.
ConnectionLost ==
  /\ up = {}
  /\ dispatched = Len(received)
  /\ down' = FALSE
  /\ \/ Page!ConnectionLost
     \/ handlers = {} /\ UNCHANGED <<page, disturbed, outbox>>
  /\ UNCHANGED <<hub, log, dispatched>>

-----------------------------------------------------------------------------
(***************************************************************************)
(* The resolver.                                                           *)
(***************************************************************************)

FillWindow(c) ==
  /\ Page!EmitHeldFill(c)
  /\ disturbed' = disturbed \cup (IF Outstanding[c] # <<>> THEN {c} ELSE {})
  /\ UNCHANGED <<outbox, hub, log, dispatched, down>>

ResolverStep ==
  /\ \/ Page!fetch \/ Page!mutate \/ Page!refetch
     \/ \E c \in Call :
          \/ Page!ReplyFailed(c) \/ Page!ReplyConfirmed(c) \/ Page!ReplySpeculative(c)
          \/ Page!MaxWindow(c)
  /\ UNCHANGED <<hub, log, dispatched, down>>

Next ==
  \/ \E c \in Call : PublishNext(c)
  \/ \E s \in Stream : ServeSignals(s) \/ OpenStream(s) \/ Drop(s)
  \/ \E m \in 1 .. count : Expire(m)
  \/ Dispatch
  \/ ConnectionLost
  \/ \E c \in Call : FillWindow(c)
  \/ ResolverStep

\* Tracks publish what they owe (SignalContract), the hub's goroutines run, and the
\* page's event loop comes round to every event and to the 50 ms timer.  The
\* max-window timer is not forced to fire.
Spec ==
  /\ Init
  /\ [][Next]_vars
  /\ \A c \in Call : WF_vars(PublishNext(c)) /\ WF_vars(FillWindow(c))
  /\ \A s \in Stream : WF_vars(ServeSignals(s))
  /\ WF_vars(Dispatch)

-----------------------------------------------------------------------------
(***************************************************************************)
(* Properties.                                                             *)
(***************************************************************************)

\* With the hub and the network as its channel a page behaves as Resolver says it does
\* over any channel that loses, delays and reorders, so all that is shown there of
\* what the application sees holds here.
ImplementsResolver == Client!Init /\ [][Client!Next]_Client!vars

\* On its first stream the page gets a PATCH before its FILL: a FILL is held back while
\* a PATCH is due only if that was lost or came before the reply.  (A later stream
\* replays its buffer before what the earlier one left in the hub's channel.)
HeldBackOnlyIfDisturbed ==
  /\ pendingFill # Page!None
  /\ reply[pendingFill].signals = <<"PATCH", "FILL">>
  /\ \A s, t \in Stream : pc[s] # "unopened" /\ pc[t] # "unopened" => s = t
  => pendingFill \in disturbed

Waiting(c) == view.of = c /\ Page!Speculating

\* What the page waits for comes, and the max window is there for accidents only: as
\* long as the page stays connected, its streams do not overlap in the hub and nothing
\* is lost or early, its signals end every speculation.
SignalsEndSpeculation ==
  \A c \in Call :
    Waiting(c) /\ up # {}
      ~> ~Waiting(c) \/ up = {} \/ overlapped \/ c \in disturbed

=============================================================================
