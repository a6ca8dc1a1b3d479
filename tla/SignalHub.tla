------------------------------ MODULE SignalHub ------------------------------
(***************************************************************************)
(* The multiplexed signal channel of Spec-Link (proxy/signals.go), for one *)
(* client id: the hub is a map from client ids to clientConns that share   *)
(* nothing.  Publishers append to a bounded channel while the clientConn   *)
(* is marked active and to a buffer while it is not; every call of         *)
(* ServeSignals is a stream that takes over the buffer when it opens and   *)
(* then competes for the channel with any other open stream of the client. *)
(*                                                                         *)
(* Messages are numbered in the order of their critical sections.          *)
(***************************************************************************)
EXTENDS Integers, Sequences, SequencesExt

CONSTANTS
  Stream,     (* calls of ServeSignals for the client id                    *)
  Capacity,   (* size of the channel: 64 in the code                        *)
  MaxMsgs     (* bound: how many signals are published                      *)

ASSUME HubAssumption ==
  /\ Capacity \in Nat \ {0}
  /\ MaxMsgs \in Nat

VARIABLES
  count,     (* number of messages published                               *)
  active,    (* clientConn.active                                          *)
  ch,        (* clientConn.ch                                              *)
  buffer,    (* clientConn.buffer                                          *)
  pc,        (* where each call of ServeSignals is                         *)
  up,        (* streams whose client end is open                           *)
  replay,    (* what each stream took from the buffer and has not written  *)
  expired,   (* messages whose window has passed                           *)
  received,  (* the messages the client got, in order                      *)
  gone,      (* messages dropped, pruned or written to a dead connection   *)
  overlapped (* history: since the client last had no stream open, one was *)
             (*   opened while another was                                 *)

conn == <<active, ch, buffer>>

vars == <<count, conn, pc, up, replay, expired, received, gone, overlapped>>

Msg == 1 .. MaxMsgs

Location == {"unopened", "replaying", "streaming", "closed"}

Open(s) == pc[s] \in {"replaying", "streaming"}

Init ==
  /\ count = 0
  /\ active = FALSE
  /\ ch = <<>>
  /\ buffer = <<>>
  /\ pc = [s \in Stream |-> "unopened"]
  /\ up = {}
  /\ replay = [s \in Stream |-> <<>>]
  /\ expired = {}
  /\ received = <<>>
  /\ gone = {}
  /\ overlapped = FALSE

-----------------------------------------------------------------------------
(***************************************************************************)
(* Publish: one critical section, three outcomes.                          *)
(***************************************************************************)

NextMsg ==
  /\ count < MaxMsgs
  /\ count' = count + 1
  /\ UNCHANGED <<active, pc, up, replay, expired, received, overlapped>>

\* Mutant: the channel is not bounded.
PublishUnbounded ==
  /\ NextMsg
  /\ active
  /\ ch' = Append(ch, count + 1)
  /\ UNCHANGED <<buffer, gone>>

PublishLive ==
  /\ NextMsg
  /\ active
  /\ Len(ch) < Capacity
  /\ ch' = Append(ch, count + 1)
  /\ UNCHANGED <<buffer, gone>>

\* The channel is full: the signal is logged and dropped.
PublishDropped ==
  /\ NextMsg
  /\ active
  /\ Len(ch) = Capacity
  /\ gone' = gone \cup {count + 1}
  /\ UNCHANGED <<ch, buffer>>

PublishBuffered ==
  /\ NextMsg
  /\ ~active
  /\ buffer' = Append(buffer, count + 1)
  /\ UNCHANGED <<ch, gone>>

Publish == PublishLive \/ PublishDropped \/ PublishBuffered

\* Time passes; windows differ (10 s for reads, 3 s for writes), so messages
\* need not expire in order.
Expire(m) ==
  /\ m \in 1 .. count
  /\ m \notin expired
  /\ expired' = expired \cup {m}
  /\ UNCHANGED <<count, conn, pc, up, replay, received, gone, overlapped>>

-----------------------------------------------------------------------------
(***************************************************************************)
(* ServeSignals.                                                           *)
(***************************************************************************)

\* The elements of a sequence that are in S, in their order: a loop that copies them.
Kept(seq, S) ==
  LET kept[i \in 0 .. Len(seq)] ==
        IF i = 0 THEN <<>>
        ELSE IF seq[i] \in S THEN Append(kept[i - 1], seq[i])
        ELSE kept[i - 1]
  IN  kept[Len(seq)]

pruneExpired(buf) == Kept(buf, Msg \ expired)

\* A client does not wait for the hub to notice that its last stream has ended,
\* and two tabs may share a client id.
Begin(s) ==
  /\ pc[s] = "unopened"
  /\ pc' = [pc EXCEPT ![s] = "replaying"]
  /\ up' = up \cup {s}
  /\ overlapped' = \E t \in Stream : Open(t)
  /\ UNCHANGED <<count, ch, expired, received>>

\* The stream takes the buffer and writes what has not expired.
TakeBuffer(s) ==
  /\ replay' = [replay EXCEPT ![s] = pruneExpired(buffer)]
  /\ gone' = gone \cup (ToSet(buffer) \cap expired)

\* Mutant: the buffer is replayed but not cleared.
ConnectKeepsBuffer(s) ==
  Begin(s) /\ TakeBuffer(s) /\ active' = TRUE /\ UNCHANGED buffer

\* Mutant: the buffer is taken before the clientConn is marked active.
ConnectInactive(s) ==
  Begin(s) /\ TakeBuffer(s) /\ buffer' = <<>> /\ UNCHANGED active

\* One critical section.
Connect(s) ==
  Begin(s) /\ TakeBuffer(s) /\ buffer' = <<>> /\ active' = TRUE

\* A write to a connection whose other end is gone is lost without an error the
\* handler looks at.
WriteMsg(s, m) ==
  IF s \in up
    THEN /\ received' = Append(received, m)
         /\ UNCHANGED gone
    ELSE /\ gone' = gone \cup {m}
         /\ UNCHANGED received

\* Mutant: while there are live signals, they go first.
ReplayAfterLive(s) ==
  /\ pc[s] = "replaying"
  /\ IF ch # <<>>
       THEN WriteMsg(s, Head(ch)) /\ ch' = Tail(ch) /\ UNCHANGED replay
       ELSE /\ replay[s] # <<>>
            /\ WriteMsg(s, Head(replay[s]))
            /\ replay' = [replay EXCEPT ![s] = Tail(@)]
            /\ UNCHANGED ch
  /\ UNCHANGED <<count, active, buffer, pc, up, expired, overlapped>>

ReplayMsg(s) ==
  /\ pc[s] = "replaying"
  /\ replay[s] # <<>>
  /\ WriteMsg(s, Head(replay[s]))
  /\ replay' = [replay EXCEPT ![s] = Tail(@)]
  /\ UNCHANGED <<count, conn, pc, up, expired, overlapped>>

StartStreaming(s) ==
  /\ pc[s] = "replaying"
  /\ replay[s] = <<>>
  /\ pc' = [pc EXCEPT ![s] = "streaming"]
  /\ UNCHANGED <<count, conn, up, replay, expired, received, gone, overlapped>>

\* select: a message is ready, even if the context is done as well.
Deliver(s) ==
  /\ pc[s] = "streaming"
  /\ ch # <<>>
  /\ WriteMsg(s, Head(ch))
  /\ ch' = Tail(ch)
  /\ UNCHANGED <<count, active, buffer, pc, up, replay, expired, overlapped>>

\* select: the context is done.
ClientDisconnected(s) ==
  /\ pc[s] = "streaming"
  /\ s \notin up
  /\ active' = FALSE
  /\ pc' = [pc EXCEPT ![s] = "closed"]
  /\ UNCHANGED <<count, ch, buffer, up, replay, expired, received, gone, overlapped>>

ServeSignals(s) ==
  ReplayMsg(s) \/ StartStreaming(s) \/ Deliver(s) \/ ClientDisconnected(s)

\* The client closes, the network fails, or the server's WriteTimeout strikes.
Drop(s) ==
  /\ Open(s)
  /\ s \in up
  /\ up' = up \ {s}
  /\ UNCHANGED <<count, conn, pc, replay, expired, received, gone, overlapped>>

-----------------------------------------------------------------------------
Next ==
  \/ Publish
  \/ \E m \in Msg : Expire(m)
  \/ \E s \in Stream : Connect(s) \/ ServeSignals(s) \/ Drop(s)

\* An open stream's goroutine keeps running; select picks fairly among what is
\* ready.  Clients, publishers and time are not forced.
Spec ==
  /\ Init
  /\ [][Next]_vars
  /\ \A s \in Stream : WF_vars(ServeSignals(s))

-----------------------------------------------------------------------------
(***************************************************************************)
(* Properties.                                                             *)
(***************************************************************************)

\* What each variable holds; the channel never exceeds its capacity.
TypeOK ==
  /\ count \in 0 .. MaxMsgs
  /\ active \in BOOLEAN
  /\ ch \in Seq(Msg) /\ Len(ch) <= Capacity
  /\ buffer \in Seq(Msg)
  /\ pc \in [Stream -> Location]
  /\ up \subseteq Stream
  /\ replay \in [Stream -> Seq(Msg)]
  /\ expired \subseteq Msg
  /\ received \in Seq(Msg)
  /\ gone \subseteq Msg
  /\ overlapped \in BOOLEAN

\* Where a message can be, unless it is gone.
InChannel == <<"hub", "ch">>

InBuffer == <<"hub", "buffer">>

AtClient == <<"client", "received">>

InReplay(s) == <<"replay", s>>

Place == {InChannel, InBuffer, AtClient} \cup {InReplay(s) : s \in Stream}

Queues ==
  [p \in Place |->
     CASE p = InChannel -> ch
       [] p = InBuffer  -> buffer
       [] p = AtClient  -> received
       [] OTHER         -> replay[p[2]]]

\* The occurrences of message m, by place and position.
Places(m) ==
  (UNION {{p} \X {i \in DOMAIN Queues[p] : Queues[p][i] = m} : p \in Place})
    \cup (IF m \in gone THEN {<<"gone", 0>>} ELSE {})

\* A signal is never delivered twice and never vanishes: at any time it is in
\* exactly one of the channel, the buffer, a stream's replay, the client's hands
\* and the set of signals given up, however streams of the client overlap.
ExactlyOnePlace ==
  \A m \in 1 .. count : \E p \in Places(m) : Places(m) = {p}

\* As long as the streams of a client do not overlap, the hub buffers only while
\* no stream could deliver; and an overlap does no harm once all have ended.
ActiveWhileServing == (\E s \in Stream : Open(s)) /\ ~overlapped => active

Pending(m) == m \in ToSet(ch) \cup ToSet(buffer) \cup UNION {ToSet(replay[s]) : s \in Stream}

Connected == \E s \in up : Open(s)

\* As long as a client stays connected, by streams that do not overlap, no signal
\* for it waits for ever, those that an earlier stream left behind included.
DeliveredToLoneStream ==
  \A m \in Msg :
    Pending(m) /\ Connected ~> ~Pending(m) \/ ~Connected \/ overlapped

\* A client gets its signals in the order they were published until one of its
\* streams ends: what waited in the buffer comes before what goes to the channel.
OrderedInFirstStream ==
  (\A s \in Stream : pc[s] # "closed") /\ ~overlapped =>
    \A i, j \in DOMAIN received : i < j => received[i] < received[j]

\* "If the client has an active SSE connection, the signal is delivered
\* immediately": whatever streams it opens.
DeliveredWhileConnected ==
  \A m \in Msg : Pending(m) /\ Connected ~> ~Pending(m) \/ ~Connected

=============================================================================
