------------------------------ MODULE EdgeProxy ------------------------------
(***************************************************************************)
(* The TypeScript edge proxy (packages/edge-proxy) as one client id and    *)
(* one path see it: any number of isolates answer reads from the vault and *)
(* writes from the request, finish both in the background and publish      *)
(* through a Redis list, which the isolate that holds the client's stream  *)
(* polls.  publish is two commands, RPUSH and EXPIRE; a poll is a timer's  *)
(* callback that awaits an LRANGE, and the timer does not wait for it.     *)
(* One isolate holds all streams of the client.                            *)
(*                                                                         *)
(* A document is named by the read that fetched it, a message by the       *)
(* request it is about and its event.                                      *)
(***************************************************************************)
EXTENDS Integers, FiniteSets, Sequences, SequencesExt

CONSTANTS
  Read,      (* requests to handleSpeculation                              *)
  Write,     (* requests to handleProvisionalWrite                         *)
  Stream,    (* calls of handleSignalStream                                *)
  MaxBroken, (* bound: how many publish calls lose a command               *)
  None       (* no document, no stream                                     *)

ASSUME EdgeAssumption ==
  /\ Read \cap Write = {}
  /\ None \notin Read \cup Stream
  /\ MaxBroken \in Nat

VARIABLES
  vault,      (* the adapter's document, or None                           *)
  snapshot,   (* the vault's document each read was answered with, or None *)
  pc,         (* where each request's background task is                   *)
  log,        (* events published for each request                         *)
  list,       (* the Redis list of the client id                           *)
  timed,      (* the list has a time to live                               *)
  open,       (* streams whose request is not aborted                      *)
  opened,     (* streams that have been opened                             *)
  intervals,  (* streams whose setInterval is running                      *)
  handle,     (* pollingIntervals: the stream whose interval is remembered *)
  lastIndex,  (* how far each stream has read the list                     *)
  poll,       (* the poll of each stream under way: where it starts and,   *)
              (*   once the server has answered, what it got               *)
  delivered,  (* messages written to each stream                           *)
  broken,     (* history: the publish calls one of whose commands failed   *)
  disturbed,  (* history: open streams that polled while a poll was under  *)
              (*   way, or whose list expired; they are not followed on    *)
  overlapped  (* history: a stream was opened while another one was open   *)

tasks == <<vault, snapshot, pc, log, broken>>

queue == <<list, timed>>

channel == <<open, opened, intervals, handle, lastIndex, poll, delivered,
             disturbed, overlapped>>

vars == <<tasks, queue, channel>>

Request == Read \cup Write

\* Publishing an event is at "<event>" before the RPUSH and at "<event> pushed"
\* before the EXPIRE.
Location ==
  {"idle", "fetching", "storing", "patch", "patch pushed", "replace", "replace pushed",
   "confirm", "confirm pushed", "abort", "abort pushed", "done"}

Event == {"patch", "replace", "confirm", "abort"}

Message == [about : Request, event : Event]

NoPoll == [state |-> "none", from |-> 0, messages |-> <<>>]

Init ==
  /\ vault = None
  /\ snapshot = [r \in Read |-> None]
  /\ pc = [q \in Request |-> "idle"]
  /\ log = [q \in Request |-> <<>>]
  /\ list = <<>>
  /\ timed = FALSE
  /\ open = {}
  /\ opened = {}
  /\ intervals = {}
  /\ handle = None
  /\ lastIndex = [s \in Stream |-> 0]
  /\ poll = [s \in Stream |-> NoPoll]
  /\ delivered = [s \in Stream |-> <<>>]
  /\ broken = {}
  /\ disturbed = {}
  /\ overlapped = FALSE

Go(q, from, to) == pc[q] = from /\ pc' = [pc EXCEPT ![q] = to]

-----------------------------------------------------------------------------
(***************************************************************************)
(* handleSpeculation and revalidateInBackground.                           *)
(***************************************************************************)

\* Always speculative, whatever the vault has and however old it is.
handleSpeculation(r) ==
  /\ Go(r, "idle", "fetching")
  /\ snapshot' = [snapshot EXCEPT ![r] = vault]
  /\ UNCHANGED <<vault, log, broken, queue, channel>>

ReadFetched(r) ==
  /\ Go(r, "fetching", "storing")
  /\ UNCHANGED <<vault, snapshot, log, broken, queue, channel>>

\* No answer, a status that is not ok, no JSON or a vault that cannot be written:
\* logged, nothing else.
ReadFailed(r) ==
  /\ Go(r, "fetching", "done") \/ Go(r, "storing", "done")
  /\ UNCHANGED <<vault, snapshot, log, broken, queue, channel>>

\* The comparison with the snapshot fails for an answer that is null: the document
\* is stored by then, and nothing is published.
ReadStored(r) ==
  /\ Go(r, "storing", "patch") \/ Go(r, "storing", "done")
  /\ vault' = r
  /\ UNCHANGED <<snapshot, log, broken, queue, channel>>

-----------------------------------------------------------------------------
(***************************************************************************)
(* handleProvisionalWrite and executeWriteInBackground.                    *)
(***************************************************************************)

handleProvisionalWrite(w) ==
  /\ Go(w, "idle", "fetching")
  /\ UNCHANGED <<vault, snapshot, log, broken, queue, channel>>

WriteAccepted(w) ==
  /\ Go(w, "fetching", "confirm")
  /\ UNCHANGED <<vault, snapshot, log, broken, queue, channel>>

\* No answer, a status that is not ok, or a body that is not JSON: response.text
\* throws after response.json has consumed the body.  In the first and the last
\* case the upstream may have carried the write out.
WriteFailed(w) ==
  /\ Go(w, "fetching", "abort")
  /\ UNCHANGED <<vault, snapshot, log, broken, queue, channel>>

-----------------------------------------------------------------------------
(***************************************************************************)
(* publish.                                                                *)
(***************************************************************************)

Pushed == [patch |-> "patch pushed", replace |-> "replace pushed",
           confirm |-> "confirm pushed", abort |-> "abort pushed"]

Append1(q, e) ==
  /\ list' = Append(list, [about |-> q, event |-> e])
  /\ log' = [log EXCEPT ![q] = Append(@, e)]

Push(q, e) ==
  /\ Go(q, e, Pushed[e])
  /\ Append1(q, e)
  /\ UNCHANGED <<vault, snapshot, broken, timed, channel>>

\* Mutant: the event is published once more.
PublishTwice(q, e) ==
  /\ Go(q, Pushed[e], IF e = "patch" THEN "replace" ELSE IF Len(log[q]) < 2 THEN e ELSE "done")
  /\ timed' = (list # <<>>)
  /\ UNCHANGED <<vault, snapshot, log, broken, list, channel>>

\* The list gets its time to live; a PATCH is followed by a REPLACE.
SetExpiry(q, e) ==
  /\ Go(q, Pushed[e], IF e = "patch" THEN "replace" ELSE "done")
  /\ timed' = (list # <<>>)
  /\ UNCHANGED <<vault, snapshot, log, broken, list, channel>>

\* Mutant: a write whose CONFIRM could not be published gives up, too.
PublishGivesUp(q, e) ==
  /\ \/ Go(q, e, "done") /\ (Append1(q, e) \/ UNCHANGED <<list, log>>)
     \/ Go(q, Pushed[e], "done") /\ UNCHANGED <<list, log>>
  /\ broken' = broken \cup {<<q, e>>}
  /\ Cardinality(broken') <= MaxBroken
  /\ UNCHANGED <<vault, snapshot, timed, channel>>

\* A command throws; an RPUSH may have been carried out.  A read gives up, a write
\* that could not be confirmed, or whose CONFIRM could not be given a time to live,
\* is aborted.
PublishFails(q, e) ==
  LET next == IF e = "confirm" THEN "abort" ELSE "done"
  IN  /\ \/ Go(q, e, next) /\ (Append1(q, e) \/ UNCHANGED <<list, log>>)
         \/ Go(q, Pushed[e], next) /\ UNCHANGED <<list, log>>
      /\ broken' = broken \cup {<<q, e>>}
      /\ Cardinality(broken') <= MaxBroken
      /\ UNCHANGED <<vault, snapshot, timed, channel>>

\* How far the streams have read, their polls and what they were given no longer matter.
Forget(streams) ==
  /\ lastIndex' = [s \in Stream |-> IF s \in streams THEN 0 ELSE lastIndex[s]]
  /\ poll' = [s \in Stream |-> IF s \in streams THEN NoPoll ELSE poll[s]]
  /\ delivered' = [s \in Stream |-> IF s \in streams THEN <<>> ELSE delivered[s]]

\* From here on a stream looks for new messages behind the end of the new list.
ExpireList ==
  /\ timed
  /\ list' = <<>>
  /\ timed' = FALSE
  /\ disturbed' = open
  /\ Forget(open)
  /\ UNCHANGED <<tasks, open, opened, intervals, handle, overlapped>>

-----------------------------------------------------------------------------
(***************************************************************************)
(* handleSignalStream and the polling of the list.                         *)
(***************************************************************************)

\* subscribe: a new interval, remembered in place of the one before.
handleSignalStream(s) ==
  /\ s \notin opened
  /\ opened' = opened \cup {s}
  /\ open' = open \cup {s}
  /\ intervals' = intervals \cup {s}
  /\ handle' = s
  /\ overlapped' = (overlapped \/ open # {})
  /\ UNCHANGED <<tasks, queue, lastIndex, poll, delivered, disturbed>>

\* Mutant: the interval is forgotten and not cleared.
unsubscribeForgets(s) == handle' = None /\ UNCHANGED intervals

\* By client id: what is cleared is the interval remembered, whose ever it is.
unsubscribe(s) ==
  /\ intervals' = intervals \ {handle}
  /\ handle' = None

\* The client aborts the request; whatever a poll for it brings goes nowhere.
Disconnect(s) ==
  /\ s \in open
  /\ open' = open \ {s}
  /\ unsubscribe(s)
  /\ disturbed' = disturbed \ {s}
  /\ Forget({s})
  /\ UNCHANGED <<tasks, queue, opened, overlapped>>

PollStart(s) ==
  /\ s \in (intervals \cap open) \ disturbed
  /\ poll[s] = NoPoll
  /\ poll' = [poll EXCEPT ![s] = [NoPoll EXCEPT !.state = "asked", !.from = lastIndex[s]]]
  /\ UNCHANGED <<tasks, queue, open, opened, intervals, handle, lastIndex, delivered,
                 disturbed, overlapped>>

\* The timer does not wait: two polls from the same place bring the same messages twice
\* and advance lastIndex twice.
PollOverlaps(s) ==
  /\ s \in intervals \cap open
  /\ poll[s] # NoPoll
  /\ disturbed' = disturbed \cup {s}
  /\ Forget({s})
  /\ UNCHANGED <<tasks, queue, open, opened, intervals, handle, overlapped>>

PollAnswer(s) ==
  /\ poll[s].state = "asked"
  /\ poll' = [poll EXCEPT ![s].state = "answered",
                          ![s].messages = SubSeq(list, poll[s].from + 1, Len(list))]
  /\ UNCHANGED <<tasks, queue, open, opened, intervals, handle, lastIndex, delivered,
                 disturbed, overlapped>>

\* The command fails: logged, the next poll starts at the same place.
PollFails(s) ==
  /\ poll[s].state = "asked"
  /\ poll' = [poll EXCEPT ![s] = NoPoll]
  /\ UNCHANGED <<tasks, queue, open, opened, intervals, handle, lastIndex, delivered,
                 disturbed, overlapped>>

\* Mutant: the next poll starts where the list ends by now.
AdvanceToEnd(s) == lastIndex' = [lastIndex EXCEPT ![s] = Len(list)]

Advance(s) == lastIndex' = [lastIndex EXCEPT ![s] = @ + Len(poll[s].messages)]

PollReceive(s) ==
  /\ poll[s].state = "answered"
  /\ Advance(s)
  /\ delivered' = [delivered EXCEPT ![s] = @ \o poll[s].messages]
  /\ poll' = [poll EXCEPT ![s] = NoPoll]
  /\ UNCHANGED <<tasks, queue, open, opened, intervals, handle, disturbed, overlapped>>

-----------------------------------------------------------------------------
Publish(q) == \E e \in Event : Push(q, e) \/ SetExpiry(q, e) \/ PublishFails(q, e)

revalidateInBackground(r) == ReadFetched(r) \/ ReadFailed(r) \/ ReadStored(r)

executeWriteInBackground(w) == WriteAccepted(w) \/ WriteFailed(w)

Next ==
  \/ \E r \in Read : handleSpeculation(r) \/ revalidateInBackground(r)
  \/ \E w \in Write : handleProvisionalWrite(w) \/ executeWriteInBackground(w)
  \/ \E q \in Request : Publish(q)
  \/ ExpireList
  \/ \E s \in Stream :
       \/ handleSignalStream(s) \/ Disconnect(s)
       \/ PollStart(s) \/ PollOverlaps(s)
       \/ PollAnswer(s) \/ PollFails(s) \/ PollReceive(s)

\* While a stream is open an interval keeps ticking, and its polls are answered, not all
\* of them with an error; fairness to the streams together says nothing of one while
\* another is open too.  There is none for the background tasks: no fetch has a time-out,
\* and no task is passed to waitUntil, of which a comment speaks, so that the runtime may
\* end it once the response is sent.
Spec ==
  /\ Init
  /\ [][Next]_vars
  /\ WF_vars(\E s \in Stream : PollStart(s) \/ PollReceive(s))
  /\ SF_vars(\E s \in Stream : PollAnswer(s))

-----------------------------------------------------------------------------
(***************************************************************************)
(* Properties.                                                             *)
(***************************************************************************)

\* A read gets at most a PATCH and after it a REPLACE, and no REPLACE if the PATCH could
\* not be published; a write is answered once, unless a command of its CONFIRM fails: then
\* an ABORT may follow, and both arrive (the catch blocks of revalidateInBackground and
\* executeWriteInBackground).
AnsweredOnce ==
  /\ \A r \in Read : IsPrefix(log[r], <<"patch", "replace">>)
  /\ \A w \in Write : Len(log[w]) > 1 => <<w, "confirm">> \in broken

\* Unless two of its polls overlapped or the list expired under it, a stream has been
\* given the list up to lastIndex, once and in order, whatever its failed polls were.
StreamFollowsList ==
  \A s \in open \ disturbed : delivered[s] = SubSeq(list, 1, lastIndex[s])

\* A client that opens no stream while it has one never leaves an interval running, and
\* never loses the one of its stream: unsubscribe finds the interval by client id.
IntervalPerStream ==
  ~overlapped => intervals = open

\* A write's task does not end before the client has been sent a CONFIRM or an ABORT,
\* even if a command for its CONFIRM failed, unless one for its ABORT failed as well: the
\* catch block covers every line after the 202.  Whether the task ends is another matter.
FinishedWriteIsAnswered ==
  \A w \in Write : pc[w] = "done" => log[w] # <<>> \/ <<w, "abort">> \in broken

\* The client's one stream catches up with the list, unless it is closed or the list
\* expires or two polls overlap.
StreamCatchesUp ==
  \A s \in Stream :
    (s \in open /\ delivered[s] # list)
      ~> (s \notin open \/ s \in disturbed \/ overlapped \/ delivered[s] = list)

=============================================================================
