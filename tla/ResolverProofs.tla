---------------------------- MODULE ResolverProofs ----------------------------
(***************************************************************************)
(* Theorems about Resolver for any number of calls and a channel that does *)
(* what it likes.  But for TypeCorrect they are about calls that do not    *)
(* overlap.                                                                *)
(***************************************************************************)
EXTENDS Resolver, TLAPS

\* One thing at a time: a request under way, a refetch that is due, or a
\* speculation.
OneAtATime ==
  /\ \A a, b \in pending : a = b
  /\ refetchTimers \in {0, 1}
  /\ refetchTimers = 1 => pending = {}
  /\ Speculating => pending = {} /\ refetchTimers = 0

\* What the resolver remembers belongs to what is shown.
HandlesOfView ==
  /\ Speculating => /\ view.of # None
                    /\ unsubscribeSignal = view.of
                    /\ maxWindowTimer = view.of
  /\ pendingFill # None => pendingFill = view.of /\ fillBufferTimer = view.of

IInv ==
  /\ status \in Status
  /\ view \in View
  /\ OneAtATime
  /\ NothingLeftBehind
  /\ HandlesOfView
  /\ OnlyOwnSignals

\* A new resolver has nothing.
LEMMA InitIInv == Init => IInv
BY DEF Init, IInv, Status, View, CallOrNone, None, OneAtATime, NothingLeftBehind,
       HandlesOfView, OnlyOwnSignals, Speculating

-----------------------------------------------------------------------------
(***************************************************************************)
(* cleanup forgets what is remembered; under the invariant that is all.    *)
(***************************************************************************)

\* After cleanup no timer and no handler is left.
LEMMA CleanupEffect ==
  ASSUME IInv, NEW a, NEW b, a \in maxTimers \cup {None}, b \in fillTimers \cup {None},
         cleanup(a, b)
  PROVE  /\ handlers' = {} /\ maxTimers' = {} /\ fillTimers' = {}
         /\ pendingFill' = None
BY DEF IInv, NothingLeftBehind, cleanup

\* A step that cleans up, stops speculating and changes the view only by signals
\* of its own keeps the invariant, if it keeps to one thing at a time.
LEMMA CleanIInv ==
  ASSUME handlers' = {}, maxTimers' = {}, fillTimers' = {}, pendingFill' = None,
         status' \in Status \ {"speculative", "patching"},
         view' \in View, OnlyOwnSignals',
         \A a, b \in pending' : a = b,
         refetchTimers' \in {0, 1},
         refetchTimers' = 1 =>
           pending' = {} /\ status' = "error" /\ onTimeout' = "refetch"
  PROVE  IInv'
BY DEF IInv, OneAtATime, NothingLeftBehind, HandlesOfView, Speculating

\* With no request under way, sending one makes one.
LEMMA SendEffect ==
  ASSUME pending = {}, NEW replies, Send(replies)
  PROVE  \A a, b \in pending' : a = b
BY DEF Send, requests

\* A view that is not touched stays as good as it was.
LEMMA SameView ==
  ASSUME IInv, UNCHANGED view
  PROVE  view' \in View /\ OnlyOwnSignals'
BY DEF IInv, OnlyOwnSignals

\* A signal of the call that is shown.
LEMMA EmitOwn ==
  ASSUME IInv, NEW seq \in Seq([name : Name, call : CallOrNone]), Emit(seq),
         \A i \in 1 .. Len(seq) : seq[i].call = view.of
  PROVE  view' \in View /\ view'.of = view.of /\ OnlyOwnSignals'
<1> DEFINE old == view.signals
           new == old \o seq
<1>1. view \in View
  BY DEF IInv
<1>2. old \in Seq([name : Name, call : CallOrNone]) /\ view.of \in CallOrNone
  BY <1>1 DEF View
<1>3. view' = [view EXCEPT !.signals = new]
  BY DEF Emit
<1>4. view'.signals = new /\ view'.of = view.of /\ view' \in View
  <2>1. new \in Seq([name : Name, call : CallOrNone])
    BY <1>2
  <2> HIDE DEF new, old
  <2>2. view' = [of |-> view.of, signals |-> new]
    BY <1>1, <1>3 DEF View
  <2> QED
    BY <1>2, <2>1, <2>2 DEF View
<1>5. /\ DOMAIN new = 1 .. Len(old) + Len(seq)
      /\ \A i \in DOMAIN new :
           new[i] = IF i <= Len(old) THEN old[i] ELSE seq[i - Len(old)]
      /\ DOMAIN old = 1 .. Len(old) /\ Len(old) \in Nat /\ Len(seq) \in Nat
  BY <1>2
<1>6. \A i \in DOMAIN old : old[i].call = view.of
  BY DEF IInv, OnlyOwnSignals
<1>7. ASSUME NEW i \in DOMAIN new
      PROVE  new[i].call = view.of
  <2>1. CASE i <= Len(old)
    BY <1>5, <1>6, <2>1
  <2>2. CASE ~(i <= Len(old))
    <3>1. i - Len(old) \in 1 .. Len(seq)
      BY <1>5, <2>2
    <3> QED
      BY <1>5, <2>2, <3>1
  <2> QED
    BY <2>1, <2>2
<1> HIDE DEF new
<1> QED
  BY <1>4, <1>7 DEF OnlyOwnSignals

-----------------------------------------------------------------------------
(***************************************************************************)
(* The actions, one lemma for each kind.                                   *)
(***************************************************************************)

\* The application calls when nothing else is going on.
LEMMA RequestIInv ==
  ASSUME IInv, ~Overlap, NEW replies, Request(replies)
  PROVE  IInv'
<1>1. pending = {} /\ refetchTimers' = 0 /\ status' = "idle" /\ UNCHANGED view
  BY DEF Request, MayCall, OneAtATime, IInv
<1>2. \A a, b \in pending' : a = b
  BY <1>1, SendEffect DEF Request
<1>3. handlers' = {} /\ maxTimers' = {} /\ fillTimers' = {} /\ pendingFill' = None
  BY CleanupEffect DEF Request
<1> QED
  BY <1>1, <1>2, <1>3, SameView, CleanIInv DEF Status

\* A reply ends the request; a speculative one starts the timer and subscribes.
LEMMA ReplyIInv ==
  ASSUME IInv, NEW c \in Call,
         ReplyFailed(c) \/ ReplyConfirmed(c) \/ ReplySpeculative(c)
  PROVE  IInv'
<1>1. c \in pending /\ pending' = pending \ {c} /\ UNCHANGED refetchTimers
  BY DEF ReplyFailed, ReplyConfirmed, ReplySpeculative, Handle
<1>2. pending' = {} /\ refetchTimers = 0 /\ ~Speculating
  BY <1>1 DEF IInv, OneAtATime
<1>3. handlers = {} /\ maxTimers = {} /\ fillTimers = {} /\ pendingFill = None
  BY <1>2 DEF IInv, NothingLeftBehind, Speculating
<1>4. CASE ReplyFailed(c)
  BY <1>1, <1>2, <1>3, <1>4, SameView, CleanIInv DEF ReplyFailed, resolver, Status
<1>5. ASSUME Show(c)
      PROVE  view' \in View /\ view'.of = c /\ OnlyOwnSignals'
  BY <1>5 DEF Show, View, CallOrNone, OnlyOwnSignals
<1>6. CASE ReplyConfirmed(c)
  BY <1>1, <1>2, <1>3, <1>5, <1>6, CleanIInv DEF ReplyConfirmed, resolver, Status
<1>7. CASE ReplySpeculative(c)
  <2>1. /\ status' = "speculative" /\ handlers' = {c} /\ maxTimers' = {c}
        /\ unsubscribeSignal' = c /\ maxWindowTimer' = c
        /\ fillTimers' = {} /\ pendingFill' = None
    BY <1>3, <1>7 DEF ReplySpeculative, startTimeout
  <2>2. view' \in View /\ view'.of = c /\ OnlyOwnSignals'
    BY <1>5, <1>7 DEF ReplySpeculative
  <2>3. c # None
    BY DEF Call, None
  <2> QED
    BY <1>1, <1>2, <2>1, <2>2, <2>3
       DEF IInv, Status, OneAtATime, NothingLeftBehind, HandlesOfView, Speculating
<1> QED
  BY <1>4, <1>6, <1>7

\* A step that emits signals of what is shown and finalizes.
LEMMA FinalizeIInv ==
  ASSUME IInv, Speculating, NEW b, b \in fillTimers \cup {None}, finalize(b),
         NEW seq \in Seq([name : Name, call : CallOrNone]), Emit(seq),
         \A i \in 1 .. Len(seq) : seq[i].call = view.of,
         UNCHANGED <<pending, refetchTimers>>
  PROVE  IInv'
<1>1. handlers' = {} /\ maxTimers' = {} /\ fillTimers' = {} /\ pendingFill' = None
  BY CleanupEffect DEF finalize
<1>2. pending' = {} /\ refetchTimers' = 0
  BY DEF IInv, OneAtATime
<1>3. status' = "confirmed"
  BY DEF finalize
<1>4. view' \in View /\ OnlyOwnSignals'
  BY EmitOwn
<1> QED
  BY <1>1, <1>2, <1>3, <1>4, CleanIInv DEF Status

\* A signal reaches the handler of what is shown, which is the only one.
LEMMA DeliverIInv ==
  ASSUME IInv, NEW c \in Call, NEW i, Deliver(c, i)
  PROVE  IInv'
<1> DEFINE S == [name : Name, call : CallOrNone]
           name == inbound[c][i]
<1>1. Speculating /\ c = view.of /\ c \in CallOrNone
  BY DEF Deliver, IInv, NothingLeftBehind, HandlesOfView, CallOrNone
<1>2. \A n \in Name : Emitted(n, c) \in S /\ Emitted(n, c).call = view.of
  BY <1>1 DEF Emitted
<1>3. \A n \in Name : /\ <<Emitted(n, c)>> \in Seq(S)
                      /\ \A k \in 1 .. Len(<<Emitted(n, c)>>) :
                           <<Emitted(n, c)>>[k].call = view.of
  BY <1>2
<1>4. handleSignal(c, name)
  BY DEF Deliver
<1>5. CASE Patch(c) /\ pendingFill # None
  <2> DEFINE seq == <<Emitted("PATCH", c), Emitted("FILL", pendingFill)>>
  <2>1. pendingFill = c
    BY <1>1, <1>5 DEF IInv, HandlesOfView
  <2>2. Emitted("PATCH", c) \in S /\ Emitted("FILL", pendingFill) \in S
    BY <1>2, <2>1 DEF Name
  <2>3. seq \in Seq(S) /\ Len(seq) = 2
    BY <2>2
  <2>4. \A k \in 1 .. Len(seq) : seq[k].call = view.of
    <3>1. seq[1].call = view.of /\ seq[2].call = view.of
      BY <1>1, <2>1 DEF Emitted
    <3> HIDE DEF seq
    <3> QED
      BY <2>3, <3>1
  <2>5. Emit(seq) /\ finalize(None) /\ UNCHANGED <<pending, refetchTimers>>
    BY <1>5 DEF Patch, requests
  <2> HIDE DEF seq
  <2> QED
    BY <1>1, <2>3, <2>4, <2>5, FinalizeIInv
<1>6. CASE Patch(c) /\ pendingFill = None /\ ~deferredFields
  <2>1. /\ Emit(<<Emitted("PATCH", c)>>) /\ finalize(None)
        /\ UNCHANGED <<pending, refetchTimers>>
    BY <1>6 DEF Patch, requests
  <2>2. "PATCH" \in Name
    BY DEF Name
  <2> QED
    BY <1>1, <1>3, <2>1, <2>2, FinalizeIInv
<1>7. CASE Patch(c) /\ pendingFill = None /\ deferredFields
  <2>1. /\ Emit(<<Emitted("PATCH", c)>>) /\ status' = "patching"
        /\ UNCHANGED <<pendingFill, fillBufferTimer, maxWindowTimer,
                       unsubscribeSignal, handlers, fillTimers, maxTimers,
                       pending, refetchTimers>>
    BY <1>7 DEF Patch, requests
  <2>2. "PATCH" \in Name
    BY DEF Name
  <2>3. view' \in View /\ view'.of = view.of /\ OnlyOwnSignals'
    BY <1>3, <2>1, <2>2, EmitOwn
  <2> QED
    BY <1>1, <1>7, <2>1, <2>3
       DEF IInv, Status, OneAtATime, NothingLeftBehind, HandlesOfView, Speculating
<1>8. CASE HoldFill(c)
  <2>1. /\ status = "speculative" /\ pendingFill' = c /\ fillBufferTimer' = c
        /\ fillTimers' = fillTimers \cup {c}
        /\ UNCHANGED <<maxWindowTimer, unsubscribeSignal, handlers, maxTimers,
                       status, refetchTimers, pending, view>>
    BY <1>8 DEF HoldFill, requests
  <2>2. fillTimers' = {c}
    BY <1>1, <2>1 DEF IInv, NothingLeftBehind, HandlesOfView
  <2>3. view' \in View /\ OnlyOwnSignals'
    BY <2>1, SameView
  <2>4. c # None
    BY DEF Call, None
  <2> QED
    BY <1>1, <2>1, <2>2, <2>3, <2>4
       DEF IInv, OneAtATime, NothingLeftBehind, HandlesOfView, Speculating
<1>9. CASE Fill(c) \/ (name \in {"CONFIRM", "REPLACE"} /\ Close(c, name))
  <2> HIDE DEF name
  <2>0. /\ Fill(c) => Emit(<<Emitted("FILL", c)>>)
        /\ Close(c, name) => Emit(<<Emitted(name, c)>>)
        /\ finalize(None) /\ UNCHANGED <<pending, refetchTimers>>
    BY <1>9 DEF Fill, Close, requests
  <2>1. \E n \in Name : Emit(<<Emitted(n, c)>>)
    <3>1. CASE Fill(c)
      BY <2>0, <3>1 DEF Name
    <3>2. CASE name \in {"CONFIRM", "REPLACE"} /\ Close(c, name)
      BY <2>0, <3>2 DEF Name
    <3> QED
      BY <1>9, <3>1, <3>2
  <2>2. PICK n \in Name : Emit(<<Emitted(n, c)>>)
    BY <2>1
  <2> QED
    BY <1>1, <1>3, <2>0, <2>2, FinalizeIInv
<1>10. CASE AbortSignal(name)
  <2> HIDE DEF name
  <2>0. pending = {} /\ refetchTimers = 0
    BY <1>1 DEF IInv, OneAtATime
  <2>1. /\ pending' = {} /\ refetchTimers' \in {0, 1} /\ status' = "error"
        /\ refetchTimers' = 1 => onTimeout' = "refetch"
        /\ UNCHANGED view
    <3>1. status' = "error" /\ UNCHANGED <<pending, view>>
      BY <1>10 DEF AbortSignal, requests
    <3>2. \/ refetchTimers' = refetchTimers + 1 /\ onTimeout' = "refetch"
          \/ refetchTimers' = refetchTimers
      BY <1>10 DEF AbortSignal, cleanup
    <3> QED
      BY <2>0, <3>1, <3>2
  <2>2. handlers' = {} /\ maxTimers' = {} /\ fillTimers' = {} /\ pendingFill' = None
    BY <1>10, CleanupEffect DEF AbortSignal
  <2> QED
    BY <2>1, <2>2, SameView, CleanIInv DEF Status
<1> QED
  BY <1>4, <1>5, <1>6, <1>7, <1>8, <1>9, <1>10 DEF handleSignal

\* Signals that reach no handler change nothing.
LEMMA UnheardIInv ==
  ASSUME IInv, NEW c \in Call, NEW i, Discard(c, i) \/ Lose(c, i)
  PROVE  IInv'
<1>1. UNCHANGED <<resolver, status, refetchTimers, pending, view>>
  BY DEF Discard, Lose, requests
<1> QED
  BY <1>1 DEF IInv, resolver, OneAtATime, NothingLeftBehind, HandlesOfView,
              OnlyOwnSignals, Speculating

\* The channel breaks while a signal is awaited.
LEMMA ConnectionLostIInv ==
  ASSUME IInv, ConnectionLost
  PROVE  IInv'
<1>1. /\ pending' = {} /\ refetchTimers' = 0 /\ status' = "error"
      /\ UNCHANGED view
  BY DEF ConnectionLost, requests, IInv, NothingLeftBehind, OneAtATime
<1>2. handlers' = {} /\ maxTimers' = {} /\ fillTimers' = {} /\ pendingFill' = None
  BY CleanupEffect DEF ConnectionLost
<1> QED
  BY <1>1, <1>2, SameView, CleanIInv DEF Status

\* A timer that fires is the one of what is shown.
LEMMA TimerIInv ==
  ASSUME IInv, NEW c \in Call, MaxWindow(c) \/ FillWindow(c)
  PROVE  IInv'
<1>1. CASE MaxWindow(c)
  <2>1. pending = {} /\ refetchTimers' = 0 /\ UNCHANGED view
    BY <1>1 DEF MaxWindow, IInv, NothingLeftBehind, OneAtATime
  <2>2. handlers' = {} /\ maxTimers' = {} /\ fillTimers' = {} /\ pendingFill' = None
    BY <1>1, CleanupEffect DEF MaxWindow
  <2>3. status' \in {"idle", "error"} /\ \A a, b \in pending' : a = b
    BY <1>1, <2>1, SendEffect DEF MaxWindow, Abandon, SendFetch, requests
  <2> QED
    BY <2>1, <2>2, <2>3, SameView, CleanIInv DEF Status
<1>2. CASE FillWindow(c)
  <2>1. pendingFill # None /\ Speculating
    BY <1>2 DEF FillWindow, EmitHeldFill, IInv, NothingLeftBehind, Speculating
  <2>2. pendingFill = view.of /\ view.of \in CallOrNone
    BY <2>1 DEF IInv, HandlesOfView, View
  <2>3. Emitted("FILL", pendingFill) \in [name : Name, call : CallOrNone]
        /\ Emitted("FILL", pendingFill).call = view.of
    BY <2>2 DEF Emitted, Name
  <2>4. /\ Emit(<<Emitted("FILL", pendingFill)>>) /\ finalize(c)
        /\ c \in fillTimers /\ UNCHANGED <<pending, refetchTimers>>
    BY <1>2 DEF FillWindow, EmitHeldFill, requests
  <2>5. /\ <<Emitted("FILL", pendingFill)>> \in Seq([name : Name, call : CallOrNone])
        /\ \A k \in 1 .. Len(<<Emitted("FILL", pendingFill)>>) :
             <<Emitted("FILL", pendingFill)>>[k].call = view.of
    BY <2>3
  <2> QED
    BY <2>1, <2>4, <2>5, FinalizeIInv
<1> QED
  BY <1>1, <1>2

\* A refetch is due only when nothing else is going on.
LEMMA RefetchIInv ==
  ASSUME IInv, refetch
  PROVE  IInv'
<1>1. /\ pending = {} /\ refetchTimers' = 0 /\ status' = "idle"
      /\ UNCHANGED view
  BY DEF refetch, SendFetch, IInv, OneAtATime
<1>2. \A a, b \in pending' : a = b
  BY <1>1, SendEffect DEF refetch, SendFetch
<1>3. handlers' = {} /\ maxTimers' = {} /\ fillTimers' = {} /\ pendingFill' = None
  BY CleanupEffect DEF refetch
<1> QED
  BY <1>1, <1>2, <1>3, SameView, CleanIInv DEF Status

\* IInv is inductive if calls do not overlap.
LEMMA NextIInv == ~Overlap /\ IInv /\ [Next]_vars => IInv'
<1> SUFFICES ASSUME ~Overlap, IInv, [Next]_vars
             PROVE  IInv'
  OBVIOUS
<1>1. CASE UNCHANGED vars
  BY <1>1 DEF vars, resolver, requests, IInv, OneAtATime, NothingLeftBehind,
              HandlesOfView, OnlyOwnSignals, Speculating
<1>2. CASE Next
  BY <1>2, RequestIInv, ReplyIInv, DeliverIInv, UnheardIInv, ConnectionLostIInv,
     TimerIInv, RefetchIInv DEF Next, fetch, mutate
<1> QED
  BY <1>1, <1>2

-----------------------------------------------------------------------------
\* A resolver whose calls do not overlap remembers every timer and handler there
\* is but one, the refetch that is due after a retryable ABORT, which it cannot
\* cancel and which runs only in a resolver that has failed and does nothing else.
THEOREM NothingLeft == ASSUME ~Overlap PROVE Spec => []NothingLeftBehind
<1>1. IInv /\ [Next]_vars => IInv'
  BY NextIInv
<1>2. IInv => NothingLeftBehind
  BY DEF IInv
<1> QED
  BY <1>1, <1>2, InitIInv, PTL DEF Spec

\* Such a resolver never lets a signal for one Reconcile ID change what another
\* response showed.
THEOREM SignalsMatched == ASSUME ~Overlap PROVE Spec => []OnlyOwnSignals
<1>1. IInv /\ [Next]_vars => IInv'
  BY NextIInv
<1>2. IInv => OnlyOwnSignals
  BY DEF IInv
<1> QED
  BY <1>1, <1>2, InitIInv, PTL DEF Spec

-----------------------------------------------------------------------------
(***************************************************************************)
(* Type correctness.  It holds for calls that overlap, too.                *)
(***************************************************************************)

\* What a proxy answers is a sequence of signals.
LEMMA RepliesTyped ==
  \A r \in FetchReply \cup MutateReply : r.signals \in Seq(Name) /\ r.deferred \in BOOLEAN
<1> DEFINE Good(r) == r.signals \in Seq(Name) /\ r.deferred \in BOOLEAN
           More == {<<"CONFIRM">>, <<"PATCH">>, <<"FILL">>, <<"PATCH", "FILL">>}
<1>1. \A n \in Name : <<n>> \in Seq(Name)
  OBVIOUS
<1>2. \A s \in Closing \cup More \cup {<<>>} : s \in Seq(Name)
  <2>1. /\ \A s \in Closing \cup {<<"CONFIRM">>, <<"PATCH">>, <<"FILL">>} : s \in Seq(Name)
        /\ <<"PATCH", "FILL">> \in Seq(Name) /\ <<>> \in Seq(Name)
    BY <1>1 DEF Closing, Name
  <2> QED
    BY <2>1
<1>3. \A state, deferred, s : Reply(state, deferred, s).signals = s
                              /\ Reply(state, deferred, s).deferred = deferred
  BY DEF Reply
<1> DEFINE Sent == Closing \cup More \cup {<<>>}
<1>4. \A r \in FetchReply \cup MutateReply :
        \E state \in {"failed", "confirmed", "speculative", "provisional"} :
        \E deferred \in BOOLEAN : \E s \in Sent : r = Reply(state, deferred, s)
  <2>1. /\ <<>> \in Sent /\ <<"CONFIRM">> \in Sent /\ <<"PATCH">> \in Sent /\ <<"FILL">> \in Sent
        /\ <<"PATCH", "FILL">> \in Sent /\ <<"ABORT">> \in Sent /\ <<"RETRYABLE ABORT">> \in Sent
        /\ Closing \subseteq Sent
    BY DEF Closing
  <2> HIDE DEF Sent
  <2>2. \A r \in PlainReply :
          \/ r = Reply("failed", FALSE, <<>>)
          \/ r = Reply("confirmed", FALSE, <<>>)
    BY DEF PlainReply
  <2>3. \A r \in FetchReply :
          \/ r \in PlainReply
          \/ \E s \in Sent : r = Reply("speculative", FALSE, s)
          \/ \E s \in Sent : r = Reply("speculative", TRUE, s)
    BY <2>1, Zenon DEF FetchReply
  <2>4. \A r \in MutateReply :
          \/ r \in PlainReply
          \/ \E s \in Sent : r = Reply("provisional", FALSE, s)
    BY <2>1, Zenon DEF MutateReply
  <2> QED
    BY <2>1, <2>2, <2>3, <2>4, Zenon
<1>5. \A s \in Sent : s \in Seq(Name)
  BY <1>2
<1> HIDE DEF Sent
<1> SUFFICES ASSUME NEW r \in FetchReply \cup MutateReply
             PROVE  Good(r)
  OBVIOUS
<1>6. PICK state \in {"failed", "confirmed", "speculative", "provisional"},
           deferred \in BOOLEAN, s \in Sent : r = Reply(state, deferred, s)
  BY <1>4, Zenon
<1> QED
  BY <1>3, <1>5, <1>6

\* Taking a signal out of a sequence leaves a sequence.
LEMMA RemoveAtType ==
  ASSUME NEW S, NEW s \in Seq(S), NEW i \in DOMAIN s
  PROVE  RemoveAt(s, i) \in Seq(S)
<1>1. SubSeq(s, 1, i - 1) \in Seq(S) /\ SubSeq(s, i + 1, Len(s)) \in Seq(S)
  OBVIOUS
<1> QED
  BY <1>1 DEF RemoveAt

\* The resolver's handles and timers, apart from the rest.
HandlesOK ==
  /\ onTimeout \in {"refetch", "error"}
  /\ {pendingFill, fillBufferTimer, maxWindowTimer, unsubscribeSignal} \subseteq CallOrNone
  /\ handlers \cup fillTimers \cup maxTimers \subseteq Call

RequestsOK ==
  /\ calls \in 0 .. MaxCalls
  /\ pending \subseteq Call
  /\ reply \in [Call -> FetchReply \cup MutateReply]
  /\ inbound \in [Call -> Seq(Name)]

Parts ==
  /\ HandlesOK
  /\ RequestsOK
  /\ status \in Status
  /\ deferredFields \in BOOLEAN
  /\ disturbed \subseteq Call
  /\ refetchTimers \in Nat
  /\ view \in View

LEMMA TypeParts == (TypeOK <=> Parts) /\ (TypeOK' <=> Parts')
BY DEF TypeOK, HandlesOK, RequestsOK, Parts

LEMMA CleanupTyped ==
  ASSUME HandlesOK, NEW a, NEW b, cleanup(a, b)
  PROVE  HandlesOK'
BY DEF HandlesOK, cleanup, CallOrNone

LEMMA SendTyped ==
  ASSUME RequestsOK, NEW replies \in SUBSET (FetchReply \cup MutateReply), Send(replies)
  PROVE  RequestsOK'
<1>1. CASE calls < MaxCalls
  <2>1. PICK r \in replies :
          /\ calls' = calls + 1
          /\ pending' = pending \cup {calls + 1}
          /\ reply' = [reply EXCEPT ![calls + 1] = r]
          /\ inbound' = [inbound EXCEPT ![calls + 1] = r.signals]
    BY <1>1 DEF Send
  <2>2. calls + 1 \in Call /\ calls' \in 0 .. MaxCalls
    BY <1>1, <2>1, ResolverAssumption DEF RequestsOK, Call
  <2>3. r.signals \in Seq(Name)
    BY RepliesTyped
  <2> QED
    BY <2>1, <2>2, <2>3 DEF RequestsOK
<1>2. CASE ~(calls < MaxCalls)
  BY <1>2 DEF Send, requests, RequestsOK
<1> QED
  BY <1>1, <1>2

\* What is emitted adds signals to the view.
LEMMA EmitTyped ==
  ASSUME view \in View, NEW seq \in Seq([name : Name, call : CallOrNone]), Emit(seq)
  PROVE  view' \in View
<1>1. view.signals \o seq \in Seq([name : Name, call : CallOrNone])
  BY DEF View
<1> DEFINE new == view.signals \o seq
<1>2. view' = [view EXCEPT !.signals = new]
  BY DEF Emit
<1> HIDE DEF new
<1> QED
  BY <1>1, <1>2 DEF View, new

LEMMA HandleSignalTyped ==
  ASSUME TypeOK, NEW c \in Call, NEW name \in Name, handleSignal(c, name)
  PROVE  /\ HandlesOK' /\ status' \in Status /\ view' \in View
         /\ refetchTimers' \in Nat /\ UNCHANGED <<deferredFields, requests, disturbed>>
<1> USE TypeParts DEF Parts
<1> DEFINE S == [name : Name, call : CallOrNone]
<1>1. \A n \in Name : \A d \in CallOrNone : Emitted(n, d) \in S
  BY DEF Emitted
<1>2. /\ c \in CallOrNone /\ pendingFill \in CallOrNone
      /\ {"PATCH", "FILL", "CONFIRM", "REPLACE"} \subseteq Name
  BY DEF CallOrNone, HandlesOK, Name
<1>3. ASSUME NEW seq \in Seq(S), Emit(seq), finalize(None)
      PROVE  HandlesOK' /\ status' \in Status /\ view' \in View
  BY <1>3, EmitTyped, CleanupTyped DEF finalize, Status
<1>4. CASE Patch(c)
  <2>1. Emitted("PATCH", c) \in S /\ Emitted("FILL", pendingFill) \in S
    BY <1>1, <1>2
  <2>2. <<Emitted("PATCH", c)>> \in Seq(S)
        /\ <<Emitted("PATCH", c), Emitted("FILL", pendingFill)>> \in Seq(S)
    BY <2>1
  <2>3. UNCHANGED <<deferredFields, refetchTimers, requests, disturbed>>
    BY <1>4 DEF Patch
  <2>4. HandlesOK' /\ status' \in Status /\ view' \in View
    <3>1. CASE pendingFill # None
      BY <1>3, <1>4, <2>2, <3>1 DEF Patch
    <3>2. CASE pendingFill = None /\ deferredFields
      BY <1>4, <2>2, <3>2, EmitTyped DEF Patch, HandlesOK, Status
    <3>3. CASE pendingFill = None /\ ~deferredFields
      BY <1>3, <1>4, <2>2, <3>3 DEF Patch
    <3> QED
      BY <3>1, <3>2, <3>3
  <2> QED
    BY <2>3, <2>4
<1>5. CASE HoldFill(c)
  BY <1>2, <1>5 DEF HoldFill, HandlesOK, requests
<1>6. ASSUME NEW n \in Name, Emit(<<Emitted(n, c)>>), finalize(None)
      PROVE  HandlesOK' /\ status' \in Status /\ view' \in View
  <2>1. Emitted(n, c) \in S
    BY <1>1, <1>2
  <2>2. <<Emitted(n, c)>> \in Seq(S)
    BY <2>1
  <2> QED
    BY <1>3, <1>6, <2>2
<1>7. CASE Fill(c)
  BY <1>2, <1>6, <1>7 DEF Fill
<1>8. CASE Close(c, name)
  BY <1>6, <1>8 DEF Close
<1>9. CASE AbortSignal(name)
  <2>1. refetchTimers + 1 \in Nat
    OBVIOUS
  <2> QED
    BY <1>9, <2>1, CleanupTyped DEF AbortSignal, Status
<1> QED
  BY <1>4, <1>5, <1>7, <1>8, <1>9 DEF handleSignal

\* Each step keeps the types.
LEMMA NextTyped == TypeOK /\ [Next]_vars => TypeOK'
<1> SUFFICES ASSUME TypeOK, [Next]_vars
             PROVE  TypeOK'
  OBVIOUS
<1> USE TypeParts DEF Parts
<1>1. ASSUME NEW replies \in SUBSET (FetchReply \cup MutateReply), Request(replies)
      PROVE  TypeOK'
  BY <1>1, CleanupTyped, SendTyped DEF Request, Status
<1>2. ASSUME NEW c \in Call, ReplyFailed(c) \/ ReplyConfirmed(c) \/ ReplySpeculative(c)
      PROVE  TypeOK'
  <2>1. pending' \subseteq Call /\ UNCHANGED <<calls, reply, inbound, refetchTimers, disturbed>>
    BY <1>2 DEF ReplyFailed, ReplyConfirmed, ReplySpeculative, Handle, RequestsOK
  <2>2. RequestsOK'
    BY <2>1 DEF RequestsOK
  <2>3. Show(c) => view' \in View
    BY DEF Show, View, CallOrNone
  <2>4. CASE ReplyFailed(c) \/ ReplyConfirmed(c)
    BY <2>1, <2>2, <2>3, <2>4 DEF ReplyFailed, ReplyConfirmed, resolver, HandlesOK, Status
  <2>5. CASE ReplySpeculative(c)
    <3>1. reply[c].deferred \in BOOLEAN
      BY RepliesTyped DEF RequestsOK
    <3>2. HandlesOK' /\ deferredFields' \in BOOLEAN
      BY <2>5, <3>1 DEF ReplySpeculative, startTimeout, HandlesOK, CallOrNone
    <3> QED
      BY <2>1, <2>2, <2>3, <2>5, <3>2 DEF ReplySpeculative, Status
  <2> QED
    BY <1>2, <2>4, <2>5
<1>3. ASSUME NEW c \in Call, NEW i \in DOMAIN inbound[c], Take(c, i)
      PROVE  inbound' \in [Call -> Seq(Name)] /\ inbound[c][i] \in Name
  <2>1. inbound[c] \in Seq(Name)
    BY DEF RequestsOK
  <2>2. RemoveAt(inbound[c], i) \in Seq(Name)
    BY <2>1, RemoveAtType
  <2> QED
    BY <1>3, <2>1, <2>2 DEF Take, RequestsOK
<1>4. ASSUME NEW c \in Call, NEW i \in DOMAIN inbound[c],
             Deliver(c, i) \/ Discard(c, i) \/ Lose(c, i)
      PROVE  TypeOK'
  <2>1. inbound' \in [Call -> Seq(Name)] /\ inbound[c][i] \in Name
    BY <1>3, <1>4 DEF Deliver, Discard, Lose
  <2>2. CASE Deliver(c, i)
    <3>1. /\ HandlesOK' /\ status' \in Status /\ view' \in View
          /\ refetchTimers' \in Nat /\ UNCHANGED <<deferredFields, requests, disturbed>>
      BY <2>1, <2>2, HandleSignalTyped DEF Deliver
    <3> QED
      BY <2>1, <3>1 DEF requests, RequestsOK
  <2>3. CASE Discard(c, i) \/ Lose(c, i)
    <3>1. UNCHANGED <<resolver, status, refetchTimers, requests, view>>
          /\ disturbed' \subseteq Call
      BY <2>3 DEF Discard, Lose
    <3> QED
      BY <2>1, <3>1 DEF resolver, requests, RequestsOK, HandlesOK
  <2> QED
    BY <1>4, <2>2, <2>3
<1>5. CASE ConnectionLost
  BY <1>5, CleanupTyped DEF ConnectionLost, requests, RequestsOK, Status
<1>6. ASSUME NEW c \in Call, MaxWindow(c)
      PROVE  TypeOK'
  <2>1. HandlesOK' /\ UNCHANGED <<deferredFields, refetchTimers, view, disturbed>>
    BY <1>6, CleanupTyped DEF MaxWindow
  <2>2. RequestsOK' /\ status' \in Status
    BY <1>6, SendTyped DEF MaxWindow, Abandon, SendFetch, requests, RequestsOK, Status
  <2> QED
    BY <2>1, <2>2
<1>7. ASSUME NEW c \in Call, FillWindow(c)
      PROVE  TypeOK'
  <2>1. Emitted("FILL", pendingFill) \in [name : Name, call : CallOrNone]
    BY DEF Emitted, Name, HandlesOK
  <2>2. <<Emitted("FILL", pendingFill)>> \in Seq([name : Name, call : CallOrNone])
    BY <2>1
  <2>3. view' \in View
    BY <1>7, <2>2, EmitTyped DEF FillWindow, EmitHeldFill
  <2>4. /\ HandlesOK' /\ status' \in Status /\ disturbed' \subseteq Call
        /\ UNCHANGED <<deferredFields, refetchTimers, requests, inbound>>
    BY <1>7, CleanupTyped DEF FillWindow, EmitHeldFill, finalize, Status
  <2> QED
    BY <2>3, <2>4 DEF requests, RequestsOK
<1>8. CASE refetch
  <2>1. HandlesOK' /\ UNCHANGED <<deferredFields, view, disturbed>> /\ status' \in Status
    BY <1>8, CleanupTyped DEF refetch, SendFetch, Status
  <2>2. RequestsOK'
    BY <1>8, SendTyped DEF refetch, SendFetch
  <2>3. refetchTimers' \in Nat
    BY <1>8 DEF refetch
  <2> QED
    BY <2>1, <2>2, <2>3
<1>9. CASE UNCHANGED vars
  BY <1>9 DEF vars, resolver, requests, HandlesOK, RequestsOK
<1> QED
  BY <1>1, <1>2, <1>4, <1>5, <1>6, <1>7, <1>8, <1>9 DEF Next, fetch, mutate

\* Initially.
LEMMA InitTyped == Init => TypeOK
<1> SUFFICES ASSUME Init PROVE TypeOK
  OBVIOUS
<1>1. <<>> \in Seq(Name) /\ 0 \in 0 .. MaxCalls
  BY ResolverAssumption
<1>2. Reply("failed", FALSE, <<>>) \in FetchReply
  BY DEF FetchReply, PlainReply
<1>3. RequestsOK
  BY <1>1, <1>2, Zenon DEF Init, RequestsOK
<1>4. HandlesOK /\ status \in Status /\ deferredFields \in BOOLEAN
      /\ disturbed \subseteq Call /\ refetchTimers \in Nat
  BY DEF Init, HandlesOK, Status, CallOrNone
<1>5. view \in View
  BY DEF Init, View, CallOrNone
<1> QED
  BY <1>3, <1>4, <1>5, TypeParts DEF Parts

\* Every variable always has its type, whether calls overlap or not.
THEOREM TypeCorrect == Spec => []TypeOK
BY InitTyped, NextTyped, PTL DEF Spec

-----------------------------------------------------------------------------
(***************************************************************************)
(* What is settled stays as it is: only a reply touches what a resolver    *)
(* shows that does not speculate, and a reply brings a view of its own,    *)
(* since what is shown is no longer pending.                               *)
(***************************************************************************)

FreshCalls ==
  /\ pending \subseteq 1 .. calls
  /\ view.of \in 0 .. calls
  /\ view.of \notin pending

\* Emitting leaves the view with its call.
LEMMA EmitKeepsCall ==
  ASSUME view \in View, NEW seq, Emit(seq)
  PROVE  view'.of = view.of /\ view'.signals = view.signals \o seq
BY DEF Emit, View

LEMMA HandleSignalKeepsCall ==
  ASSUME view \in View, NEW c, NEW name, handleSignal(c, name)
  PROVE  view'.of = view.of
<1>1. UNCHANGED view \/ \E seq : Emit(seq)
  BY DEF handleSignal, Patch, HoldFill, Fill, Close, AbortSignal
<1> QED
  BY <1>1, EmitKeepsCall

LEMMA SendFresh ==
  ASSUME TypeOK, FreshCalls, NEW replies, Send(replies), UNCHANGED view
  PROVE  FreshCalls'
<1>1. calls \in Nat
  BY ResolverAssumption DEF TypeOK
<1>2. \/ calls' = calls + 1 /\ pending' = pending \cup {calls + 1}
      \/ UNCHANGED <<calls, pending>>
  BY DEF Send, requests
<1>3. /\ 1 .. calls \subseteq 1 .. calls + 1 /\ calls + 1 \in 1 .. calls + 1
      /\ 0 .. calls \subseteq 0 .. calls + 1 /\ calls + 1 \notin 0 .. calls
  BY <1>1
<1> QED
  BY <1>2, <1>3 DEF FreshCalls

LEMMA ReplyFresh ==
  ASSUME FreshCalls, NEW c \in Call,
         ReplyFailed(c) \/ ReplyConfirmed(c) \/ ReplySpeculative(c)
  PROVE  FreshCalls'
<1>1. c \in pending /\ pending' = pending \ {c} /\ UNCHANGED calls
  BY DEF ReplyFailed, ReplyConfirmed, ReplySpeculative, Handle
<1>2. UNCHANGED view \/ view'.of = c
  BY DEF ReplyFailed, ReplyConfirmed, ReplySpeculative, Show
<1>3. c \in 1 .. calls /\ 1 .. calls \subseteq 0 .. calls
  <2>1. 1 .. calls \subseteq 0 .. calls
    BY DEF FreshCalls
  <2> QED
    BY <1>1, <2>1 DEF FreshCalls
<1> QED
  BY <1>1, <1>2, <1>3 DEF FreshCalls

\* Nothing else sends or answers requests, or shows another call.
LEMMA OtherFresh ==
  ASSUME FreshCalls, UNCHANGED requests, view'.of = view.of
  PROVE  FreshCalls'
BY DEF FreshCalls, requests

LEMMA NextFresh == TypeOK /\ FreshCalls /\ [Next]_vars => FreshCalls'
<1> SUFFICES ASSUME TypeOK, FreshCalls, [Next]_vars
             PROVE  FreshCalls'
  OBVIOUS
<1>1. view \in View
  BY DEF TypeOK
<1>2. CASE fetch \/ mutate \/ refetch
  BY <1>2, SendFresh DEF fetch, mutate, Request, refetch, SendFetch
<1>3. ASSUME NEW c \in Call, NEW i, Deliver(c, i)
      PROVE  FreshCalls'
  <2>1. UNCHANGED requests
    BY <1>3 DEF Deliver, handleSignal, Patch, HoldFill, Fill, Close, AbortSignal
  <2> QED
    BY <1>1, <1>3, <2>1, HandleSignalKeepsCall, OtherFresh DEF Deliver
<1>4. ASSUME NEW c \in Call, NEW i, Discard(c, i) \/ Lose(c, i)
      PROVE  FreshCalls'
  BY <1>4, OtherFresh DEF Discard, Lose
<1>5. CASE ConnectionLost
  BY <1>5, OtherFresh DEF ConnectionLost
<1>6. ASSUME NEW c \in Call, MaxWindow(c)
      PROVE  FreshCalls'
  BY <1>6, SendFresh, OtherFresh DEF MaxWindow, Abandon, SendFetch
<1>7. ASSUME NEW c \in Call, FillWindow(c)
      PROVE  FreshCalls'
  BY <1>1, <1>7, EmitKeepsCall, OtherFresh DEF FillWindow, EmitHeldFill
<1>8. CASE UNCHANGED vars
  BY <1>8, OtherFresh DEF vars
<1> QED
  BY <1>2, <1>3, <1>4, <1>5, <1>6, <1>7, <1>8, ReplyFresh DEF Next

\* A resolver that does not speculate has no handler that could emit, nor a timer.
LEMMA SettledStep ==
  IInv /\ FreshCalls /\ [Next]_vars =>
    (~Speculating /\ view'.of = view.of => view' = view)
<1> SUFFICES ASSUME IInv, FreshCalls, [Next]_vars, ~Speculating, view'.of = view.of
             PROVE  view' = view
  OBVIOUS
<1>1. handlers = {} /\ maxTimers = {} /\ fillTimers = {}
  BY DEF IInv, NothingLeftBehind, Speculating
<1>2. CASE fetch \/ mutate \/ refetch
  BY <1>2 DEF fetch, mutate, Request, refetch
<1>3. ASSUME NEW c \in Call, ReplyFailed(c) \/ ReplyConfirmed(c) \/ ReplySpeculative(c)
      PROVE  view' = view
  <2>1. c # view.of
    BY <1>3 DEF ReplyFailed, ReplyConfirmed, ReplySpeculative, Handle, FreshCalls
  <2> QED
    BY <1>3, <2>1 DEF ReplyFailed, ReplyConfirmed, ReplySpeculative, Show
<1>4. ASSUME NEW c \in Call, NEW i, Discard(c, i) \/ Lose(c, i)
      PROVE  view' = view
  BY <1>4 DEF Discard, Lose
<1>5. ASSUME NEW c \in Call, NEW i, Deliver(c, i) \/ ConnectionLost
      PROVE  view' = view
  BY <1>1, <1>5 DEF Deliver, ConnectionLost
<1>6. ASSUME NEW c \in Call, MaxWindow(c) \/ FillWindow(c)
      PROVE  view' = view
  BY <1>1, <1>6 DEF MaxWindow, FillWindow, EmitHeldFill
<1>7. CASE UNCHANGED vars
  BY <1>7 DEF vars
<1> QED
  BY <1>2, <1>3, <1>4, <1>5, <1>6, <1>7 DEF Next, ConnectionLost

LEMMA InitFresh == Init => FreshCalls
BY DEF Init, FreshCalls, None

\* What such a resolver has confirmed, or given up, no signal and no timer revises: a
\* late one finds nothing of it.
THEOREM SettledStays == ASSUME ~Overlap PROVE Spec => SettledIsFinal
<1>1. IInv /\ [Next]_vars => IInv'
  BY NextIInv
<1>2. Init => TypeOK
  BY InitTyped
<1>3. IInv /\ FreshCalls /\ [Next]_vars =>
        [~Speculating /\ view'.of = view.of => view' = view]_vars
  BY SettledStep
<1> QED
  BY <1>1, <1>2, <1>3, InitIInv, InitFresh, NextTyped, NextFresh, PTL
     DEF Spec, SettledIsFinal

-----------------------------------------------------------------------------
(***************************************************************************)
(* What a confirmed resolver has emitted.  Of a call none of whose signals *)
(* was disturbed, what has been emitted, what is held back and what is     *)
(* under way make up what the proxy sent (Progress); only the two signals  *)
(* of PATCH and FILL can come in another order.                            *)
(***************************************************************************)

PatchFill == <<"PATCH", "FILL">>

Progress ==
  LET c == view.of
      sent == reply[view.of].signals
  IN  \/ /\ status = "speculative" /\ pendingFill = None
         /\ view.signals = <<>> /\ inbound[c] = sent
      \/ /\ status = "speculative" /\ pendingFill = c
         /\ view.signals = <<>> /\ sent = <<"FILL">> /\ inbound[c] = <<>>
      \/ /\ status = "speculative" /\ pendingFill = c
         /\ view.signals = <<>> /\ sent = PatchFill /\ inbound[c] = <<"PATCH">>
      \/ /\ status = "patching" /\ pendingFill = None
         /\ view.signals = <<Emitted("PATCH", c)>> /\ sent = PatchFill
         /\ inbound[c] = <<"FILL">>

\* The resolver knows whether a FILL is due.
KnowsDeferred ==
  \/ reply[view.of].state = "speculative" /\ deferredFields = reply[view.of].deferred
  \/ reply[view.of].state = "provisional"

Complete ==
  /\ \A c \in pending \ disturbed : inbound[c] = reply[c].signals
  /\ Speculating => KnowsDeferred
  /\ Speculating /\ view.of \notin disturbed => Progress
  /\ status = "confirmed" => view.of # None
  /\ ConfirmedIsComplete

\* What can be sent with each kind of reply.
LEMMA RepliesShaped ==
  \A r \in FetchReply \cup MutateReply :
    /\ r.state = "confirmed" => r.signals = <<>>
    /\ r.state = "speculative" =>
         r.signals \in Closing \cup
           (IF r.deferred THEN {<<"FILL">>, PatchFill} ELSE {<<"CONFIRM">>, <<"PATCH">>})
    /\ r.state = "provisional" => r.signals \in Closing \cup {<<"CONFIRM">>}
<1> DEFINE Plain == Closing \cup {<<"CONFIRM">>, <<"PATCH">>}
           Filled == Closing \cup {<<"FILL">>, PatchFill}
           Writes == Closing \cup {<<"CONFIRM">>}
<1>1. ASSUME NEW r \in FetchReply \cup MutateReply
      PROVE  \/ r = Reply("failed", FALSE, <<>>)
             \/ r = Reply("confirmed", FALSE, <<>>)
             \/ \E s \in Plain : r = Reply("speculative", FALSE, s)
             \/ \E s \in Filled : r = Reply("speculative", TRUE, s)
             \/ \E s \in Writes : r = Reply("provisional", FALSE, s)
  <2>1. r \in PlainReply =>
          r = Reply("failed", FALSE, <<>>) \/ r = Reply("confirmed", FALSE, <<>>)
    BY DEF PlainReply
  <2>2. <<"ABORT">> \in Writes /\ <<"RETRYABLE ABORT">> \in Writes /\ <<"CONFIRM">> \in Writes
    BY DEF Closing
  <2>3. \A s \in {<<"CONFIRM">>, <<"ABORT">>, <<"RETRYABLE ABORT">>} : s \in Writes
    BY <2>2, Zenon
  <2> HIDE DEF Writes
  <2>4. r \in MutateReply => r \in PlainReply \/ \E s \in Writes : r = Reply("provisional", FALSE, s)
    BY <2>3, Zenon DEF MutateReply
  <2>5. r \in FetchReply =>
          \/ r \in PlainReply
          \/ \E s \in Plain : r = Reply("speculative", FALSE, s)
          \/ \E s \in Filled : r = Reply("speculative", TRUE, s)
    BY Zenon DEF FetchReply, PatchFill
  <2> QED
    BY <2>1, <2>4, <2>5, Zenon
<1> HIDE DEF Plain, Filled, Writes
<1>2. ASSUME NEW r \in FetchReply \cup MutateReply
      PROVE  /\ r.state = "confirmed" => r.signals = <<>>
             /\ r.state = "speculative" => r.signals \in (IF r.deferred THEN Filled ELSE Plain)
             /\ r.state = "provisional" => r.signals \in Writes
  BY <1>1 DEF Reply
<1> QED
  BY <1>2 DEF Plain, Filled, Writes

\* Equal sequences of one and of two elements.
LEMMA SingleEqual ==
  ASSUME NEW S, NEW s \in Seq(S), NEW t \in Seq(S), Len(s) = 1, Len(t) = 1, s[1] = t[1]
  PROVE  s = t
OBVIOUS

LEMMA PairEqual ==
  ASSUME NEW S, NEW s \in Seq(S), NEW t \in Seq(S), Len(s) = 2, Len(t) = 2,
         s[1] = t[1], s[2] = t[2]
  PROVE  s = t
OBVIOUS

\* Putting two together.
LEMMA ConcatSingles ==
  ASSUME NEW a, NEW b
  PROVE  <<a>> \o <<b>> = <<a, b>> /\ <<>> \o <<a, b>> = <<a, b>>
<1> DEFINE S == {a, b}
           s == <<a>> \o <<b>>
           t == <<a, b>>
<1>1. t \in Seq(S) /\ Len(t) = 2 /\ t[1] = a /\ t[2] = b
  OBVIOUS
<1>2. <<a>> \in Seq(S) /\ <<b>> \in Seq(S) /\ Len(<<a>>) = 1 /\ Len(<<b>>) = 1
      /\ <<a>>[1] = a /\ <<b>>[1] = b
  OBVIOUS
<1>3. s \in Seq(S) /\ Len(s) = 2 /\ s[1] = a /\ s[2] = b
  BY <1>2
<1> HIDE DEF S, s, t
<1>4. s = t
  BY <1>1, <1>3, PairEqual
<1>5. <<>> \o t = t
  BY <1>1
<1> QED
  BY <1>4, <1>5 DEF s, t

\* Taking one out of one or two.
LEMMA RemoveFromOne == ASSUME NEW a PROVE RemoveAt(<<a>>, 1) = <<>>
<1>1. RemoveAt(<<a>>, 1) = SubSeq(<<a>>, 1, 1 - 1) \o SubSeq(<<a>>, 1 + 1, Len(<<a>>))
  BY Zenon DEF RemoveAt
<1>2. SubSeq(<<a>>, 1, 0) = <<>> /\ SubSeq(<<a>>, 2, 1) = <<>> /\ Len(<<a>>) = 1
  OBVIOUS
<1>3. 1 - 1 = 0 /\ 1 + 1 = 2 /\ <<>> \o <<>> = <<>>
  OBVIOUS
<1> QED
  BY <1>1, <1>2, <1>3, Zenon

LEMMA RemoveFromTwo ==
  ASSUME NEW a, NEW b
  PROVE  RemoveAt(<<a, b>>, 1) = <<b>> /\ RemoveAt(<<a, b>>, 2) = <<a>>
<1> DEFINE S == {a, b}
           s == <<a, b>>
<1>1. s \in Seq(S) /\ <<a>> \in Seq(S) /\ <<b>> \in Seq(S) /\ Len(s) = 2
      /\ s[1] = a /\ s[2] = b
  OBVIOUS
<1>2. Len(<<a>>) = 1 /\ Len(<<b>>) = 1 /\ <<a>>[1] = a /\ <<b>>[1] = b
  OBVIOUS
<1> HIDE DEF S, s
<1>3. /\ SubSeq(s, 1, 0) = <<>> /\ SubSeq(s, 3, 2) = <<>>
      /\ SubSeq(s, 2, 2) \in Seq(S) /\ Len(SubSeq(s, 2, 2)) = 1 /\ SubSeq(s, 2, 2)[1] = b
      /\ SubSeq(s, 1, 1) \in Seq(S) /\ Len(SubSeq(s, 1, 1)) = 1 /\ SubSeq(s, 1, 1)[1] = a
  BY <1>1
<1>4. SubSeq(s, 2, 2) = <<b>> /\ SubSeq(s, 1, 1) = <<a>>
  BY <1>1, <1>2, <1>3, SingleEqual
<1>5. /\ RemoveAt(s, 1) = SubSeq(s, 1, 1 - 1) \o SubSeq(s, 1 + 1, Len(s))
      /\ RemoveAt(s, 2) = SubSeq(s, 1, 2 - 1) \o SubSeq(s, 2 + 1, Len(s))
  BY Zenon DEF RemoveAt
<1>6. 1 - 1 = 0 /\ 1 + 1 = 2 /\ 2 - 1 = 1 /\ 2 + 1 = 3
      /\ <<>> \o <<b>> = <<b>> /\ <<a>> \o <<>> = <<a>>
  OBVIOUS
<1>7. RemoveAt(s, 1) = <<b>> /\ RemoveAt(s, 2) = <<a>>
  BY <1>1, <1>3, <1>4, <1>5, <1>6, Zenon
<1> QED
  BY <1>7 DEF s

Names(signals) == [i \in DOMAIN signals |-> signals[i].name]

\* The names of what was emitted.
LEMMA NamesOfEmitted ==
  ASSUME NEW c
  PROVE  /\ Names(<<>>) = <<>>
         /\ \A n : Names(<<Emitted(n, c)>>) = <<n>>
         /\ \A n, m : Names(<<Emitted(n, c), Emitted(m, c)>>) = <<n, m>>
<1>1. Names(<<>>) = <<>>
  BY DEF Names
<1>2. ASSUME NEW n PROVE Names(<<Emitted(n, c)>>) = <<n>>
  BY DEF Names, Emitted
<1>3. ASSUME NEW n, NEW m PROVE Names(<<Emitted(n, c), Emitted(m, c)>>) = <<n, m>>
  BY DEF Names, Emitted
<1> QED
  BY <1>1, <1>2, <1>3

\* Whatever goes on, an answer that has not been handled has its signals to come.
Unhandled == \A c \in pending \ disturbed : inbound[c] = reply[c].signals

LEMMA SendUnhandled ==
  ASSUME TypeOK, FreshCalls, Unhandled, NEW replies, Send(replies), UNCHANGED disturbed
  PROVE  Unhandled'
<1>1. CASE calls < MaxCalls
  <2>1. PICK r \in replies :
          /\ calls' = calls + 1
          /\ pending' = pending \cup {calls + 1}
          /\ reply' = [reply EXCEPT ![calls + 1] = r]
          /\ inbound' = [inbound EXCEPT ![calls + 1] = r.signals]
    BY <1>1 DEF Send
  <2>2. calls + 1 \in Call /\ calls + 1 \notin pending /\ pending \subseteq Call
    BY <1>1, ResolverAssumption DEF TypeOK, FreshCalls, Call
  <2>3. reply'[calls + 1] = r /\ inbound'[calls + 1] = r.signals
        /\ \A c \in pending : reply'[c] = reply[c] /\ inbound'[c] = inbound[c]
    BY <2>1, <2>2 DEF TypeOK
  <2> QED
    BY <2>1, <2>3 DEF Unhandled
<1>2. CASE ~(calls < MaxCalls)
  BY <1>2 DEF Send, requests, Unhandled
<1> QED
  BY <1>1, <1>2

\* Without a speculation and a confirmation there is nothing more to it.
LEMMA QuietComplete ==
  ASSUME Unhandled', status' \in {"idle", "error"}
  PROVE  Complete'
BY DEF Complete, Unhandled, Speculating, ConfirmedIsComplete

\* A reply that needs no signal is confirmed with none; another starts to speculate
\* with all of them under way.
LEMMA ReplyComplete ==
  ASSUME IInv, TypeOK, Complete, NEW c \in Call,
         ReplyFailed(c) \/ ReplyConfirmed(c) \/ ReplySpeculative(c)
  PROVE  Complete'
<1>1. c \in pending /\ pending' = pending \ {c} /\ UNCHANGED <<reply, inbound, disturbed>>
  BY DEF ReplyFailed, ReplyConfirmed, ReplySpeculative, Handle
<1>2. Unhandled'
  BY <1>1 DEF Complete, Unhandled
<1>3. CASE ReplyFailed(c)
  BY <1>2, <1>3, QuietComplete DEF ReplyFailed
<1>4. c # None /\ c \in Call /\ reply[c] \in FetchReply \cup MutateReply
  BY DEF TypeOK, Call, None
<1>5. CASE ReplyConfirmed(c)
  <2>1. reply[c].signals = <<>>
    BY <1>4, <1>5, RepliesShaped DEF ReplyConfirmed
  <2>2. view'.of = c /\ view'.signals = <<>> /\ status' = "confirmed"
    BY <1>5 DEF ReplyConfirmed, Show
  <2>3. Names(view'.signals) = <<>>
    BY <2>2, NamesOfEmitted
  <2> QED
    BY <1>1, <1>2, <1>4, <2>1, <2>2, <2>3
       DEF Complete, Unhandled, Speculating, ConfirmedIsComplete, Names
<1>6. CASE ReplySpeculative(c)
  <2>1. /\ view'.of = c /\ view'.signals = <<>> /\ status' = "speculative"
        /\ UNCHANGED pendingFill
        /\ reply[c].state \in {"speculative", "provisional"}
        /\ reply[c].state = "speculative" => deferredFields' = reply[c].deferred
    BY <1>6 DEF ReplySpeculative, Show
  <2>2. pendingFill = None
    BY <1>1 DEF IInv, NothingLeftBehind, OneAtATime, Speculating
  <2>3. KnowsDeferred'
    BY <1>1, <2>1 DEF KnowsDeferred
  <2>4. c \notin disturbed => Progress'
    BY <1>1, <2>1, <2>2 DEF Progress, Complete
  <2> QED
    BY <1>1, <1>2, <2>1, <2>3, <2>4
       DEF Complete, Unhandled, Speculating, ConfirmedIsComplete
<1> QED
  BY <1>3, <1>5, <1>6

\* Signals that reach no handler were for another call, or lost.
LEMMA UnheardComplete ==
  ASSUME IInv, TypeOK, Complete, NEW c \in Call, NEW i, Discard(c, i) \/ Lose(c, i)
  PROVE  Complete'
<1>1. /\ UNCHANGED <<status, pendingFill, deferredFields, pending, reply, view>>
      /\ inbound' = [inbound EXCEPT ![c] = RemoveAt(@, i)]
      /\ disturbed \subseteq disturbed'
  BY DEF Discard, Lose, resolver, requests, Take
<1>2. \A d \in Call \ {c} : inbound'[d] = inbound[d]
  BY <1>1 DEF TypeOK
<1>3. c \in pending \/ (Speculating /\ c = view.of) => c \in disturbed'
  BY DEF Discard, Lose, IInv, NothingLeftBehind, HandlesOfView
<1>4. pending \subseteq Call /\ (Speculating => view.of \in Call)
  BY DEF TypeOK, IInv, HandlesOfView, View, CallOrNone
<1>5. Unhandled'
  BY <1>1, <1>2, <1>3, <1>4 DEF Complete, Unhandled
<1>6. Speculating /\ view.of \notin disturbed' => Progress'
  <2> SUFFICES ASSUME Speculating, view.of \notin disturbed'
               PROVE  Progress'
    OBVIOUS
  <2>1. inbound'[view.of] = inbound[view.of] /\ Progress
    BY <1>1, <1>2, <1>3, <1>4 DEF Complete
  <2> QED
    BY <1>1, <2>1 DEF Progress
<1> QED
  BY <1>1, <1>5, <1>6
     DEF Complete, Unhandled, Speculating, KnowsDeferred, ConfirmedIsComplete

\* The FILL that is emitted after its 50 ms was the only signal, or the call counts
\* as disturbed.
LEMMA FillWindowComplete ==
  ASSUME IInv, TypeOK, Complete, NEW c \in Call, FillWindow(c)
  PROVE  Complete'
<1>1. pendingFill # None /\ c = view.of /\ pendingFill = c /\ Speculating /\ pending = {}
  BY DEF FillWindow, EmitHeldFill, IInv, NothingLeftBehind, HandlesOfView, Speculating,
         OneAtATime
<1>2. /\ status' = "confirmed" /\ UNCHANGED <<pending, reply, inbound>>
      /\ Emit(<<Emitted("FILL", c)>>)
      /\ disturbed' = IF inbound[c] # <<>> THEN disturbed \cup {c} ELSE disturbed
  BY <1>1 DEF FillWindow, EmitHeldFill, finalize, requests
<1>3. view'.of = c /\ view'.signals = view.signals \o <<Emitted("FILL", c)>>
  BY <1>1, <1>2, EmitKeepsCall DEF IInv
<1>4. c \notin disturbed' => Names(view'.signals) = reply[c].signals
  <2> SUFFICES ASSUME c \notin disturbed'
               PROVE  Names(view'.signals) = reply[c].signals
    OBVIOUS
  <2>1. inbound[c] = <<>> /\ Progress
    BY <1>1, <1>2 DEF Complete
  <2>2. view.signals = <<>> /\ reply[c].signals = <<"FILL">>
    BY <1>1, <2>1 DEF Progress
  <2>3. view'.signals = <<Emitted("FILL", c)>>
    BY <1>3, <2>2
  <2> QED
    BY <2>2, <2>3, NamesOfEmitted
<1> QED
  BY <1>1, <1>2, <1>3, <1>4
     DEF Complete, Speculating, ConfirmedIsComplete, Names

\* A signal that reaches its handler is emitted or held back, and the last one ends the
\* speculation.
LEMMA DeliverComplete ==
  ASSUME IInv, TypeOK, Complete, NEW c \in Call, NEW i \in DOMAIN inbound[c], Deliver(c, i)
  PROVE  Complete'
<1> DEFINE sent == reply[c].signals
           name == inbound[c][i]
           Outcome == \/ status' = "confirmed" /\ Names(view'.signals) = sent
                      \/ Speculating' /\ Progress'
                      \/ status' = "error"
<1>1. Speculating /\ c = view.of /\ c # None /\ pending = {} /\ view \in View
  BY DEF Deliver, IInv, NothingLeftBehind, HandlesOfView, OneAtATime
<1>2. /\ UNCHANGED <<deferredFields, pending, reply, disturbed>>
      /\ inbound'[c] = RemoveAt(inbound[c], i)
      /\ handleSignal(c, name)
  BY DEF Deliver, handleSignal, Patch, HoldFill, Fill, Close, AbortSignal, requests, Take,
         TypeOK
<1>3. view'.of = c
  BY <1>1, <1>2, HandleSignalKeepsCall
<1>4. KnowsDeferred /\ KnowsDeferred'
  BY <1>1, <1>2, <1>3 DEF Complete, KnowsDeferred
<1>5. ASSUME c \notin disturbed
      PROVE  Outcome
  <2>1. Progress /\ reply[c] \in FetchReply \cup MutateReply
    BY <1>1, <1>5 DEF Complete, TypeOK
  <2>2. ASSUME NEW n \in Name, Emit(<<Emitted(n, c)>>), finalize(None),
               view.signals = <<>>, sent = <<n>>
        PROVE  status' = "confirmed" /\ Names(view'.signals) = sent
    <3>1. view'.signals = view.signals \o <<Emitted(n, c)>>
      BY <1>1, <2>2, EmitKeepsCall
    <3>2. view'.signals = <<Emitted(n, c)>>
      BY <2>2, <3>1
    <3> QED
      BY <2>2, <3>2, NamesOfEmitted DEF finalize
  <2>3. ASSUME status = "speculative", pendingFill = None, view.signals = <<>>,
               inbound[c] = sent, NEW n \in Name, sent = <<n>>,
               n = "PATCH" => ~deferredFields
        PROVE  Outcome
    <3>1. i = 1 /\ name = n /\ inbound'[c] = <<>>
      BY <1>2, <2>3, RemoveFromOne
    <3> HIDE DEF name
    <3>2. CASE Patch(c) /\ n = "PATCH"
      BY <2>2, <2>3, <3>2 DEF Patch
    <3>3. CASE HoldFill(c) /\ n = "FILL"
      BY <1>1, <1>2, <1>3, <2>3, <3>1, <3>3 DEF HoldFill, Progress, Speculating
    <3>4. CASE Close(c, name) /\ n \in {"CONFIRM", "REPLACE"}
      BY <2>2, <2>3, <3>1, <3>4 DEF Close
    <3>5. CASE AbortSignal(name)
      BY <3>5 DEF AbortSignal
    <3> QED
      BY <1>2, <2>3, <3>1, <3>2, <3>3, <3>4, <3>5 DEF handleSignal, Fill
  <2>4. ASSUME status = "speculative", pendingFill = None, view.signals = <<>>,
               inbound[c] = sent, sent = PatchFill, deferredFields
        PROVE  Outcome
    <3>1. DOMAIN sent = {1, 2} /\ sent[1] = "PATCH" /\ sent[2] = "FILL"
      BY <2>4 DEF PatchFill
    <3>2. CASE i = 1
      <4>1. name = "PATCH" /\ inbound'[c] = <<"FILL">>
        BY <1>2, <2>4, <3>1, <3>2, RemoveFromTwo DEF PatchFill
      <4> HIDE DEF name
      <4>2. Patch(c)
        BY <1>2, <4>1 DEF handleSignal
      <4>3. Emit(<<Emitted("PATCH", c)>>) /\ status' = "patching" /\ UNCHANGED pendingFill
        BY <2>4, <4>2 DEF Patch
      <4>4. view'.signals = view.signals \o <<Emitted("PATCH", c)>>
        BY <1>1, <4>3, EmitKeepsCall
      <4>5. view'.signals = <<Emitted("PATCH", c)>>
        BY <2>4, <4>4
      <4> QED
        BY <1>2, <1>3, <2>4, <4>1, <4>3, <4>5 DEF Progress, Speculating
    <3>3. CASE i = 2
      <4>1. name = "FILL" /\ inbound'[c] = <<"PATCH">>
        BY <1>2, <2>4, <3>1, <3>3, RemoveFromTwo DEF PatchFill
      <4> HIDE DEF name
      <4>2. HoldFill(c)
        BY <1>2, <2>4, <4>1 DEF handleSignal, Fill
      <4> QED
        BY <1>2, <1>3, <2>4, <4>1, <4>2 DEF HoldFill, Progress, Speculating
    <3> QED
      BY <2>4, <3>1, <3>2, <3>3
  <2>5. ASSUME pendingFill = c, view.signals = <<>>, sent = PatchFill,
               inbound[c] = <<"PATCH">>
        PROVE  Outcome
    <3>1. name = "PATCH"
      BY <2>5
    <3> HIDE DEF name
    <3>2. Patch(c)
      BY <1>2, <3>1 DEF handleSignal
    <3>3. Emit(<<Emitted("PATCH", c), Emitted("FILL", c)>>) /\ finalize(None)
      BY <1>1, <2>5, <3>2 DEF Patch
    <3>4. view'.signals = view.signals \o <<Emitted("PATCH", c), Emitted("FILL", c)>>
      BY <1>1, <3>3, EmitKeepsCall
    <3> DEFINE e == Emitted("PATCH", c)
               f == Emitted("FILL", c)
    <3>5. <<>> \o <<e, f>> = <<e, f>>
      BY ConcatSingles
    <3>6. view'.signals = <<e, f>>
      BY <2>5, <3>4, <3>5
    <3> QED
      BY <2>5, <3>3, <3>6, NamesOfEmitted DEF PatchFill, finalize
  <2>6. ASSUME status = "patching", view.signals = <<Emitted("PATCH", c)>>,
               sent = PatchFill, inbound[c] = <<"FILL">>
        PROVE  Outcome
    <3>1. name = "FILL"
      BY <2>6
    <3> HIDE DEF name
    <3>2. Fill(c)
      BY <1>2, <2>6, <3>1 DEF handleSignal, HoldFill
    <3>3. Emit(<<Emitted("FILL", c)>>) /\ finalize(None)
      BY <3>2 DEF Fill
    <3>4. view'.signals = view.signals \o <<Emitted("FILL", c)>>
      BY <1>1, <3>3, EmitKeepsCall
    <3> DEFINE e == Emitted("PATCH", c)
               f == Emitted("FILL", c)
    <3>5. <<e>> \o <<f>> = <<e, f>>
      BY ConcatSingles
    <3>6. view'.signals = <<e, f>>
      BY <2>6, <3>4, <3>5
    <3> QED
      BY <2>6, <3>3, <3>6, NamesOfEmitted DEF PatchFill, finalize
  <2>7. ASSUME status = "speculative", pendingFill = None, view.signals = <<>>,
               inbound[c] = sent
        PROVE  Outcome
    <3>1. \/ sent = PatchFill /\ deferredFields
          \/ \E n \in Name : sent = <<n>> /\ (n = "PATCH" => ~deferredFields)
      <4>1. CASE reply[c].state = "speculative"
        <5>1. deferredFields = reply[c].deferred
          BY <1>1, <1>4, <4>1 DEF KnowsDeferred
        <5>2. sent \in Closing \cup
                (IF deferredFields THEN {<<"FILL">>, PatchFill} ELSE {<<"CONFIRM">>, <<"PATCH">>})
          BY <2>1, <4>1, <5>1, RepliesShaped
        <5> QED
          BY <5>2 DEF Closing, Name
      <4>2. CASE reply[c].state = "provisional"
        <5>1. sent \in Closing \cup {<<"CONFIRM">>}
          BY <2>1, <4>2, RepliesShaped
        <5> QED
          BY <5>1 DEF Closing, Name
      <4> QED
        BY <1>1, <1>4, <4>1, <4>2 DEF KnowsDeferred
    <3> QED
      BY <2>3, <2>4, <2>7, <3>1
  <2> QED
    BY <1>1, <2>1, <2>5, <2>6, <2>7 DEF Progress
<1> QED
  BY <1>1, <1>2, <1>3, <1>4, <1>5
     DEF Complete, Speculating, ConfirmedIsComplete, Names

LEMMA NextComplete ==
  IInv /\ TypeOK /\ FreshCalls /\ Complete /\ [Next]_vars => Complete'
<1> SUFFICES ASSUME IInv, TypeOK, FreshCalls, Complete, [Next]_vars
             PROVE  Complete'
  OBVIOUS
<1>1. Unhandled
  BY DEF Complete, Unhandled
<1>2. CASE fetch \/ mutate \/ refetch
  <2>1. status' = "idle" /\ UNCHANGED disturbed /\ \E replies : Send(replies)
    BY <1>2 DEF fetch, mutate, Request, refetch, SendFetch
  <2> QED
    BY <1>1, <2>1, SendUnhandled, QuietComplete
<1>3. CASE ConnectionLost
  BY <1>1, <1>3, QuietComplete DEF ConnectionLost, requests, Unhandled
<1>4. ASSUME NEW c \in Call, MaxWindow(c)
      PROVE  Complete'
  <2>1. /\ status' \in {"idle", "error"} /\ UNCHANGED disturbed
        /\ (\E replies : Send(replies)) \/ UNCHANGED <<requests, inbound>>
    BY <1>4 DEF MaxWindow, Abandon, SendFetch
  <2>2. Unhandled'
    BY <1>1, <2>1, SendUnhandled DEF Unhandled, requests
  <2> QED
    BY <2>1, <2>2, QuietComplete
<1>5. CASE UNCHANGED vars
  BY <1>5 DEF vars, resolver, requests, Complete, Progress, KnowsDeferred, Speculating,
              ConfirmedIsComplete
<1> QED
  BY <1>2, <1>3, <1>4, <1>5, ReplyComplete, UnheardComplete, FillWindowComplete,
     DeliverComplete DEF Next

\* Such a resolver confirms nothing of which it has not emitted all that the proxy sent,
\* in the proxy's order, unless the channel lost a signal or disordered them too much.
THEOREM ConfirmedComplete == ASSUME ~Overlap PROVE Spec => []ConfirmedIsComplete
<1>1. IInv /\ [Next]_vars => IInv'
  BY NextIInv
<1>2. Init => Complete
  BY DEF Init, Complete, Speculating, ConfirmedIsComplete
<1>3. Complete => ConfirmedIsComplete
  BY DEF Complete
<1> QED
  BY <1>1, <1>2, <1>3, InitIInv, InitTyped, InitFresh, NextTyped, NextFresh, NextComplete,
     PTL DEF Spec

=============================================================================
