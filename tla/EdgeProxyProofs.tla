--------------------------- MODULE EdgeProxyProofs ---------------------------
(***************************************************************************)
(* What EdgeProxy's signals and polls amount to, for any number of         *)
(* requests, streams and failures.                                         *)
(***************************************************************************)
EXTENDS EdgeProxy, TLAPS

Poll == [state : {"none", "asked", "answered"}, from : Nat, messages : Seq(Message)]

TasksOK ==
  /\ pc \in [Request -> Location]
  /\ log \in [Request -> Seq(Event)]
  /\ broken \subseteq Request \X Event
  /\ list \in Seq(Message)

StreamsOK ==
  /\ open \subseteq Stream
  /\ lastIndex \in [Stream -> Nat]
  /\ poll \in [Stream -> Poll]
  /\ delivered \in [Stream -> Seq(Message)]

\* What has been published for a request, by where its background task is.  A write's
\* ABORT follows a CONFIRM only if that failed halfway.
LogOfRead ==
  \A r \in Read :
    /\ pc[r] \in Location \ {"confirm", "confirm pushed", "abort", "abort pushed"}
    /\ pc[r] \in {"idle", "fetching", "storing", "patch"} => log[r] = <<>>
    /\ pc[r] \in {"patch pushed", "replace"} => log[r] = <<"patch">>
    /\ log[r] \in {<<>>, <<"patch">>, <<"patch", "replace">>}

LogOfWrite ==
  \A w \in Write :
    /\ pc[w] \in {"idle", "fetching", "confirm"} => Len(log[w]) = 0
    /\ pc[w] = "confirm pushed" => Len(log[w]) = 1
    /\ pc[w] = "abort" /\ Len(log[w]) > 0 => <<w, "confirm">> \in broken
    /\ pc[w] \in Location \ {"storing", "patch", "patch pushed", "replace", "replace pushed"}
    /\ Len(log[w]) > 1 => <<w, "confirm">> \in broken
    /\ pc[w] = "abort pushed" => Len(log[w]) > 0
    /\ pc[w] = "done" => Len(log[w]) > 0 \/ <<w, "abort">> \in broken

\* What a stream has been given, and what the answer of a poll will add to it.
Followed(s) ==
  /\ lastIndex[s] <= Len(list)
  /\ Len(delivered[s]) = lastIndex[s]
  /\ \A i \in 1 .. lastIndex[s] : delivered[s][i] = list[i]
  /\ poll[s].state # "none" => poll[s].from = lastIndex[s]
  /\ poll[s].state = "answered" =>
       /\ lastIndex[s] + Len(poll[s].messages) <= Len(list)
       /\ \A i \in 1 .. Len(poll[s].messages) :
            poll[s].messages[i] = list[lastIndex[s] + i]

Untouched(s) == lastIndex[s] = 0 /\ poll[s] = NoPoll

ListFollowed ==
  \A s \in Stream : Followed(s) /\ (s \notin open => Untouched(s))

\* Of a client whose streams do not overlap, the one interval is that of the one stream.
OneInterval ==
  ~overlapped =>
    /\ intervals = open
    /\ \A s, t \in open : s = t
    /\ \A s \in open : handle = s

IInv ==
  /\ TasksOK
  /\ StreamsOK
  /\ LogOfRead
  /\ LogOfWrite
  /\ ListFollowed
  /\ OneInterval

\* Initially.
LEMMA InitIInv == Init => IInv
<1> SUFFICES ASSUME Init PROVE IInv
  OBVIOUS
<1>1. <<>> \in Seq(Event) /\ <<>> \in Seq(Message) /\ 0 \in Nat /\ "idle" \in Location
      /\ Len(<<>>) = 0
  BY DEF Location
<1>2. NoPoll \in Poll /\ NoPoll.state = "none"
  BY <1>1 DEF NoPoll, Poll
<1>3. TasksOK /\ StreamsOK
  BY <1>1, <1>2, Zenon DEF Init, TasksOK, StreamsOK
<1>4. LogOfRead /\ LogOfWrite
  BY <1>1 DEF Init, LogOfRead, LogOfWrite, Request, Location
<1>5. ListFollowed
  BY <1>1, <1>2 DEF Init, ListFollowed, Followed, Untouched
<1> QED
  BY <1>3, <1>4, <1>5 DEF Init, OneInterval, IInv

-----------------------------------------------------------------------------
(***************************************************************************)
(* Background tasks.  Their steps leave the streams alone.                 *)
(***************************************************************************)

\* A step of request q's task: it goes somewhere, and may publish an event.
TaskStep(q, to) ==
  /\ pc' = [pc EXCEPT ![q] = to]
  /\ broken \subseteq broken' /\ broken' \subseteq Request \X Event
  /\ \/ UNCHANGED <<list, log>>
     \/ \E e \in Event : Append1(q, e)
  /\ UNCHANGED channel

\* The list only grows.
LEMMA TaskKeeps ==
  ASSUME IInv, NEW q \in Request, NEW to \in Location, TaskStep(q, to)
  PROVE  TasksOK' /\ StreamsOK' /\ ListFollowed' /\ OneInterval'
<1> DEFINE Grown == /\ list' \in Seq(Message) /\ Len(list) <= Len(list')
                    /\ \A i \in 1 .. Len(list) : list'[i] = list[i]
<1>1. Grown
  <2>1. CASE UNCHANGED list
    BY <2>1 DEF IInv, TasksOK
  <2>2. ASSUME NEW e \in Event, Append1(q, e)
        PROVE  Grown
    <3>1. [about |-> q, event |-> e] \in Message
      BY DEF Message
    <3> QED
      BY <2>2, <3>1 DEF Append1, IInv, TasksOK
  <2> QED
    BY <2>1, <2>2 DEF TaskStep
<1>2. log' \in [Request -> Seq(Event)]
  <2>1. log[q] \in Seq(Event) /\ log \in [Request -> Seq(Event)]
    BY DEF IInv, TasksOK
  <2>2. ASSUME NEW e \in Event, Append1(q, e)
        PROVE  log' \in [Request -> Seq(Event)]
    <3>1. Append(log[q], e) \in Seq(Event)
      BY <2>1
    <3> QED
      BY <2>1, <2>2, <3>1, Zenon DEF Append1
  <2> QED
    BY <2>1, <2>2 DEF TaskStep
<1>3. TasksOK'
  BY <1>1, <1>2 DEF TaskStep, IInv, TasksOK
<1>4. StreamsOK' /\ OneInterval'
  BY DEF TaskStep, channel, IInv, StreamsOK, OneInterval
<1>5. ASSUME NEW s \in Stream
      PROVE  Followed(s)' /\ (s \notin open' => Untouched(s)')
  <2>1. UNCHANGED <<open, lastIndex, poll, delivered>>
    BY DEF TaskStep, channel
  <2>2. Followed(s) /\ (s \notin open => Untouched(s)) /\ lastIndex[s] \in Nat
        /\ Len(list) \in Nat /\ Len(list') \in Nat
    BY <1>1 DEF IInv, ListFollowed, StreamsOK, TasksOK
  <2>3. Untouched(s) => Untouched(s)'
    BY <2>1 DEF Untouched
  <2>4. poll[s].messages \in Seq(Message)
    BY DEF IInv, StreamsOK, Poll
  <2>5. /\ lastIndex[s] <= Len(list')
        /\ \A i \in 1 .. lastIndex[s] : delivered[s][i] = list'[i]
    BY <1>1, <2>2 DEF Followed
  <2>6. ASSUME poll[s].state = "answered"
        PROVE  /\ lastIndex[s] + Len(poll[s].messages) <= Len(list')
               /\ \A i \in 1 .. Len(poll[s].messages) :
                    poll[s].messages[i] = list'[lastIndex[s] + i]
    <3>1. Len(poll[s].messages) \in Nat
      BY <2>4
    <3>2. lastIndex[s] + Len(poll[s].messages) <= Len(list)
      BY <2>2, <2>6 DEF Followed
    <3>3. ASSUME NEW i \in 1 .. Len(poll[s].messages)
          PROVE  poll[s].messages[i] = list'[lastIndex[s] + i]
      <4>1. lastIndex[s] + i \in 1 .. Len(list)
        BY <2>2, <3>1, <3>2
      <4>2. poll[s].messages[i] = list[lastIndex[s] + i]
        BY <2>2, <2>6 DEF Followed
      <4> QED
        BY <1>1, <4>1, <4>2
    <3> QED
      BY <1>1, <2>2, <3>1, <3>2, <3>3
  <2>7. Followed(s)'
    BY <2>1, <2>2, <2>5, <2>6 DEF Followed
  <2> QED
    BY <2>1, <2>2, <2>3, <2>7
<1> QED
  BY <1>3, <1>4, <1>5 DEF ListFollowed

\* The steps of a task, by the kind of its request.
ReadStep(r, to) ==
  \/ /\ UNCHANGED log
     /\ \/ pc[r] = "idle" /\ to = "fetching"
        \/ pc[r] = "fetching" /\ to \in {"storing", "done"}
        \/ pc[r] = "storing" /\ to \in {"patch", "done"}
        \/ pc[r] \in {"patch", "patch pushed", "replace", "replace pushed"} /\ to = "done"
        \/ pc[r] = "patch pushed" /\ to = "replace"
  \/ /\ log' = [log EXCEPT ![r] = Append(@, "patch")]
     /\ pc[r] = "patch" /\ to \in {"patch pushed", "done"}
  \/ /\ log' = [log EXCEPT ![r] = Append(@, "replace")]
     /\ pc[r] = "replace" /\ to \in {"replace pushed", "done"}

WriteStep(w, to) ==
  \/ /\ UNCHANGED log
     /\ \/ pc[w] = "idle" /\ to = "fetching"
        \/ pc[w] = "fetching" /\ to \in {"confirm", "abort"}
        \/ pc[w] \in {"confirm", "confirm pushed"} /\ to = "abort" /\ <<w, "confirm">> \in broken'
        \/ pc[w] = "abort" /\ to = "done" /\ <<w, "abort">> \in broken'
        \/ pc[w] \in {"abort pushed", "confirm pushed"} /\ to = "done"
  \/ /\ log' = [log EXCEPT ![w] = Append(@, "confirm")]
     /\ pc[w] = "confirm"
     /\ (to = "confirm pushed" \/ (to = "abort" /\ <<w, "confirm">> \in broken'))
  \/ /\ log' = [log EXCEPT ![w] = Append(@, "abort")]
     /\ pc[w] = "abort" /\ to \in {"abort pushed", "done"}

\* Appending to what a read has published.
LEMMA AppendLiteral ==
  ASSUME NEW a, NEW b
  PROVE  Append(<<>>, a) = <<a>> /\ Append(<<a>>, b) = <<a, b>>
<1>1. Append(<<>>, a) = <<a>>
  OBVIOUS
<1>2. Append(<<a>>, b) = <<a, b>>
  <2> DEFINE S == {a, b}
             s == Append(<<a>>, b)
             t == <<a, b>>
  <2>1. <<a>> \in Seq(S) /\ a \in S /\ b \in S /\ Len(<<a>>) = 1 /\ <<a>>[1] = a
    OBVIOUS
  <2>2. t \in Seq(S) /\ Len(t) = 2 /\ t[1] = a /\ t[2] = b
    OBVIOUS
  <2>3. s \in Seq(S) /\ Len(s) = 2 /\ s[1] = a /\ s[2] = b
    BY <2>1
  <2> HIDE DEF s, t, S
  <2>4. \A i \in 1 .. 2 : s[i] = t[i]
    BY <2>2, <2>3
  <2>5. s = t
    BY <2>2, <2>3, <2>4
  <2> QED
    BY <2>5 DEF s, t
<1> QED
  BY <1>1, <1>2

\* A read's step adds to its own log only what comes next.
LEMMA ReadKeepsLogs ==
  ASSUME IInv, NEW r \in Read, NEW to \in Location, TaskStep(r, to), ReadStep(r, to)
  PROVE  LogOfRead' /\ LogOfWrite'
<1>1. /\ \A q \in Request \ {r} : pc'[q] = pc[q] /\ log'[q] = log[q]
      /\ pc'[r] = to /\ r \in Request /\ r \notin Write
      /\ UNCHANGED log \/ \E e : log'[r] = Append(log[r], e) /\ log' = [log EXCEPT ![r] = Append(@, e)]
  BY EdgeAssumption DEF IInv, TasksOK, TaskStep, ReadStep, Request
<1>2. LogOfWrite'
  BY <1>1, EdgeAssumption DEF IInv, LogOfWrite, Request, TaskStep
<1> DEFINE Fits == /\ to \in Location \ {"confirm", "confirm pushed", "abort", "abort pushed"}
                   /\ to \in {"idle", "fetching", "storing", "patch"} => log'[r] = <<>>
                   /\ to \in {"patch pushed", "replace"} => log'[r] = <<"patch">>
                   /\ log'[r] \in {<<>>, <<"patch">>, <<"patch", "replace">>}
<1>3. Fits
  <2> /\ pc[r] \in {"idle", "fetching", "storing", "patch"} => log[r] = <<>>
      /\ pc[r] \in {"patch pushed", "replace"} => log[r] = <<"patch">>
      /\ log[r] \in {<<>>, <<"patch">>, <<"patch", "replace">>}
    BY DEF IInv, LogOfRead
  <2>1. ASSUME UNCHANGED log,
               \/ pc[r] = "idle" /\ to = "fetching"
               \/ pc[r] = "fetching" /\ to \in {"storing", "done"}
               \/ pc[r] = "storing" /\ to \in {"patch", "done"}
               \/ pc[r] \in {"patch", "patch pushed", "replace", "replace pushed"} /\ to = "done"
               \/ pc[r] = "patch pushed" /\ to = "replace"
        PROVE  Fits
    <3>1. CASE pc[r] = "idle" /\ to = "fetching"
      BY <2>1, <3>1 DEF Location
    <3>2. CASE pc[r] = "fetching" /\ to \in {"storing", "done"}
      BY <2>1, <3>2 DEF Location
    <3>3. CASE pc[r] = "storing" /\ to \in {"patch", "done"}
      BY <2>1, <3>3 DEF Location
    <3>4. CASE pc[r] \in {"patch", "patch pushed", "replace", "replace pushed"} /\ to = "done"
      BY <2>1, <3>4 DEF Location
    <3>5. CASE pc[r] = "patch pushed" /\ to = "replace"
      BY <2>1, <3>5 DEF Location
    <3> QED
      BY <2>1, <3>1, <3>2, <3>3, <3>4, <3>5
  <2>2. CASE log' = [log EXCEPT ![r] = Append(@, "patch")] /\ pc[r] = "patch"
             /\ to \in {"patch pushed", "done"}
    <3>1. log[r] = <<>> /\ log'[r] = Append(log[r], "patch")
      BY <1>1, <2>2 DEF IInv, LogOfRead, TasksOK
    <3>2. log'[r] = <<"patch">>
      BY <3>1, AppendLiteral
    <3> QED
      BY <2>2, <3>2 DEF Location
  <2>3. CASE log' = [log EXCEPT ![r] = Append(@, "replace")] /\ pc[r] = "replace"
             /\ to \in {"replace pushed", "done"}
    <3>1. log[r] = <<"patch">> /\ log'[r] = Append(log[r], "replace")
      BY <1>1, <2>3 DEF IInv, LogOfRead, TasksOK
    <3>2. log'[r] = <<"patch", "replace">>
      BY <3>1, AppendLiteral
    <3> QED
      BY <2>3, <3>2 DEF Location
  <2> QED
    BY <2>1, <2>2, <2>3 DEF ReadStep
<1>4. LogOfRead'
  BY <1>1, <1>3 DEF IInv, LogOfRead, Request
<1> QED
  BY <1>2, <1>4

\* A write's step adds to its own log, a second event only after a failed CONFIRM.
LEMMA WriteKeepsLogs ==
  ASSUME IInv, NEW w \in Write, NEW to \in Location, TaskStep(w, to), WriteStep(w, to)
  PROVE  LogOfRead' /\ LogOfWrite'
<1> DEFINE Fits == /\ to \in {"idle", "fetching", "confirm"} => Len(log'[w]) = 0
                   /\ to = "confirm pushed" => Len(log'[w]) = 1
                   /\ to = "abort" /\ Len(log'[w]) > 0 => <<w, "confirm">> \in broken'
                   /\ to \in Location \ {"storing", "patch", "patch pushed", "replace",
                                         "replace pushed"}
                   /\ Len(log'[w]) > 1 => <<w, "confirm">> \in broken'
                   /\ to = "abort pushed" => Len(log'[w]) > 0
                   /\ to = "done" => Len(log'[w]) > 0 \/ <<w, "abort">> \in broken'
<1>1. /\ \A q \in Request \ {w} : pc'[q] = pc[q] /\ log'[q] = log[q]
      /\ pc'[w] = to /\ w \in Request /\ w \notin Read
  BY EdgeAssumption DEF IInv, TasksOK, TaskStep, WriteStep, Request
<1>2. LogOfRead'
  BY <1>1, EdgeAssumption DEF IInv, LogOfRead, Request
<1> /\ broken \subseteq broken' /\ to \in Location
    /\ log \in [Request -> Seq(Event)]
  BY DEF TaskStep, IInv, TasksOK
<1>3. /\ Len(log[w]) \in Nat
      /\ pc[w] \in {"idle", "fetching", "confirm"} => Len(log[w]) = 0
      /\ pc[w] = "confirm pushed" => Len(log[w]) = 1
      /\ pc[w] = "abort" /\ Len(log[w]) > 0 => <<w, "confirm">> \in broken
      /\ Len(log[w]) > 1 => <<w, "confirm">> \in broken
      /\ pc[w] = "abort pushed" => Len(log[w]) > 0
  <2>1. LogOfWrite!(w)
    BY DEF IInv, LogOfWrite
  <2>2. Len(log[w]) \in Nat
    BY <1>1
  <2> QED
    BY <2>1, <2>2, Zenon
<1>4. ASSUME NEW e \in Event, log' = [log EXCEPT ![w] = Append(@, e)]
      PROVE  Len(log'[w]) = Len(log[w]) + 1
  <2>1. log[w] \in Seq(Event) /\ log'[w] = Append(log[w], e)
    BY <1>1, <1>4 DEF IInv, TasksOK
  <2> QED
    BY <2>1
<1>5. Fits
  <2>1. CASE UNCHANGED log /\ pc[w] = "idle" /\ to = "fetching"
    BY <1>3, <2>1 DEF Location
  <2>2. CASE UNCHANGED log /\ pc[w] = "fetching" /\ to \in {"confirm", "abort"}
    <3>1. Len(log'[w]) = 0
      BY <1>3, <2>2
    <3> QED
      <4>1. ~(Len(log'[w]) > 0) /\ ~(Len(log'[w]) > 1)
        BY <3>1
      <4> QED
        BY <2>2, <3>1, <4>1, Zenon DEF Location
  <2>3. CASE UNCHANGED log /\ pc[w] \in {"confirm", "confirm pushed"} /\ to = "abort"
             /\ <<w, "confirm">> \in broken'
    BY <1>3, <2>3 DEF Location
  <2>4. CASE UNCHANGED log /\ pc[w] \in {"abort", "abort pushed", "confirm pushed"}
             /\ to = "done" /\ (pc[w] = "abort" => <<w, "abort">> \in broken')
    <3>1. Len(log[w]) > 0 \/ <<w, "abort">> \in broken'
      <4>1. \A n : n = 1 => n > 0
        OBVIOUS
      <4> QED
        BY <1>3, <2>4, <4>1, Zenon
    <3> QED
      BY <1>3, <2>4, <3>1 DEF Location
  <2>5. CASE log' = [log EXCEPT ![w] = Append(@, "confirm")] /\ pc[w] = "confirm"
             /\ (to = "confirm pushed" \/ (to = "abort" /\ <<w, "confirm">> \in broken'))
    <3>1. "confirm" \in Event /\ Len(log[w]) = 0
      BY <1>3, <2>5 DEF Event
    <3>2. Len(log'[w]) = Len(log[w]) + 1
      BY <1>4, <2>5, <3>1
    <3>3. Len(log'[w]) = 1
      BY <3>1, <3>2
    <3>4. CASE to = "confirm pushed"
      <4>1. ~(Len(log'[w]) > 1)
        BY <3>3
      <4> QED
        BY <3>3, <3>4, <4>1, Zenon DEF Location
    <3>5. CASE to = "abort" /\ <<w, "confirm">> \in broken'
      BY <3>3, <3>5 DEF Location
    <3> QED
      BY <2>5, <3>4, <3>5
  <2>6. CASE log' = [log EXCEPT ![w] = Append(@, "abort")] /\ pc[w] = "abort"
             /\ to \in {"abort pushed", "done"}
    <3>1. Len(log'[w]) = Len(log[w]) + 1
      BY <1>4, <2>6 DEF Event
    <3>2. Len(log'[w]) > 1 => <<w, "confirm">> \in broken'
      <4>1. Len(log'[w]) > 1 => Len(log[w]) > 0
        <5>1. \A m \in Nat : \A n : n = m + 1 /\ n > 1 => m > 0
          OBVIOUS
        <5>2. Len(log[w]) \in Nat
          BY <1>3, Zenon
        <5> QED
          BY <3>1, <5>1, <5>2, Zenon
      <4> QED
        BY <1>3, <2>6, <4>1, Zenon
    <3>3. Len(log'[w]) > 0
      <4>1. \A m \in Nat : \A n : n = m + 1 => n > 0
        OBVIOUS
      <4>2. Len(log[w]) \in Nat
        BY <1>3, Zenon
      <4> QED
        BY <3>1, <4>1, <4>2, Zenon
    <3>4. to # "confirm pushed" /\ to \notin {"idle", "fetching", "confirm"} /\ to # "abort"
      BY <2>6
    <3>5. to \in Location \ {"storing", "patch", "patch pushed", "replace",
                            "replace pushed"}
      BY <2>6 DEF Location
    <3> QED
      BY <3>2, <3>3, <3>4, <3>5, Zenon
  <2> QED
    BY <2>1, <2>2, <2>3, <2>4, <2>5, <2>6 DEF WriteStep
<1>6. ASSUME NEW v \in Write, v # w
      PROVE  pc'[v] = pc[v] /\ log'[v] = log[v]
  BY <1>1, <1>6 DEF Request
<1>7. LogOfWrite'
  <2> SUFFICES ASSUME NEW v \in Write
               PROVE  LogOfWrite!(v)'
    BY DEF LogOfWrite
  <2>1. CASE v = w
    BY <1>1, <1>5, <2>1
  <2>2. CASE v # w
    BY <1>6, <2>2 DEF IInv, LogOfWrite
  <2> QED
    BY <2>1, <2>2
<1> QED
  BY <1>2, <1>7

-----------------------------------------------------------------------------
(***************************************************************************)
(* Every action of a background task is such a step.                       *)
(***************************************************************************)

\* A read publishes a PATCH or a REPLACE.
LEMMA ReadPublishes ==
  ASSUME IInv, NEW r \in Read, NEW e \in Event, pc[r] = e \/ pc[r] = Pushed[e]
  PROVE  e \in {"patch", "replace"}
<1>1. pc[r] \notin {"confirm", "confirm pushed", "abort", "abort pushed"}
  BY DEF IInv, LogOfRead
<1>2. /\ Pushed["patch"] = "patch pushed" /\ Pushed["replace"] = "replace pushed"
      /\ Pushed["confirm"] = "confirm pushed" /\ Pushed["abort"] = "abort pushed"
  BY DEF Pushed
<1> QED
  BY <1>1, <1>2, Zenon DEF Event

\* A write publishes a CONFIRM or an ABORT.
LEMMA WritePublishes ==
  ASSUME IInv, NEW w \in Write, NEW e \in Event, pc[w] = e \/ pc[w] = Pushed[e]
  PROVE  e \in {"confirm", "abort"}
<1>1. pc[w] \notin {"patch", "patch pushed", "replace", "replace pushed"}
  BY DEF IInv, LogOfWrite
<1>2. /\ Pushed["patch"] = "patch pushed" /\ Pushed["replace"] = "replace pushed"
      /\ Pushed["confirm"] = "confirm pushed" /\ Pushed["abort"] = "abort pushed"
  BY DEF Pushed
<1> QED
  BY <1>1, <1>2, Zenon DEF Event

\* Publishing, which both kinds of request do.
LEMMA PublishIsStep ==
  ASSUME IInv, NEW q \in Request, Publish(q)
  PROVE  \E to \in Location :
           /\ TaskStep(q, to)
           /\ q \in Read => ReadStep(q, to)
           /\ q \in Write => WriteStep(q, to)
<1>1. PICK e \in Event : Push(q, e) \/ SetExpiry(q, e) \/ PublishFails(q, e)
  BY DEF Publish
<1>2. broken \subseteq Request \X Event
  BY DEF IInv, TasksOK
<1>3. pc[q] = e \/ pc[q] = Pushed[e]
  BY <1>1 DEF Push, SetExpiry, PublishFails, Go
<1>4. /\ q \in Read => e \in {"patch", "replace"}
      /\ q \in Write => e \in {"confirm", "abort"}
  BY <1>3, ReadPublishes, WritePublishes
<1>5. /\ Pushed["patch"] = "patch pushed" /\ Pushed["replace"] = "replace pushed"
      /\ Pushed["confirm"] = "confirm pushed" /\ Pushed["abort"] = "abort pushed"
  BY DEF Pushed
<1>6. CASE Push(q, e)
  <2>1. Pushed[e] \in Location
    BY <1>5 DEF Event, Location
  <2>2. TaskStep(q, Pushed[e])
    BY <1>2, <1>6, Zenon DEF Push, Go, TaskStep
  <2>3. pc[q] = e /\ log' = [log EXCEPT ![q] = Append(@, e)]
    BY <1>6 DEF Push, Go, Append1
  <2>4. CASE e = "patch"
    BY <1>4, <1>5, <2>1, <2>2, <2>3, <2>4 DEF ReadStep
  <2>5. CASE e = "replace"
    BY <1>4, <1>5, <2>1, <2>2, <2>3, <2>5 DEF ReadStep
  <2>6. CASE e = "confirm"
    BY <1>4, <1>5, <2>1, <2>2, <2>3, <2>6 DEF WriteStep
  <2>7. CASE e = "abort"
    BY <1>4, <1>5, <2>1, <2>2, <2>3, <2>7 DEF WriteStep
  <2> QED
    BY <2>4, <2>5, <2>6, <2>7 DEF Event
<1>7. CASE SetExpiry(q, e)
  <2> DEFINE to == IF e = "patch" THEN "replace" ELSE "done"
  <2>1. TaskStep(q, to) /\ to \in Location
    BY <1>2, <1>7 DEF SetExpiry, Go, TaskStep, Location
  <2>2. pc[q] = Pushed[e] /\ UNCHANGED log
    BY <1>7 DEF SetExpiry, Go
  <2>3. CASE e = "patch"
    BY <1>4, <1>5, <2>1, <2>2, <2>3 DEF ReadStep
  <2>4. CASE e = "replace"
    BY <1>4, <1>5, <2>1, <2>2, <2>4 DEF ReadStep
  <2>5. CASE e \in {"confirm", "abort"}
    BY <1>4, <1>5, <2>1, <2>2, <2>5 DEF WriteStep
  <2> QED
    BY <2>3, <2>4, <2>5 DEF Event
<1>8. CASE PublishFails(q, e)
  <2> DEFINE to == IF e = "confirm" THEN "abort" ELSE "done"
  <2>1. to \in Location
    BY DEF Location
  <2>2. /\ pc' = [pc EXCEPT ![q] = to]
        /\ broken' = broken \cup {<<q, e>>}
        /\ UNCHANGED channel
        /\ \/ Append1(q, e)
           \/ UNCHANGED <<list, log>>
    BY <1>8 DEF PublishFails, Go
  <2>3. TaskStep(q, to)
    <3>1. broken \subseteq broken' /\ broken' \subseteq Request \X Event
      BY <1>2, <2>2
    <3> QED
      BY <2>2, <3>1, Zenon DEF TaskStep
  <2>4. \/ pc[q] = e /\ log' = [log EXCEPT ![q] = Append(@, e)]
        \/ pc[q] \in {e, Pushed[e]} /\ UNCHANGED log
    BY <1>8 DEF PublishFails, Go, Append1
  <2>5. CASE e = "patch"
    BY <1>4, <1>5, <2>1, <2>3, <2>4, <2>5 DEF ReadStep
  <2>6. CASE e = "replace"
    BY <1>4, <1>5, <2>1, <2>3, <2>4, <2>6 DEF ReadStep
  <2>7. CASE e = "confirm"
    BY <1>4, <1>5, <2>1, <2>2, <2>3, <2>4, <2>7 DEF WriteStep
  <2>8. CASE e = "abort"
    BY <1>4, <1>5, <2>1, <2>2, <2>3, <2>4, <2>8 DEF WriteStep
  <2> QED
    BY <2>5, <2>6, <2>7, <2>8 DEF Event
<1> QED
  BY <1>1, <1>6, <1>7, <1>8

\* handleSpeculation and revalidateInBackground.
LEMMA ReadIsStep ==
  ASSUME IInv, NEW r \in Read, handleSpeculation(r) \/ revalidateInBackground(r)
  PROVE  \E to \in Location : TaskStep(r, to) /\ ReadStep(r, to)
<1>1. broken \subseteq Request \X Event
  BY DEF IInv, TasksOK
<1>2. CASE handleSpeculation(r)
  BY <1>1, <1>2 DEF handleSpeculation, Go, TaskStep, ReadStep, Location, queue
<1>3. CASE ReadFetched(r)
  BY <1>1, <1>3 DEF ReadFetched, Go, TaskStep, ReadStep, Location, queue
<1>4. CASE ReadFailed(r)
  BY <1>1, <1>4 DEF ReadFailed, Go, TaskStep, ReadStep, Location, queue
<1>5. CASE ReadStored(r)
  BY <1>1, <1>5 DEF ReadStored, Go, TaskStep, ReadStep, Location, queue
<1> QED
  BY <1>2, <1>3, <1>4, <1>5 DEF revalidateInBackground

\* handleProvisionalWrite and executeWriteInBackground.
LEMMA WriteIsStep ==
  ASSUME IInv, NEW w \in Write, handleProvisionalWrite(w) \/ executeWriteInBackground(w)
  PROVE  \E to \in Location : TaskStep(w, to) /\ WriteStep(w, to)
<1>1. broken \subseteq Request \X Event
  BY DEF IInv, TasksOK
<1>2. CASE handleProvisionalWrite(w)
  BY <1>1, <1>2 DEF handleProvisionalWrite, Go, TaskStep, WriteStep, Location, queue
<1>3. CASE WriteAccepted(w)
  BY <1>1, <1>3 DEF WriteAccepted, Go, TaskStep, WriteStep, Location, queue
<1>4. CASE WriteFailed(w)
  BY <1>1, <1>4 DEF WriteFailed, Go, TaskStep, WriteStep, Location, queue
<1> QED
  BY <1>2, <1>3, <1>4 DEF executeWriteInBackground

\* No step of a task breaks the invariant.
LEMMA TasksKeepIInv ==
  ASSUME IInv,
         \/ \E r \in Read : handleSpeculation(r) \/ revalidateInBackground(r)
         \/ \E w \in Write : handleProvisionalWrite(w) \/ executeWriteInBackground(w)
         \/ \E q \in Request : Publish(q)
  PROVE  IInv'
<1>1. ASSUME NEW r \in Read, \E to \in Location : TaskStep(r, to) /\ ReadStep(r, to)
      PROVE  IInv'
  BY <1>1, TaskKeeps, ReadKeepsLogs DEF Request, IInv
<1>2. ASSUME NEW w \in Write, \E to \in Location : TaskStep(w, to) /\ WriteStep(w, to)
      PROVE  IInv'
  BY <1>2, TaskKeeps, WriteKeepsLogs DEF Request, IInv
<1>3. ASSUME NEW q \in Request, Publish(q)
      PROVE  IInv'
  BY <1>1, <1>2, <1>3, PublishIsStep DEF Request
<1> QED
  BY <1>1, <1>2, <1>3, ReadIsStep, WriteIsStep

-----------------------------------------------------------------------------
(***************************************************************************)
(* The streams.  Their steps leave the tasks alone.                        *)
(***************************************************************************)

\* A step of stream s leaves the list and the other streams as they are.
StreamStep(s) ==
  /\ UNCHANGED <<tasks, list>>
  /\ open \ {s} \subseteq open' /\ open' \subseteq Stream
  /\ StreamsOK'
  /\ \A t \in Stream \ {s} :
       lastIndex'[t] = lastIndex[t] /\ poll'[t] = poll[t] /\ delivered'[t] = delivered[t]

\* It is enough to look at stream s.
LEMMA StreamKeeps ==
  ASSUME IInv, NEW s \in Stream, StreamStep(s),
         Followed(s)', s \notin open' => Untouched(s)', OneInterval'
  PROVE  IInv'
<1>1. TasksOK' /\ LogOfRead' /\ LogOfWrite'
  BY DEF IInv, TasksOK, LogOfRead, LogOfWrite, StreamStep, tasks
<1>2. ASSUME NEW t \in Stream, t # s
      PROVE  Followed(t)' /\ (t \notin open' => Untouched(t)')
  <2>1. Followed(t) /\ (t \notin open => Untouched(t))
    BY DEF IInv, ListFollowed
  <2>2. t \notin open' => t \notin open
    BY <1>2 DEF StreamStep
  <2>3. list' = list /\ lastIndex'[t] = lastIndex[t] /\ poll'[t] = poll[t]
        /\ delivered'[t] = delivered[t]
    BY <1>2 DEF StreamStep
  <2> QED
    BY <2>1, <2>2, <2>3, Zenon DEF Followed, Untouched
<1> QED
  BY <1>1, <1>2 DEF IInv, ListFollowed, StreamStep

\* A stream that is forgotten starts anew.
LEMMA ForgetKeeps ==
  ASSUME IInv, NEW streams \in SUBSET Stream, Forget(streams), list' \in Seq(Message)
  PROVE  /\ lastIndex' \in [Stream -> Nat] /\ poll' \in [Stream -> Poll]
         /\ delivered' \in [Stream -> Seq(Message)]
         /\ \A s \in streams : Followed(s)' /\ Untouched(s)'
         /\ \A s \in Stream \ streams :
              lastIndex'[s] = lastIndex[s] /\ poll'[s] = poll[s] /\ delivered'[s] = delivered[s]
<1>1. NoPoll \in Poll /\ NoPoll.state = "none" /\ <<>> \in Seq(Message) /\ Len(<<>>) = 0
  BY DEF NoPoll, Poll
<1>2. lastIndex' \in [Stream -> Nat] /\ poll' \in [Stream -> Poll]
      /\ delivered' \in [Stream -> Seq(Message)]
  BY <1>1 DEF Forget, IInv, StreamsOK
<1>3. \A s \in Stream \ streams :
        lastIndex'[s] = lastIndex[s] /\ poll'[s] = poll[s] /\ delivered'[s] = delivered[s]
  BY DEF Forget
<1>4. ASSUME NEW s \in streams
      PROVE  lastIndex'[s] = 0 /\ poll'[s] = NoPoll /\ delivered'[s] = <<>>
  BY DEF Forget
<1>5. \A s \in streams : Followed(s)' /\ Untouched(s)'
  <2> SUFFICES ASSUME NEW s \in streams PROVE Followed(s)' /\ Untouched(s)'
    OBVIOUS
  <2>1. Len(list') \in Nat
    OBVIOUS
  <2> QED
    BY <1>1, <1>4, <2>1 DEF Followed, Untouched
<1> QED
  BY <1>2, <1>3, <1>5

\* A new stream gets the only interval if no other stream is open.
LEMMA OpenKeeps ==
  ASSUME IInv, NEW s \in Stream, handleSignalStream(s)
  PROVE  IInv'
<1>1. StreamStep(s)
  BY DEF handleSignalStream, StreamStep, IInv, StreamsOK, queue
<1>2. Followed(s)' /\ s \in open'
  BY DEF handleSignalStream, IInv, ListFollowed, Followed, queue
<1>3. OneInterval'
  BY DEF handleSignalStream, IInv, OneInterval
<1> QED
  BY <1>1, <1>2, <1>3, StreamKeeps

\* Its end: of a client whose streams do not overlap, no interval is left.
LEMMA DisconnectKeeps ==
  ASSUME IInv, NEW s \in Stream, Disconnect(s)
  PROVE  IInv'
<1>1. s \in open /\ open' = open \ {s} /\ Forget({s}) /\ UNCHANGED <<tasks, list>>
  BY DEF Disconnect, queue
<1>2. lastIndex' \in [Stream -> Nat] /\ poll' \in [Stream -> Poll]
      /\ delivered' \in [Stream -> Seq(Message)]
      /\ Followed(s)' /\ Untouched(s)'
      /\ \A t \in Stream \ {s} :
           lastIndex'[t] = lastIndex[t] /\ poll'[t] = poll[t] /\ delivered'[t] = delivered[t]
  <2>1. list' \in Seq(Message)
    BY <1>1 DEF IInv, TasksOK
  <2> QED
    BY <1>1, <2>1, ForgetKeeps
<1>3. StreamStep(s)
  BY <1>1, <1>2 DEF StreamStep, IInv, StreamsOK
<1>4. OneInterval'
  BY DEF Disconnect, unsubscribe, IInv, OneInterval
<1> QED
  BY <1>2, <1>3, <1>4, StreamKeeps

\* A stream with two polls under way is not followed on.
LEMMA OverlapKeeps ==
  ASSUME IInv, NEW s \in Stream, PollOverlaps(s)
  PROVE  IInv'
<1>1. UNCHANGED <<open, tasks, list>> /\ Forget({s})
  BY DEF PollOverlaps, queue
<1>2. lastIndex' \in [Stream -> Nat] /\ poll' \in [Stream -> Poll]
      /\ delivered' \in [Stream -> Seq(Message)]
      /\ Followed(s)' /\ Untouched(s)'
      /\ \A t \in Stream \ {s} :
           lastIndex'[t] = lastIndex[t] /\ poll'[t] = poll[t] /\ delivered'[t] = delivered[t]
  <2>1. list' \in Seq(Message)
    BY <1>1 DEF IInv, TasksOK
  <2> QED
    BY <1>1, <2>1, ForgetKeeps
<1>3. StreamStep(s)
  BY <1>1, <1>2 DEF StreamStep, IInv, StreamsOK
<1>4. OneInterval'
  BY DEF PollOverlaps, IInv, OneInterval
<1> QED
  BY <1>2, <1>3, <1>4, StreamKeeps

\* Streams that are open start anew with the list, the others have not started.
LEMMA ExpireKeeps ==
  ASSUME IInv, ExpireList
  PROVE  IInv'
<1>1. open \in SUBSET Stream /\ UNCHANGED <<tasks, open>> /\ Forget(open) /\ list' = <<>>
  BY DEF ExpireList, IInv, StreamsOK
<1>2. /\ lastIndex' \in [Stream -> Nat] /\ poll' \in [Stream -> Poll]
      /\ delivered' \in [Stream -> Seq(Message)]
      /\ \A s \in open : Followed(s)' /\ Untouched(s)'
      /\ \A t \in Stream \ open :
           lastIndex'[t] = lastIndex[t] /\ poll'[t] = poll[t] /\ delivered'[t] = delivered[t]
  <2>1. list' \in Seq(Message)
    BY <1>1 DEF IInv, TasksOK
  <2> QED
    BY <1>1, <2>1, ForgetKeeps
<1>3. TasksOK' /\ LogOfRead' /\ LogOfWrite'
  <2>1. list' \in Seq(Message)
    BY <1>1
  <2>2. UNCHANGED <<pc, log, broken>>
    BY <1>1 DEF tasks
  <2> QED
    BY <2>1, <2>2 DEF IInv, TasksOK, LogOfRead, LogOfWrite
<1>4. StreamsOK' /\ OneInterval'
  BY <1>1, <1>2 DEF ExpireList, IInv, StreamsOK, OneInterval
<1>5. ASSUME NEW t \in Stream \ open
      PROVE  Followed(t)' /\ Untouched(t)'
  <2>1. Followed(t) /\ lastIndex[t] = 0 /\ poll[t] = NoPoll
    BY DEF IInv, ListFollowed, Untouched
  <2>2. lastIndex'[t] = 0 /\ poll'[t] = NoPoll /\ delivered'[t] = delivered[t]
    BY <1>2, <2>1
  <2>3. NoPoll.state = "none" /\ Len(list') = 0 /\ Len(delivered[t]) = 0
    BY <1>1, <2>1 DEF NoPoll, Followed
  <2> QED
    BY <2>2, <2>3 DEF Followed, Untouched
<1> QED
  BY <1>1, <1>2, <1>3, <1>4, <1>5 DEF IInv, ListFollowed

-----------------------------------------------------------------------------
(***************************************************************************)
(* Polls.                                                                  *)
(***************************************************************************)

\* A step that only changes the poll of an open stream.
LEMMA PollKeeps ==
  ASSUME IInv, NEW s \in open, NEW p \in Poll,
         poll' = [poll EXCEPT ![s] = p],
         UNCHANGED <<tasks, list, open, intervals, handle, lastIndex, delivered, overlapped>>,
         p.state # "none" => p.from = lastIndex[s],
         p.state = "answered" =>
           /\ lastIndex[s] + Len(p.messages) <= Len(list)
           /\ \A i \in 1 .. Len(p.messages) : p.messages[i] = list[lastIndex[s] + i]
  PROVE  IInv'
<1>1. s \in Stream /\ poll \in [Stream -> Poll] /\ poll'[s] = p
  BY DEF IInv, StreamsOK
<1>2. StreamStep(s)
  BY <1>1 DEF StreamStep, IInv, StreamsOK
<1>3. Followed(s)
  BY <1>1 DEF IInv, ListFollowed
<1>4. Followed(s)'
  BY <1>1, <1>3 DEF Followed
<1>5. OneInterval'
  BY DEF IInv, OneInterval
<1> QED
  BY <1>1, <1>2, <1>4, <1>5, StreamKeeps

\* Only an open stream has a poll under way.
LEMMA PolledIsOpen ==
  ASSUME IInv, NEW s \in Stream, poll[s].state # "none"
  PROVE  s \in open
BY DEF IInv, ListFollowed, Untouched, NoPoll

\* A poll starts where the stream has read to.
LEMMA StartKeeps ==
  ASSUME IInv, NEW s \in Stream, PollStart(s)
  PROVE  IInv'
<1> DEFINE p == [NoPoll EXCEPT !.state = "asked", !.from = lastIndex[s]]
<1>1. p \in Poll /\ p.state = "asked" /\ p.from = lastIndex[s]
  <2>1. lastIndex[s] \in Nat /\ <<>> \in Seq(Message)
    BY DEF IInv, StreamsOK
  <2> QED
    BY <2>1 DEF NoPoll, Poll
<1>2. s \in open /\ poll' = [poll EXCEPT ![s] = p]
      /\ UNCHANGED <<tasks, list, open, intervals, handle, lastIndex, delivered, overlapped>>
  BY DEF PollStart, queue
<1> HIDE DEF p
<1> QED
  BY <1>1, <1>2, PollKeeps

\* After a failed poll nothing has moved.
LEMMA FailKeeps ==
  ASSUME IInv, NEW s \in Stream, PollFails(s)
  PROVE  IInv'
<1>1. NoPoll \in Poll /\ NoPoll.state = "none"
  BY DEF NoPoll, Poll
<1>2. poll' = [poll EXCEPT ![s] = NoPoll]
      /\ UNCHANGED <<tasks, list, open, intervals, handle, lastIndex, delivered, overlapped>>
  BY DEF PollFails, queue
<1>3. s \in open
  BY PolledIsOpen DEF PollFails
<1> QED
  BY <1>1, <1>2, <1>3, PollKeeps

\* The answer is what the list has behind lastIndex by then.
LEMMA AnswerKeeps ==
  ASSUME IInv, NEW s \in Stream, PollAnswer(s)
  PROVE  IInv'
<1> DEFINE rest == SubSeq(list, poll[s].from + 1, Len(list))
           p == [poll[s] EXCEPT !.state = "answered", !.messages = rest]
<1>1. s \in open
  BY PolledIsOpen DEF PollAnswer
<1>2. poll \in [Stream -> Poll] /\ list \in Seq(Message) /\ Len(list) \in Nat
      /\ lastIndex[s] \in Nat /\ poll[s].from = lastIndex[s] /\ lastIndex[s] <= Len(list)
  BY DEF PollAnswer, IInv, TasksOK, StreamsOK, ListFollowed, Followed
<1>3. /\ rest \in Seq(Message) /\ Len(rest) = Len(list) - lastIndex[s]
      /\ \A i \in 1 .. Len(rest) : rest[i] = list[lastIndex[s] + i]
  BY <1>2
<1> HIDE DEF rest
<1>4. p \in Poll /\ p.state = "answered" /\ p.from = lastIndex[s] /\ p.messages = rest
  BY <1>2, <1>3 DEF Poll
<1>5. poll' = [poll EXCEPT ![s] = p]
      /\ UNCHANGED <<tasks, list, open, intervals, handle, lastIndex, delivered, overlapped>>
  BY <1>2 DEF PollAnswer, queue, rest
<1> HIDE DEF p
<1>6. lastIndex[s] + Len(p.messages) <= Len(list)
      /\ \A i \in 1 .. Len(p.messages) : p.messages[i] = list[lastIndex[s] + i]
  BY <1>2, <1>3, <1>4
<1> QED
  BY <1>1, <1>4, <1>5, <1>6, PollKeeps

\* lastIndex moves by what is delivered, whatever the list has grown by since.
LEMMA ReceiveKeeps ==
  ASSUME IInv, NEW s \in Stream, PollReceive(s)
  PROVE  IInv'
<1> DEFINE got == poll[s].messages
           n == lastIndex[s]
<1>1. poll[s].state = "answered" /\ s \in open
  BY PolledIsOpen DEF PollReceive
<1>2. /\ got \in Seq(Message) /\ n \in Nat /\ delivered[s] \in Seq(Message) /\ list \in Seq(Message)
      /\ Len(got) \in Nat /\ Len(list) \in Nat /\ Len(delivered[s]) = n
  BY DEF IInv, TasksOK, StreamsOK, Poll, ListFollowed, Followed
<1>3. /\ \A i \in 1 .. n : delivered[s][i] = list[i]
      /\ n + Len(got) <= Len(list)
      /\ \A i \in 1 .. Len(got) : got[i] = list[n + i]
  BY <1>1 DEF IInv, ListFollowed, Followed
<1>4. /\ lastIndex' = [lastIndex EXCEPT ![s] = n + Len(got)]
      /\ delivered' = [delivered EXCEPT ![s] = delivered[s] \o got]
      /\ poll' = [poll EXCEPT ![s] = NoPoll]
      /\ UNCHANGED <<tasks, list, open, intervals, handle, overlapped>>
  BY DEF PollReceive, Advance, queue
<1>5. NoPoll \in Poll /\ NoPoll.state = "none"
  BY DEF NoPoll, Poll
<1> HIDE DEF got, n
<1> DEFINE all == delivered[s] \o got
<1>6. all \in Seq(Message) /\ Len(all) = n + Len(got) /\ n + Len(got) \in Nat
  BY <1>2
<1>7. ASSUME NEW i \in 1 .. n + Len(got)
      PROVE  all[i] = list[i]
  <2>1. CASE i <= n
    BY <1>2, <1>3, <2>1
  <2>2. CASE i > n
    <3>1. i - n \in 1 .. Len(got) /\ n + (i - n) = i
      BY <1>2, <2>2
    <3>2. all[i] = got[i - n]
      BY <1>2, <2>2, <3>1
    <3> QED
      BY <1>3, <3>1, <3>2
  <2> QED
    BY <1>2, <2>1, <2>2
<1> HIDE DEF all
<1>8. /\ lastIndex'[s] = n + Len(got) /\ delivered'[s] = all /\ poll'[s] = NoPoll
      /\ list' = list /\ s \in open'
  BY <1>1, <1>4 DEF all, IInv, StreamsOK
<1>9. StreamsOK'
  BY <1>4, <1>5, <1>6 DEF all, IInv, StreamsOK
<1>10. StreamStep(s)
  BY <1>4, <1>9 DEF StreamStep, IInv, StreamsOK
<1>11. Followed(s)'
  BY <1>3, <1>5, <1>6, <1>7, <1>8 DEF Followed
<1>12. OneInterval'
  BY <1>4 DEF IInv, OneInterval
<1> QED
  BY <1>8, <1>10, <1>11, <1>12, StreamKeeps

-----------------------------------------------------------------------------
(***************************************************************************)
(* The theorems.                                                           *)
(***************************************************************************)

\* The invariant is inductive.
LEMMA NextIInv == IInv /\ [Next]_vars => IInv'
<1> SUFFICES ASSUME IInv, [Next]_vars PROVE IInv'
  OBVIOUS
<1>1. CASE \/ \E r \in Read : handleSpeculation(r) \/ revalidateInBackground(r)
           \/ \E w \in Write : handleProvisionalWrite(w) \/ executeWriteInBackground(w)
           \/ \E q \in Request : Publish(q)
  BY <1>1, TasksKeepIInv
<1>2. CASE ExpireList
  BY <1>2, ExpireKeeps
<1>3. ASSUME NEW s \in Stream,
             \/ handleSignalStream(s) \/ Disconnect(s)
             \/ PollStart(s) \/ PollOverlaps(s)
             \/ PollAnswer(s) \/ PollFails(s) \/ PollReceive(s)
      PROVE  IInv'
  BY <1>3, OpenKeeps, DisconnectKeeps, StartKeeps, OverlapKeeps, AnswerKeeps, FailKeeps,
     ReceiveKeeps
<1>4. CASE UNCHANGED vars
  <2>1. UNCHANGED <<pc, log, broken, list, open, intervals, handle, lastIndex, poll, delivered,
                    overlapped>>
    BY <1>4 DEF vars, tasks, queue, channel
  <2>2. TasksOK' /\ StreamsOK' /\ LogOfRead' /\ LogOfWrite' /\ OneInterval'
    BY <2>1 DEF IInv, TasksOK, StreamsOK, LogOfRead, LogOfWrite, OneInterval
  <2>3. ListFollowed'
    BY <2>1, Zenon DEF IInv, ListFollowed, Followed, Untouched
  <2> QED
    BY <2>2, <2>3 DEF IInv
<1> QED
  BY <1>1, <1>2, <1>3, <1>4 DEF Next

\* It holds in every state.
LEMMA InvariantHolds == Spec => []IInv
<1>1. Init => IInv
  BY InitIInv
<1>2. IInv /\ [Next]_vars => IInv'
  BY NextIInv
<1> QED
  BY <1>1, <1>2, PTL DEF Spec

\* Of two sequences with the same elements there is one.
LEMMA SameElements ==
  ASSUME NEW s \in Seq(Message), NEW t \in Seq(Message), Len(s) = Len(t),
         \A i \in 1 .. Len(s) : s[i] = t[i]
  PROVE  s = t
OBVIOUS

\* A read publishes at most a PATCH and then a REPLACE, a write one event, or a CONFIRM that
\* failed halfway and an ABORT.
THEOREM Answers == Spec => []AnsweredOnce
<1> DEFINE both == <<"patch", "replace">>
<1>1. \A s \in {<<>>, <<"patch">>, both} : IsPrefix(s, both)
  <2>1. both \in Seq(Event) /\ Len(both) = 2 /\ both[1] = "patch"
    BY DEF Event
  <2>2. <<>> \in Seq(Event) /\ Len(<<>>) = 0
    OBVIOUS
  <2>3. <<"patch">> \in Seq(Event) /\ Len(<<"patch">>) = 1 /\ <<"patch">>[1] = "patch"
    BY DEF Event
  <2> HIDE DEF both
  <2>4. ASSUME NEW s \in Seq(Event), Len(s) <= 2, \A i \in 1 .. Len(s) : s[i] = both[i]
        PROVE  IsPrefix(s, both)
    <3> DEFINE u == SubSeq(s, 1, Len(s))
               v == SubSeq(both, 1, Len(s))
    <3>1. u \in Seq(Event) /\ Len(u) = Len(s) /\ \A i \in 1 .. Len(s) : u[i] = s[i]
      BY <2>4
    <3>2. v \in Seq(Event) /\ Len(v) = Len(s) /\ \A i \in 1 .. Len(s) : v[i] = both[i]
      BY <2>1, <2>4
    <3> HIDE DEF u, v
    <3>3. u = v
      BY <2>4, <3>1, <3>2
    <3> QED
      BY <2>1, <2>4, <3>3 DEF u, v, IsPrefix
  <2>5. IsPrefix(<<>>, both)
    <3>1. Len(<<>>) <= 2 /\ \A i \in 1 .. Len(<<>>) : <<>>[i] = both[i]
      BY <2>2
    <3> QED
      BY <2>2, <2>4, <3>1, Zenon
  <2>6. IsPrefix(<<"patch">>, both)
    BY <2>1, <2>3, <2>4
  <2>7. IsPrefix(both, both)
    <3>1. Len(both) <= 2 /\ \A i \in 1 .. Len(both) : both[i] = both[i]
      BY <2>1
    <3> QED
      BY <2>1, <2>4, <3>1, Zenon
  <2> QED
    BY <2>5, <2>6, <2>7
<1>2. IInv => AnsweredOnce
  BY <1>1 DEF IInv, LogOfRead, LogOfWrite, AnsweredOnce
<1> QED
  BY <1>2, InvariantHolds, PTL

\* However the commands of publish fail, a write's task that comes to its end has sent
\* the client a CONFIRM or an ABORT, or failed in sending the ABORT.
THEOREM WritesAnswered == Spec => []FinishedWriteIsAnswered
<1>1. ASSUME IInv, NEW w \in Write, Len(log[w]) > 0
      PROVE  log[w] # <<>>
  <2>1. Len(<<>>) = 0 /\ ~(0 > 0)
    OBVIOUS
  <2> QED
    BY <1>1, <2>1
<1>2. IInv => FinishedWriteIsAnswered
  BY <1>1 DEF IInv, LogOfWrite, FinishedWriteIsAnswered
<1> QED
  BY <1>2, InvariantHolds, PTL

\* An open stream whose polls did not overlap and whose list did not expire has been given
\* the list up to lastIndex: nothing twice, nothing skipped, nothing out of order.
THEOREM StreamHasList == Spec => []StreamFollowsList
<1>1. ASSUME IInv, NEW s \in open \ disturbed
      PROVE  delivered[s] = SubSeq(list, 1, lastIndex[s])
  <2>1. s \in Stream /\ list \in Seq(Message) /\ delivered[s] \in Seq(Message)
        /\ lastIndex[s] \in Nat /\ Len(list) \in Nat
    BY <1>1 DEF IInv, TasksOK, StreamsOK
  <2>2. lastIndex[s] <= Len(list) /\ Len(delivered[s]) = lastIndex[s]
        /\ \A i \in 1 .. lastIndex[s] : delivered[s][i] = list[i]
    BY <1>1, <2>1 DEF IInv, ListFollowed, Followed
  <2> DEFINE read == SubSeq(list, 1, lastIndex[s])
  <2>3. read \in Seq(Message) /\ Len(read) = lastIndex[s]
        /\ \A i \in 1 .. lastIndex[s] : read[i] = list[i]
    BY <2>1, <2>2
  <2> HIDE DEF read
  <2>4. delivered[s] = read
    BY <2>1, <2>2, <2>3, SameElements
  <2> QED
    BY <2>4 DEF read
<1>2. IInv => StreamFollowsList
  BY <1>1 DEF StreamFollowsList
<1> QED
  BY <1>2, InvariantHolds, PTL

\* The intervals of a client whose streams do not overlap are those of its open streams.
THEOREM Intervals == Spec => []IntervalPerStream
<1>1. IInv => IntervalPerStream
  BY DEF IInv, OneInterval, IntervalPerStream
<1> QED
  BY <1>1, InvariantHolds, PTL

=============================================================================
