------------------------------ MODULE StateVault ------------------------------
(***************************************************************************)
(* The State-Vault (vault/vault.go, vault/redis.go) for one resource: the  *)
(* calls of Get, Set, Seed and Delete that any number of handlers and, with *)
(* the Redis driver, any number of proxies make at the same time.  With    *)
(* the memory driver a call is one critical section.  With the Redis       *)
(* driver it is a series of commands to the server, between which other    *)
(* calls' commands run, keys expire and connections break.                 *)
(*                                                                         *)
(* A document is named by the Set that brings it.  Time counts in ticks of *)
(* a second's TicksPerSecond-th part: SET is sent the whole time to live,  *)
(* while EXPIRE is sent, and TTL answers, whole seconds only.              *)
(***************************************************************************)
EXTENDS Integers

CONSTANTS
  Call,            (* calls of the vault's operations                       *)
  None,            (* no document                                           *)
  TTL,             (* defaultTTL, in ticks                                  *)
  TicksPerSecond,
  MaxTime          (* bound on the clock                                    *)

ASSUME VaultAssumption ==
  /\ None \notin Call
  /\ TTL \in Nat \ {0} /\ TicksPerSecond \in Nat \ {0} /\ MaxTime \in Nat

VARIABLES
  driver,    (* vault.driver of the configuration                          *)
  now,       (* the time                                                   *)
  data,      (* the data key: its document, when it was set, when it expires *)
  counter,   (* the version key: its number, when it expires, and, as      *)
             (*   history, how often it has been created                   *)
  pc,        (* the command each call sends next                           *)
  took,      (* the number each Set got for its document, and of which life *)
             (*   of the counter; 0 before                                 *)
  seen,      (* what each Get has found so far                             *)
  disturbed  (* history: Sets that broke off, or during which time passed  *)
             (*   or the keys were deleted                                 *)

vars == <<driver, now, data, counter, pc, took, seen, disturbed>>

\* Later than any time of the model: keys without a time to live.
Never == MaxTime + TTL + TicksPerSecond

Live(key) == now < key.expires

NoData == [doc |-> None, setAt |-> 0, expires |-> 0]

NothingSeen ==
  [doc |-> None, setAt |-> 0, n |-> 0, life |-> 0, lag |-> 0, overtaken |-> FALSE,
   guess |-> FALSE]

Command == {"INCR", "SET", "EXPIRE", "GETdata", "GETversion", "TTL", "DEL"}

Location == {"idle", "Get", "Set", "Seed", "Delete", "done"} \cup Command

Init ==
  /\ driver \in {"memory", "redis"}
  /\ now = 0
  /\ data = NoData
  /\ counter = [n |-> 0, life |-> 0, expires |-> 0]
  /\ pc = [c \in Call |-> "idle"]
  /\ took = [c \in Call |-> [n |-> 0, life |-> 0]]
  /\ seen = [c \in Call |-> NothingSeen]
  /\ disturbed = {}

\* Mutant: the version is read before the document.
VersionFirst ==
  [Set |-> "INCR", INCR |-> "SET", SET |-> "EXPIRE", EXPIRE |-> "done",
   Get |-> "GETversion", GETversion |-> "GETdata", GETdata |-> "TTL", TTL |-> "done",
   Delete |-> "DEL", DEL |-> "done"]

\* Mutant: a Set asks for no version.
WithoutVersion ==
  [Set |-> "SET", SET |-> "EXPIRE", EXPIRE |-> "done",
   Get |-> "GETdata", GETdata |-> "GETversion", GETversion |-> "TTL", TTL |-> "done",
   Delete |-> "DEL", DEL |-> "done"]

\* The commands of the three operations, in order; GETdata, GETversion and SET, EXPIRE
\* are pipelines, which other clients' commands may interrupt.
Following ==
  [Set |-> "INCR", INCR |-> "SET", SET |-> "EXPIRE", EXPIRE |-> "done",
   Get |-> "GETdata", GETdata |-> "GETversion", GETversion |-> "TTL", TTL |-> "done",
   Delete |-> "DEL", DEL |-> "done"]

At(c, command) == pc[c] = command

Proceed(c) == pc' = [pc EXCEPT ![c] = Following[pc[c]]]

Finish(c) == pc' = [pc EXCEPT ![c] = "done"]

Halfway(c) == pc[c] \in {"SET", "EXPIRE"}

Disturb(calls) == disturbed' = disturbed \cup {c \in calls : Halfway(c)}

-----------------------------------------------------------------------------
(***************************************************************************)
(* The memory driver: one step under the mutex.                            *)
(***************************************************************************)

Store(c, number) ==
  /\ data' = [doc |-> c, setAt |-> now, expires |-> Never]
  /\ counter' = number
  /\ took' = [took EXCEPT ![c] = [n |-> number.n, life |-> number.life]]

NextNumber == [n |-> counter.n + 1, life |-> counter.life, expires |-> Never]

Restarted(n) == [n |-> n, life |-> counter.life + 1, expires |-> Never]

MemorySet(c) ==
  /\ At(c, "Set")
  /\ Store(c, IF Live(counter) THEN NextNumber ELSE Restarted(1))
  /\ UNCHANGED seen

\* The version is the caller's.
MemorySeed(c) ==
  /\ At(c, "Seed")
  /\ \E n \in 1 .. 2 : Store(c, Restarted(n))
  /\ UNCHANGED seen

\* Document and version at one time.
Entry ==
  [doc |-> data.doc, setAt |-> data.setAt, n |-> counter.n, life |-> counter.life,
   lag |-> 0, overtaken |-> FALSE, guess |-> FALSE]

MemoryGet(c) ==
  /\ At(c, "Get")
  /\ IF Live(data)
       THEN seen' = [seen EXCEPT ![c] = Entry]
       ELSE UNCHANGED seen
  /\ UNCHANGED <<data, counter, took>>

MemoryDelete(c) ==
  /\ At(c, "Delete")
  /\ data' = NoData
  /\ counter' = [counter EXCEPT !.expires = 0]
  /\ UNCHANGED <<took, seen>>

MemoryCall(c) ==
  /\ driver = "memory"
  /\ MemorySet(c) \/ MemorySeed(c) \/ MemoryGet(c) \/ MemoryDelete(c)
  /\ Finish(c)
  /\ UNCHANGED <<driver, now, disturbed>>

-----------------------------------------------------------------------------
(***************************************************************************)
(* The Redis driver.                                                       *)
(***************************************************************************)

Send(c, command) == At(c, command) /\ Proceed(c) /\ UNCHANGED <<driver, now>>

\* Mutant: the counter is read, and written back incremented in a step of its own.
IncrInTwoSteps(c) ==
  /\ At(c, "INCR")
  /\ IF took[c].n = 0
       THEN /\ took' = [took EXCEPT ![c] =
                 IF Live(counter) THEN [n |-> counter.n + 1, life |-> counter.life]
                 ELSE [n |-> 1, life |-> counter.life + 1]]
            /\ UNCHANGED <<counter, pc>>
       ELSE /\ counter' = [n |-> took[c].n, life |-> took[c].life, expires |-> Never]
            /\ Proceed(c)
            /\ UNCHANGED took
  /\ UNCHANGED <<driver, now, data, seen, disturbed>>

\* INCR keeps the time to live of a key it finds and creates one without.
Incr(c) ==
  /\ Send(c, "INCR")
  /\ counter' = IF Live(counter) THEN [counter EXCEPT !.n = @ + 1] ELSE Restarted(1)
  /\ took' = [took EXCEPT ![c] = [n |-> counter'.n, life |-> counter'.life]]
  /\ UNCHANGED <<data, seen, disturbed>>

\* Mutant: the key keeps the time to live it has.
SetKeepsTTL(c) ==
  /\ Send(c, "SET")
  /\ data' = [doc |-> c, setAt |-> now,
              expires |-> IF Live(data) THEN data.expires ELSE now + TTL]
  /\ UNCHANGED <<counter, took, seen, disturbed>>

SetData(c) ==
  /\ Send(c, "SET")
  /\ data' = [doc |-> c, setAt |-> now, expires |-> now + TTL]
  /\ UNCHANGED <<counter, took, seen, disturbed>>

\* What the client library makes of a time to live it sends in seconds: the part
\* of a second is cut off, but for less than one it sends one.
WholeSeconds ==
  IF TTL < TicksPerSecond THEN TicksPerSecond ELSE TTL - (TTL % TicksPerSecond)

\* Mutant: the version key is given a time to live only when it is new.
ExpireOnce(c) ==
  /\ Send(c, "EXPIRE")
  /\ counter' = IF Live(counter) /\ took[c].n = 1
                  THEN [counter EXCEPT !.expires = now + WholeSeconds] ELSE counter
  /\ UNCHANGED <<data, took, seen, disturbed>>

\* EXPIRE does nothing to a key that is not there.
ExpireVersion(c) ==
  /\ Send(c, "EXPIRE")
  /\ counter' = IF Live(counter) THEN [counter EXCEPT !.expires = now + WholeSeconds]
                ELSE counter
  /\ UNCHANGED <<data, took, seen, disturbed>>

GetData(c) ==
  /\ Send(c, "GETdata")
  /\ seen' = [seen EXCEPT ![c].doc = IF Live(data) THEN data.doc ELSE None,
                          ![c].setAt = data.setAt]
  /\ UNCHANGED <<data, counter, took, disturbed>>

\* A version that is missing reads as 0.
GetVersion(c) ==
  /\ Send(c, "GETversion")
  /\ seen' = [seen EXCEPT ![c].n = IF Live(counter) THEN counter.n ELSE 0,
                          ![c].life = counter.life]
  /\ UNCHANGED <<data, counter, took, disturbed>>

GetMissed(c) ==
  /\ Send(c, "TTL")
  /\ seen[c].doc = None
  /\ UNCHANGED <<data, counter, took, seen, disturbed>>

\* What the server answers to TTL: seconds, rounded; for us, in ticks.
Remaining ==
  LET left == IF Live(data) THEN data.expires - now ELSE 0
  IN  ((2 * left + TicksPerSecond) \div (2 * TicksPerSecond)) * TicksPerSecond

\* The age is estimated from the time the data key still has, whatever document
\* it holds by now.  lag is how much older the document seen really is.
EstimateAge(c) ==
  /\ Send(c, "TTL")
  /\ seen[c].doc # None
  /\ Remaining > 0
  /\ seen' = [seen EXCEPT
       ![c].lag = (now - seen[c].setAt) - (TTL - Remaining),
       ![c].overtaken = data.doc # seen[c].doc]
  /\ UNCHANGED <<data, counter, took, disturbed>>

\* Less than half a second left, no key any more, or no answer: the age is taken
\* to be zero.
GuessAge(c) ==
  /\ Send(c, "TTL")
  /\ seen[c].doc # None
  /\ seen' = [seen EXCEPT ![c].guess = TRUE]
  /\ UNCHANGED <<data, counter, took, disturbed>>

DeleteKeys(c) ==
  /\ Send(c, "DEL")
  /\ data' = NoData
  /\ counter' = [counter EXCEPT !.expires = 0]
  /\ Disturb(Call)
  /\ UNCHANGED <<took, seen>>

RedisCall(c) ==
  \/ Incr(c) \/ SetData(c) \/ ExpireVersion(c)
  \/ GetData(c) \/ GetVersion(c) \/ GetMissed(c) \/ EstimateAge(c) \/ GuessAge(c)
  \/ DeleteKeys(c)

\* A command fails, before or after the server has carried it out: the call ends
\* without a result, and what it has done so far stays done.
Break(c) ==
  /\ pc[c] \in Command \ {"TTL"}
  /\ Finish(c)
  /\ Disturb({c})
  /\ seen' = [seen EXCEPT ![c] = NothingSeen]
  /\ UNCHANGED <<driver, now, data, counter, took>>

-----------------------------------------------------------------------------
\* A handler calls an operation; only the memory driver has Seed.
Begin(c, operation) ==
  /\ At(c, "idle")
  /\ operation = "Seed" => driver = "memory"
  /\ pc' = [pc EXCEPT ![c] =
       IF driver = "memory" THEN operation ELSE Following[operation]]
  /\ UNCHANGED <<driver, now, data, counter, took, seen, disturbed>>

Tick ==
  /\ now < MaxTime
  /\ now' = now + 1
  /\ Disturb(Call)
  /\ UNCHANGED <<driver, data, counter, pc, took, seen>>

Next ==
  \/ Tick
  \/ \E c \in Call :
       \/ \E operation \in {"Get", "Set", "Seed", "Delete"} : Begin(c, operation)
       \/ MemoryCall(c) \/ RedisCall(c) \/ Break(c)

Spec == Init /\ [][Next]_vars

-----------------------------------------------------------------------------
(***************************************************************************)
(* Properties.                                                             *)
(***************************************************************************)

Number == [n : Nat, life : Nat]

\* What each variable holds; no document is stored that has no number.
TypeOK ==
  /\ driver \in {"memory", "redis"}
  /\ now \in 0 .. MaxTime
  /\ data \in [doc : Call \cup {None}, setAt : Nat, expires : Nat]
  /\ counter \in [n : Nat, life : Nat, expires : Nat]
  /\ pc \in [Call -> Location]
  /\ took \in [Call -> Number]
  /\ seen \in [Call -> [doc : Call \cup {None}, setAt : Nat, n : Nat, life : Nat,
                        lag : Int, overtaken : BOOLEAN, guess : BOOLEAN]]
  /\ disturbed \subseteq Call
  /\ data.doc # None => took[data.doc].n > 0

\* "using atomic INCR for safe version bumping across distributed instances": as
\* long as the counter lives, no two Sets are given the same version, failed
\* ones included.
VersionsDistinct ==
  \A c, d \in Call : took[c].n > 0 /\ took[c] = took[d] => c = d

Found(c) == pc[c] = "done" /\ seen[c].doc # None

\* A version never understates its document: with the memory driver it is the
\* document's own; with Redis, where the two are read one after the other, it
\* may be that of a later Set, but none earlier in the life of the counter.
VersionCoversDocument ==
  \A c \in Call : Found(c) =>
    LET own == took[seen[c].doc] IN
      seen[c].life = own.life /\ seen[c].n # 0 =>
        IF driver = "memory" THEN seen[c].n = own.n ELSE seen[c].n >= own.n

\* The age of a document, from which HandleSpec decides whether it may be served,
\* is right to half a second, or too small if the document was replaced before
\* the third command; unless the driver had to guess.
AgeIsTrue ==
  \A c \in Call : Found(c) /\ ~seen[c].guess =>
    /\ 2 * seen[c].lag >= -TicksPerSecond
    /\ ~seen[c].overtaken => 2 * seen[c].lag <= TicksPerSecond

\* How much of the document's time to live the version key is not given.
CutOff == IF TTL < TicksPerSecond THEN 0 ELSE TTL % TicksPerSecond

\* The two keys are given their times to live by different commands, and the
\* version key the shorter one if defaultTTL is not a whole number of seconds.
\* Unless the Set that wrote it was disturbed halfway, a document is found
\* without a version, or under one that starts again, only in the fraction of
\* a second that was cut off; before that the version key lives.
VersionOutlivesDocument ==
  data.doc \notin disturbed /\ now + CutOff < data.expires => Live(counter)

=============================================================================
