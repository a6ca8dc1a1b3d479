-------------------------- MODULE StateVaultProofs --------------------------
(***************************************************************************)
(* What StateVault's versions and ages mean, for any number of calls: no   *)
(* two Sets in the life of a counter are given the same version, a Get's   *)
(* version never understates its document, no document outlives its        *)
(* version, and its age is right to half a second.                         *)
(*                                                                         *)
(* The argument: a number is taken in one step, and it is larger than all  *)
(* that were taken in the same life of the counter (NumbersBelowCounter);  *)
(* a document is stored after its number was taken and that number never   *)
(* changes again (NumberBeforeDocument); so whoever reads the document     *)
(* first and the counter afterwards finds the counter at least as large.   *)
(* What the keys' times to live mean is argued in the second half.         *)
(***************************************************************************)
EXTENDS StateVault, TLAPS

\* What is left of a time to live in whole seconds, and what is cut off.
LEMMA Seconds ==
  /\ WholeSeconds \in Nat /\ WholeSeconds > 0
  /\ CutOff \in Nat /\ TTL <= WholeSeconds + CutOff
<1>1. TTL \in Nat /\ TicksPerSecond \in Nat \ {0}
  BY VaultAssumption
<1>2. TTL % TicksPerSecond \in Nat /\ TTL % TicksPerSecond < TicksPerSecond
  BY <1>1
<1> QED
  BY <1>1, <1>2 DEF WholeSeconds, CutOff

\* What a Get has found, for TypeOK.
Seen == [doc : Call \cup {None}, setAt : Nat, n : Nat, life : Nat, lag : Int,
         overtaken : BOOLEAN, guess : BOOLEAN]

\* Before its number is taken, a call has none; from then on it has.
NumberBeforeDocument ==
  \A c \in Call :
    /\ pc[c] \in {"idle", "Set", "Seed", "INCR"} => took[c].n = 0
    /\ pc[c] \in {"SET", "EXPIRE"} => took[c].n > 0
    /\ seen[c].doc # None => took[seen[c].doc].n > 0

NumbersBelowCounter ==
  \A c \in Call : took[c].n > 0 =>
    /\ took[c].life <= counter.life
    /\ took[c].life = counter.life => took[c].n <= counter.n

\* A Get has no version before it has asked for it.
VersionLast ==
  \A c \in Call : pc[c] \in {"idle", "GETdata", "GETversion"} => seen[c].n = 0

\* The memory driver sends no commands, and keeps version and document together.
MemoryTogether ==
  driver = "memory" =>
    /\ \A c \in Call : pc[c] \notin Command
    /\ data.doc # None => took[data.doc] = [n |-> counter.n, life |-> counter.life]

\* VersionCoversDocument for Gets that are not done yet, too.
Covered ==
  \A c \in Call : seen[c].doc # None =>
    LET own == took[seen[c].doc] IN
      seen[c].life = own.life /\ seen[c].n # 0 =>
        IF driver = "memory" THEN seen[c].n = own.n ELSE seen[c].n >= own.n

IInv ==
  /\ TypeOK
  /\ NumberBeforeDocument
  /\ NumbersBelowCounter
  /\ VersionLast
  /\ MemoryTogether
  /\ VersionsDistinct
  /\ Covered

-----------------------------------------------------------------------------
\* Initially.
LEMMA InitIInv == Init => IInv
<1> SUFFICES ASSUME Init PROVE IInv
  OBVIOUS
<1> USE VaultAssumption DEF Init
<1>1. TypeOK
  BY DEF TypeOK, NoData, NothingSeen, Number, Location
<1>2. NumberBeforeDocument /\ NumbersBelowCounter /\ VersionLast /\ Covered
  BY DEF NumberBeforeDocument, NumbersBelowCounter, VersionLast, Covered, NothingSeen
<1>3. MemoryTogether /\ VersionsDistinct
  BY DEF MemoryTogether, VersionsDistinct, NoData, Command
<1> QED
  BY <1>1, <1>2, <1>3 DEF IInv

\* The command that follows one is a location.
LEMMA FollowingLocation ==
  ASSUME NEW at \in Command \cup {"Set", "Get", "Delete"}
  PROVE  /\ Following[at] \in Location
         /\ Following[at] \notin {"idle", "Set", "Seed", "Get", "Delete"}
         /\ Following[at] = "INCR" => at = "Set"
         /\ Following[at] = "SET" => at = "INCR"
         /\ Following[at] = "EXPIRE" => at = "SET"
         /\ Following[at] = "GETdata" => at = "Get"
         /\ Following[at] = "GETversion" => at = "GETdata"
BY DEF Following, Location, Command

-----------------------------------------------------------------------------
\* A call takes a number no one has had.
LEMMA TakesNumber ==
  ASSUME IInv, NEW c \in Call, NEW n \in Nat \ {0}, NEW life \in Nat, took[c].n = 0,
         life > counter.life \/ (life = counter.life /\ n > counter.n),
         took' = [took EXCEPT ![c] = [n |-> n, life |-> life]],
         counter'.n = n, counter'.life = life, seen' = seen, driver' = driver
  PROVE  /\ took' \in [Call -> Number]
         /\ took'[c] = [n |-> n, life |-> life]
         /\ \A d \in Call \ {c} : took'[d] = took[d]
         /\ NumbersBelowCounter' /\ VersionsDistinct' /\ Covered'
<1>1. took \in [Call -> Number] /\ counter.n \in Nat /\ counter.life \in Nat
  BY DEF IInv, TypeOK
<1>2. /\ took' \in [Call -> Number]
      /\ took'[c] = [n |-> n, life |-> life]
      /\ \A d \in Call \ {c} : took'[d] = took[d]
  BY <1>1 DEF Number
<1>3. \A d \in Call : took[d].n \in Nat /\ took[d].life \in Nat
  BY <1>1 DEF Number
<1>4. NumbersBelowCounter'
  BY <1>1, <1>2, <1>3 DEF IInv, NumbersBelowCounter
<1>5. VersionsDistinct'
  <2> SUFFICES ASSUME NEW a \in Call, NEW b \in Call, took'[a].n > 0, took'[a] = took'[b]
               PROVE  a = b
    BY DEF VersionsDistinct
  <2>1. ASSUME NEW d \in Call, d # c, took'[d] = took'[c] PROVE FALSE
    <3>1. took[d].n = n /\ took[d].life = life
      BY <2>1, <1>2
    <3> QED
      BY <3>1, <1>1 DEF IInv, NumbersBelowCounter
  <2> QED
    BY <2>1, <1>2 DEF IInv, VersionsDistinct
<1>6. Covered'
  <2> SUFFICES ASSUME NEW d \in Call, seen[d].doc # None
               PROVE  took'[seen[d].doc] = took[seen[d].doc]
    BY DEF IInv, Covered
  <2> QED
    BY <1>2 DEF IInv, TypeOK, NumberBeforeDocument
<1> QED
  BY <1>2, <1>4, <1>5, <1>6

\* A step that takes no number keeps what is known of those that were taken.
LEMMA SameNumbers ==
  ASSUME IInv, took' = took, counter'.n = counter.n, counter'.life = counter.life
  PROVE  NumbersBelowCounter' /\ VersionsDistinct'
BY DEF IInv, NumbersBelowCounter, VersionsDistinct

\* Where a call's program counter goes when it sends a command or is done.
LEMMA MovesOn ==
  ASSUME IInv, NEW c \in Call, pc[c] \in Command \cup {"Set", "Get", "Delete"},
         Proceed(c)
  PROVE  /\ pc' = [pc EXCEPT ![c] = Following[pc[c]]]
         /\ pc' \in [Call -> Location]
         /\ \A d \in Call \ {c} : pc'[d] = pc[d]
         /\ pc'[c] = Following[pc[c]]
BY FollowingLocation DEF Proceed, IInv, TypeOK

-----------------------------------------------------------------------------
\* The beginning of a call.
LEMMA BeginIInv ==
  ASSUME IInv, NEW c \in Call, NEW operation \in {"Get", "Set", "Seed", "Delete"},
         Begin(c, operation)
  PROVE  IInv'
<1>1. /\ pc[c] = "idle" /\ pc \in [Call -> Location]
      /\ UNCHANGED <<driver, now, data, counter, took, seen, disturbed>>
  BY DEF Begin, At, IInv, TypeOK
<1>2. CASE driver = "memory"
  <2>1. pc' = [pc EXCEPT ![c] = operation]
    BY <1>2 DEF Begin
  <2>2. TypeOK'
    BY <1>1, <2>1 DEF IInv, TypeOK, Location
  <2>3. NumberBeforeDocument' /\ VersionLast' /\ MemoryTogether'
    BY <1>1, <2>1 DEF IInv, NumberBeforeDocument, VersionLast, MemoryTogether, Command
  <2> QED
    BY <1>1, <2>2, <2>3, SameNumbers DEF IInv, Covered
<1>3. CASE driver # "memory"
  <2>1. operation # "Seed" /\ pc' = [pc EXCEPT ![c] = Following[operation]]
    BY <1>3, <1>1 DEF Begin, IInv, TypeOK
  <2>2. Following[operation] \in {"INCR", "GETdata", "DEL"}
    BY <2>1 DEF Following
  <2>3. TypeOK'
    BY <1>1, <2>1, <2>2 DEF IInv, TypeOK, Location, Command
  <2>4. NumberBeforeDocument' /\ VersionLast' /\ MemoryTogether'
    BY <1>1, <1>3, <2>1, <2>2 DEF IInv, NumberBeforeDocument, VersionLast, MemoryTogether
  <2> QED
    BY <1>1, <2>3, <2>4, SameNumbers DEF IInv, Covered
<1> QED
  BY <1>2, <1>3

-----------------------------------------------------------------------------
\* A Set or a Seed of the memory driver.
LEMMA StoreIInv ==
  ASSUME IInv, NEW c \in Call, NEW number \in [n : Nat \ {0}, life : Nat, expires : Nat],
         driver = "memory", pc[c] \in {"Set", "Seed"}, Store(c, number),
         \/ number.life > counter.life
         \/ number.life = counter.life /\ number.n > counter.n,
         Finish(c), UNCHANGED <<driver, now, seen, disturbed>>
  PROVE  IInv'
<1> USE VaultAssumption
<1>1. /\ took[c].n = 0
      /\ took' = [took EXCEPT ![c] = [n |-> number.n, life |-> number.life]]
      /\ counter' = number
      /\ data' = [doc |-> c, setAt |-> now, expires |-> Never]
      /\ pc' = [pc EXCEPT ![c] = "done"]
  BY DEF IInv, NumberBeforeDocument, Store, Finish
<1>2. /\ took' \in [Call -> Number]
      /\ took'[c] = [n |-> number.n, life |-> number.life]
      /\ \A d \in Call \ {c} : took'[d] = took[d]
      /\ NumbersBelowCounter' /\ VersionsDistinct' /\ Covered'
  BY <1>1, TakesNumber
<1>3. /\ pc \in [Call -> Location] /\ now \in Nat /\ c # None
      /\ \A d \in Call : seen[d].doc \in Call \cup {None}
  BY DEF IInv, TypeOK
<1>4. TypeOK'
  <2>1. data' \in [doc : Call \cup {None}, setAt : Nat, expires : Nat]
    BY <1>1, <1>3 DEF Never
  <2>2. pc' \in [Call -> Location]
    BY <1>1, <1>3 DEF Location
  <2> QED
    BY <1>1, <1>2, <2>1, <2>2 DEF IInv, TypeOK
<1>5. NumberBeforeDocument'
  BY <1>1, <1>2, <1>3 DEF IInv, NumberBeforeDocument
<1>6. VersionLast' /\ MemoryTogether'
  BY <1>1, <1>2, <1>3 DEF IInv, VersionLast, MemoryTogether, Command
<1> QED
  BY <1>2, <1>4, <1>5, <1>6 DEF IInv

\* A call of the memory driver.
LEMMA MemoryCallIInv ==
  ASSUME IInv, NEW c \in Call, MemoryCall(c)
  PROVE  IInv'
<1> USE VaultAssumption
<1>1. /\ driver = "memory" /\ pc' = [pc EXCEPT ![c] = "done"]
      /\ Finish(c)
      /\ UNCHANGED <<driver, now, disturbed>>
  BY DEF MemoryCall, Finish
<1>2. /\ pc \in [Call -> Location] /\ pc' \in [Call -> Location]
      /\ counter \in [n : Nat, life : Nat, expires : Nat]
      /\ Never \in Nat
  BY <1>1 DEF IInv, TypeOK, Location, Never
<1>3. CASE MemorySet(c)
  <2> DEFINE number == IF Live(counter) THEN NextNumber ELSE Restarted(1)
  <2>1. /\ number \in [n : Nat \ {0}, life : Nat, expires : Nat]
        /\ \/ number.life > counter.life
           \/ number.life = counter.life /\ number.n > counter.n
    BY <1>2 DEF NextNumber, Restarted
  <2>2. pc[c] \in {"Set", "Seed"} /\ Store(c, number) /\ seen' = seen
    BY <1>3 DEF MemorySet, At
  <2> HIDE DEF number
  <2> QED
    BY <1>1, <2>1, <2>2, StoreIInv
<1>4. CASE MemorySeed(c)
  <2>1. PICK n \in 1 .. 2 : Store(c, Restarted(n))
    BY <1>4 DEF MemorySeed
  <2>2. /\ Restarted(n) \in [n : Nat \ {0}, life : Nat, expires : Nat]
        /\ Restarted(n).life > counter.life
    BY <1>2 DEF Restarted
  <2>3. pc[c] \in {"Set", "Seed"} /\ seen' = seen
    BY <1>4 DEF MemorySeed, At
  <2> QED
    BY <1>1, <2>1, <2>2, <2>3, StoreIInv
<1>5. CASE MemoryGet(c)
  <2>1. UNCHANGED <<data, counter, took>>
    BY <1>5 DEF MemoryGet
  <2>3. Entry \in Seen /\ seen \in [Call -> Seen]
    BY <1>2 DEF IInv, TypeOK, Seen, Entry
  <2>4. /\ seen' \in [Call -> Seen]
        /\ \A d \in Call : seen'[d] = seen[d] \/ (d = c /\ seen'[d] = Entry)
    BY <1>5, <2>3 DEF MemoryGet
  <2>5. Entry.doc = data.doc /\ Entry.n = counter.n /\ Entry.life = counter.life
    BY DEF Entry
  <2>6. TypeOK'
    BY <1>1, <1>2, <2>1, <2>4 DEF IInv, TypeOK, Seen
  <2>7. NumberBeforeDocument' /\ VersionLast'
    BY <1>1, <1>2, <2>1, <2>4, <2>5
    DEF IInv, TypeOK, NumberBeforeDocument, VersionLast
  <2>8. MemoryTogether'
    BY <1>1, <1>2, <2>1 DEF IInv, MemoryTogether, Command
  <2>9. Covered'
    BY <1>1, <1>2, <2>1, <2>4, <2>5 DEF IInv, TypeOK, MemoryTogether, Covered
  <2> QED
    BY <2>1, <2>6, <2>7, <2>8, <2>9, SameNumbers DEF IInv
<1>6. CASE MemoryDelete(c)
  <2>1. /\ data' = NoData /\ counter' = [counter EXCEPT !.expires = 0]
        /\ UNCHANGED <<took, seen>>
    BY <1>6 DEF MemoryDelete
  <2>2. counter' \in [n : Nat, life : Nat, expires : Nat]
        /\ counter'.n = counter.n /\ counter'.life = counter.life
    BY <1>2, <2>1
  <2>3. TypeOK'
    BY <1>1, <1>2, <2>1, <2>2 DEF IInv, TypeOK, NoData
  <2>4. NumberBeforeDocument' /\ VersionLast' /\ MemoryTogether' /\ Covered'
    BY <1>1, <1>2, <2>1
    DEF IInv, NumberBeforeDocument, VersionLast, MemoryTogether, Covered, NoData, Command
  <2> QED
    BY <2>1, <2>2, <2>3, <2>4, SameNumbers DEF IInv
<1> QED
  BY <1>3, <1>4, <1>5, <1>6 DEF MemoryCall

-----------------------------------------------------------------------------
\* A call whose step is over takes its place behind it, whatever it has found.
LEMMA StepPlaces ==
  ASSUME IInv, NEW c \in Call, pc[c] \in Command, Send(c, pc[c])
  PROVE  /\ driver # "memory" /\ driver' = driver
         /\ pc' \in [Call -> Location]
         /\ pc'[c] = Following[pc[c]]
         /\ \A d \in Call \ {c} : pc'[d] = pc[d]
         /\ now' = now /\ MemoryTogether'
<1>1. Proceed(c) /\ UNCHANGED <<driver, now>>
  BY DEF Send
<1>2. driver # "memory"
  BY DEF IInv, MemoryTogether
<1> QED
  BY <1>1, <1>2, MovesOn DEF MemoryTogether

LEMMA IncrIInv ==
  ASSUME IInv, NEW c \in Call, Incr(c)
  PROVE  IInv'
<1> USE VaultAssumption
<1>1. /\ pc[c] = "INCR" /\ Send(c, pc[c])
      /\ counter' = IF Live(counter) THEN [counter EXCEPT !.n = @ + 1] ELSE Restarted(1)
      /\ took' = [took EXCEPT ![c] = [n |-> counter'.n, life |-> counter'.life]]
      /\ UNCHANGED <<data, seen, disturbed>>
  BY DEF Incr, Send, At
<1>2. /\ driver # "memory" /\ driver' = driver
      /\ pc' \in [Call -> Location] /\ pc'[c] = "SET"
      /\ \A d \in Call \ {c} : pc'[d] = pc[d]
      /\ now' = now /\ MemoryTogether'
  <2>1. pc[c] \in Command /\ Following["INCR"] = "SET"
    BY <1>1 DEF Command, Following
  <2> QED
    BY <1>1, <2>1, StepPlaces
<1>3. counter \in [n : Nat, life : Nat, expires : Nat]
  BY DEF IInv, TypeOK
<1>4. /\ counter' \in [n : Nat, life : Nat, expires : Nat]
      /\ counter'.n \in Nat \ {0} /\ counter'.life \in Nat
      /\ \/ counter'.life > counter.life
         \/ counter'.life = counter.life /\ counter'.n > counter.n
  <2>1. CASE Live(counter)
    <3>1. counter' = [counter EXCEPT !.n = counter.n + 1]
      BY <1>1, <2>1
    <3> QED
      BY <1>3, <3>1
  <2>2. CASE ~Live(counter)
    BY <1>1, <1>3, <2>2 DEF Restarted, Never, IInv, TypeOK
  <2> QED
    BY <2>1, <2>2
<1>5. took[c].n = 0
  BY <1>1 DEF IInv, NumberBeforeDocument
<1>6. /\ took' \in [Call -> Number]
      /\ took'[c] = [n |-> counter'.n, life |-> counter'.life]
      /\ \A d \in Call \ {c} : took'[d] = took[d]
      /\ NumbersBelowCounter' /\ VersionsDistinct' /\ Covered'
  <2> DEFINE n == counter'.n
             life == counter'.life
  <2>1. /\ n \in Nat \ {0} /\ life \in Nat
        /\ life > counter.life \/ (life = counter.life /\ n > counter.n)
        /\ took' = [took EXCEPT ![c] = [n |-> n, life |-> life]]
        /\ counter'.n = n /\ counter'.life = life
        /\ seen' = seen /\ driver' = driver
    BY <1>1, <1>2, <1>4
  <2> HIDE DEF n, life
  <2>2. /\ took' \in [Call -> Number]
        /\ took'[c] = [n |-> n, life |-> life]
        /\ \A d \in Call \ {c} : took'[d] = took[d]
        /\ NumbersBelowCounter' /\ VersionsDistinct' /\ Covered'
    BY <2>1, <1>5, TakesNumber
  <2> QED
    BY <2>2 DEF n, life
<1>7. TypeOK'
  BY <1>1, <1>2, <1>4, <1>5, <1>6 DEF IInv, TypeOK
<1>8. NumberBeforeDocument'
  BY <1>1, <1>2, <1>4, <1>5, <1>6 DEF IInv, TypeOK, NumberBeforeDocument
<1>9. VersionLast'
  BY <1>1, <1>2 DEF IInv, VersionLast
<1> QED
  BY <1>2, <1>6, <1>7, <1>8, <1>9 DEF IInv

\* SET, EXPIRE and DEL change the keys, not what calls have taken or found.
LEMMA KeysIInv ==
  ASSUME IInv, NEW c \in Call, SetData(c) \/ ExpireVersion(c) \/ DeleteKeys(c)
  PROVE  IInv'
<1> USE VaultAssumption
<1>1. /\ pc[c] \in {"SET", "EXPIRE", "DEL"} /\ Send(c, pc[c])
      /\ UNCHANGED <<took, seen>>
  BY DEF SetData, ExpireVersion, DeleteKeys, Send, At
<1>2. /\ driver # "memory" /\ driver' = driver
      /\ pc' \in [Call -> Location]
      /\ pc'[c] \in {"EXPIRE", "done"} /\ (pc'[c] = "EXPIRE" => pc[c] = "SET")
      /\ \A d \in Call \ {c} : pc'[d] = pc[d]
      /\ now' = now /\ MemoryTogether'
  <2>1. /\ pc[c] \in Command
        /\ Following[pc[c]] = IF pc[c] = "SET" THEN "EXPIRE" ELSE "done"
    BY <1>1 DEF Command, Following
  <2> QED
    BY <1>1, <2>1, StepPlaces
<1>3. /\ now \in Nat /\ TTL \in Nat /\ now + TTL \in Nat
      /\ now + WholeSeconds \in Nat
      /\ counter \in [n : Nat, life : Nat, expires : Nat]
  BY Seconds DEF IInv, TypeOK
<1>4. /\ counter' \in [n : Nat, life : Nat, expires : Nat]
      /\ counter'.n = counter.n /\ counter'.life = counter.life
  BY <1>3 DEF SetData, ExpireVersion, DeleteKeys
<1>5. /\ data' \in [doc : Call \cup {None}, setAt : Nat, expires : Nat]
      /\ data'.doc # None => took[data'.doc].n > 0
  <2>1. CASE SetData(c)
    <3>1. pc[c] = "SET" /\ data' = [doc |-> c, setAt |-> now, expires |-> now + TTL]
      BY <2>1 DEF SetData, Send, At
    <3>2. took[c].n > 0
      BY <3>1 DEF IInv, NumberBeforeDocument
    <3> QED
      BY <1>3, <3>1, <3>2
  <2>2. CASE ExpireVersion(c)
    BY <2>2 DEF ExpireVersion, IInv, TypeOK
  <2>3. CASE DeleteKeys(c)
    BY <2>3 DEF DeleteKeys, NoData
  <2> QED
    BY <2>1, <2>2, <2>3
<1>6. disturbed' \subseteq Call
  BY DEF SetData, ExpireVersion, DeleteKeys, Disturb, IInv, TypeOK
<1>7. TypeOK'
  BY <1>1, <1>2, <1>3, <1>4, <1>5, <1>6 DEF IInv, TypeOK
<1>8. NumberBeforeDocument' /\ VersionLast' /\ Covered'
  BY <1>1, <1>2 DEF IInv, NumberBeforeDocument, VersionLast, Covered
<1> QED
  BY <1>1, <1>2, <1>4, <1>7, <1>8, SameNumbers DEF IInv

-----------------------------------------------------------------------------
LEMMA RemainingInt == IInv => Remaining \in Int
<1> SUFFICES ASSUME IInv PROVE Remaining \in Int
  OBVIOUS
<1> DEFINE left == IF Live(data) THEN data.expires - now ELSE 0
           half == 2 * left + TicksPerSecond
           whole == 2 * TicksPerSecond
<1>1. half \in Int /\ whole \in Int /\ whole > 0 /\ TicksPerSecond \in Int
  BY VaultAssumption DEF IInv, TypeOK
<1>2. Remaining = (half \div whole) * TicksPerSecond
  BY DEF Remaining
<1> HIDE DEF half, whole
<1>3. half \div whole \in Int
  BY <1>1
<1> QED
  BY <1>1, <1>2, <1>3

\* The commands of a Get change what that call has found, and nothing else.
LEMMA GetIInv ==
  ASSUME IInv, NEW c \in Call,
         \/ GetData(c) \/ GetVersion(c) \/ GetMissed(c) \/ EstimateAge(c) \/ GuessAge(c)
  PROVE  IInv'
<1>1. /\ pc[c] \in {"GETdata", "GETversion", "TTL"} /\ Send(c, pc[c])
      /\ UNCHANGED <<data, counter, took, disturbed>>
  BY DEF GetData, GetVersion, GetMissed, EstimateAge, GuessAge, Send, At
<1>2. /\ driver # "memory" /\ driver' = driver
      /\ pc' \in [Call -> Location]
      /\ pc'[c] \in {"GETversion", "TTL", "done"}
      /\ pc'[c] = "GETversion" => pc[c] = "GETdata"
      /\ \A d \in Call \ {c} : pc'[d] = pc[d]
      /\ now' = now /\ MemoryTogether'
  <2>1. /\ pc[c] \in Command
        /\ Following["GETdata"] = "GETversion" /\ Following["GETversion"] = "TTL"
        /\ Following["TTL"] = "done"
    BY <1>1 DEF Command, Following
  <2> QED
    BY <1>1, <2>1, StepPlaces
<1>3. /\ seen \in [Call -> Seen] /\ took \in [Call -> Number]
      /\ counter \in [n : Nat, life : Nat, expires : Nat]
      /\ data \in [doc : Call \cup {None}, setAt : Nat, expires : Nat]
      /\ now \in Nat /\ TTL \in Nat
  BY VaultAssumption DEF IInv, TypeOK, Seen
<1>4. /\ seen' \in [Call -> Seen]
      /\ \A d \in Call \ {c} : seen'[d] = seen[d]
      /\ \/ GetData(c) /\ seen'[c].doc \in {data.doc, None} /\ seen'[c].n = 0
         \/ /\ GetVersion(c) /\ seen'[c].doc = seen[c].doc
            /\ seen'[c].n \in {counter.n, 0} /\ seen'[c].life = counter.life
         \/ /\ ~GetData(c)
            /\ seen'[c].doc = seen[c].doc /\ seen'[c].n = seen[c].n
            /\ seen'[c].life = seen[c].life
  <2>1. CASE GetData(c)
    <3>1. seen' = [seen EXCEPT ![c].doc = IF Live(data) THEN data.doc ELSE None,
                               ![c].setAt = data.setAt]
      BY <2>1 DEF GetData
    <3>2. seen[c].n = 0
      BY <2>1 DEF GetData, Send, At, IInv, VersionLast
    <3> QED
      BY <1>3, <2>1, <3>1, <3>2 DEF Seen
  <2>2. CASE GetVersion(c)
    <3>1. seen' = [seen EXCEPT ![c].n = IF Live(counter) THEN counter.n ELSE 0,
                               ![c].life = counter.life]
      BY <2>2 DEF GetVersion
    <3> QED
      BY <1>3, <2>2, <3>1 DEF Seen
  <2>3. CASE GetMissed(c)
    BY <1>3, <2>3 DEF GetMissed, GetData, Send, At
  <2>4. CASE EstimateAge(c)
    <3> DEFINE lag == (now - seen[c].setAt) - (TTL - Remaining)
    <3>1. lag \in Int
      BY <1>3, RemainingInt DEF Seen
    <3>2. seen' = [seen EXCEPT ![c].lag = lag, ![c].overtaken = data.doc # seen[c].doc]
      BY <2>4 DEF EstimateAge
    <3>3. ~GetData(c)
      BY <2>4 DEF EstimateAge, GetData, Send, At
    <3> HIDE DEF lag
    <3> QED
      BY <1>3, <3>1, <3>2, <3>3 DEF Seen
  <2>5. CASE GuessAge(c)
    BY <1>3, <2>5 DEF GuessAge, GetData, Send, At, Seen
  <2> QED
    BY <2>1, <2>2, <2>3, <2>4, <2>5
<1>5. TypeOK'
  BY <1>1, <1>2, <1>4 DEF IInv, TypeOK, Seen
<1>6. NumberBeforeDocument'
  BY <1>1, <1>2, <1>4 DEF IInv, TypeOK, NumberBeforeDocument
<1>7. VersionLast'
  <2>1. GetVersion(c) => pc[c] = "GETversion"
    BY DEF GetVersion, Send, At
  <2> QED
    BY <1>1, <1>2, <1>4, <2>1 DEF IInv, VersionLast
<1>8. Covered'
  <2> SUFFICES ASSUME NEW d \in Call, seen'[d].doc # None,
                      seen'[d].life = took[seen'[d].doc].life, seen'[d].n # 0
               PROVE  seen'[d].n >= took[seen'[d].doc].n
    BY <1>1, <1>2 DEF Covered
  <2>1. CASE d = c /\ GetVersion(c)
    <3>1. /\ seen'[d].n = counter.n /\ seen'[d].life = counter.life
          /\ seen'[d].doc = seen[d].doc
      BY <2>1, <1>4 DEF GetData, GetVersion, Send, At
    <3>2. seen[d].doc \in Call /\ took[seen[d].doc].n > 0
      BY <3>1, <1>3 DEF IInv, NumberBeforeDocument, Seen
    <3> QED
      BY <3>1, <3>2, <1>3 DEF IInv, NumbersBelowCounter, Number
  <2>2. CASE ~(d = c /\ GetVersion(c))
    BY <2>2, <1>2, <1>4 DEF IInv, Covered
  <2> QED
    BY <2>1, <2>2
<1> QED
  BY <1>1, <1>2, <1>5, <1>6, <1>7, <1>8, SameNumbers DEF IInv

\* A command that fails.
LEMMA BreakIInv ==
  ASSUME IInv, NEW c \in Call, Break(c)
  PROVE  IInv'
<1>1. /\ pc[c] \in Command /\ pc' = [pc EXCEPT ![c] = "done"]
      /\ seen' = [seen EXCEPT ![c] = NothingSeen]
      /\ UNCHANGED <<driver, now, data, counter, took>>
      /\ disturbed' \subseteq Call
  BY DEF Break, Finish, Disturb, IInv, TypeOK
<1>2. driver # "memory"
  BY <1>1 DEF IInv, MemoryTogether
<1>3. /\ seen \in [Call -> Seen] /\ NothingSeen \in Seen
      /\ NothingSeen.doc = None /\ NothingSeen.n = 0
  BY DEF IInv, TypeOK, Seen, NothingSeen
<1>4. /\ seen' \in [Call -> Seen]
      /\ \A d \in Call : seen'[d] = seen[d] \/ seen'[d] = NothingSeen
  BY <1>1, <1>3
<1>5. TypeOK'
  BY <1>1, <1>4 DEF IInv, TypeOK, Seen, Location
<1>6. NumberBeforeDocument' /\ VersionLast' /\ Covered'
  BY <1>1, <1>2, <1>3, <1>4
  DEF IInv, TypeOK, NumberBeforeDocument, VersionLast, Covered
<1> QED
  BY <1>1, <1>2, <1>5, <1>6, SameNumbers DEF IInv, MemoryTogether

-----------------------------------------------------------------------------
\* Every step.
LEMMA NextIInv == IInv /\ [Next]_vars => IInv'
<1> SUFFICES ASSUME IInv, [Next]_vars PROVE IInv'
  OBVIOUS
<1>1. CASE Tick
  <2>1. /\ UNCHANGED <<driver, data, counter, pc, took, seen>>
        /\ now' \in 0 .. MaxTime /\ disturbed' \subseteq Call
    BY <1>1, VaultAssumption DEF Tick, Disturb, IInv, TypeOK
  <2> QED
    BY <2>1 DEF IInv, TypeOK, NumberBeforeDocument, NumbersBelowCounter, VersionLast,
                MemoryTogether, VersionsDistinct, Covered
<1>2. ASSUME NEW c \in Call, NEW operation \in {"Get", "Set", "Seed", "Delete"},
             Begin(c, operation)
      PROVE  IInv'
  BY <1>2, BeginIInv
<1>3. ASSUME NEW c \in Call, MemoryCall(c) PROVE IInv'
  BY <1>3, MemoryCallIInv
<1>4. ASSUME NEW c \in Call, RedisCall(c) PROVE IInv'
  BY <1>4, IncrIInv, KeysIInv, GetIInv DEF RedisCall
<1>5. ASSUME NEW c \in Call, Break(c) PROVE IInv'
  BY <1>5, BreakIInv
<1>6. CASE UNCHANGED vars
  BY <1>6 DEF vars, IInv, TypeOK, NumberBeforeDocument, NumbersBelowCounter, VersionLast,
              MemoryTogether, VersionsDistinct, Covered
<1> QED
  BY <1>1, <1>2, <1>3, <1>4, <1>5, <1>6 DEF Next

LEMMA Invariant == Spec => []IInv
BY InitIInv, NextIInv, PTL DEF Spec

-----------------------------------------------------------------------------
\* Type correctness for any calls and times, and: no document without a number.
THEOREM TypeCorrect == Spec => []TypeOK
<1>1. IInv => TypeOK
  BY DEF IInv
<1> QED
  BY <1>1, Invariant, PTL

\* With either driver and however many proxies, Set never hands out a version
\* twice in the life of a counter.
THEOREM DistinctVersions == Spec => []VersionsDistinct
<1>1. IInv => VersionsDistinct
  BY DEF IInv
<1> QED
  BY <1>1, Invariant, PTL

\* A Get's version is never smaller than that of the document it returns, although
\* Redis is asked for the two one after the other; with the memory driver it is
\* the document's own.
THEOREM VersionsCover == Spec => []VersionCoversDocument
<1>1. IInv => VersionCoversDocument
  BY DEF IInv, Covered, VersionCoversDocument, Found
<1> QED
  BY <1>1, Invariant, PTL

-----------------------------------------------------------------------------
(***************************************************************************)
(* The keys' times to live.  Between a Set's commands nothing but a        *)
(* disturbance can take the counter away (CounterHolds); once all three    *)
(* are through, the counter expires no earlier than the document but for   *)
(* the part of a second cut off (CounterLasts); and no time to live reaches beyond the one a key is     *)
(* given now (ExpiresInTime), so that a later EXPIRE only moves the        *)
(* counter away from the document it counts.                               *)
(***************************************************************************)

\* A document is stored by a call whose SET is done.
Stored(doc) == doc # None => pc[doc] \in {"EXPIRE", "done"}

DocumentsStored ==
  /\ Stored(data.doc)
  /\ data.doc = None => data.expires = 0
  /\ \A c \in Call : Stored(seen[c].doc)

CounterHolds ==
  \A c \in Call \ disturbed : Halfway(c) => Live(counter)

CounterLasts ==
  data.doc \in Call \ disturbed /\ pc[data.doc] = "done" =>
    data.expires <= counter.expires + CutOff

ExpiresInTime ==
  driver = "redis" =>
    /\ data.expires <= now + TTL
    /\ data.doc # None => data.expires = data.setAt + TTL

\* What a Get has seen is the document stored, or one that is older.
SeenBefore ==
  /\ data.setAt <= now
  /\ \A c \in Call : seen[c].doc # None =>
       /\ seen[c].setAt <= now
       /\ data.doc # None => seen[c].setAt <= data.setAt
       /\ data.doc = seen[c].doc => seen[c].setAt = data.setAt

\* AgeIsTrue for Gets that are not done yet, too.
AgeRight ==
  \A c \in Call :
    /\ 2 * seen[c].lag >= -TicksPerSecond
    /\ ~seen[c].overtaken => 2 * seen[c].lag <= TicksPerSecond

TInv ==
  /\ DocumentsStored
  /\ CounterHolds
  /\ CounterLasts
  /\ ExpiresInTime
  /\ SeenBefore
  /\ AgeRight

\* Initially.
LEMMA InitTInv == Init => TInv
<1> SUFFICES ASSUME Init PROVE TInv
  OBVIOUS
<1> USE VaultAssumption DEF Init
<1>1. DocumentsStored /\ CounterHolds
  BY DEF DocumentsStored, Stored, CounterHolds, Halfway, NoData, NothingSeen
<1>2. CounterLasts /\ ExpiresInTime
  BY DEF CounterLasts, ExpiresInTime, NoData
<1>3. SeenBefore /\ AgeRight
  BY DEF SeenBefore, AgeRight, NoData, NothingSeen
<1> QED
  BY <1>1, <1>2, <1>3 DEF TInv

\* The types, as far as times need them.
LEMMA Times ==
  ASSUME IInv
  PROVE  /\ now \in Nat /\ now <= MaxTime /\ MaxTime \in Nat /\ TTL \in Nat /\ TTL > 0
         /\ TicksPerSecond \in Nat /\ TicksPerSecond > 0 /\ Never = MaxTime + TTL + TicksPerSecond
         /\ WholeSeconds \in Nat /\ WholeSeconds > 0 /\ WholeSeconds <= TTL + TicksPerSecond
         /\ CutOff \in Nat /\ TTL <= WholeSeconds + CutOff
         /\ data \in [doc : Call \cup {None}, setAt : Nat, expires : Nat]
         /\ counter \in [n : Nat, life : Nat, expires : Nat]
         /\ pc \in [Call -> Location] /\ None \notin Call
         /\ seen \in [Call -> Seen]
         /\ disturbed \subseteq Call
         /\ driver \in {"memory", "redis"}
<1>1. WholeSeconds <= TTL + TicksPerSecond
  BY VaultAssumption DEF WholeSeconds
<1> QED
  BY <1>1, Seconds, VaultAssumption DEF IInv, TypeOK, Never, Seen

\* The beginning of a call touches no key.
LEMMA BeginTInv ==
  ASSUME IInv, TInv, NEW c \in Call, NEW operation \in {"Get", "Set", "Seed", "Delete"},
         Begin(c, operation)
  PROVE  TInv'
<1>1. /\ pc[c] = "idle" /\ UNCHANGED <<driver, now, data, counter, took, seen, disturbed>>
      /\ \A d \in Call \ {c} : pc'[d] = pc[d]
      /\ pc'[c] \notin {"SET", "EXPIRE", "done"}
  <2>1. /\ Following["Get"] = "GETdata" /\ Following["Set"] = "INCR"
        /\ Following["Delete"] = "DEL"
    BY DEF Following
  <2>2. operation = "Seed" => driver = "memory"
    BY DEF Begin
  <2> QED
    BY <2>1, <2>2, Times DEF Begin, At
<1>2. DocumentsStored'
  BY <1>1, Times DEF TInv, DocumentsStored, Stored, Seen
<1>3. CounterHolds' /\ CounterLasts'
  BY <1>1, Times DEF TInv, CounterHolds, CounterLasts, Halfway, Live
<1> QED
  BY <1>1, <1>2, <1>3 DEF TInv, ExpiresInTime, SeenBefore, AgeRight

\* The memory driver keeps both keys for ever.
LEMMA MemoryTInv ==
  ASSUME IInv, TInv, NEW c \in Call, MemoryCall(c)
  PROVE  TInv'
<1>1. /\ driver = "memory" /\ pc' = [pc EXCEPT ![c] = "done"]
      /\ UNCHANGED <<driver, now, disturbed>>
  BY DEF MemoryCall, Finish
<1>2. /\ pc'[c] = "done" /\ \A d \in Call \ {c} : pc'[d] = pc[d]
      /\ \A d \in Call : pc[d] \notin {"SET", "EXPIRE"}
  BY <1>1, Times DEF IInv, MemoryTogether, Command
<1>3. CounterHolds' /\ ExpiresInTime'
  BY <1>1, <1>2 DEF CounterHolds, Halfway, ExpiresInTime
<1>4. ASSUME NEW number, number.expires = Never, Store(c, number), seen' = seen,
             pc[c] \in {"Set", "Seed"}
      PROVE  TInv'
  <2>1. data' = [doc |-> c, setAt |-> now, expires |-> Never] /\ counter' = number
    BY <1>4 DEF Store
  <2>2. \A d \in Call : seen[d].doc # c
    BY <1>4, Times DEF TInv, DocumentsStored, Stored
  <2>3. DocumentsStored' /\ CounterLasts'
    BY <1>2, <1>4, <2>1, Times DEF TInv, DocumentsStored, Stored, CounterLasts, Seen
  <2>4. SeenBefore' /\ AgeRight'
    BY <1>1, <1>4, <2>1, <2>2, Times DEF TInv, SeenBefore, AgeRight
  <2> QED
    BY <1>3, <2>3, <2>4 DEF TInv
<1>5. CASE MemorySet(c)
  <2>1. NextNumber.expires = Never /\ Restarted(1).expires = Never
    BY DEF NextNumber, Restarted
  <2>2. pc[c] \in {"Set", "Seed"} /\ seen' = seen
        /\ Store(c, IF Live(counter) THEN NextNumber ELSE Restarted(1))
    BY <1>5 DEF MemorySet, At
  <2> QED
    BY <1>4, <2>1, <2>2
<1>6. CASE MemorySeed(c)
  <2>1. PICK n \in 1 .. 2 : Store(c, Restarted(n))
    BY <1>6 DEF MemorySeed
  <2>2. Restarted(n).expires = Never
    BY DEF Restarted
  <2>3. pc[c] \in {"Set", "Seed"} /\ seen' = seen
    BY <1>6 DEF MemorySeed, At
  <2> QED
    BY <1>4, <2>1, <2>2, <2>3
<1>7. CASE MemoryGet(c)
  <2>1. UNCHANGED <<data, counter>>
        /\ \A d \in Call : seen'[d] = seen[d] \/ seen'[d] = Entry
    BY <1>7, Times DEF MemoryGet
  <2>2. /\ Entry.doc = data.doc /\ Entry.setAt = data.setAt /\ Entry.lag = 0
    BY DEF Entry
  <2>3. data.doc # c
    BY <1>7, Times DEF MemoryGet, At, TInv, DocumentsStored, Stored
  <2>4. CounterLasts'
    BY <1>1, <1>2, <2>1, <2>3 DEF TInv, CounterLasts
  <2>5. DocumentsStored'
    BY <1>2, <2>1, <2>2, <2>3, Times DEF TInv, DocumentsStored, Stored, Seen
  <2>6. SeenBefore'
    BY <1>1, <2>1, <2>2, Times DEF TInv, SeenBefore
  <2>7. AgeRight'
    BY <2>1, <2>2, Times DEF TInv, AgeRight
  <2> QED
    BY <1>3, <2>4, <2>5, <2>6, <2>7 DEF TInv
<1>8. CASE MemoryDelete(c)
  <2>1. data' = NoData /\ seen' = seen
    BY <1>8 DEF MemoryDelete
  <2>2. DocumentsStored' /\ CounterLasts'
    BY <1>2, <2>1, Times DEF TInv, DocumentsStored, Stored, CounterLasts, NoData, Seen
  <2>3. SeenBefore' /\ AgeRight'
    BY <1>1, <2>1, Times DEF TInv, SeenBefore, AgeRight, NoData
  <2> QED
    BY <1>3, <2>2, <2>3 DEF TInv
<1> QED
  BY <1>5, <1>6, <1>7, <1>8 DEF MemoryCall

\* Where the commands of the Redis driver lead.
LEMMA Sends ==
  ASSUME IInv, NEW c \in Call, NEW command \in Command, Send(c, command)
  PROVE  /\ driver = "redis" /\ UNCHANGED <<driver, now>>
         /\ pc[c] = command /\ pc'[c] = Following[command]
         /\ \A d \in Call \ {c} : pc'[d] = pc[d]
<1>1. pc[c] = command
  BY DEF Send, At
<1>2. driver # "memory" /\ UNCHANGED <<driver, now>>
      /\ pc'[c] = Following[pc[c]] /\ \A d \in Call \ {c} : pc'[d] = pc[d]
  BY <1>1, StepPlaces
<1> QED
  BY <1>1, <1>2, Times

\* A counter that is gone is created without a time to live.
LEMMA IncrTInv ==
  ASSUME IInv, TInv, NEW c \in Call, Incr(c)
  PROVE  TInv'
<1>1. /\ driver = "redis" /\ UNCHANGED <<driver, now, data, seen, disturbed>>
      /\ pc[c] = "INCR" /\ pc'[c] = "SET"
      /\ \A d \in Call \ {c} : pc'[d] = pc[d]
  BY Sends DEF Incr, Command, Following
<1>2. \/ Live(counter) /\ counter'.expires = counter.expires
      \/ counter'.expires = Never
  BY Times DEF Incr, Restarted
<1>3. data.doc # c /\ \A d \in Call : seen[d].doc # c
  BY <1>1, Times DEF TInv, DocumentsStored, Stored
<1>4. DocumentsStored'
  BY <1>1, <1>3, Times DEF TInv, DocumentsStored, Stored, Seen
<1>5. Live(counter)'
  BY <1>1, <1>2, Times DEF Live
<1>6. CounterLasts'
  BY <1>1, <1>2, <1>3, Times DEF TInv, CounterLasts, ExpiresInTime
<1> QED
  BY <1>1, <1>4, <1>5, <1>6 DEF TInv, CounterHolds, ExpiresInTime, SeenBefore, AgeRight

\* The document of a Set, whose EXPIRE is yet to come.
LEMMA SetTInv ==
  ASSUME IInv, TInv, NEW c \in Call, SetData(c)
  PROVE  TInv'
<1>1. /\ driver = "redis" /\ UNCHANGED <<driver, now, counter, seen, disturbed>>
      /\ pc[c] = "SET" /\ pc'[c] = "EXPIRE"
      /\ \A d \in Call \ {c} : pc'[d] = pc[d]
      /\ data' = [doc |-> c, setAt |-> now, expires |-> now + TTL]
  BY Sends DEF SetData, Command, Following
<1>2. \A d \in Call : seen[d].doc # c
  BY <1>1, Times DEF TInv, DocumentsStored, Stored
<1>3. DocumentsStored'
  BY <1>1, <1>2, Times DEF TInv, DocumentsStored, Stored, Seen
<1>4. CounterHolds' /\ CounterLasts'
  BY <1>1, Times DEF TInv, CounterHolds, CounterLasts, Halfway, Live
<1>5. ExpiresInTime'
  BY <1>1, Times DEF ExpiresInTime
<1>6. SeenBefore' /\ AgeRight'
  BY <1>1, <1>2, Times DEF TInv, SeenBefore, AgeRight
<1> QED
  BY <1>3, <1>4, <1>5, <1>6 DEF TInv

\* The counter's time to live, given last, is shorter than a document's by no
\* more than is cut off.
LEMMA ExpireTInv ==
  ASSUME IInv, TInv, NEW c \in Call, ExpireVersion(c)
  PROVE  TInv'
<1>1. /\ driver = "redis" /\ UNCHANGED <<driver, now, data, seen, disturbed>>
      /\ pc[c] = "EXPIRE" /\ pc'[c] = "done"
      /\ \A d \in Call \ {c} : pc'[d] = pc[d]
  BY Sends DEF ExpireVersion, Command, Following
<1>2. \/ Live(counter) /\ counter'.expires = now + WholeSeconds
      \/ ~Live(counter) /\ counter' = counter
  BY Times DEF ExpireVersion
<1>3. DocumentsStored'
  BY <1>1, Times DEF TInv, DocumentsStored, Stored, Seen
<1>4. Live(counter) => Live(counter)'
  BY <1>1, <1>2, Times DEF Live
<1>5. CounterHolds'
  BY <1>1, <1>4 DEF TInv, CounterHolds, Halfway
<1>6. CounterLasts'
  <2>1. ASSUME data.doc = c, c \notin disturbed
        PROVE  Live(counter)
    BY <1>1, <2>1 DEF TInv, CounterHolds, Halfway
  <2> QED
    BY <1>1, <1>2, <2>1, Times DEF TInv, CounterLasts, ExpiresInTime
<1> QED
  BY <1>1, <1>3, <1>5, <1>6 DEF TInv, ExpiresInTime, SeenBefore, AgeRight

\* Deleting disturbs every Set that is halfway.
LEMMA DeleteTInv ==
  ASSUME IInv, TInv, NEW c \in Call, DeleteKeys(c)
  PROVE  TInv'
<1>1. /\ driver = "redis" /\ UNCHANGED <<driver, now, seen>>
      /\ data' = NoData
      /\ pc[c] = "DEL" /\ pc'[c] = "done"
      /\ \A d \in Call \ {c} : pc'[d] = pc[d]
      /\ disturbed' = disturbed \cup {d \in Call : Halfway(d)}
  BY Sends DEF DeleteKeys, Disturb, Command, Following
<1>2. DocumentsStored' /\ CounterLasts' /\ ExpiresInTime'
  BY <1>1, Times DEF TInv, DocumentsStored, Stored, CounterLasts, ExpiresInTime, NoData, Seen
<1>3. CounterHolds'
  BY <1>1 DEF CounterHolds, Halfway
<1>4. SeenBefore' /\ AgeRight'
  BY <1>1, Times DEF TInv, SeenBefore, AgeRight, NoData
<1> QED
  BY <1>2, <1>3, <1>4 DEF TInv

\* So does breaking off, for the one call.
LEMMA BreakTInv ==
  ASSUME IInv, TInv, NEW c \in Call, Break(c)
  PROVE  TInv'
<1>1. /\ pc[c] \in Command /\ pc'[c] = "done"
      /\ \A d \in Call \ {c} : pc'[d] = pc[d]
      /\ UNCHANGED <<driver, now, data, counter>>
      /\ disturbed' = disturbed \cup {d \in {c} : Halfway(d)}
      /\ \A d \in Call : seen'[d] = seen[d] \/ seen'[d] = NothingSeen
  BY Times DEF Break, Finish, Disturb
<1>2. NothingSeen.doc = None /\ NothingSeen.lag = 0
  BY DEF NothingSeen
<1>3. DocumentsStored'
  BY <1>1, <1>2, Times DEF TInv, DocumentsStored, Stored, Seen
<1>4. CounterHolds'
  BY <1>1 DEF TInv, CounterHolds, Halfway, Live
<1>5. CounterLasts'
  <2>1. data.doc = c => c \in disturbed'
    BY <1>1, Times DEF TInv, DocumentsStored, Stored, Halfway, Command
  <2> QED
    BY <1>1, <2>1 DEF TInv, CounterLasts
<1>6. SeenBefore' /\ AgeRight'
  BY <1>1, <1>2, Times DEF TInv, SeenBefore, AgeRight
<1> QED
  BY <1>1, <1>3, <1>4, <1>5, <1>6 DEF TInv, ExpiresInTime

\* Time disturbs every Set that is halfway.
LEMMA TickTInv ==
  ASSUME IInv, TInv, Tick
  PROVE  TInv'
<1>1. /\ now' = now + 1
      /\ disturbed' = disturbed \cup {c \in Call : Halfway(c)}
      /\ UNCHANGED <<driver, data, counter, pc, seen>>
  BY DEF Tick, Disturb
<1>2. DocumentsStored' /\ CounterHolds' /\ CounterLasts'
  BY <1>1 DEF TInv, DocumentsStored, Stored, CounterHolds, CounterLasts, Halfway
<1>3. ExpiresInTime' /\ SeenBefore' /\ AgeRight'
  BY <1>1, Times DEF TInv, ExpiresInTime, SeenBefore, AgeRight, Seen
<1> QED
  BY <1>2, <1>3 DEF TInv

-----------------------------------------------------------------------------
\* Division of natural numbers.
LEMMA Division ==
  ASSUME NEW a \in Nat, NEW b \in Nat \ {0}
  PROVE  a \div b \in Nat /\ b * (a \div b) <= a /\ a < b * (a \div b) + b
OBVIOUS

\* The server's answer to TTL is right to half a second.
LEMMA Rounding ==
  ASSUME NEW left \in Nat, NEW t \in Nat \ {0}, NEW answer,
         answer = ((2 * left + t) \div (2 * t)) * t
  PROVE  /\ 2 * answer <= 2 * left + t
         /\ 2 * answer >= 2 * left - t
         /\ left = 0 => answer = 0
<1> DEFINE a == 2 * left + t
           b == 2 * t
           m == a \div b
<1>1. a \in Nat /\ b \in Nat \ {0} /\ answer = m * t
  OBVIOUS
<1> HIDE DEF a, b
<1>2. m \in Nat /\ b * m <= a /\ a < b * m + b
  BY <1>1, Division
<1> HIDE DEF m
<1>3. 2 * (m * t) = b * m /\ b * m \in Nat /\ m * t \in Nat
  BY <1>2 DEF b
<1>4. left = 0 => m = 0
  <2>1. ASSUME left = 0, m > 0 PROVE FALSE
    <3>1. b * m >= b
      BY <1>1, <1>2, <2>1
    <3>2. b > a
      BY <2>1 DEF a, b
    <3> QED
      BY <1>1, <1>2, <1>3, <3>1, <3>2
  <2> QED
    BY <1>2, <2>1
<1> QED
  BY <1>1, <1>2, <1>3, <1>4 DEF a, b

\* The age of the document seen, reckoned from the time the data key has left.
LEMMA AgeReckoned ==
  ASSUME IInv, TInv, driver = "redis", NEW c \in Call, seen[c].doc # None, Remaining > 0
  PROVE  LET lag == (now - seen[c].setAt) - (TTL - Remaining)
         IN  /\ lag \in Int
             /\ 2 * lag >= -TicksPerSecond
             /\ data.doc = seen[c].doc => 2 * lag <= TicksPerSecond
<1> DEFINE left == IF Live(data) THEN data.expires - now ELSE 0
<1>1. left \in Nat
  BY Times DEF Live
<1>2. Remaining = ((2 * left + TicksPerSecond) \div (2 * TicksPerSecond)) * TicksPerSecond
  BY DEF Remaining
<1> HIDE DEF left
<1>3. /\ 2 * Remaining <= 2 * left + TicksPerSecond
      /\ 2 * Remaining >= 2 * left - TicksPerSecond
      /\ left = 0 => Remaining = 0
  <2>1. TicksPerSecond \in Nat \ {0}
    BY VaultAssumption
  <2> QED
    BY <1>1, <1>2, <2>1, Rounding, Zenon
<1>4. Live(data) /\ left = data.expires - now
  BY <1>3 DEF left
<1>5. data.doc # None /\ data.expires = data.setAt + TTL
  BY <1>4, Times DEF TInv, DocumentsStored, ExpiresInTime, Live
<1>6. /\ seen[c].setAt <= data.setAt /\ seen[c].setAt \in Nat
      /\ data.doc = seen[c].doc => seen[c].setAt = data.setAt
  BY <1>5, Times DEF TInv, SeenBefore, Seen
<1>7. Remaining \in Int
  BY RemainingInt
<1> QED
  BY <1>3, <1>4, <1>5, <1>6, <1>7, Times

\* The commands of a Get leave the keys alone.
LEMMA GetTInv ==
  ASSUME IInv, TInv, NEW c \in Call,
         \/ GetData(c) \/ GetVersion(c) \/ GetMissed(c) \/ EstimateAge(c) \/ GuessAge(c)
  PROVE  TInv'
<1>1. /\ driver = "redis" /\ UNCHANGED <<driver, now, data, counter, disturbed>>
      /\ pc[c] \in {"GETdata", "GETversion", "TTL"}
      /\ pc'[c] \in {"GETversion", "TTL", "done"}
      /\ \A d \in Call \ {c} : pc'[d] = pc[d]
  BY Sends DEF GetData, GetVersion, GetMissed, EstimateAge, GuessAge, Command, Following
<1>2. /\ \A d \in Call \ {c} : seen'[d] = seen[d]
      /\ \/ seen'[c].doc = None
         \/ seen'[c].doc = seen[c].doc /\ seen'[c].setAt = seen[c].setAt
         \/ seen'[c].doc = data.doc /\ seen'[c].setAt = data.setAt
      /\ \/ seen'[c].lag = seen[c].lag /\ seen'[c].overtaken = seen[c].overtaken
         \/ /\ 2 * seen'[c].lag >= -TicksPerSecond
            /\ ~seen'[c].overtaken => 2 * seen'[c].lag <= TicksPerSecond
  <2>1. CASE GetData(c)
    BY <2>1, Times DEF GetData, Seen
  <2>2. CASE GetVersion(c)
    BY <2>2, Times DEF GetVersion, Seen
  <2>3. CASE GetMissed(c)
    BY <2>3, Times DEF GetMissed
  <2>4. CASE EstimateAge(c)
    <3> DEFINE lag == (now - seen[c].setAt) - (TTL - Remaining)
    <3>1. /\ lag \in Int
          /\ 2 * lag >= -TicksPerSecond
          /\ data.doc = seen[c].doc => 2 * lag <= TicksPerSecond
      BY <1>1, <2>4, AgeReckoned DEF EstimateAge
    <3>2. seen' = [seen EXCEPT ![c].lag = lag, ![c].overtaken = data.doc # seen[c].doc]
      BY <2>4 DEF EstimateAge
    <3> HIDE DEF lag
    <3>3. /\ \A d \in Call \ {c} : seen'[d] = seen[d]
          /\ seen'[c].doc = seen[c].doc /\ seen'[c].setAt = seen[c].setAt
          /\ seen'[c].lag = lag /\ seen'[c].overtaken = (data.doc # seen[c].doc)
      BY <3>2, Times DEF Seen
    <3> QED
      BY <3>1, <3>3
  <2>5. CASE GuessAge(c)
    BY <2>5, Times DEF GuessAge, Seen
  <2> QED
    BY <2>1, <2>2, <2>3, <2>4, <2>5
<1>3. data.doc # c /\ \A d \in Call : seen[d].doc # c
  BY <1>1, Times DEF TInv, DocumentsStored, Stored
<1>4. DocumentsStored'
  BY <1>1, <1>2, <1>3, Times DEF TInv, DocumentsStored, Stored, Seen
<1>5. CounterHolds' /\ CounterLasts'
  BY <1>1, <1>3 DEF TInv, CounterHolds, CounterLasts, Halfway, Live
<1>6. SeenBefore'
  BY <1>1, <1>2, Times DEF TInv, SeenBefore
<1>7. AgeRight'
  BY <1>2 DEF TInv, AgeRight
<1> QED
  BY <1>1, <1>4, <1>5, <1>6, <1>7 DEF TInv, ExpiresInTime

\* Every step.
LEMMA NextTInv == IInv /\ TInv /\ [Next]_vars => TInv'
<1> SUFFICES ASSUME IInv, TInv, [Next]_vars PROVE TInv'
  OBVIOUS
<1>1. CASE Tick
  BY <1>1, TickTInv
<1>2. ASSUME NEW c \in Call, NEW operation \in {"Get", "Set", "Seed", "Delete"},
             Begin(c, operation)
      PROVE  TInv'
  BY <1>2, BeginTInv
<1>3. ASSUME NEW c \in Call, MemoryCall(c) PROVE TInv'
  BY <1>3, MemoryTInv
<1>4. ASSUME NEW c \in Call, RedisCall(c) PROVE TInv'
  BY <1>4, IncrTInv, SetTInv, ExpireTInv, DeleteTInv, GetTInv DEF RedisCall
<1>5. ASSUME NEW c \in Call, Break(c) PROVE TInv'
  BY <1>5, BreakTInv
<1>6. CASE UNCHANGED vars
  BY <1>6 DEF vars, TInv, DocumentsStored, Stored, CounterHolds, CounterLasts, ExpiresInTime,
     SeenBefore, AgeRight, Halfway, Live
<1> QED
  BY <1>1, <1>2, <1>3, <1>4, <1>5, <1>6 DEF Next

LEMMA TimesInvariant == Spec => [](IInv /\ TInv)
<1>1. Init => IInv /\ TInv
  BY InitIInv, InitTInv
<1>2. IInv /\ TInv /\ [Next]_vars => (IInv /\ TInv)'
  BY NextIInv, NextTInv
<1> QED
  BY <1>1, <1>2, PTL DEF Spec

\* Whatever time to live is configured, a document whose Set was not disturbed
\* halfway outlives its version by no more than the fraction of a second EXPIRE is
\* not sent, and not at all if that is a whole number of seconds.
THEOREM VersionOutlives == Spec => []VersionOutlivesDocument
<1>1. ASSUME IInv, TInv, now + CutOff < data.expires, data.doc \notin disturbed
      PROVE  Live(counter)
  <2>1. data.doc \in Call /\ pc[data.doc] \in {"EXPIRE", "done"}
    BY <1>1, Times DEF TInv, DocumentsStored, Stored
  <2>2. CASE pc[data.doc] = "EXPIRE"
    BY <1>1, <2>1, <2>2 DEF TInv, CounterHolds, Halfway
  <2>3. CASE pc[data.doc] = "done"
    BY <1>1, <2>1, <2>3, Times DEF TInv, CounterLasts, Live
  <2> QED
    BY <2>1, <2>2, <2>3
<1>2. IInv /\ TInv => VersionOutlivesDocument
  BY <1>1 DEF VersionOutlivesDocument
<1> QED
  BY <1>2, TimesInvariant, PTL

\* The age a Get reports is right to half a second, or too small if the document was
\* replaced meanwhile, unless the driver had to guess.
THEOREM AgeTrue == Spec => []AgeIsTrue
<1>1. IInv /\ TInv => AgeIsTrue
  BY DEF TInv, AgeRight, AgeIsTrue
<1> QED
  BY <1>1, TimesInvariant, PTL

=============================================================================
