-------------------------- MODULE AnticSystemProofs --------------------------
(***************************************************************************)
(* Theorems about AnticSystem for any number of calls and streams and any  *)
(* capacity of the hub's channel: with the hub and the network as its      *)
(* channel a page behaves as Resolver says, and a FILL is held back for a  *)
(* PATCH only if that was lost or came before the reply.                   *)
(*                                                                         *)
(* The hub's invariant and the resolver's are taken from the proofs about  *)
(* these modules; what is shown here is what the steps of the one are to   *)
(* the other.                                                              *)
(***************************************************************************)
EXTENDS AnticSystem, TLAPS

H == INSTANCE SignalHubProofs WITH MaxMsgs <- 2 * MaxCalls

C == INSTANCE ResolverProofs WITH inbound <- Outstanding

\* The instances' assumptions.
LEMMA Assumed == /\ Capacity \in Nat \ {0} /\ MaxCalls \in Nat /\ 2 * MaxCalls \in Nat
                 /\ Overlap \in BOOLEAN
BY SystemAssumption

-----------------------------------------------------------------------------
(***************************************************************************)
(* What is owed to a call: the names of the messages in S, in their order, *)
(* and then what its track has not published.                              *)
(***************************************************************************)

Numbers(n) == [m \in 1 .. n |-> m]

NamesIn(names, seq) == [i \in DOMAIN seq |-> names[seq[i]].name]

Owed(n, S, names, rest) == NamesIn(names, H!Kept(Numbers(n), S)) \o rest

Entry == [call : Call, name : Client!Name]

Logs == Seq(Entry)

\* The numbers up to n, none twice.
LEMMA NumbersAre ==
  ASSUME NEW n \in Nat
  PROVE  /\ Numbers(n) \in Seq(Nat) /\ Len(Numbers(n)) = n
         /\ \A i \in 1 .. n : Numbers(n)[i] = i
         /\ H!Distinct(Numbers(n))
         /\ Numbers(n + 1) = Append(Numbers(n), n + 1)
<1> DEFINE a == Numbers(n)
           b == Numbers(n + 1)
           c == Append(a, n + 1)
<1>1. a \in Seq(Nat) /\ Len(a) = n /\ \A i \in 1 .. n : a[i] = i
  BY DEF Numbers
<1>2. b \in Seq(Nat) /\ Len(b) = n + 1 /\ \A i \in 1 .. n + 1 : b[i] = i
  BY DEF Numbers
<1> HIDE DEF a, b
<1>3. H!Distinct(a)
  BY <1>1 DEF H!Distinct
<1>4. /\ c \in Seq(Nat) /\ Len(c) = n + 1
      /\ c[n + 1] = n + 1 /\ \A i \in 1 .. n : c[i] = a[i]
  BY <1>1
<1>5. \A i \in 1 .. n + 1 : b[i] = c[i]
  <2>1. \A i \in 1 .. n + 1 : i = n + 1 \/ i \in 1 .. n
    OBVIOUS
  <2> QED
    BY <1>1, <1>2, <1>4, <2>1
<1>6. b = c
  BY <1>2, <1>4, <1>5, Assumed, H!SameSequence
<1> QED
  BY <1>1, <1>3, <1>6 DEF a, b

\* What Kept leaves of the numbers is in S, and each is less than the next.
LEMMA KeptNumbers ==
  ASSUME NEW n \in Nat, NEW S
  PROVE  LET kept == H!Kept(Numbers(n), S) IN
         /\ kept \in Seq(Nat)
         /\ \A i \in 1 .. Len(kept) : kept[i] \in S /\ kept[i] \in 1 .. n
         /\ \A i, j \in 1 .. Len(kept) : i < j => kept[i] < kept[j]
         /\ \A m \in S \cap (1 .. n) : \E i \in 1 .. Len(kept) : kept[i] = m
<1> DEFINE kept == H!Kept(Numbers(n), S)
<1>1. Numbers(n) \in Seq(Nat) /\ Len(Numbers(n)) = n /\ \A i \in 1 .. n : Numbers(n)[i] = i
  BY NumbersAre
<1>2. kept \in Seq(Nat) /\ \E where : H!Selects(where, kept, Numbers(n), S)
  BY <1>1, Assumed, H!KeptSelects, Zenon
<1>3. PICK where : H!Selects(where, kept, Numbers(n), S)
  BY <1>2
<1> HIDE DEF kept
<1>4. /\ where \in [1 .. Len(kept) -> 1 .. n]
      /\ \A j \in 1 .. Len(kept) : kept[j] = Numbers(n)[where[j]] /\ kept[j] \in S
      /\ \A j, k \in 1 .. Len(kept) : j < k => where[j] < where[k]
      /\ \A i \in 1 .. n : Numbers(n)[i] \in S => \E j \in 1 .. Len(kept) : where[j] = i
  BY <1>1, <1>3 DEF H!Selects
<1>5. \A j \in 1 .. Len(kept) : where[j] \in 1 .. n /\ kept[j] = where[j]
  BY <1>1, <1>4
<1>6. \A m \in S \cap (1 .. n) : \E i \in 1 .. Len(kept) : kept[i] = m
  BY <1>1, <1>4, <1>5
<1> QED
  BY <1>2, <1>4, <1>5, <1>6, Zenon DEF kept

\* One message more.
LEMMA KeptNext ==
  ASSUME NEW n \in Nat, NEW S
  PROVE  H!Kept(Numbers(n + 1), S) =
           IF n + 1 \in S THEN Append(H!Kept(Numbers(n), S), n + 1)
                         ELSE H!Kept(Numbers(n), S)
<1>1. Numbers(n) \in Seq(Nat) /\ Numbers(n + 1) = Append(Numbers(n), n + 1)
  BY NumbersAre, Zenon
<1>2. ASSUME NEW seq \in Seq(Nat), NEW e \in Nat
      PROVE  H!Kept(Append(seq, e), S) =
               IF e \in S THEN Append(H!Kept(seq, S), e) ELSE H!Kept(seq, S)
  BY Assumed, H!KeptAppend
<1>3. n + 1 \in Nat
  OBVIOUS
<1> QED
  BY <1>1, <1>2, <1>3, Zenon

\* The elements of two sequences one after the other.
LEMMA Joined ==
  ASSUME NEW a \in Seq(Client!Name), NEW b \in Seq(Client!Name)
  PROVE  /\ a \o b \in Seq(Client!Name) /\ Len(a \o b) = Len(a) + Len(b)
         /\ \A j \in 1 .. Len(a) + Len(b) :
              (a \o b)[j] = IF j <= Len(a) THEN a[j] ELSE b[j - Len(a)]
BY Assumed, H!Joined

\* What is owed depends on the messages up to n only.
LEMMA OwedSame ==
  ASSUME NEW n \in Nat, NEW S, NEW S2, NEW names, NEW rest,
         \A m \in 1 .. n : m \in S <=> m \in S2
  PROVE  Owed(n, S, names, rest) = Owed(n, S2, names, rest)
<1>1. Numbers(n) \in Seq(Nat) /\ Len(Numbers(n)) = n /\ \A i \in 1 .. n : Numbers(n)[i] = i
  BY NumbersAre
<1>2. \A i \in 1 .. Len(Numbers(n)) : Numbers(n)[i] \in S <=> Numbers(n)[i] \in S2
  BY <1>1
<1>3. H!Kept(Numbers(n), S) = H!Kept(Numbers(n), S2)
  BY <1>1, <1>2, Assumed, H!KeptSame
<1> QED
  BY <1>3 DEF Owed

\* The names of a sequence of messages.
LEMMA NamesInAre ==
  ASSUME NEW names \in Logs, NEW seq \in Seq(Nat),
         \A i \in 1 .. Len(seq) : seq[i] \in 1 .. Len(names)
  PROVE  /\ NamesIn(names, seq) \in Seq(Client!Name)
         /\ Len(NamesIn(names, seq)) = Len(seq)
         /\ \A i \in 1 .. Len(seq) : NamesIn(names, seq)[i] = names[seq[i]].name
<1>1. DOMAIN seq = 1 .. Len(seq) /\ Len(seq) \in Nat
  OBVIOUS
<1>2. ASSUME NEW m \in 1 .. Len(names)
      PROVE  names[m].name \in Client!Name
  <2>1. names[m] \in Entry
    BY DEF Logs
  <2> QED
    BY <2>1 DEF Entry
<1> DEFINE new == NamesIn(names, seq)
<1>3. new \in [1 .. Len(seq) -> Client!Name]
  BY <1>1, <1>2 DEF NamesIn
<1> HIDE DEF new
<1>4. new \in Seq(Client!Name) /\ Len(new) = Len(seq)
  BY <1>1, <1>3
<1>5. \A i \in 1 .. Len(seq) : NamesIn(names, seq)[i] = names[seq[i]].name
  BY <1>1 DEF NamesIn
<1> QED
  BY <1>4, <1>5 DEF new

\* What is owed is a sequence of names.
LEMMA OwedType ==
  ASSUME NEW names \in Logs, NEW S, NEW rest \in Seq(Client!Name)
  PROVE  Owed(Len(names), S, names, rest) \in Seq(Client!Name)
<1>1. Len(names) \in Nat
  BY DEF Logs
<1>2. /\ H!Kept(Numbers(Len(names)), S) \in Seq(Nat)
      /\ \A i \in 1 .. Len(H!Kept(Numbers(Len(names)), S)) :
           H!Kept(Numbers(Len(names)), S)[i] \in 1 .. Len(names)
  BY <1>1, KeptNumbers
<1>3. NamesIn(names, H!Kept(Numbers(Len(names)), S)) \in Seq(Client!Name)
  BY <1>2, NamesInAre
<1> QED
  BY <1>3 DEF Owed

\* A log that has grown says the same of the older messages.
LEMMA LogGrows ==
  ASSUME NEW names \in Logs, NEW e \in Entry
  PROVE  /\ Append(names, e) \in Logs /\ Len(names) \in Nat
         /\ Len(Append(names, e)) = Len(names) + 1
         /\ Append(names, e)[Len(names) + 1] = e
         /\ \A m \in 1 .. Len(names) : Append(names, e)[m] = names[m]
BY DEF Logs

\* Nothing new is owed to a call by a message of another.
LEMMA OwedOther ==
  ASSUME NEW names \in Logs, NEW e \in Entry, NEW S, Len(names) + 1 \notin S, NEW rest
  PROVE  Owed(Len(names) + 1, S, Append(names, e), rest) = Owed(Len(names), S, names, rest)
<1> DEFINE n == Len(names)
           more == Append(names, e)
           kept == H!Kept(Numbers(n), S)
<1>1. /\ n \in Nat /\ \A m \in 1 .. n : more[m] = names[m]
  BY LogGrows
<1>2. H!Kept(Numbers(n + 1), S) = kept
  BY <1>1, KeptNext
<1>3. kept \in Seq(Nat) /\ \A i \in 1 .. Len(kept) : kept[i] \in 1 .. n
  BY <1>1, KeptNumbers
<1> HIDE DEF more, kept, n
<1>4. NamesIn(more, kept) = NamesIn(names, kept)
  BY <1>1, <1>3 DEF NamesIn
<1> QED
  BY <1>2, <1>4, Zenon DEF Owed, n, more, kept

\* A signal that is published is owed as before.
LEMMA OwedPublished ==
  ASSUME NEW names \in Logs, NEW e \in Entry, NEW S,
         NEW rest \in Seq(Client!Name), rest # <<>>, e.name = Head(rest),
         Len(names) + 1 \in S
  PROVE  Owed(Len(names) + 1, S, Append(names, e), Tail(rest)) = Owed(Len(names), S, names, rest)
<1> DEFINE n == Len(names)
           more == Append(names, e)
           kept == H!Kept(Numbers(n), S)
           kept2 == H!Kept(Numbers(n + 1), S)
           a == NamesIn(names, kept)
           b == NamesIn(more, kept2)
           old == a \o rest
           new == b \o Tail(rest)
<1>1. /\ n \in Nat /\ more \in Logs /\ Len(more) = n + 1 /\ more[n + 1] = e
      /\ \A m \in 1 .. n : more[m] = names[m]
  BY LogGrows
<1>2. kept2 = Append(kept, n + 1)
  BY <1>1, KeptNext, Zenon
<1>3. kept \in Seq(Nat) /\ \A i \in 1 .. Len(kept) : kept[i] \in 1 .. n
  BY <1>1, KeptNumbers
<1>4. kept2 \in Seq(Nat) /\ \A i \in 1 .. Len(kept2) : kept2[i] \in 1 .. Len(more)
  BY <1>1, KeptNumbers
<1>5. /\ a \in Seq(Client!Name) /\ Len(a) = Len(kept) /\ Len(kept) \in Nat
      /\ \A i \in 1 .. Len(kept) : a[i] = names[kept[i]].name
  BY <1>3, NamesInAre DEF n
<1>6. /\ b \in Seq(Client!Name) /\ Len(b) = Len(kept2)
      /\ \A i \in 1 .. Len(kept2) : b[i] = more[kept2[i]].name
  BY <1>1, <1>4, NamesInAre, Zenon
<1>7. /\ Tail(rest) \in Seq(Client!Name) /\ Len(rest) \in Nat \ {0}
      /\ Len(Tail(rest)) = Len(rest) - 1 /\ Head(rest) = rest[1]
      /\ \A i \in 1 .. Len(rest) - 1 : Tail(rest)[i] = rest[i + 1]
  OBVIOUS
<1> DEFINE k == Len(kept)
<1>8. /\ Len(kept2) = k + 1 /\ kept2[k + 1] = n + 1
      /\ \A i \in 1 .. k : kept2[i] = kept[i]
  <2> HIDE DEF kept2, kept
  <2> QED
    BY <1>1, <1>2, <1>3
<1> HIDE DEF n, more, kept, kept2, a, b, k
<1>9. k \in Nat /\ k = Len(kept) /\ k + 1 \in 1 .. k + 1 /\ \A i \in 1 .. k : i \in 1 .. k + 1
  BY <1>5 DEF k
<1>10. b[k + 1] = rest[1] /\ \A i \in 1 .. k : b[i] = a[i]
  <2>1. \A i \in 1 .. k + 1 : b[i] = more[kept2[i]].name
    BY <1>6, <1>8
  <2>2. b[k + 1] = rest[1]
    BY <1>1, <1>7, <1>8, <1>9, <2>1
  <2>3. ASSUME NEW i \in 1 .. k
        PROVE  b[i] = a[i]
    <3>1. kept[i] \in 1 .. n /\ kept2[i] = kept[i] /\ a[i] = names[kept[i]].name
      BY <1>3, <1>5, <1>8, <1>9
    <3> QED
      BY <1>1, <1>9, <2>1, <3>1
  <2> QED
    BY <2>2, <2>3
<1>11. /\ old \in Seq(Client!Name) /\ Len(old) = k + Len(rest)
       /\ \A j \in 1 .. k + Len(rest) : old[j] = IF j <= k THEN a[j] ELSE rest[j - k]
  <2>1. Len(a) = k
    BY <1>5, <1>9
  <2> QED
    BY <1>5, <2>1, Joined, Zenon DEF old
<1>12. /\ new \in Seq(Client!Name) /\ Len(new) = (k + 1) + (Len(rest) - 1)
       /\ \A j \in 1 .. (k + 1) + (Len(rest) - 1) :
            new[j] = IF j <= k + 1 THEN b[j] ELSE Tail(rest)[j - (k + 1)]
  <2>1. Len(b) = k + 1 /\ Len(Tail(rest)) = Len(rest) - 1
    BY <1>6, <1>7, <1>8
  <2>2. /\ new \in Seq(Client!Name) /\ Len(new) = Len(b) + Len(Tail(rest))
        /\ \A j \in 1 .. Len(b) + Len(Tail(rest)) :
             new[j] = IF j <= Len(b) THEN b[j] ELSE Tail(rest)[j - Len(b)]
    BY <1>6, <1>7, Joined, Zenon DEF new
  <2> HIDE DEF new
  <2> QED
    BY <2>1, <2>2
<1> HIDE DEF old, new
<1>13. Len(new) = Len(old)
  BY <1>7, <1>9, <1>11, <1>12
<1>14. ASSUME NEW j \in 1 .. Len(new)
       PROVE  new[j] = old[j]
  <2>1. j \in 1 .. k + Len(rest) /\ j \in 1 .. (k + 1) + (Len(rest) - 1)
    BY <1>7, <1>9, <1>12
  <2>2. CASE j <= k
    <3>1. new[j] = b[j] /\ old[j] = a[j] /\ j \in 1 .. k
      BY <1>9, <1>11, <1>12, <2>1, <2>2
    <3> QED
      BY <1>10, <3>1
  <2>3. CASE j = k + 1
    BY <1>9, <1>10, <1>11, <1>12, <2>1, <2>3
  <2>4. CASE j > k + 1
    <3>1. j - (k + 1) \in 1 .. Len(rest) - 1 /\ (j - (k + 1)) + 1 = j - k
      BY <1>7, <1>9, <2>1, <2>4
    <3>2. new[j] = Tail(rest)[j - (k + 1)] /\ old[j] = rest[j - k]
      BY <1>9, <1>11, <1>12, <2>1, <2>4
    <3> QED
      BY <1>7, <3>1, <3>2
  <2> QED
    BY <1>9, <2>1, <2>2, <2>3, <2>4
<1>15. new = old
  BY <1>11, <1>12, <1>13, <1>14, Assumed, H!SameSequence
<1>16. Owed(n, S, names, rest) = old /\ Owed(n + 1, S, more, Tail(rest)) = new
  BY DEF Owed, old, new, a, b, kept, kept2
<1> QED
  BY <1>15, <1>16 DEF n, more

\* The three instances take an element out of a sequence in the same way.
LEMMA SameRemoveAt ==
  \A seq, i : H!RemoveAt(seq, i) = RemoveAt(seq, i) /\ C!RemoveAt(seq, i) = RemoveAt(seq, i)
BY DEF H!RemoveAt, C!RemoveAt, RemoveAt

\* What is left of a sequence.
LEMMA RemoveAtElements ==
  ASSUME NEW T, NEW seq \in Seq(T), NEW i \in 1 .. Len(seq)
  PROVE  /\ RemoveAt(seq, i) \in Seq(T)
         /\ Len(RemoveAt(seq, i)) = Len(seq) - 1
         /\ \A j \in 1 .. Len(seq) - 1 :
              RemoveAt(seq, i)[j] = IF j < i THEN seq[j] ELSE seq[j + 1]
BY Assumed, H!RemoveAtElements, SameRemoveAt, Zenon

\* To keep one element less of a sequence is to take it out.
LEMMA KeptLess ==
  ASSUME NEW seq \in Seq(Nat), H!Distinct(seq), NEW S, NEW x,
         NEW i \in 1 .. Len(H!Kept(seq, S)), H!Kept(seq, S)[i] = x
  PROVE  H!Kept(seq, S \ {x}) = RemoveAt(H!Kept(seq, S), i)
<1>1. H!Kept(seq, S \ {x}) = H!RemoveAt(H!Kept(seq, S), i)
  <2>1. H!KeptLacks(Nat, S, x)
    BY Assumed, H!KeptWithout
  <2> QED
    BY <2>1, Zenon DEF H!KeptLacks
<1> QED
  BY <1>1, SameRemoveAt

\* Without message x of S, its name is owed no more; and it was the first that was
\* owed if the message was the oldest.
Without(names, S, x, rest) ==
  LET old == Owed(Len(names), S, names, rest) IN
  \E i \in DOMAIN old :
    /\ old[i] = names[x].name
    /\ Owed(Len(names), S \ {x}, names, rest) = RemoveAt(old, i)
    /\ (\A y \in S \cap (1 .. Len(names)) : x <= y) => i = 1

\* When a message is under way no more, its name is owed no more.
LEMMA OwedWithout ==
  ASSUME NEW names \in Logs, NEW S, NEW x \in S, x \in 1 .. Len(names),
         NEW rest \in Seq(Client!Name)
  PROVE  Without(names, S, x, rest)
<1> DEFINE n == Len(names)
           kept == H!Kept(Numbers(n), S)
           kept2 == H!Kept(Numbers(n), S \ {x})
           a == NamesIn(names, kept)
           b == NamesIn(names, kept2)
           old == a \o rest
           new == b \o rest
           k == Len(kept)
<1>1. n \in Nat /\ x \in 1 .. n
  BY DEF Logs
<1>2. /\ kept \in Seq(Nat) /\ k \in Nat
      /\ \A j \in 1 .. k : kept[j] \in S /\ kept[j] \in 1 .. n
      /\ \A j, l \in 1 .. k : j < l => kept[j] < kept[l]
      /\ \E j \in 1 .. k : kept[j] = x
  <2>1. /\ kept \in Seq(Nat)
        /\ \A j \in 1 .. k : kept[j] \in S /\ kept[j] \in 1 .. n
        /\ \A j, l \in 1 .. k : j < l => kept[j] < kept[l]
        /\ \A y \in S \cap (1 .. n) : \E j \in 1 .. k : kept[j] = y
    BY <1>1, KeptNumbers, Zenon
  <2>2. k \in Nat
    BY <2>1
  <2> QED
    BY <1>1, <2>1, <2>2, Zenon
<1>3. PICK i \in 1 .. k : kept[i] = x
  BY <1>2
<1>4. kept2 = RemoveAt(kept, i)
  <2>1. Numbers(n) \in Seq(Nat) /\ H!Distinct(Numbers(n))
    BY <1>1, NumbersAre
  <2> QED
    BY <1>3, <2>1, KeptLess, Zenon
<1>5. /\ kept2 \in Seq(Nat) /\ \A j \in 1 .. Len(kept2) : kept2[j] \in 1 .. n
  BY <1>1, KeptNumbers, Zenon
<1>6. /\ a \in Seq(Client!Name) /\ Len(a) = k
      /\ \A j \in 1 .. k : a[j] = names[kept[j]].name
  BY <1>2, NamesInAre, Zenon DEF n
<1>7. /\ b \in Seq(Client!Name) /\ Len(b) = Len(kept2)
      /\ \A j \in 1 .. Len(kept2) : b[j] = names[kept2[j]].name
  BY <1>5, NamesInAre, Zenon DEF n
<1> HIDE DEF n, kept, kept2, a, b, k
<1>8. k = Len(kept) /\ Len(rest) \in Nat
  BY DEF k
<1>9. /\ Len(kept2) = k - 1
      /\ \A j \in 1 .. k - 1 : kept2[j] = IF j < i THEN kept[j] ELSE kept[j + 1]
  <2>1. kept \in Seq(Nat) /\ i \in 1 .. Len(kept)
    BY <1>2, <1>3, <1>8
  <2>2. /\ Len(RemoveAt(kept, i)) = Len(kept) - 1
        /\ \A j \in 1 .. Len(kept) - 1 :
             RemoveAt(kept, i)[j] = IF j < i THEN kept[j] ELSE kept[j + 1]
    BY <2>1, RemoveAtElements
  <2> QED
    BY <1>4, <1>8, <2>2, Zenon
<1>10. \A j \in 1 .. k - 1 : b[j] = IF j < i THEN a[j] ELSE a[j + 1]
  <2> SUFFICES ASSUME NEW j \in 1 .. k - 1
               PROVE  b[j] = IF j < i THEN a[j] ELSE a[j + 1]
    OBVIOUS
  <2>1. j \in 1 .. k /\ j + 1 \in 1 .. k /\ j \in 1 .. Len(kept2)
    BY <1>2, <1>9
  <2>2. CASE j < i
    BY <1>6, <1>7, <1>9, <2>1, <2>2, Zenon
  <2>3. CASE ~(j < i)
    BY <1>6, <1>7, <1>9, <2>1, <2>3, Zenon
  <2> QED
    BY <2>2, <2>3
<1>11. /\ old \in Seq(Client!Name) /\ Len(old) = k + Len(rest)
       /\ \A j \in 1 .. k + Len(rest) : old[j] = IF j <= k THEN a[j] ELSE rest[j - k]
  <2>1. Len(a) = k
    BY <1>6
  <2>2. /\ old \in Seq(Client!Name) /\ Len(old) = Len(a) + Len(rest)
        /\ \A j \in 1 .. Len(a) + Len(rest) :
             old[j] = IF j <= Len(a) THEN a[j] ELSE rest[j - Len(a)]
    BY <1>6, Joined, Zenon DEF old
  <2> HIDE DEF old
  <2> QED
    BY <2>1, <2>2
<1>12. /\ new \in Seq(Client!Name) /\ Len(new) = (k - 1) + Len(rest)
       /\ \A j \in 1 .. (k - 1) + Len(rest) :
            new[j] = IF j <= k - 1 THEN b[j] ELSE rest[j - (k - 1)]
  <2>1. Len(b) = k - 1
    BY <1>7, <1>9
  <2>2. /\ new \in Seq(Client!Name) /\ Len(new) = Len(b) + Len(rest)
        /\ \A j \in 1 .. Len(b) + Len(rest) :
             new[j] = IF j <= Len(b) THEN b[j] ELSE rest[j - Len(b)]
    BY <1>7, Joined, Zenon DEF new
  <2> HIDE DEF new
  <2> QED
    BY <2>1, <2>2
<1> HIDE DEF old, new
<1> DEFINE cut == RemoveAt(old, i)
<1>13. i \in 1 .. Len(old) /\ i \in Nat
  BY <1>2, <1>8, <1>11
<1>14. /\ cut \in Seq(Client!Name) /\ Len(cut) = Len(old) - 1
       /\ \A j \in 1 .. Len(old) - 1 : cut[j] = IF j < i THEN old[j] ELSE old[j + 1]
  BY <1>11, <1>13, RemoveAtElements, Zenon
<1> HIDE DEF cut
<1>15. Len(new) = Len(cut) /\ Len(old) - 1 = (k - 1) + Len(rest)
  BY <1>2, <1>8, <1>11, <1>12, <1>14
<1>16. ASSUME NEW j \in 1 .. Len(new)
       PROVE  new[j] = cut[j]
  <2>1. j \in 1 .. (k - 1) + Len(rest) /\ j \in 1 .. Len(old) - 1
    BY <1>12, <1>15
  <2>2. CASE j <= k - 1
    <3>0. new[j] = b[j]
      BY <1>12, <2>1, <2>2
    <3>1. j \in 1 .. k - 1 /\ j \in 1 .. k + Len(rest)
          /\ j + 1 \in 1 .. k + Len(rest) /\ j <= k /\ j + 1 <= k
      <4>1. k \in Nat /\ Len(rest) \in Nat /\ j \in Int /\ j >= 1 /\ j <= k - 1
        BY <1>2, <1>8, <2>1, <2>2
      <4> QED
        BY <4>1
    <3>2. old[j] = a[j] /\ old[j + 1] = a[j + 1]
      BY <1>11, <3>1, Zenon
    <3>3. cut[j] = IF j < i THEN old[j] ELSE old[j + 1]
      BY <1>14, <2>1
    <3> QED
      BY <1>10, <3>0, <3>1, <3>2, <3>3
  <2>3. CASE j > k - 1
    <3>1. ~(j <= k - 1) /\ ~(j < i) /\ ~(j + 1 <= k) /\ j + 1 \in 1 .. k + Len(rest)
          /\ j - (k - 1) = (j + 1) - k
      <4>1. k \in Nat /\ Len(rest) \in Nat /\ j \in Int /\ j > k - 1 /\ i \in 1 .. k
            /\ j <= (k - 1) + Len(rest)
        BY <1>2, <1>8, <2>1, <2>3
      <4> QED
        BY <4>1
    <3>2. new[j] = rest[(j + 1) - k]
      BY <1>12, <2>1, <3>1
    <3>3. cut[j] = old[j + 1]
      BY <1>14, <2>1, <3>1, Zenon
    <3>4. old[j + 1] = rest[(j + 1) - k]
      BY <1>11, <3>1
    <3> QED
      BY <3>2, <3>3, <3>4
  <2>4. j <= k - 1 \/ j > k - 1
    BY <1>2, <2>1
  <2> QED
    BY <2>2, <2>3, <2>4
<1>17. new = cut
  BY <1>12, <1>14, <1>15, <1>16, Assumed, H!SameSequence, Zenon
<1>18. old[i] = names[x].name
  <2>1. i \in 1 .. k + Len(rest) /\ i <= k
    BY <1>2, <1>8
  <2> QED
    BY <1>3, <1>6, <1>11, <2>1
<1>19. ASSUME \A y \in S \cap (1 .. n) : x <= y
       PROVE  i = 1
  <2>1. CASE i > 1
    <3>1. 1 \in 1 .. k /\ kept[1] < kept[i] /\ kept[1] \in S \cap (1 .. n)
      BY <1>2, <2>1
    <3>2. x <= kept[1] /\ kept[1] < x
      BY <1>3, <1>19, <3>1
    <3>3. kept[1] \in Nat /\ x \in Nat
      BY <1>1, <3>1
    <3> QED
      BY <3>2, <3>3
  <2> QED
    BY <1>13, <2>1
<1>20. Owed(n, S, names, rest) = old /\ Owed(n, S \ {x}, names, rest) = new
  BY DEF Owed, old, new, a, b, kept, kept2
<1>21. i \in DOMAIN old
  BY <1>11, <1>13
<1> QED
  BY <1>17, <1>18, <1>19, <1>20, <1>21 DEF cut, n, Without

-----------------------------------------------------------------------------
(***************************************************************************)
(* What is outstanding, in these terms, and what is known of the variables *)
(* that join the hub and the page.                                         *)
(***************************************************************************)

Of(c) == {m \in 1 .. count : log[m].call = c /\ UnderWay(m)}

\* The instances of SignalHub copy in the same way.
LEMMA SameKept == \A seq, S : Hub!Kept(seq, S) = H!Kept(seq, S)
BY Zenon DEF Hub!Kept, H!Kept

\* What is outstanding is what is owed.
LEMMA OutstandingIs == Outstanding = [c \in Call |-> Owed(count, Of(c), log, outbox[c])]
BY SameKept, Zenon DEF Outstanding, Owed, Numbers, NamesIn, Of

\* The same of the next state.
LEMMA NextOutstandingIs ==
  Outstanding' = [c \in Call |-> Owed(count', Of(c)', log', outbox'[c])]
BY SameKept, Zenon DEF Outstanding, Owed, Numbers, NamesIn, Of

\* A log for every message, no message of a call that has not been made, and no
\* dispatch of what has not come.
JoinInv ==
  /\ expired \subseteq 1 .. count
  /\ log \in Logs /\ Len(log) = count
  /\ \A m \in 1 .. count : log[m].call <= calls
  /\ calls \in 0 .. MaxCalls
  /\ outbox \in [Call -> Seq(Client!Name)]
  /\ \A c \in Call : c > calls => outbox[c] = <<>>
  /\ dispatched \in 0 .. Len(received)

SysInv == H!HubInv /\ JoinInv

Dispatched == ToSet(SubSeq(received, 1, dispatched))

\* The types that follow.
LEMMA SysTypes ==
  ASSUME SysInv
  PROVE  /\ count \in Nat /\ Len(log) = count /\ log \in Logs
         /\ received \in Seq(Nat) /\ buffer \in Seq(Nat) /\ ch \in Seq(Nat)
         /\ replay \in [Stream -> Seq(Nat)]
         /\ Len(received) \in Nat /\ dispatched \in 0 .. Len(received)
         /\ \A m \in 1 .. count : log[m].call \in Call /\ log[m].name \in Client!Name
<1>1. H!TypeOK /\ JoinInv
  BY DEF SysInv, H!HubInv
<1>2. count \in Nat
  BY <1>1, Assumed DEF H!TypeOK
<1>3. H!Msg \subseteq Nat /\ \A seq \in Seq(H!Msg) : seq \in Seq(Nat)
  BY Assumed DEF H!Msg
<1>4. /\ received \in Seq(Nat) /\ buffer \in Seq(Nat) /\ ch \in Seq(Nat)
      /\ replay \in [Stream -> Seq(Nat)]
  <2>1. /\ received \in Seq(H!Msg) /\ buffer \in Seq(H!Msg) /\ ch \in Seq(H!Msg)
        /\ replay \in [Stream -> Seq(H!Msg)]
    BY <1>1 DEF H!TypeOK
  <2> QED
    BY <1>3, <2>1
<1>5. /\ Len(log) = count /\ log \in Logs /\ dispatched \in 0 .. Len(received)
  BY <1>1 DEF JoinInv
<1>6. ASSUME NEW m \in 1 .. count
      PROVE  log[m].call \in Call /\ log[m].name \in Client!Name
  <2>1. log[m] \in Entry
    BY <1>5 DEF Logs
  <2> QED
    BY <2>1 DEF Entry
<1> QED
  BY <1>2, <1>4, <1>5, <1>6

\* A message that is in a queue is at no other position, and not gone.
LEMMA Here ==
  ASSUME SysInv, NEW p \in H!Place, NEW i, H!Queues[p] \in Seq(Nat), i \in 1 .. Len(H!Queues[p])
  PROVE  LET m == H!Queues[p][i] IN
         /\ m \in 1 .. count /\ m \notin gone
         /\ \A q \in H!Place : \A j \in Nat :
              j \in 1 .. Len(H!Queues[q]) /\ H!Queues[q][j] = m => q = p /\ j = i
<1> DEFINE m == H!Queues[p][i]
<1>1. H!Placed(H!Queues, H!Messages)
  BY DEF SysInv, H!HubInv
<1>2. m \in Nat /\ i \in Nat /\ H!At(H!Queues, p, i, m)
  BY DEF H!At
<1> HIDE DEF m
<1>3. m \in H!Messages
  BY <1>1, <1>2 DEF H!Placed, H!Inside
<1>4. ASSUME NEW q \in H!Place, NEW j \in Nat, j \in 1 .. Len(H!Queues[q]), H!Queues[q][j] = m
      PROVE  q = p /\ j = i
  <2>1. H!At(H!Queues, q, j, m)
    BY <1>4 DEF H!At
  <2> QED
    BY <1>1, <1>2, <2>1 DEF H!Placed, H!Once
<1> QED
  BY <1>3, <1>4 DEF H!Messages, m

\* What has been dispatched.
LEMMA DispatchedAre ==
  ASSUME NEW seq \in Seq(Nat), NEW d \in 0 .. Len(seq)
  PROVE  \A m : m \in ToSet(SubSeq(seq, 1, d)) <=> \E i \in 1 .. d : seq[i] = m
<1> DEFINE sub == SubSeq(seq, 1, d)
<1>1. Len(seq) \in Nat /\ d \in Nat
  OBVIOUS
<1>2. sub \in Seq(Nat) /\ Len(sub) = d /\ \A i \in 1 .. d : sub[i] = seq[i]
  <2>1. sub \in Seq(Nat)
    BY <1>1
  <2>2. CASE d = 0
    <3>1. sub = <<>>
      BY <2>2
    <3> QED
      BY <2>2, <3>1
  <2>3. CASE d > 0
    BY <1>1, <2>1, <2>3
  <2>4. \A n \in Nat : n = 0 \/ n > 0
    OBVIOUS
  <2> QED
    BY <1>1, <2>2, <2>3, <2>4
<1> HIDE DEF sub
<1>3. DOMAIN sub = 1 .. d
  BY <1>2
<1>4. \A m : m \in ToSet(sub) <=> \E i \in 1 .. d : sub[i] = m
  BY <1>3, Zenon DEF ToSet
<1> QED
  BY <1>2, <1>4 DEF sub

\* What is in no position of a queue.
LEMMA NotInSeq ==
  ASSUME NEW seq \in Seq(Nat), NEW m, \A j \in Nat : j \in 1 .. Len(seq) => seq[j] # m
  PROVE  m \notin ToSet(seq)
BY DEF ToSet

\* What has not come has not been dispatched.
LEMMA NotDispatched ==
  ASSUME SysInv, NEW m, \A j \in Nat : j \in 1 .. Len(received) => received[j] # m
  PROVE  m \notin Dispatched
<1>1. received \in Seq(Nat) /\ dispatched \in 0 .. Len(received) /\ Len(received) \in Nat
  BY SysTypes
<1>2. \A j \in 1 .. dispatched : j \in Nat /\ j \in 1 .. Len(received)
  BY <1>1
<1> QED
  BY <1>1, <1>2, DispatchedAre DEF Dispatched

\* The head of what a stream replays is under way, and in no other place.
LEMMA ReplayHead ==
  ASSUME SysInv, NEW s \in Stream, replay[s] # <<>>
  PROVE  /\ Head(replay[s]) \in 1 .. count /\ UnderWay(Head(replay[s]))
         /\ Head(replay[s]) \notin ToSet(buffer)
<1> DEFINE m == Head(replay[s])
           p == H!InReplay(s)
<1>1. /\ p \in H!Place /\ p # H!InBuffer /\ p # H!AtClient
      /\ H!InBuffer \in H!Place /\ H!AtClient \in H!Place
      /\ H!Queues[p] = replay[s] /\ H!Queues[H!InBuffer] = buffer
      /\ H!Queues[H!AtClient] = received
  BY Assumed, H!PlacesAre, H!QueuesAre
<1>2. replay[s] \in Seq(Nat) /\ received \in Seq(Nat) /\ buffer \in Seq(Nat)
      /\ dispatched \in 0 .. Len(received)
  BY SysTypes
<1>3. m = replay[s][1] /\ 1 \in 1 .. Len(replay[s])
  BY <1>2
<1> HIDE DEF m, p
<1>4. /\ m \in 1 .. count /\ m \notin gone
      /\ \A q \in H!Place : \A j \in Nat :
           j \in 1 .. Len(H!Queues[q]) /\ H!Queues[q][j] = m => q = p
  BY <1>1, <1>2, <1>3, Here, Zenon
<1>5. m \notin ToSet(buffer)
  <2>1. \A j \in Nat : j \in 1 .. Len(buffer) => buffer[j] # m
    BY <1>1, <1>4
  <2> QED
    BY <1>2, <2>1, NotInSeq
<1>6. m \notin Dispatched
  <2>1. \A j \in Nat : j \in 1 .. Len(received) => received[j] # m
    BY <1>1, <1>4
  <2> QED
    BY <2>1, NotDispatched
<1> QED
  BY <1>4, <1>5, <1>6 DEF m, UnderWay, Lost, Dispatched

\* So is the head of the hub's channel.
LEMMA ChannelHead ==
  ASSUME SysInv, ch # <<>>
  PROVE  /\ Head(ch) \in 1 .. count /\ UnderWay(Head(ch))
         /\ Head(ch) \notin ToSet(buffer)
<1> DEFINE m == Head(ch)
<1>1. /\ H!InChannel \in H!Place /\ H!InChannel # H!InBuffer /\ H!InChannel # H!AtClient
      /\ H!InBuffer \in H!Place /\ H!AtClient \in H!Place
      /\ H!Queues[H!InChannel] = ch /\ H!Queues[H!InBuffer] = buffer
      /\ H!Queues[H!AtClient] = received
  BY Assumed, H!PlacesAre, H!QueuesAre
<1>2. ch \in Seq(Nat) /\ received \in Seq(Nat) /\ buffer \in Seq(Nat)
      /\ dispatched \in 0 .. Len(received)
  BY SysTypes
<1>3. m = ch[1] /\ 1 \in 1 .. Len(ch)
  BY <1>2
<1> HIDE DEF m
<1>4. /\ m \in 1 .. count /\ m \notin gone
      /\ \A q \in H!Place : \A j \in Nat :
           j \in 1 .. Len(H!Queues[q]) /\ H!Queues[q][j] = m => q = H!InChannel
  BY <1>1, <1>2, <1>3, Here, Zenon
<1>5. m \notin ToSet(buffer)
  <2>1. \A j \in Nat : j \in 1 .. Len(buffer) => buffer[j] # m
    BY <1>1, <1>4
  <2> QED
    BY <1>2, <2>1, NotInSeq
<1>6. m \notin Dispatched
  <2>1. \A j \in Nat : j \in 1 .. Len(received) => received[j] # m
    BY <1>1, <1>4
  <2> QED
    BY <2>1, NotDispatched
<1> QED
  BY <1>4, <1>5, <1>6 DEF m, UnderWay, Lost, Dispatched

\* A message in the buffer is under way unless it has expired.
LEMMA BufferedAre ==
  ASSUME SysInv, NEW m \in ToSet(buffer)
  PROVE  m \in 1 .. count /\ m \notin gone /\ m \notin Dispatched
<1>1. /\ H!InBuffer # H!AtClient
      /\ H!InBuffer \in H!Place /\ H!AtClient \in H!Place
      /\ H!Queues[H!InBuffer] = buffer
      /\ H!Queues[H!AtClient] = received
  BY Assumed, H!PlacesAre, H!QueuesAre
<1>2. received \in Seq(Nat) /\ buffer \in Seq(Nat)
      /\ dispatched \in 0 .. Len(received)
  BY SysTypes
<1>3. PICK i \in 1 .. Len(buffer) : m = buffer[i]
  <2>1. m \in {buffer[i] : i \in DOMAIN buffer}
    BY Zenon DEF ToSet
  <2>2. DOMAIN buffer = 1 .. Len(buffer)
    BY <1>2
  <2> QED
    BY <2>1, <2>2, Zenon
<1>4. /\ m \in 1 .. count /\ m \notin gone
      /\ \A q \in H!Place : \A j \in Nat :
           j \in 1 .. Len(H!Queues[q]) /\ H!Queues[q][j] = m => q = H!InBuffer
  BY <1>1, <1>2, <1>3, Here, Zenon
<1>5. m \notin Dispatched
  <2>1. \A j \in Nat : j \in 1 .. Len(received) => received[j] # m
    BY <1>1, <1>4
  <2> QED
    BY <2>1, NotDispatched
<1> QED
  BY <1>4, <1>5

\* The next message to be dispatched is under way.
LEMMA ReceivedNext ==
  ASSUME SysInv, dispatched < Len(received)
  PROVE  LET m == received[dispatched + 1] IN
         /\ m \in 1 .. count /\ UnderWay(m) /\ m \notin ToSet(buffer)
         /\ \A j \in 1 .. dispatched : received[j] # m
<1> DEFINE m == received[dispatched + 1]
<1>1. /\ H!InBuffer # H!AtClient
      /\ H!InBuffer \in H!Place /\ H!AtClient \in H!Place
      /\ H!Queues[H!InBuffer] = buffer
      /\ H!Queues[H!AtClient] = received
  BY Assumed, H!PlacesAre, H!QueuesAre
<1>2. received \in Seq(Nat) /\ buffer \in Seq(Nat)
      /\ dispatched \in 0 .. Len(received) /\ Len(received) \in Nat
  BY SysTypes
<1>3. dispatched + 1 \in 1 .. Len(received) /\ dispatched \in Nat
  BY <1>2
<1> HIDE DEF m
<1>4. /\ m \in 1 .. count /\ m \notin gone
      /\ \A q \in H!Place : \A j \in Nat :
           j \in 1 .. Len(H!Queues[q]) /\ H!Queues[q][j] = m
             => q = H!AtClient /\ j = dispatched + 1
  BY <1>1, <1>2, <1>3, Here, Zenon DEF m
<1>5. m \notin ToSet(buffer)
  <2>1. \A j \in Nat : j \in 1 .. Len(buffer) => buffer[j] # m
    BY <1>1, <1>4
  <2> QED
    BY <1>2, <2>1, NotInSeq
<1>6. \A j \in 1 .. dispatched : received[j] # m
  <2> SUFFICES ASSUME NEW j \in 1 .. dispatched, received[j] = m
               PROVE  FALSE
    OBVIOUS
  <2>1. j \in Nat /\ j \in 1 .. Len(received) /\ j # dispatched + 1
    BY <1>2, <1>3
  <2> QED
    BY <1>1, <1>4, <2>1
<1>7. m \notin Dispatched
  BY <1>2, <1>6, DispatchedAre, Zenon DEF Dispatched
<1> QED
  BY <1>4, <1>5, <1>6, <1>7 DEF m, UnderWay, Lost, Dispatched

-----------------------------------------------------------------------------
(***************************************************************************)
(* What a step does to what is outstanding, told by what becomes of the    *)
(* messages under way.                                                     *)
(***************************************************************************)

\* Nothing, if the same messages are under way.
LEMMA NothingTaken ==
  ASSUME SysInv, UNCHANGED <<count, log, outbox>>,
         \A m \in 1 .. count : UnderWay(m)' <=> UnderWay(m)
  PROVE  UNCHANGED Outstanding
<1>1. count \in Nat
  BY SysTypes
<1>2. ASSUME NEW c \in Call
      PROVE  Owed(count', Of(c)', log', outbox'[c]) = Owed(count, Of(c), log, outbox[c])
  <2>1. Of(c)' = Of(c)
    BY DEF Of
  <2> QED
    BY <2>1
<1> QED
  BY <1>2, OutstandingIs, NextOutstandingIs

\* One message less under way is one signal less outstanding.
LEMMA OneTaken ==
  ASSUME SysInv, UNCHANGED <<count, log, outbox>>,
         NEW x \in 1 .. count, UnderWay(x),
         \A m \in 1 .. count : UnderWay(m)' <=> UnderWay(m) /\ m # x
  PROVE  LET c == log[x].call IN
         /\ c \in Call
         /\ \E i \in DOMAIN Outstanding[c] :
              /\ Outstanding[c][i] = log[x].name
              /\ Outstanding' = [Outstanding EXCEPT ![c] = RemoveAt(@, i)]
              /\ (\A y \in Of(c) : x <= y) => i = 1
<1>0. PICK c \in Call : c = log[x].call
  BY SysTypes
<1>1. /\ count \in Nat /\ Len(log) = count /\ log \in Logs
      /\ outbox \in [Call -> Seq(Client!Name)]
  BY SysTypes DEF SysInv, JoinInv
<1>2. Outstanding = [d \in Call |-> Owed(count, Of(d), log, outbox[d])]
  BY OutstandingIs
<1>3. Outstanding' = [d \in Call |-> Owed(count, Of(d)', log, outbox[d])]
  BY NextOutstandingIs
<1>4. x \in Of(c) /\ Of(c)' = Of(c) \ {x} /\ Of(c) \subseteq 1 .. count
  BY <1>0 DEF Of
<1>5. \A d \in Call \ {c} : Of(d)' = Of(d)
  BY <1>0 DEF Of
<1>6. PICK i \in DOMAIN Owed(count, Of(c), log, outbox[c]) :
        /\ Owed(count, Of(c), log, outbox[c])[i] = log[x].name
        /\ Owed(count, Of(c) \ {x}, log, outbox[c])
             = RemoveAt(Owed(count, Of(c), log, outbox[c]), i)
        /\ (\A y \in Of(c) \cap (1 .. count) : x <= y) => i = 1
  <2>1. outbox[c] \in Seq(Client!Name) /\ x \in 1 .. Len(log) /\ x \in Of(c)
    BY <1>1, <1>4
  <2>2. Without(log, Of(c), x, outbox[c])
    BY <1>1, <2>1, OwedWithout
  <2> QED
    BY <1>1, <2>2 DEF Without
<1>7. /\ Outstanding[c] = Owed(count, Of(c), log, outbox[c])
      /\ Outstanding'[c] = RemoveAt(Outstanding[c], i)
      /\ \A d \in Call \ {c} : Outstanding'[d] = Outstanding[d]
  <2>1. /\ Outstanding[c] = Owed(count, Of(c), log, outbox[c])
        /\ Outstanding'[c] = Owed(count, Of(c)', log, outbox[c])
    BY <1>1, <1>2, <1>3
  <2>2. ASSUME NEW d \in Call \ {c}
        PROVE  Outstanding'[d] = Outstanding[d]
    <3>1. Outstanding'[d] = Owed(count, Of(d)', log, outbox[d])
      BY <1>3
    <3> QED
      BY <1>2, <1>5, <3>1
  <2> QED
    BY <1>4, <1>6, <2>1, <2>2
<1>8. Outstanding' = [Outstanding EXCEPT ![c] = RemoveAt(@, i)]
  BY <1>1, <1>2, <1>3, <1>7
<1>9. i \in DOMAIN Outstanding[c] /\ Outstanding[c][i] = log[x].name
      /\ ((\A y \in Of(c) : x <= y) => i = 1)
  BY <1>4, <1>6, <1>7
<1> QED
  BY <1>0, <1>8, <1>9, Zenon

\* The step of a track that publishes its next signal.
Publishes(c) ==
  /\ outbox[c] # <<>>
  /\ count' = count + 1
  /\ outbox' = [outbox EXCEPT ![c] = Tail(@)]
  /\ log' = Append(log, [call |-> c, name |-> Head(outbox[c])])

\* The log and the messages of the other calls.
LEMMA PublishesOne ==
  ASSUME SysInv, NEW c \in Call, Publishes(c), NEW n, n = count + 1,
         \A m \in 1 .. count : UnderWay(m)' <=> UnderWay(m)
  PROVE  LET e == [call |-> c, name |-> Head(outbox[c])] IN
         /\ e \in Entry /\ log' = Append(log, e) /\ log' \in Logs /\ Len(log') = n
         /\ \A m \in 1 .. count : log'[m] = log[m]
         /\ log'[n] = e
         /\ \A d \in Call \ {c} : Of(d)' = Of(d) /\ outbox'[d] = outbox[d]
         /\ Of(c)' = IF UnderWay(n)' THEN Of(c) \cup {n} ELSE Of(c)
         /\ outbox'[c] = Tail(outbox[c])
<1> DEFINE e == [call |-> c, name |-> Head(outbox[c])]
<1>1. /\ count \in Nat /\ Len(log) = count /\ log \in Logs
      /\ outbox \in [Call -> Seq(Client!Name)]
  BY SysTypes DEF SysInv, JoinInv
<1>2. e \in Entry /\ e.call = c /\ log' = Append(log, e)
  <2>1. Head(outbox[c]) \in Client!Name
    <3>1. outbox[c] \in Seq(Client!Name) /\ outbox[c] # <<>>
      BY <1>1 DEF Publishes
    <3> QED
      BY <3>1
  <2> QED
    BY <2>1 DEF Entry, Publishes
<1> HIDE DEF e
<1>3. /\ log' \in Logs /\ Len(log') = n /\ log'[n] = e
      /\ \A m \in 1 .. count : log'[m] = log[m]
  BY <1>1, <1>2, LogGrows
<1>4. \A m : m \in 1 .. count' <=> m \in 1 .. count \/ m = n
  BY <1>1 DEF Publishes
<1>5. n \in 1 .. count' /\ n \notin 1 .. count
  BY <1>1 DEF Publishes
<1>6. ASSUME NEW d \in Call \ {c}
      PROVE  Of(d)' = Of(d) /\ outbox'[d] = outbox[d]
  <2>1. outbox'[d] = outbox[d]
    BY <1>1, <1>6 DEF Publishes
  <2>2. Of(d)' = {m \in 1 .. count' : log'[m].call = d /\ UnderWay(m)'}
    BY DEF Of
  <2>3. Of(d) = {m \in 1 .. count : log[m].call = d /\ UnderWay(m)}
    BY DEF Of
  <2>4. Of(d)' = Of(d)
    BY <1>2, <1>3, <1>4, <1>5, <1>6, <2>2, <2>3, Zenon
  <2> QED
    BY <2>1, <2>4
<1>7. Of(c)' = IF UnderWay(n)' THEN Of(c) \cup {n} ELSE Of(c)
  <2>1. Of(c)' = {m \in 1 .. count' : log'[m].call = c /\ UnderWay(m)'}
    BY DEF Of
  <2>2. Of(c) = {m \in 1 .. count : log[m].call = c /\ UnderWay(m)}
    BY DEF Of
  <2>3. \A m \in 1 .. count : m \in Of(c)' <=> m \in Of(c)
    BY <1>3, <1>4, <2>1, <2>2
  <2>4. n \in Of(c)' <=> UnderWay(n)'
    BY <1>2, <1>3, <1>5, <2>1
  <2>5. n \notin Of(c)
    BY <1>5, <2>2
  <2>6. Of(c)' \subseteq 1 .. count' /\ Of(c) \subseteq 1 .. count
    BY <2>1, <2>2
  <2>7. CASE UnderWay(n)'
    <3>1. Of(c)' = Of(c) \cup {n}
      BY <1>4, <1>5, <2>3, <2>4, <2>6, <2>7
    <3> QED
      BY <2>7, <3>1
  <2>8. CASE ~ UnderWay(n)'
    <3>1. Of(c)' = Of(c)
      BY <1>4, <1>5, <2>3, <2>4, <2>5, <2>6, <2>8
    <3> QED
      BY <2>8, <3>1
  <2> QED
    BY <2>7, <2>8
<1>8. outbox'[c] = Tail(outbox[c])
  BY <1>1 DEF Publishes
<1> QED
  BY <1>2, <1>3, <1>6, <1>7, <1>8, Zenon DEF e

\* A signal of a track that is published is as outstanding as before.
LEMMA OnePublished ==
  ASSUME SysInv, NEW c \in Call, Publishes(c),
         \A m \in 1 .. count : UnderWay(m)' <=> UnderWay(m)
  PROVE  \A d \in Call :
           Owed(count + 1, IF d = c THEN Of(d) \cup {count + 1} ELSE Of(d), log', outbox'[d])
             = Outstanding[d]
<1> SUFFICES ASSUME NEW d \in Call
             PROVE  Owed(count + 1, IF d = c THEN Of(d) \cup {count + 1} ELSE Of(d), log',
                         outbox'[d]) = Outstanding[d]
  OBVIOUS
<1> DEFINE e == [call |-> c, name |-> Head(outbox[c])]
<1>0. PICK n : n = count + 1
  OBVIOUS
<1>1. /\ count \in Nat /\ Len(log) = count /\ log \in Logs
      /\ outbox \in [Call -> Seq(Client!Name)]
  BY SysTypes DEF SysInv, JoinInv
<1>2. /\ e \in Entry /\ log' = Append(log, e)
      /\ \A a \in Call \ {c} : outbox'[a] = outbox[a]
      /\ outbox'[c] = Tail(outbox[c])
  BY <1>0, PublishesOne
<1>3. e.name = Head(outbox[c])
  OBVIOUS
<1> HIDE DEF e
<1>4. Outstanding[d] = Owed(count, Of(d), log, outbox[d])
  BY OutstandingIs
<1>5. CASE d = c
  <2>1. outbox[c] \in Seq(Client!Name) /\ outbox[c] # <<>>
    BY <1>1 DEF Publishes
  <2>2. count + 1 \in Of(c) \cup {count + 1}
    OBVIOUS
  <2>3. Owed(Len(log) + 1, Of(c) \cup {count + 1}, Append(log, e), Tail(outbox[c]))
          = Owed(Len(log), Of(c) \cup {count + 1}, log, outbox[c])
    BY <1>1, <1>2, <1>3, <2>1, <2>2, OwedPublished
  <2>4. Owed(count, Of(c) \cup {count + 1}, log, outbox[c]) = Owed(count, Of(c), log, outbox[c])
    <3>1. \A m \in 1 .. count : m \in Of(c) \cup {count + 1} <=> m \in Of(c)
      BY <1>1
    <3> QED
      BY <1>1, <3>1, OwedSame
  <2> QED
    BY <1>1, <1>2, <1>4, <1>5, <2>3, <2>4, Zenon
<1>6. CASE d # c
  <2>1. Len(log) + 1 \notin Of(d)
    BY <1>1 DEF Of
  <2>2. Owed(Len(log) + 1, Of(d), Append(log, e), outbox[d])
          = Owed(Len(log), Of(d), log, outbox[d])
    BY <1>1, <1>2, <2>1, OwedOther
  <2> QED
    BY <1>1, <1>2, <1>4, <1>6, <2>2
<1> QED
  BY <1>5, <1>6

\* If it is under way then, nothing is lost.
LEMMA NoneLost ==
  ASSUME SysInv, NEW c \in Call, Publishes(c), NEW n, n = count + 1,
         \A m \in 1 .. count : UnderWay(m)' <=> UnderWay(m),
         UnderWay(n)'
  PROVE  UNCHANGED Outstanding
<1>1. ASSUME NEW d \in Call
      PROVE  Outstanding'[d] = Outstanding[d]
  <2>1. Outstanding'[d] = Owed(count', Of(d)', log', outbox'[d])
    BY NextOutstandingIs
  <2>2. count' = n /\ Of(d)' = IF d = c THEN Of(d) \cup {n} ELSE Of(d)
    BY PublishesOne, Zenon DEF Publishes
  <2> QED
    BY <2>1, <2>2, OnePublished
<1>2. /\ Outstanding = [d \in Call |-> Outstanding[d]]
      /\ Outstanding' = [d \in Call |-> Outstanding'[d]]
  BY OutstandingIs, NextOutstandingIs
<1> QED
  BY <1>1, <1>2

\* If the hub dropped it, it is taken out.
LEMMA OneLost ==
  ASSUME SysInv, NEW c \in Call, Publishes(c), NEW n, n = count + 1,
         \A m \in 1 .. count : UnderWay(m)' <=> UnderWay(m),
         ~ UnderWay(n)'
  PROVE  \E i \in DOMAIN Outstanding[c] :
           Outstanding' = [Outstanding EXCEPT ![c] = RemoveAt(@, i)]
<1> DEFINE S == Of(c) \cup {n}
<1>1. /\ count \in Nat /\ outbox \in [Call -> Seq(Client!Name)] /\ count' = n
  BY SysTypes DEF SysInv, JoinInv, Publishes
<1>2. /\ log' \in Logs /\ Len(log') = n
      /\ \A d \in Call : Of(d)' = Of(d)
      /\ outbox'[c] = Tail(outbox[c])
  <2>1. /\ log' \in Logs /\ Len(log') = n
        /\ \A d \in Call \ {c} : Of(d)' = Of(d)
        /\ outbox'[c] = Tail(outbox[c])
    BY PublishesOne, Zenon
  <2>2. Of(c)' = IF UnderWay(n)' THEN Of(c) \cup {n} ELSE Of(c)
    BY PublishesOne, Zenon
  <2> QED
    BY <2>1, <2>2
<1>3. S \ {n} = Of(c)
  BY <1>1 DEF Of
<1>4. Tail(outbox[c]) \in Seq(Client!Name)
  <2>1. outbox[c] \in Seq(Client!Name) /\ outbox[c] # <<>>
    BY <1>1 DEF Publishes
  <2> QED
    BY <2>1
<1>5. n \in S /\ n \in 1 .. Len(log')
  BY <1>1, <1>2
<1> HIDE DEF S
<1>6. Without(log', S, n, outbox'[c])
  BY <1>2, <1>4, <1>5, OwedWithout, Zenon
<1>7. Owed(n, S, log', outbox'[c]) = Outstanding[c]
  BY OnePublished DEF S
<1>8. PICK i \in DOMAIN Outstanding[c] :
        Owed(n, Of(c), log', outbox'[c]) = RemoveAt(Outstanding[c], i)
  BY <1>2, <1>3, <1>6, <1>7, Zenon DEF Without
<1>9. ASSUME NEW d \in Call
      PROVE  Outstanding'[d] = IF d = c THEN RemoveAt(Outstanding[c], i) ELSE Outstanding[d]
  <2>1. Outstanding'[d] = Owed(n, Of(d), log', outbox'[d])
    BY <1>1, <1>2, NextOutstandingIs
  <2>2. d # c => Owed(n, Of(d), log', outbox'[d]) = Outstanding[d]
    BY OnePublished, Zenon
  <2> QED
    BY <1>8, <2>1, <2>2
<1>10. /\ Outstanding = [d \in Call |-> Outstanding[d]]
       /\ Outstanding' = [d \in Call |-> Outstanding'[d]]
  BY OutstandingIs, NextOutstandingIs
<1>11. Outstanding' = [Outstanding EXCEPT ![c] = RemoveAt(@, i)]
  BY <1>9, <1>10
<1> QED
  BY <1>11, Zenon

-----------------------------------------------------------------------------
(***************************************************************************)
(* The invariant.  The hub keeps its own because the system's steps are    *)
(* steps of the hub or leave it alone.                                     *)
(***************************************************************************)

\* The instances of SignalHub are the same.
LEMMA SameHub ==
  /\ Hub!Init => H!Init
  /\ Hub!PublishLive <=> H!PublishLive
  /\ Hub!PublishDropped <=> H!PublishDropped
  /\ Hub!PublishBuffered <=> H!PublishBuffered
  /\ \A m : Hub!Expire(m) <=> H!Expire(m)
  /\ \A s : /\ Hub!ReplayMsg(s) <=> H!ReplayMsg(s)
            /\ Hub!StartStreaming(s) <=> H!StartStreaming(s)
            /\ Hub!Deliver(s) <=> H!Deliver(s)
            /\ Hub!ClientDisconnected(s) <=> H!ClientDisconnected(s)
            /\ Hub!Drop(s) <=> H!Drop(s)
<1>1. Hub!Init => H!Init
  BY DEF Hub!Init, H!Init
<1>2. /\ Hub!PublishLive <=> H!PublishLive
      /\ Hub!PublishDropped <=> H!PublishDropped
      /\ Hub!PublishBuffered <=> H!PublishBuffered
  BY DEF Hub!PublishLive, H!PublishLive, Hub!PublishDropped, H!PublishDropped,
     Hub!PublishBuffered, H!PublishBuffered, Hub!NextMsg, H!NextMsg
<1>3. \A m : Hub!Expire(m) <=> H!Expire(m)
  BY DEF Hub!Expire, H!Expire, Hub!conn, H!conn
<1>4. \A s, m : Hub!WriteMsg(s, m) <=> H!WriteMsg(s, m)
  BY DEF Hub!WriteMsg, H!WriteMsg
<1>5. \A s : /\ Hub!ReplayMsg(s) <=> H!ReplayMsg(s)
             /\ Hub!Deliver(s) <=> H!Deliver(s)
  BY <1>4 DEF Hub!ReplayMsg, H!ReplayMsg, Hub!Deliver, H!Deliver, Hub!conn, H!conn
<1>6. \A s : /\ Hub!StartStreaming(s) <=> H!StartStreaming(s)
             /\ Hub!ClientDisconnected(s) <=> H!ClientDisconnected(s)
             /\ Hub!Drop(s) <=> H!Drop(s)
  BY DEF Hub!StartStreaming, H!StartStreaming, Hub!ClientDisconnected, H!ClientDisconnected,
     Hub!Drop, H!Drop, Hub!Open, H!Open, Hub!conn, H!conn
<1> QED
  BY <1>1, <1>2, <1>3, <1>5, <1>6

\* So is what a stream does when it opens.
LEMMA SameConnect == \A s : Hub!Connect(s) => H!Connect(s)
<1>1. \A s : Hub!Begin(s) => H!Begin(s)
  BY DEF Hub!Begin, H!Begin, Hub!Open, H!Open
<1>2. Hub!pruneExpired(buffer) = H!pruneExpired(buffer)
  BY SameKept DEF Hub!pruneExpired, H!pruneExpired, Hub!Msg, H!Msg
<1>3. \A s : Hub!TakeBuffer(s) => H!TakeBuffer(s)
  BY <1>2, Zenon DEF Hub!TakeBuffer, H!TakeBuffer, Hub!ToSet, H!ToSet
<1> QED
  BY <1>1, <1>3 DEF Hub!Connect, H!Connect

\* What the resolver does with its requests and their signals when it takes a step:
\* it sends one, or nothing.
SendsOne ==
  \/ UNCHANGED <<calls, outbox>>
  \/ /\ calls < MaxCalls /\ calls' = calls + 1
     /\ \E r \in Page!FetchReply \cup Page!MutateReply :
          outbox' = [outbox EXCEPT ![calls + 1] = r.signals]

LEMMA ResolverSends == ResolverStep => SendsOne /\ UNCHANGED <<hub, log, dispatched, down>>
<1>1. ASSUME NEW replies, replies = Page!FetchReply \/ replies = Page!MutateReply,
             Page!Send(replies)
      PROVE  SendsOne
  BY <1>1 DEF Page!Send, Page!requests, SendsOne
<1>2. Page!fetch \/ Page!mutate \/ Page!refetch => SendsOne
  BY <1>1 DEF Page!fetch, Page!mutate, Page!refetch, Page!Request, Page!SendFetch
<1>3. ASSUME NEW c \in Call,
             Page!ReplyFailed(c) \/ Page!ReplyConfirmed(c) \/ Page!ReplySpeculative(c)
      PROVE  SendsOne
  BY <1>3 DEF Page!ReplyFailed, Page!ReplyConfirmed, Page!ReplySpeculative, SendsOne
<1>4. ASSUME NEW c \in Call, Page!MaxWindow(c)
      PROVE  SendsOne
  <2>1. Page!Send(Page!FetchReply) \/ UNCHANGED <<Page!requests, outbox>>
    BY <1>4 DEF Page!MaxWindow, Page!Abandon, Page!SendFetch
  <2> QED
    BY <1>1, <2>1 DEF Page!requests, SendsOne
<1> QED
  BY <1>2, <1>3, <1>4 DEF ResolverStep

\* The page's other steps send nothing.
LEMMA OthersSendNothing ==
  /\ \A c, name : Page!handleSignal(c, name) => UNCHANGED calls
  /\ Page!ConnectionLost => UNCHANGED <<calls, outbox>>
  /\ \A c : Page!EmitHeldFill(c) => UNCHANGED calls
<1>1. ASSUME NEW c, NEW name, Page!handleSignal(c, name)
      PROVE  UNCHANGED calls
  <2>1. UNCHANGED Page!requests
    BY <1>1, Zenon DEF Page!handleSignal, Page!Patch, Page!HoldFill, Page!Fill, Page!Close,
       Page!AbortSignal
  <2> QED
    BY <2>1 DEF Page!requests
<1>2. Page!ConnectionLost => UNCHANGED <<calls, outbox>>
  BY DEF Page!ConnectionLost, Page!requests
<1>3. \A c : Page!EmitHeldFill(c) => UNCHANGED calls
  BY DEF Page!EmitHeldFill, Page!requests
<1> QED
  BY <1>1, <1>2, <1>3

\* The signals of an answer are a sequence of names.
LEMMA AnswersTyped ==
  \A r \in Page!FetchReply \cup Page!MutateReply : r.signals \in Seq(Client!Name)
<1>1. \A r \in C!FetchReply \cup C!MutateReply : r.signals \in Seq(C!Name)
  BY Assumed, C!RepliesTyped
<1>2. C!Name = Client!Name
  BY DEF C!Name, Client!Name
<1>3. C!FetchReply = Page!FetchReply /\ C!MutateReply = Page!MutateReply
  BY DEF C!FetchReply, C!MutateReply, C!PlainReply, C!Reply, C!Closing,
     Page!FetchReply, Page!MutateReply, Page!PlainReply, Page!Reply, Page!Closing
<1> QED
  BY <1>1, <1>2, <1>3

\* Where the messages of a call are concerned, a publication is one of three steps.
LEMMA PublishNextIs ==
  ASSUME SysInv, NEW c \in Call, PublishNext(c)
  PROVE  /\ Publishes(c)
         /\ H!PublishLive \/ H!PublishDropped \/ H!PublishBuffered
         /\ H!NextMsg
<1>1. H!PublishLive \/ H!PublishDropped \/ H!PublishBuffered
  BY SameHub DEF PublishNext, Hub!Publish
<1>2. H!NextMsg
  BY <1>1 DEF H!PublishLive, H!PublishDropped, H!PublishBuffered
<1> QED
  BY <1>1, <1>2 DEF Publishes, PublishNext, H!NextMsg

\* A step of the system is one of the hub, or leaves it alone.
LEMMA HubStep == SysInv /\ [Next]_vars => [H!Next]_H!vars
<1> SUFFICES ASSUME SysInv, [Next]_vars
             PROVE  H!Next \/ UNCHANGED H!vars
  OBVIOUS
<1>1. UNCHANGED hub => UNCHANGED H!vars
  BY DEF hub, H!vars, H!conn
<1>2. ASSUME NEW c \in Call, PublishNext(c)
      PROVE  H!Next
  BY <1>2, PublishNextIs DEF H!Next, H!Publish
<1>3. ASSUME NEW s \in Stream, ServeSignals(s) \/ OpenStream(s) \/ Drop(s)
      PROVE  H!Next
  <2>1. CASE ServeSignals(s)
    BY <2>1, SameHub DEF ServeSignals, Hub!ServeSignals, H!ServeSignals, H!Next
  <2>2. CASE OpenStream(s)
    BY <2>2, SameConnect DEF OpenStream, H!Next
  <2>3. CASE Drop(s)
    BY <2>3, SameHub DEF Drop, H!Next
  <2> QED
    BY <1>3, <2>1, <2>2, <2>3
<1>4. ASSUME NEW m \in 1 .. count, Expire(m)
      PROVE  H!Next
  <2>1. m \in H!Msg
    <3>1. count \in 0 .. 2 * MaxCalls
      BY DEF SysInv, H!HubInv, H!TypeOK
    <3> QED
      BY <3>1, Assumed DEF H!Msg
  <2> QED
    BY <1>4, <2>1, SameHub DEF Expire, H!Next
<1>5. CASE ResolverStep
  BY <1>1, <1>5, ResolverSends
<1>6. Dispatch \/ ConnectionLost \/ (\E c \in Call : FillWindow(c)) => UNCHANGED hub
  BY DEF Dispatch, ConnectionLost, FillWindow
<1>7. UNCHANGED vars => UNCHANGED hub
  BY DEF vars
<1> QED
  BY <1>1, <1>2, <1>3, <1>4, <1>5, <1>6, <1>7 DEF Next

\* What joins them, when nothing but the page's requests has changed.
LEMMA SendsJoin ==
  ASSUME SysInv, SendsOne, UNCHANGED <<hub, log, dispatched>>
  PROVE  JoinInv'
<1>1. JoinInv /\ calls \in Nat
  BY Assumed DEF SysInv, JoinInv
<1>2. UNCHANGED <<count, expired, received>>
  BY DEF hub
<1>3. CASE UNCHANGED <<calls, outbox>>
  BY <1>1, <1>2, <1>3 DEF JoinInv
<1>4. CASE /\ calls < MaxCalls /\ calls' = calls + 1
           /\ \E r \in Page!FetchReply \cup Page!MutateReply :
                outbox' = [outbox EXCEPT ![calls + 1] = r.signals]
  <2>1. PICK seq \in Seq(Client!Name) : outbox' = [outbox EXCEPT ![calls + 1] = seq]
    BY <1>4, AnswersTyped, Zenon
  <2>2. calls' \in 0 .. MaxCalls /\ \A c \in Call : c > calls' => c > calls /\ c # calls + 1
    BY <1>1, <1>4, Assumed DEF Call
  <2>3. \A m \in 1 .. count : log[m].call <= calls'
    <3>1. \A m \in 1 .. count : log[m].call \in Call /\ log[m].call <= calls
      BY <1>1, SysTypes, Zenon DEF JoinInv
    <3> QED
      BY <1>1, <1>4, <3>1, Assumed DEF Call
  <2>4. outbox' \in [Call -> Seq(Client!Name)]
    BY <1>1, <2>1, Zenon DEF JoinInv
  <2>5. \A c \in Call : c > calls' => outbox'[c] = <<>>
    BY <1>1, <2>1, <2>2 DEF JoinInv
  <2> QED
    BY <1>1, <1>2, <2>2, <2>3, <2>4, <2>5 DEF JoinInv
<1> QED
  BY <1>3, <1>4 DEF SendsOne

\* What joins them, when a signal is published.
LEMMA PublishJoin ==
  ASSUME SysInv, NEW c \in Call, PublishNext(c)
  PROVE  JoinInv'
<1>1. /\ count \in Nat /\ Len(log) = count /\ log \in Logs /\ calls \in Nat
      /\ outbox \in [Call -> Seq(Client!Name)] /\ JoinInv
  BY SysTypes, Assumed DEF SysInv, JoinInv
<1>2. Publishes(c) /\ H!NextMsg
  BY PublishNextIs
<1>3. UNCHANGED <<expired, received, dispatched, calls>>
  BY <1>2 DEF H!NextMsg, PublishNext, page
<1> DEFINE e == [call |-> c, name |-> Head(outbox[c])]
<1>4. outbox[c] \in Seq(Client!Name) /\ outbox[c] # <<>> /\ c <= calls
  <2>1. outbox[c] \in Seq(Client!Name) /\ outbox[c] # <<>>
    BY <1>1, <1>2 DEF Publishes
  <2>2. ~ (c > calls)
    BY <1>1, <2>1 DEF JoinInv
  <2> QED
    BY <1>1, <2>1, <2>2, Assumed DEF Call
<1>5. e \in Entry /\ e.call = c /\ log' = Append(log, e)
  <2>1. Head(outbox[c]) \in Client!Name
    BY <1>4
  <2> QED
    BY <1>2, <2>1 DEF Entry, Publishes
<1> HIDE DEF e
<1>6. /\ log' \in Logs /\ Len(log') = count + 1 /\ log'[count + 1] = e
      /\ \A m \in 1 .. count : log'[m] = log[m]
  BY <1>1, <1>5, LogGrows
<1>7. count' = count + 1 /\ \A m \in 1 .. count' : m \in 1 .. count \/ m = count + 1
  BY <1>1, <1>2 DEF Publishes
<1>8. \A m \in 1 .. count' : log'[m].call <= calls
  BY <1>1, <1>4, <1>5, <1>6, <1>7 DEF JoinInv
<1>9. outbox' \in [Call -> Seq(Client!Name)]
      /\ \A d \in Call : d > calls => outbox'[d] = <<>>
  <2>1. Tail(outbox[c]) \in Seq(Client!Name)
    BY <1>4
  <2>2. outbox' = [outbox EXCEPT ![c] = Tail(outbox[c])]
    BY <1>2 DEF Publishes
  <2>3. \A d \in Call : d > calls => d # c
    BY <1>1, <1>4, Assumed DEF Call
  <2> QED
    BY <1>1, <2>1, <2>2, <2>3 DEF JoinInv
<1>10. expired \subseteq 1 .. count'
  BY <1>1, <1>7 DEF JoinInv
<1> QED
  BY <1>1, <1>3, <1>6, <1>7, <1>8, <1>9, <1>10 DEF JoinInv

\* What joins them, when a message is dispatched.
LEMMA DispatchJoin ==
  ASSUME SysInv, Dispatch
  PROVE  JoinInv'
<1>1. UNCHANGED <<count, expired, received, outbox, log, calls>>
  BY OthersSendNothing DEF Dispatch, hub, page
<1>2. dispatched' \in 0 .. Len(received)
  BY SysTypes DEF Dispatch
<1> QED
  BY <1>1, <1>2 DEF SysInv, JoinInv

\* What joins them, when the hub's streams take a step or time passes.
LEMMA ProxyJoin ==
  ASSUME SysInv, UNCHANGED <<count, log, outbox, calls, dispatched>>,
         received' \in {received} \cup {Append(received, m) : m \in Nat},
         expired' \subseteq 1 .. count
  PROVE  JoinInv'
<1>1. dispatched \in 0 .. Len(received')
  BY SysTypes
<1> QED
  BY <1>1 DEF SysInv, JoinInv

\* Nothing is there at the start.
LEMMA InitSysInv == Init => SysInv
<1> SUFFICES ASSUME Init
             PROVE  SysInv
  OBVIOUS
<1>1. H!HubInv
  BY SameHub, Assumed, H!InitHubInv DEF Init
<1>2. count = 0 /\ expired = {} /\ received = <<>>
  BY SameHub DEF Init, H!Init
<1>3. calls = 0 /\ outbox = [c \in Call |-> <<>>]
  BY DEF Init, Page!Init, Page!Call, Call
<1>4. JoinInv
  BY <1>2, <1>3, Assumed DEF Init, JoinInv, Logs, Call
<1> QED
  BY <1>1, <1>4 DEF SysInv

\* Every step preserves the invariant.
LEMMA NextSysInv == SysInv /\ [Next]_vars => SysInv'
<1> SUFFICES ASSUME SysInv, [Next]_vars
             PROVE  SysInv'
  OBVIOUS
<1>1. H!HubInv'
  BY HubStep, Assumed, H!NextHubInv DEF SysInv
<1>2. JoinInv
  BY DEF SysInv
<1>3. ASSUME NEW c \in Call, PublishNext(c)
      PROVE  JoinInv'
  BY <1>3, PublishJoin
<1>4. ASSUME NEW s \in Stream, ServeSignals(s)
      PROVE  JoinInv'
  <2>1. H!ReplayMsg(s) \/ H!StartStreaming(s) \/ H!Deliver(s) \/ H!ClientDisconnected(s)
    BY <1>4, SameHub DEF ServeSignals, Hub!ServeSignals
  <2>2. UNCHANGED <<count, expired>>
    BY <2>1 DEF H!ReplayMsg, H!StartStreaming, H!Deliver, H!ClientDisconnected
  <2>3. \/ UNCHANGED received
        \/ replay[s] # <<>> /\ received' = Append(received, Head(replay[s]))
        \/ ch # <<>> /\ received' = Append(received, Head(ch))
    BY <2>1 DEF H!ReplayMsg, H!StartStreaming, H!Deliver, H!ClientDisconnected, H!WriteMsg
  <2>4. received' \in {received} \cup {Append(received, m) : m \in Nat}
    <3>1. replay[s] \in Seq(Nat) /\ ch \in Seq(Nat)
      BY SysTypes
    <3>2. (replay[s] # <<>> => Head(replay[s]) \in Nat) /\ (ch # <<>> => Head(ch) \in Nat)
      BY <3>1
    <3> QED
      BY <2>3, <3>2
  <2>5. UNCHANGED <<log, outbox, calls, dispatched>>
    BY <1>4 DEF ServeSignals, page
  <2> QED
    BY <1>2, <2>2, <2>4, <2>5, ProxyJoin DEF JoinInv
<1>5. ASSUME NEW s \in Stream, OpenStream(s) \/ Drop(s)
      PROVE  JoinInv'
  <2>1. UNCHANGED <<count, expired, received>>
    BY <1>5, SameHub, SameConnect, Zenon DEF OpenStream, Drop, H!Connect, H!Begin, H!Drop
  <2>2. UNCHANGED <<log, outbox, calls, dispatched>>
    BY <1>5 DEF OpenStream, Drop, page
  <2> QED
    BY <1>2, <2>1, <2>2, ProxyJoin DEF JoinInv
<1>6. ASSUME NEW m \in 1 .. count, Expire(m)
      PROVE  JoinInv'
  <2>1. UNCHANGED <<count, received>> /\ expired' = expired \cup {m}
    BY <1>6, SameHub DEF Expire, H!Expire
  <2>2. UNCHANGED <<log, outbox, calls, dispatched>>
    BY <1>6 DEF Expire, page
  <2>3. expired' \subseteq 1 .. count
    BY <1>2, <2>1 DEF JoinInv
  <2> QED
    BY <2>1, <2>2, <2>3, ProxyJoin
<1>7. ASSUME Dispatch
      PROVE  JoinInv'
  BY <1>7, DispatchJoin
<1>8. ASSUME ConnectionLost
      PROVE  JoinInv'
  <2>1. UNCHANGED <<calls, outbox, hub, log, dispatched>>
    BY <1>8, OthersSendNothing DEF ConnectionLost, page
  <2> QED
    BY <2>1, SendsJoin DEF SendsOne
<1>9. ASSUME NEW c \in Call, FillWindow(c)
      PROVE  JoinInv'
  <2>1. UNCHANGED <<calls, outbox, hub, log, dispatched>>
    BY <1>9, OthersSendNothing DEF FillWindow
  <2> QED
    BY <2>1, SendsJoin DEF SendsOne
<1>10. ASSUME ResolverStep
       PROVE  JoinInv'
  BY <1>10, ResolverSends, SendsJoin
<1>11. ASSUME UNCHANGED vars
       PROVE  JoinInv'
  <2>1. UNCHANGED <<calls, outbox, hub, log, dispatched>>
    BY <1>11 DEF vars, page
  <2> QED
    BY <2>1, SendsJoin DEF SendsOne
<1> QED
  BY <1>1, <1>3, <1>4, <1>5, <1>6, <1>7, <1>8, <1>9, <1>10, <1>11 DEF Next, SysInv

-----------------------------------------------------------------------------
(***************************************************************************)
(* The proxy and the network are a channel: what they do to the signals    *)
(* outstanding is to lose one or nothing.                                  *)
(***************************************************************************)

\* A message is under way unless it is lost or dispatched.
LEMMA UnderWayIs == \A m : UnderWay(m) <=> m \notin Lost /\ m \notin Dispatched
BY DEF UnderWay, Dispatched

\* The same of the next state.
LEMMA NextUnderWayIs == \A m : UnderWay(m)' <=> m \notin Lost' /\ m \notin Dispatched'
BY DEF UnderWay, Dispatched

\* What was dispatched stays so when another message comes.
LEMMA SameDispatched ==
  ASSUME SysInv, UNCHANGED dispatched,
         received' \in {received} \cup {Append(received, m) : m \in Nat}
  PROVE  Dispatched' = Dispatched
<1>1. received \in Seq(Nat) /\ dispatched \in 0 .. Len(received)
  BY SysTypes
<1>2. /\ received' \in Seq(Nat) /\ dispatched' \in 0 .. Len(received')
      /\ \A i \in 1 .. dispatched : received'[i] = received[i]
  <2>1. CASE received' = received
    BY <1>1, <2>1
  <2>2. ASSUME NEW m \in Nat, received' = Append(received, m)
        PROVE  /\ received' \in Seq(Nat) /\ dispatched \in 0 .. Len(received')
               /\ \A i \in 1 .. dispatched : received'[i] = received[i]
    BY <1>1, <2>2
  <2> QED
    BY <2>1, <2>2
<1>3. \A m : m \in Dispatched <=> \E i \in 1 .. dispatched : received[i] = m
  BY <1>1, DispatchedAre DEF Dispatched
<1>4. \A m : m \in ToSet(SubSeq(received', 1, dispatched'))
               <=> \E i \in 1 .. dispatched' : received'[i] = m
  BY <1>2, DispatchedAre
<1>5. \A m : m \in Dispatched' <=> \E i \in 1 .. dispatched : received[i] = m
  BY <1>2, <1>4, Zenon DEF Dispatched, ToSet
<1>6. \A m : m \in Dispatched' <=> m \in Dispatched
  BY <1>3, <1>5
<1> QED
  BY <1>6, Zenon

\* A message that has not been published is neither lost nor dispatched.
LEMMA NotYet ==
  SysInv => count + 1 \notin Lost /\ count + 1 \notin Dispatched /\ count + 1 \notin expired
<1> SUFFICES ASSUME SysInv
             PROVE  count + 1 \notin Lost /\ count + 1 \notin Dispatched /\ count + 1 \notin expired
  OBVIOUS
<1>1. count \in Nat /\ count + 1 \notin 1 .. count
  BY SysTypes
<1>2. gone \subseteq 1 .. count /\ expired \subseteq 1 .. count
  BY DEF SysInv, H!HubInv, JoinInv
<1>3. ASSUME NEW j \in Nat, j \in 1 .. Len(received)
      PROVE  received[j] # count + 1
  <2>1. H!AtClient \in H!Place /\ H!Queues[H!AtClient] = received
    BY Assumed, H!PlacesAre, H!QueuesAre
  <2>2. received \in Seq(Nat)
    BY SysTypes
  <2>3. received[j] \in 1 .. count
    BY <1>3, <2>1, <2>2, Here
  <2> QED
    BY <1>1, <2>3
<1>4. count + 1 \notin Dispatched
  BY <1>3, NotDispatched
<1> QED
  BY <1>1, <1>2, <1>4 DEF Lost

\* The resolver sees one of its signals lost, or nothing.
LEMMA ClientLoses ==
  ASSUME NEW c \in Call, NEW i \in DOMAIN Outstanding[c],
         Outstanding' = [Outstanding EXCEPT ![c] = RemoveAt(@, i)],
         UNCHANGED page, disturbed' = disturbed \cup {c}
  PROVE  Client!Next
<1>1. Client!RemoveAt(Outstanding[c], i) = RemoveAt(Outstanding[c], i)
  BY DEF Client!RemoveAt, RemoveAt
<1>2. Outstanding' = [Outstanding EXCEPT ![c] = Client!RemoveAt(@, i)]
  BY <1>1
<1>3. UNCHANGED <<Client!resolver, status, refetchTimers, Client!requests, view>>
  BY DEF Client!resolver, Client!requests, page, resolver
<1>4. Client!Lose(c, i)
  BY <1>2, <1>3, Zenon DEF Client!Lose, Client!Take
<1> QED
  BY <1>4 DEF Client!Next, Client!Call, Call

\* Or it sees nothing.
LEMMA ClientStutters ==
  ASSUME UNCHANGED <<page, disturbed, Outstanding>>
  PROVE  UNCHANGED Client!vars
BY DEF Client!vars, Client!resolver, Client!requests, page, resolver

\* A step of the proxy that loses nothing.
LEMMA LosesNothing ==
  ASSUME SysInv, UNCHANGED <<count, log, outbox, page, disturbed>>,
         Lost' = Lost, Dispatched' = Dispatched
  PROVE  UNCHANGED Client!vars
<1>1. \A m \in 1 .. count : UnderWay(m)' <=> UnderWay(m)
  BY UnderWayIs, NextUnderWayIs
<1>2. UNCHANGED Outstanding
  BY <1>1, NothingTaken
<1> QED
  BY <1>2, ClientStutters

\* One that loses a message.
LEMMA LosesMessage ==
  ASSUME SysInv, UNCHANGED <<count, log, outbox, page>>, NoteLosses,
         NEW x \in 1 .. count, UnderWay(x), Lost' = Lost \cup {x}, Dispatched' = Dispatched
  PROVE  Client!Next
<1>1. \A m \in 1 .. count : UnderWay(m)' <=> UnderWay(m) /\ m # x
  BY UnderWayIs, NextUnderWayIs
<1>2. PICK c \in Call : c = log[x].call
  BY SysTypes
<1>3. PICK i \in DOMAIN Outstanding[c] : Outstanding' = [Outstanding EXCEPT ![c] = RemoveAt(@, i)]
  BY <1>1, <1>2, OneTaken
<1>4. disturbed' = disturbed \cup {c}
  <2>1. Lost' \ Lost = {x}
    BY UnderWayIs
  <2> QED
    BY <1>2, <2>1 DEF NoteLosses
<1> QED
  BY <1>3, <1>4, ClientLoses, Zenon

\* A step of a stream.
LEMMA ServeRefines ==
  ASSUME SysInv, NEW s \in Stream, ServeSignals(s)
  PROVE  Client!Next \/ UNCHANGED Client!vars
<1>1. UNCHANGED <<page, outbox, log, dispatched, down>> /\ NoteLosses
  BY DEF ServeSignals
<1>2. UNCHANGED <<count, buffer, expired>>
      /\ (H!ReplayMsg(s) \/ H!StartStreaming(s) \/ H!Deliver(s) \/ H!ClientDisconnected(s))
  BY SameHub DEF ServeSignals, Hub!ServeSignals, H!ReplayMsg, H!StartStreaming, H!Deliver,
     H!ClientDisconnected, H!conn
<1>3. ASSUME Lost' = Lost, Dispatched' = Dispatched
      PROVE  UNCHANGED Client!vars
  <2>1. UNCHANGED disturbed
    BY <1>1, <1>3 DEF NoteLosses
  <2> QED
    BY <1>1, <1>2, <1>3, <2>1, LosesNothing
<1>4. ASSUME NEW m \in 1 .. count, UnderWay(m), m \notin ToSet(buffer), H!WriteMsg(s, m)
      PROVE  Client!Next \/ UNCHANGED Client!vars
  <2>1. received' \in {received} \cup {Append(received, n) : n \in Nat}
    BY <1>4 DEF H!WriteMsg
  <2>2. Dispatched' = Dispatched
    BY <1>1, <2>1, SameDispatched
  <2>3. CASE s \in up
    <3>1. Lost' = Lost
      BY <1>2, <1>4, <2>3 DEF H!WriteMsg, Lost
    <3> QED
      BY <1>3, <2>2, <3>1
  <2>4. CASE s \notin up
    <3>1. Lost' = Lost \cup {m}
      BY <1>2, <1>4, <2>4 DEF H!WriteMsg, Lost
    <3> QED
      BY <1>1, <1>2, <1>4, <2>2, <3>1, LosesMessage
  <2> QED
    BY <2>3, <2>4
<1>5. CASE H!ReplayMsg(s)
  BY <1>4, <1>5, ReplayHead DEF H!ReplayMsg
<1>6. CASE H!Deliver(s)
  BY <1>4, <1>6, ChannelHead DEF H!Deliver
<1>7. CASE H!StartStreaming(s) \/ H!ClientDisconnected(s)
  <2>1. UNCHANGED <<gone, received>>
    BY <1>7 DEF H!StartStreaming, H!ClientDisconnected
  <2>2. Lost' = Lost /\ Dispatched' = Dispatched
    BY <1>1, <1>2, <2>1 DEF Lost, Dispatched
  <2> QED
    BY <1>3, <2>2
<1> QED
  BY <1>2, <1>5, <1>6, <1>7

\* A buffered message expires: it will reach no one.
LEMMA ExpireRefines ==
  ASSUME SysInv, NEW m \in 1 .. count, Expire(m)
  PROVE  Client!Next
<1>1. UNCHANGED <<page, outbox, log, dispatched, down>> /\ NoteLosses /\ m \in ToSet(buffer)
  BY DEF Expire
<1>2. /\ UNCHANGED <<count, buffer, gone, received>>
      /\ m \notin expired /\ expired' = expired \cup {m}
  BY SameHub DEF Expire, H!Expire, H!conn
<1>3. UnderWay(m)
  BY <1>1, <1>2, BufferedAre, UnderWayIs DEF Lost
<1>4. Lost' = Lost \cup {m} /\ Dispatched' = Dispatched
  BY <1>1, <1>2 DEF Lost, Dispatched
<1> QED
  BY <1>1, <1>2, <1>3, <1>4, LosesMessage

\* A stream that opens prunes what was lost before; one that ends changes nothing yet.
LEMMA StreamRefines ==
  ASSUME SysInv, NEW s \in Stream, OpenStream(s) \/ Drop(s)
  PROVE  UNCHANGED Client!vars
<1>1. UNCHANGED <<page, disturbed, outbox, log, dispatched>>
  BY DEF OpenStream, Drop
<1>2. UNCHANGED <<count, expired, received>>
  BY SameHub, SameConnect, Zenon DEF OpenStream, Drop, H!Connect, H!Begin, H!Drop
<1>3. Lost' = Lost
  <2>1. CASE OpenStream(s)
    <3>1. gone' = gone \cup (H!ToSet(buffer) \cap expired) /\ buffer' = <<>>
      BY <2>1, SameConnect DEF OpenStream, H!Connect, H!TakeBuffer
    <3>2. H!ToSet(buffer) = ToSet(buffer) /\ ToSet(<<>>) = {}
      BY DEF H!ToSet, ToSet
    <3>3. ToSet(buffer') = {}
      BY <3>1, <3>2
    <3> QED
      BY <1>2, <3>1, <3>2, <3>3 DEF Lost
  <2>2. CASE Drop(s)
    BY <1>2, <2>2, SameHub DEF Drop, H!Drop, H!conn, Lost
  <2> QED
    BY <2>1, <2>2
<1>4. Dispatched' = Dispatched
  BY <1>1, <1>2 DEF Dispatched
<1> QED
  BY <1>1, <1>2, <1>3, <1>4, LosesNothing

\* A signal that is published is lost if the hub drops it.
LEMMA PublishRefines ==
  ASSUME SysInv, NEW c \in Call, PublishNext(c)
  PROVE  Client!Next \/ UNCHANGED Client!vars
<1>1. PICK n : n = count + 1
  OBVIOUS
<1>2. Publishes(c) /\ UNCHANGED <<page, dispatched, expired, received>> /\ NoteLosses
  BY PublishNextIs, Zenon DEF PublishNext, H!NextMsg
<1>3. Dispatched' = Dispatched
  BY <1>2 DEF Dispatched
<1>4. n \notin Lost /\ n \notin Dispatched /\ n \notin expired
  BY <1>1, NotYet
<1>5. n \notin 1 .. count
  BY <1>1, SysTypes
<1>6. CASE H!PublishLive \/ H!PublishBuffered
  <2>1. Lost' = Lost
    <3>1. CASE H!PublishLive
      BY <1>2, <3>1 DEF H!PublishLive, Lost
    <3>2. CASE H!PublishBuffered
      <4>1. UNCHANGED gone /\ buffer' = Append(buffer, n) /\ buffer \in Seq(Nat)
        BY <1>1, <3>2, SysTypes DEF H!PublishBuffered
      <4>2. ToSet(buffer') = ToSet(buffer) \cup {n}
        BY <4>1 DEF ToSet
      <4> QED
        BY <1>2, <1>4, <4>1, <4>2 DEF Lost
    <3> QED
      BY <1>6, <3>1, <3>2
  <2>2. UnderWay(n)' /\ \A m \in 1 .. count : UnderWay(m)' <=> UnderWay(m)
    BY <1>3, <1>4, <2>1, UnderWayIs, NextUnderWayIs
  <2>3. UNCHANGED Outstanding
    BY <1>1, <1>2, <2>2, NoneLost
  <2>4. UNCHANGED disturbed
    BY <1>2, <2>1 DEF NoteLosses
  <2> QED
    BY <1>2, <2>3, <2>4, ClientStutters
<1>7. CASE H!PublishDropped
  <2>1. Lost' = Lost \cup {n}
    BY <1>1, <1>2, <1>7 DEF H!PublishDropped, Lost
  <2>2. ~ UnderWay(n)' /\ \A m \in 1 .. count : UnderWay(m)' <=> UnderWay(m)
    BY <1>3, <1>5, <2>1, UnderWayIs, NextUnderWayIs
  <2>3. PICK i \in DOMAIN Outstanding[c] :
          Outstanding' = [Outstanding EXCEPT ![c] = RemoveAt(@, i)]
    BY <1>1, <1>2, <2>2, OneLost
  <2>4. disturbed' = disturbed \cup {c}
    <3>1. Lost' \ Lost = {n}
      BY <1>4, <2>1
    <3>2. log'[n].call = c
      <4>1. log'[n] = [call |-> c, name |-> Head(outbox[c])]
        BY <1>1, <1>2, <2>2, PublishesOne
      <4> QED
        BY <4>1
    <3> QED
      BY <1>2, <3>1, <3>2 DEF NoteLosses
  <2> QED
    BY <1>2, <2>3, <2>4, ClientLoses, Zenon
<1> QED
  BY <1>6, <1>7, PublishNextIs

-----------------------------------------------------------------------------
(***************************************************************************)
(* What the page does is what the resolver does over that channel.         *)
(***************************************************************************)

\* The instances of Resolver have the same parts that do not touch the channel.
LEMMA SameClient ==
  /\ \A a, b : Page!cleanup(a, b) <=> Client!cleanup(a, b)
  /\ \A a : Page!finalize(a) <=> Client!finalize(a)
  /\ \A seq : Page!Emit(seq) <=> Client!Emit(seq)
  /\ Page!requests = Client!requests /\ Page!resolver = Client!resolver
  /\ Page!FetchReply = Client!FetchReply /\ Page!MutateReply = Client!MutateReply
<1>1. \A a, b : Page!cleanup(a, b) <=> Client!cleanup(a, b)
  BY DEF Page!cleanup, Client!cleanup, Page!None, Client!None
<1>2. \A a : Page!finalize(a) <=> Client!finalize(a)
  BY <1>1 DEF Page!finalize, Client!finalize, Page!None, Client!None
<1>3. \A seq : Page!Emit(seq) <=> Client!Emit(seq)
  BY DEF Page!Emit, Client!Emit
<1>4. Page!requests = Client!requests /\ Page!resolver = Client!resolver
  BY DEF Page!requests, Client!requests, Page!resolver, Client!resolver
<1>5. Page!FetchReply = Client!FetchReply /\ Page!MutateReply = Client!MutateReply
  BY DEF Page!FetchReply, Page!MutateReply, Page!PlainReply, Page!Reply, Page!Closing,
     Client!FetchReply, Client!MutateReply, Client!PlainReply, Client!Reply, Client!Closing
<1> QED
  BY <1>1, <1>2, <1>3, <1>4, <1>5

\* A signal is handled in the same way.
LEMMA SameHandleSignal ==
  \A c, name : Page!handleSignal(c, name) <=> Client!handleSignal(c, name)
BY DEF Page!handleSignal, Client!handleSignal, Page!Patch, Client!Patch, Page!HoldFill,
   Client!HoldFill, Page!Fill, Client!Fill, Page!Close, Client!Close, Page!AbortSignal,
   Client!AbortSignal, Page!Emitted, Client!Emitted, Page!Emit, Client!Emit, Page!None,
   Client!None, Page!finalize, Client!finalize, Page!cleanup, Client!cleanup,
   Page!requests, Client!requests

\* A request's signals are outstanding as soon as its reply is known.
LEMMA SendRefines ==
  ASSUME SysInv, UNCHANGED <<hub, log, dispatched>>, NEW replies,
         replies \subseteq Page!FetchReply \cup Page!MutateReply, Page!Send(replies)
  PROVE  Client!Send(replies)
<1>1. UNCHANGED <<count, gone, expired, buffer, received, log, dispatched>>
  BY DEF hub
<1>2. Lost' = Lost /\ Dispatched' = Dispatched
  BY <1>1 DEF Lost, Dispatched
<1>3. \A m : UnderWay(m)' <=> UnderWay(m)
  BY <1>2, UnderWayIs, NextUnderWayIs
<1>4. CASE ~(calls < MaxCalls)
  <2>1. UNCHANGED <<Page!requests, outbox>>
    BY <1>4 DEF Page!Send
  <2>2. UNCHANGED Outstanding
    BY <1>1, <1>3, <2>1, NothingTaken
  <2> QED
    BY <1>4, <2>1, <2>2 DEF Client!Send, Page!requests, Client!requests
<1>5. CASE calls < MaxCalls
  <2>1. PICK r \in replies :
          /\ calls' = calls + 1
          /\ pending' = pending \cup {calls + 1}
          /\ reply' = [reply EXCEPT ![calls + 1] = r]
          /\ outbox' = [outbox EXCEPT ![calls + 1] = r.signals]
    BY <1>5 DEF Page!Send
  <2>2. PICK n \in Call : n = calls + 1
    <3>1. calls \in Nat
      BY Assumed DEF SysInv, JoinInv
    <3> QED
      BY <1>5, <3>1, Assumed DEF Call
  <2>3. /\ count \in Nat /\ outbox \in [Call -> Seq(Client!Name)] /\ calls \in Nat
        /\ log \in Logs /\ Len(log) = count
    BY SysTypes, Assumed DEF SysInv, JoinInv
  <2>4. Of(n) = {}
    <3>1. \A m \in 1 .. count : log[m].call \in Call /\ log[m].call <= calls
      BY SysTypes DEF SysInv, JoinInv
    <3> QED
      BY <2>2, <2>3, <3>1, Assumed DEF Of, Call
  <2>5. r.signals \in Seq(Client!Name)
    BY AnswersTyped
  <2>6. Owed(count, {}, log, r.signals) = r.signals
    <3> DEFINE kept == H!Kept(Numbers(count), {})
               seq == r.signals
    <3>1. kept \in Seq(Nat) /\ \A i \in 1 .. Len(kept) : kept[i] \in {}
      BY <2>3, KeptNumbers
    <3> HIDE DEF kept
    <3>2. kept = <<>>
      BY <3>1
    <3>3. NamesIn(log, kept) = <<>>
      BY <3>2 DEF NamesIn
    <3>4. seq \in Seq(Client!Name)
      BY <2>5
    <3> HIDE DEF seq
    <3>5. <<>> \o seq = seq
      BY <3>4
    <3> QED
      BY <3>3, <3>5, Zenon DEF Owed, kept, seq
  <2>7. ASSUME NEW d \in Call
        PROVE  Outstanding'[d] = IF d = n THEN r.signals ELSE Outstanding[d]
    <3>1. Of(d)' = Of(d)
      BY <1>1, <1>3 DEF Of
    <3>2. Outstanding'[d] = Owed(count, Of(d), log, outbox'[d])
      BY <1>1, <3>1, NextOutstandingIs
    <3>3. Outstanding[d] = Owed(count, Of(d), log, outbox[d])
      BY OutstandingIs
    <3>4. outbox'[d] = IF d = n THEN r.signals ELSE outbox[d]
      BY <2>1, <2>2, <2>3
    <3> QED
      BY <2>4, <2>6, <3>2, <3>3, <3>4
  <2>8. /\ Outstanding = [d \in Call |-> Outstanding[d]]
        /\ Outstanding' = [d \in Call |-> Outstanding'[d]]
    BY OutstandingIs, NextOutstandingIs
  <2>9. Outstanding' = [Outstanding EXCEPT ![calls + 1] = r.signals]
    BY <2>2, <2>7, <2>8
  <2> QED
    BY <1>5, <2>1, <2>9, Zenon DEF Client!Send
<1> QED
  BY <1>4, <1>5

\* Nothing becomes of the signals in a step that touches neither tracks nor hub.
LEMMA SignalsStay ==
  ASSUME SysInv, UNCHANGED <<hub, log, dispatched, outbox>>
  PROVE  UNCHANGED Outstanding
<1>1. UNCHANGED <<count, gone, expired, buffer, received, log, dispatched>>
  BY DEF hub
<1>2. Lost' = Lost /\ Dispatched' = Dispatched
  BY <1>1 DEF Lost, Dispatched
<1>3. \A m \in 1 .. count : UnderWay(m)' <=> UnderWay(m)
  BY <1>2, UnderWayIs, NextUnderWayIs
<1> QED
  BY <1>1, <1>3, NothingTaken

\* A dispatch delivers a signal or finds no handler for it.
LEMMA DispatchRefines ==
  ASSUME SysInv, Dispatch
  PROVE  LET m == received[dispatched + 1]
             c == log[m].call
         IN  /\ c \in Call /\ m \in 1 .. count
             /\ \E i \in DOMAIN Outstanding[c] :
                  /\ Client!Deliver(c, i) \/ Client!Discard(c, i)
                  /\ Outstanding[c][i] = log[m].name
                  /\ (\A y \in Of(c) : m <= y) => i = 1
<1>1. PICK m : m = received[dispatched + 1]
  OBVIOUS
<1>2. /\ dispatched < Len(received) /\ dispatched' = dispatched + 1
      /\ UNCHANGED <<hub, outbox, log, down>>
      /\ IF log[m].call \in handlers
           THEN Page!handleSignal(log[m].call, log[m].name)
           ELSE /\ disturbed' = disturbed \cup ({log[m].call} \cap pending)
                /\ UNCHANGED page
  BY <1>1 DEF Dispatch
<1>3. m \in 1 .. count /\ UnderWay(m)
  BY <1>1, <1>2, ReceivedNext
<1>4. UNCHANGED <<count, gone, expired, buffer, received>>
  BY <1>2 DEF hub
<1>5. Lost' = Lost
  BY <1>4 DEF Lost
<1>6. \A x : x \in Dispatched' <=> x \in Dispatched \/ x = m
  <2>1. received \in Seq(Nat) /\ dispatched \in 0 .. Len(received) /\ Len(received) \in Nat
    BY SysTypes
  <2>2. dispatched' \in 0 .. Len(received)
    BY <1>2, <2>1
  <2>3. \A x : x \in ToSet(SubSeq(received, 1, dispatched))
                 <=> \E i \in 1 .. dispatched : received[i] = x
    BY <2>1, DispatchedAre
  <2>4. \A x : x \in ToSet(SubSeq(received, 1, dispatched'))
                 <=> \E i \in 1 .. dispatched' : received[i] = x
    BY <2>1, <2>2, DispatchedAre
  <2>5. /\ \A i : i \in 1 .. dispatched' <=> i \in 1 .. dispatched \/ i = dispatched + 1
    BY <1>2, <2>1
  <2>6. Dispatched = ToSet(SubSeq(received, 1, dispatched))
        /\ Dispatched' = ToSet(SubSeq(received, 1, dispatched'))
    BY <1>4 DEF Dispatched, ToSet
  <2> QED
    BY <1>1, <2>3, <2>4, <2>5, <2>6
<1>7. \A x \in 1 .. count : UnderWay(x)' <=> UnderWay(x) /\ x # m
  BY <1>5, <1>6, UnderWayIs, NextUnderWayIs
<1>8. PICK c \in Call : c = log[m].call
  BY <1>3, SysTypes
<1>9. PICK i \in DOMAIN Outstanding[c] :
        /\ Outstanding[c][i] = log[m].name
        /\ Outstanding' = [Outstanding EXCEPT ![c] = RemoveAt(@, i)]
        /\ (\A y \in Of(c) : m <= y) => i = 1
  BY <1>2, <1>3, <1>4, <1>7, <1>8, OneTaken
<1>10. Client!Take(c, i)
  <2>1. Client!RemoveAt(Outstanding[c], i) = RemoveAt(Outstanding[c], i)
    BY DEF Client!RemoveAt, RemoveAt
  <2> QED
    BY <1>9, <2>1 DEF Client!Take
<1>11. CASE c \in handlers
  <2>1. Client!handleSignal(c, Outstanding[c][i])
    BY <1>2, <1>8, <1>9, <1>11, SameHandleSignal
  <2>2. Client!Deliver(c, i)
    BY <1>10, <1>11, <2>1 DEF Client!Deliver
  <2> QED
    BY <1>1, <1>3, <1>8, <1>9, <2>2
<1>12. CASE c \notin handlers
  <2>1. /\ disturbed' = IF c \in pending THEN disturbed \cup {c} ELSE disturbed
        /\ UNCHANGED page
    BY <1>2, <1>8, <1>12, Zenon
  <2>2. Client!Discard(c, i)
    BY <1>10, <1>12, <2>1 DEF Client!Discard, Client!resolver, Client!requests, page, resolver
  <2> QED
    BY <1>1, <1>3, <1>8, <1>9, <2>2
<1> QED
  BY <1>11, <1>12

\* The end of a connection.
LEMMA ConnectionRefines ==
  ASSUME SysInv, ConnectionLost
  PROVE  Client!Next \/ UNCHANGED Client!vars
<1>1. CASE Page!ConnectionLost
  <2>1. UNCHANGED Outstanding
    BY <1>1, OthersSendNothing, SignalsStay DEF ConnectionLost
  <2>2. Client!ConnectionLost
    BY <1>1, <2>1, SameClient DEF Page!ConnectionLost, Client!ConnectionLost, Page!None, Client!None,
       Page!requests, Client!requests
  <2> QED
    BY <2>2 DEF Client!Next
<1>2. CASE UNCHANGED <<page, disturbed, outbox>>
  <2>1. UNCHANGED Outstanding
    BY <1>2, SignalsStay DEF ConnectionLost
  <2> QED
    BY <1>2, <2>1, ClientStutters
<1> QED
  BY <1>1, <1>2 DEF ConnectionLost

\* The 50 ms of a held back FILL.
LEMMA FillWindowRefines ==
  ASSUME SysInv, NEW c \in Call, FillWindow(c)
  PROVE  Client!FillWindow(c)
<1>1. UNCHANGED Outstanding
  BY SignalsStay DEF FillWindow
<1>2. Client!EmitHeldFill(c)
  BY SameClient DEF FillWindow, Page!EmitHeldFill, Client!EmitHeldFill, Page!Emitted, Client!Emitted,
     Page!requests, Client!requests
<1> QED
  BY <1>1, <1>2 DEF FillWindow, Client!FillWindow

\* The application, the replies, the max window and the refetch.
LEMMA ResolverRefines ==
  ASSUME SysInv, ResolverStep
  PROVE  Client!Next
<1>1. UNCHANGED <<hub, log, dispatched>>
  BY DEF ResolverStep
<1>2. ASSUME NEW replies, replies = Page!FetchReply \/ replies = Page!MutateReply,
             Page!Request(replies)
      PROVE  Client!Request(replies)
  <2>1. Client!Send(replies)
    BY <1>1, <1>2, SendRefines DEF Page!Request
  <2> QED
    BY <1>2, <2>1, SameClient DEF Page!Request, Client!Request, Page!MayCall, Client!MayCall,
       Page!None, Client!None
<1>3. CASE Page!fetch \/ Page!mutate
  BY <1>2, <1>3, SameClient
     DEF Page!fetch, Page!mutate, Client!fetch, Client!mutate, Client!Next
<1>4. Page!SendFetch => Client!SendFetch
  BY <1>1, SendRefines, SameClient DEF Page!SendFetch, Client!SendFetch
<1>5. CASE Page!refetch
  <2>1. Client!refetch
    BY <1>4, <1>5, SameClient DEF Page!refetch, Client!refetch, Page!None, Client!None
  <2> QED
    BY <2>1 DEF Client!Next
<1>6. ASSUME NEW c \in Call,
             Page!ReplyFailed(c) \/ Page!ReplyConfirmed(c) \/ Page!ReplySpeculative(c)
      PROVE  Client!Next
  <2>1. UNCHANGED outbox
    BY <1>6 DEF Page!ReplyFailed, Page!ReplyConfirmed, Page!ReplySpeculative
  <2>2. UNCHANGED Outstanding
    BY <1>1, <2>1, SignalsStay
  <2>3. Client!ReplyFailed(c) \/ Client!ReplyConfirmed(c) \/ Client!ReplySpeculative(c)
    BY <1>6, <2>2
       DEF Page!ReplyFailed, Page!ReplyConfirmed, Page!ReplySpeculative, Page!Handle, Page!Show,
           Page!startTimeout, Client!ReplyFailed, Client!ReplyConfirmed, Client!ReplySpeculative,
           Client!Handle, Client!Show, Client!startTimeout, Page!resolver, Client!resolver
  <2> QED
    BY <2>3 DEF Client!Next, Client!Call, Call
<1>7. ASSUME NEW c \in Call, Page!MaxWindow(c)
      PROVE  Client!Next
  <2>1. UNCHANGED outbox => UNCHANGED Outstanding
    BY <1>1, SignalsStay
  <2>2. Page!Abandon(c) => Client!Abandon(c)
    BY <1>4, <2>1 DEF Page!Abandon, Client!Abandon, Page!requests, Client!requests
  <2>3. Client!MaxWindow(c)
    BY <1>7, <2>2, SameClient DEF Page!MaxWindow, Client!MaxWindow, Page!None, Client!None
  <2> QED
    BY <2>3 DEF Client!Next, Client!Call, Call
<1> QED
  BY <1>3, <1>5, <1>6, <1>7 DEF ResolverStep

\* At the start nothing is outstanding.
LEMMA InitRefines == Init => Client!Init
<1> SUFFICES ASSUME Init
             PROVE  Client!Init
  OBVIOUS
<1>1. SysInv
  BY InitSysInv
<1>2. count = 0 /\ Page!Init /\ outbox = [c \in Call |-> <<>>]
  BY SameHub DEF Init, H!Init, Page!Init, Page!Call, Call
<1>3. ASSUME NEW c \in Call
      PROVE  Outstanding[c] = <<>>
  <2>1. Outstanding[c] = Owed(0, Of(c), log, <<>>)
    BY <1>2, OutstandingIs
  <2> DEFINE kept == H!Kept(Numbers(0), Of(c))
  <2>2. kept \in Seq(Nat) /\ \A i \in 1 .. Len(kept) : kept[i] \in 1 .. 0
    BY KeptNumbers
  <2> HIDE DEF kept
  <2>3. kept = <<>>
    BY <2>2
  <2>4. NamesIn(log, kept) = <<>>
    BY <2>3 DEF NamesIn
  <2>5. Owed(0, Of(c), log, <<>>) = <<>> \o <<>>
    BY <2>4 DEF Owed, kept
  <2> QED
    BY <2>1, <2>5
<1>4. Outstanding = [c \in Call |-> <<>>]
  BY <1>3, OutstandingIs
<1> QED
  BY <1>2, <1>4
     DEF Page!Init, Client!Init, Page!Reply, Client!Reply, Page!None, Client!None,
         Client!Call, Page!Call, Call

\* A step of the system is one of the resolver over its channel, or none.
LEMMA NextRefines == SysInv /\ [Next]_vars => [Client!Next]_Client!vars
<1> SUFFICES ASSUME SysInv, [Next]_vars
             PROVE  Client!Next \/ UNCHANGED Client!vars
  OBVIOUS
<1>1. ASSUME Dispatch
      PROVE  Client!Next
  BY <1>1, DispatchRefines DEF Client!Next, Client!Call, Call
<1>2. ASSUME NEW c \in Call, FillWindow(c)
      PROVE  Client!Next
  BY <1>2, FillWindowRefines DEF Client!Next, Client!Call, Call
<1>3. ASSUME UNCHANGED vars
      PROVE  UNCHANGED Client!vars
  BY <1>3, SignalsStay, ClientStutters DEF vars
<1>4. ASSUME NEW c \in Call, PublishNext(c)
      PROVE  Client!Next \/ UNCHANGED Client!vars
  BY <1>4, PublishRefines
<1>5. ASSUME NEW s \in Stream, ServeSignals(s) \/ OpenStream(s) \/ Drop(s)
      PROVE  Client!Next \/ UNCHANGED Client!vars
  BY <1>5, ServeRefines, StreamRefines
<1>6. ASSUME NEW m \in 1 .. count, Expire(m)
      PROVE  Client!Next
  BY <1>6, ExpireRefines
<1> QED
  BY <1>1, <1>2, <1>3, <1>4, <1>5, <1>6, ConnectionRefines, ResolverRefines DEF Next

\* The invariant holds throughout.
LEMMA SysInvariant == Spec => []SysInv
BY InitSysInv, NextSysInv, PTL DEF Spec

\* With the hub and the network as its channel a page behaves as Resolver says it does
\* over any channel that loses, delays and reorders: whatever the hub's capacity, however
\* many streams the page opens and whether or not its requests overlap.
THEOREM PageImplementsResolver == Spec => ImplementsResolver
BY InitRefines, NextRefines, SysInvariant, PTL DEF Spec, ImplementsResolver

-----------------------------------------------------------------------------
(***************************************************************************)
(* What is proved of the resolver over any channel holds of the page.      *)
(***************************************************************************)

\* The instances of Resolver are the same.
LEMMA SameResolver == (Client!Init <=> C!Init) /\ Client!vars = C!vars /\ (Client!Next <=> C!Next)
<1>1. Client!Init <=> C!Init
  BY DEF Client!Init, C!Init, Client!Reply, C!Reply, Client!None, C!None, Client!Call, C!Call
<1>2. Client!vars = C!vars
  BY DEF Client!vars, C!vars, Client!resolver, C!resolver, Client!requests, C!requests
<1>3. Client!Next <=> C!Next
  BY DEF
   Client!Next, C!Next, Client!fetch, C!fetch, Client!mutate, C!mutate, Client!refetch,
   C!refetch, Client!ReplyFailed, C!ReplyFailed, Client!ReplyConfirmed,
   C!ReplyConfirmed, Client!ReplySpeculative, C!ReplySpeculative, Client!Deliver,
   C!Deliver, Client!Discard, C!Discard, Client!Lose, C!Lose, Client!ConnectionLost,
   C!ConnectionLost, Client!MaxWindow, C!MaxWindow, Client!FillWindow, C!FillWindow,
   Client!Request, C!Request, Client!FetchReply, C!FetchReply, Client!MutateReply,
   C!MutateReply, Client!PlainReply, C!PlainReply, Client!Reply, C!Reply,
   Client!Closing, C!Closing, Client!MayCall, C!MayCall, Client!Send, C!Send,
   Client!SendFetch, C!SendFetch, Client!Handle, C!Handle, Client!Show, C!Show,
   Client!startTimeout, C!startTimeout, Client!handleSignal, C!handleSignal,
   Client!Patch, C!Patch, Client!HoldFill, C!HoldFill, Client!Fill, C!Fill,
   Client!Close, C!Close, Client!AbortSignal, C!AbortSignal, Client!Emitted, C!Emitted,
   Client!Emit, C!Emit, Client!finalize, C!finalize, Client!cleanup, C!cleanup,
   Client!Take, C!Take, Client!RemoveAt, C!RemoveAt, Client!Abandon, C!Abandon,
   Client!EmitHeldFill, C!EmitHeldFill, Client!None, C!None, Client!Call, C!Call,
   Client!resolver, C!resolver, Client!requests, C!requests, Client!vars, C!vars
<1> QED
  BY <1>1, <1>2, <1>3

\* The invariants of the resolver, with what is outstanding for its channel.
PageInv == C!TypeOK /\ C!FreshCalls /\ C!IInv /\ C!Complete

\* They hold at the start.
LEMMA InitPageInv == Init => PageInv
<1> SUFFICES ASSUME Init
             PROVE  PageInv
  OBVIOUS
<1>1. C!Init
  BY InitRefines, SameResolver
<1>2. C!TypeOK /\ C!FreshCalls /\ C!IInv
  BY <1>1, Assumed, C!InitTyped, C!InitFresh, C!InitIInv
<1>3. C!Complete
  BY <1>1 DEF C!Init, C!Complete, C!Speculating, C!ConfirmedIsComplete
<1> QED
  BY <1>2, <1>3 DEF PageInv

\* They are preserved as long as requests do not overlap.
LEMMA NextPageInv == ~Overlap /\ SysInv /\ PageInv /\ [Next]_vars => PageInv'
<1> SUFFICES ASSUME ~Overlap, SysInv, PageInv, [Next]_vars
             PROVE  PageInv'
  OBVIOUS
<1>1. [C!Next]_C!vars
  <2>1. Client!Next \/ UNCHANGED Client!vars
    BY NextRefines
  <2>2. UNCHANGED Client!vars => UNCHANGED C!vars
    BY DEF Client!vars, C!vars, Client!resolver, C!resolver, Client!requests, C!requests
  <2> QED
    BY <2>1, <2>2, SameResolver
<1>2. C!TypeOK' /\ C!FreshCalls'
  BY <1>1, Assumed, C!NextTyped, C!NextFresh DEF PageInv
<1>3. C!IInv'
  BY <1>1, Assumed, C!NextIInv DEF PageInv
<1>4. C!Complete'
  BY <1>1, Assumed, C!NextComplete DEF PageInv
<1> QED
  BY <1>2, <1>3, <1>4 DEF PageInv

\* They hold throughout.
LEMMA PageInvariant == ASSUME ~Overlap PROVE Spec => []PageInv
<1>1. SysInv /\ PageInv /\ [Next]_vars => PageInv'
  BY NextPageInv
<1> QED
  BY <1>1, InitPageInv, SysInvariant, PTL DEF Spec

\* A page whose requests do not overlap confirms nothing of which it has not emitted all
\* that the proxy's tracks published, in their order, unless the hub or the network lost
\* a signal or disordered them too much.
THEOREM PageConfirmsAll == ASSUME ~Overlap PROVE Spec => []Client!ConfirmedIsComplete
<1>1. PageInv => Client!ConfirmedIsComplete
  BY DEF PageInv, C!Complete, C!ConfirmedIsComplete, Client!ConfirmedIsComplete
<1> QED
  BY <1>1, PageInvariant, PTL

-----------------------------------------------------------------------------
(***************************************************************************)
(* A FILL that is held back.                                               *)
(***************************************************************************)

\* On the first stream nothing that was published before a message is under way when
\* that message is dispatched.
LEMMA OldestFirst ==
  ASSUME SysInv, H!OneStream, dispatched < Len(received), NEW y \in 1 .. count, UnderWay(y)
  PROVE  received[dispatched + 1] <= y
<1>1. PICK m : m = received[dispatched + 1]
  OBVIOUS
<1>2. /\ received \in Seq(Nat) /\ dispatched \in 0 .. Len(received) /\ Len(received) \in Nat
      /\ dispatched + 1 \in 1 .. Len(received) /\ dispatched \in Nat /\ m \in Nat /\ y \in Nat
  <2>1. /\ received \in Seq(Nat) /\ dispatched \in 0 .. Len(received) /\ Len(received) \in Nat
        /\ count \in Nat
    BY SysTypes
  <2>2. dispatched + 1 \in 1 .. Len(received) /\ dispatched \in Nat /\ y \in Nat
    BY <2>1
  <2> QED
    BY <1>1, <2>1, <2>2
<1>3. H!Sorted(H!Queues) /\ H!Placed(H!Queues, H!Messages)
  BY DEF SysInv, H!HubInv
<1>4. /\ H!AtClient \in H!Place /\ H!Queues[H!AtClient] = received
      /\ \A p \in H!Place : p # H!AtClient => H!Rank(H!AtClient) < H!Rank(p)
  <2>1. H!Rank(H!AtClient) = 1 /\ H!Rank(H!InChannel) = 3 /\ H!Rank(H!InBuffer) = 4
        /\ \A s \in Stream : H!Rank(H!InReplay(s)) = 2
    BY Assumed, H!RanksAre
  <2>2. \A p \in H!Place :
          \/ p = H!InChannel \/ p = H!InBuffer \/ p = H!AtClient
          \/ \E s \in Stream : p = H!InReplay(s)
    BY Assumed, H!PlacesAre
  <2>3. H!AtClient \in H!Place /\ H!Queues[H!AtClient] = received
    BY Assumed, H!PlacesAre, H!QueuesAre
  <2> QED
    BY <2>1, <2>2, <2>3
<1>5. y \notin gone /\ y \notin Dispatched
  BY UnderWayIs DEF Lost
<1>6. PICK p \in H!Place, j \in Nat : H!At(H!Queues, p, j, y)
  BY <1>3, <1>5 DEF H!Placed, H!Covers, H!Messages
<1>7. H!At(H!Queues, H!AtClient, dispatched + 1, m)
  BY <1>1, <1>2, <1>4 DEF H!At
<1>8. CASE p # H!AtClient
  <2>1. H!Before(H!AtClient, dispatched + 1, p, j)
    BY <1>4, <1>6, <1>8 DEF H!Before
  <2>2. m < y
    BY <1>2, <1>3, <1>4, <1>6, <1>7, <2>1 DEF H!Sorted
  <2> QED
    BY <1>1, <1>2, <2>2
<1>9. CASE p = H!AtClient
  <2>1. j \in 1 .. Len(received) /\ received[j] = y
    BY <1>4, <1>6, <1>9 DEF H!At
  <2>2. ~ (j \in 1 .. dispatched)
    <3>1. \A x : x \in ToSet(SubSeq(received, 1, dispatched))
                   <=> \E i \in 1 .. dispatched : received[i] = x
      BY <1>2, DispatchedAre
    <3> QED
      BY <1>5, <2>1, <3>1 DEF Dispatched
  <2>3. CASE j = dispatched + 1
    BY <1>1, <1>2, <2>1, <2>3
  <2>4. CASE j > dispatched + 1
    <3>1. H!Before(H!AtClient, dispatched + 1, p, j)
      BY <1>9, <2>4 DEF H!Before
    <3>2. m < y
      BY <1>2, <1>3, <1>4, <1>6, <1>7, <3>1 DEF H!Sorted
    <3> QED
      BY <1>1, <1>2, <3>2
  <2> QED
    BY <1>2, <2>1, <2>2, <2>3, <2>4
<1> QED
  BY <1>8, <1>9

\* HeldBackOnlyIfDisturbed, in the hub's terms.
Holds ==
  pendingFill # Page!None /\ reply[pendingFill].signals = C!PatchFill /\ H!OneStream
    => pendingFill \in disturbed

\* A FILL that is dispatched is the second of two signals only if the first was lost or
\* came too early.
LEMMA HoldFillHolds ==
  ASSUME SysInv, PageInv, H!OneStream, Dispatch,
         NEW c \in Call, c = log[received[dispatched + 1]].call, c \in handlers,
         log[received[dispatched + 1]].name = "FILL", status = "speculative",
         reply[c].signals = C!PatchFill
  PROVE  c \in disturbed
<1> SUFFICES ASSUME c \notin disturbed
             PROVE  FALSE
  OBVIOUS
<1>1. PICK m : m = received[dispatched + 1]
  OBVIOUS
<1>2. PICK i \in DOMAIN Outstanding[c] :
        /\ Outstanding[c][i] = "FILL"
        /\ (\A y \in Of(c) : m <= y) => i = 1
  BY <1>1, DispatchRefines
<1>3. i = 1
  <2>1. \A y \in Of(c) : m <= y
    BY <1>1, OldestFirst DEF Of, Dispatch
  <2> QED
    BY <1>2, <2>1
<1>4. view.of = c /\ C!Speculating
  BY DEF PageInv, C!IInv, C!NothingLeftBehind, C!HandlesOfView, C!Speculating
<1>5. C!Progress
  <2>1. C!Speculating /\ view.of \notin disturbed => C!Progress
    BY Zenon DEF PageInv, C!Complete
  <2> QED
    BY <1>4, <2>1
<1>6. Outstanding[c] = C!PatchFill \/ Outstanding[c] = <<"PATCH">>
  <2>1. C!PatchFill # <<"FILL">>
    BY DEF C!PatchFill
  <2> QED
    BY <1>4, <1>5, <2>1 DEF C!Progress
<1>7. Outstanding[c][1] = "PATCH"
  BY <1>6 DEF C!PatchFill
<1> QED
  BY <1>2, <1>3, <1>7

\* A step that neither holds a FILL back nor lets one go.
LEMMA HoldsOn ==
  ASSUME Holds, H!OneStream' => H!OneStream,
         \/ pendingFill' = Page!None
         \/ UNCHANGED <<pendingFill, reply>> /\ disturbed \subseteq disturbed'
  PROVE  Holds'
<1>1. CASE pendingFill' = Page!None
  BY <1>1 DEF Holds, Page!None
<1>2. CASE UNCHANGED <<pendingFill, reply>> /\ disturbed \subseteq disturbed'
  BY <1>2 DEF Holds, Page!None, C!PatchFill
<1> QED
  BY <1>1, <1>2

\* cleanup forgets a FILL that was held back.
LEMMA Forgets ==
  /\ \A a, b : Page!cleanup(a, b) => pendingFill' = Page!None
  /\ \A a : Page!finalize(a) => pendingFill' = Page!None
BY DEF Page!finalize, Page!cleanup

\* Steps that are not dispatches.
LEMMA OthersHold ==
  ASSUME [Next]_vars, ~ Dispatch
  PROVE  \/ pendingFill' = Page!None
         \/ UNCHANGED <<pendingFill, reply>> /\ disturbed \subseteq disturbed'
<1> DEFINE Good == \/ pendingFill' = Page!None
                   \/ UNCHANGED <<pendingFill, reply>> /\ disturbed \subseteq disturbed'
<1>1. ASSUME NEW c \in Call, PublishNext(c)
      PROVE  Good
  BY <1>1 DEF PublishNext, page, resolver, NoteLosses
<1>2. ASSUME NEW s \in Stream, ServeSignals(s) \/ OpenStream(s) \/ Drop(s)
      PROVE  Good
  BY <1>2 DEF ServeSignals, OpenStream, Drop, page, resolver, NoteLosses
<1>3. ASSUME NEW m \in 1 .. count, Expire(m)
      PROVE  Good
  BY <1>3 DEF Expire, page, resolver, NoteLosses
<1>4. ASSUME ConnectionLost
      PROVE  Good
  BY <1>4, Forgets DEF ConnectionLost, Page!ConnectionLost, page, resolver
<1>5. ASSUME NEW c \in Call, FillWindow(c)
      PROVE  Good
  BY <1>5, Forgets DEF FillWindow, Page!EmitHeldFill
<1>6. ASSUME ResolverStep
      PROVE  Good
  <2>1. CASE Page!fetch \/ Page!mutate \/ Page!refetch
    BY <2>1, Forgets DEF Page!fetch, Page!mutate, Page!refetch, Page!Request
  <2>2. ASSUME NEW c \in Call, Page!MaxWindow(c)
        PROVE  Good
    BY <2>2, Forgets DEF Page!MaxWindow
  <2>3. ASSUME NEW c \in Call,
               Page!ReplyFailed(c) \/ Page!ReplyConfirmed(c) \/ Page!ReplySpeculative(c)
        PROVE  Good
    BY <2>3 DEF Page!ReplyFailed, Page!ReplyConfirmed, Page!ReplySpeculative, Page!resolver
  <2> QED
    BY <1>6, <2>1, <2>2, <2>3 DEF ResolverStep
<1>7. ASSUME UNCHANGED vars
      PROVE  Good
  BY <1>7 DEF vars, page, resolver
<1> QED
  BY <1>1, <1>2, <1>3, <1>4, <1>5, <1>6, <1>7 DEF Next

\* A dispatch.
LEMMA DispatchHolds ==
  ASSUME SysInv, PageInv, Holds, Dispatch, H!OneStream' <=> H!OneStream
  PROVE  Holds'
<1>1. PICK c \in Call, name \in Client!Name : c = log[received[dispatched + 1]].call
                              /\ name = log[received[dispatched + 1]].name
  <2>1. received[dispatched + 1] \in 1 .. count
        /\ log[received[dispatched + 1]].call \in Call
    BY DispatchRefines
  <2>2. log[received[dispatched + 1]].name \in Client!Name
    BY <2>1, SysTypes
  <2> QED
    BY <2>1, <2>2
<1>2. CASE c \notin handlers
  <2>1. UNCHANGED <<pendingFill, reply>> /\ disturbed \subseteq disturbed'
    BY <1>1, <1>2 DEF Dispatch, page, resolver
  <2> QED
    BY <2>1, HoldsOn
<1>3. CASE c \in handlers
  <2>1. Page!handleSignal(c, name)
    BY <1>1, <1>3 DEF Dispatch
  <2>2. UNCHANGED <<reply, disturbed>>
    <3>1. UNCHANGED <<Page!requests, disturbed>>
      BY <2>1, Zenon DEF Page!handleSignal, Page!Patch, Page!HoldFill, Page!Fill, Page!Close,
         Page!AbortSignal
    <3> QED
      BY <3>1 DEF Page!requests
  <2>3. CASE name = "FILL" /\ Page!HoldFill(c)
    <3>1. pendingFill' = c /\ status = "speculative"
      BY <2>3 DEF Page!HoldFill
    <3>2. reply[c].signals = C!PatchFill /\ H!OneStream => c \in disturbed
      BY <1>1, <1>3, <2>3, <3>1, HoldFillHolds
    <3> QED
      BY <2>2, <3>1, <3>2 DEF Holds, C!PatchFill
  <2>4. CASE ~ (name = "FILL" /\ Page!HoldFill(c))
    <3>1. \/ Page!Patch(c) \/ Page!Fill(c) \/ Page!Close(c, name) \/ Page!AbortSignal(name)
      BY <2>1, <2>4, Zenon DEF Page!handleSignal
    <3>2. pendingFill' = Page!None \/ UNCHANGED pendingFill
      <4>1. Page!Patch(c) => pendingFill' = Page!None \/ UNCHANGED pendingFill
        BY Forgets, Zenon DEF Page!Patch
      <4>2. Page!Fill(c) \/ Page!Close(c, name) \/ Page!AbortSignal(name)
              => pendingFill' = Page!None
        BY Forgets, Zenon DEF Page!Fill, Page!Close, Page!AbortSignal
      <4> QED
        BY <3>1, <4>1, <4>2
    <3> QED
      BY <2>2, <3>2, HoldsOn
  <2> QED
    BY <2>3, <2>4
<1> QED
  BY <1>2, <1>3

\* Every step keeps what is held back accounted for.
LEMMA NextHolds == SysInv /\ PageInv /\ Holds /\ [Next]_vars => Holds'
<1> SUFFICES ASSUME SysInv, PageInv, Holds, [Next]_vars
             PROVE  Holds'
  OBVIOUS
<1>1. H!OneStream' => H!OneStream
  <2>1. H!TypeOK
    BY DEF SysInv, H!HubInv
  <2> QED
    BY <2>1, HubStep, Assumed, H!OneStreamBefore
<1>2. CASE Dispatch
  <2>1. UNCHANGED pc
    BY <1>2 DEF Dispatch, hub
  <2>2. H!OneStream' <=> H!OneStream
    BY <2>1 DEF H!OneStream
  <2> QED
    BY <1>2, <2>2, DispatchHolds
<1>3. CASE ~ Dispatch
  BY <1>1, <1>3, OthersHold, HoldsOn
<1> QED
  BY <1>2, <1>3

\* On its first stream a page whose requests do not overlap holds a FILL back for a PATCH
\* only if that was lost or came before the reply: the hub and the stream keep the order
\* in which the track published them.
THEOREM HeldBackForAReason == ASSUME ~Overlap PROVE Spec => []HeldBackOnlyIfDisturbed
<1>1. Init => Holds
  BY DEF Init, Page!Init, Holds
<1>2. Holds => HeldBackOnlyIfDisturbed
  BY DEF Holds, HeldBackOnlyIfDisturbed, H!OneStream, C!PatchFill
<1> QED
  BY <1>1, <1>2, NextHolds, PageInvariant, SysInvariant, PTL DEF Spec
=============================================================================
