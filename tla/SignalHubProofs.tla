--------------------------- MODULE SignalHubProofs ---------------------------
(***************************************************************************)
(* Theorems about SignalHub for any number of streams and signals and any  *)
(* capacity of the channel, whatever the streams do: what the variables    *)
(* hold, that every signal is in exactly one place, when the hub buffers,  *)
(* and in which order the first stream of a client delivers.               *)
(*                                                                         *)
(* Kept is recursive.  What holds of it is proved by induction with a set  *)
(* in place of a predicate, from the fact that the numbers are well-       *)
(* founded.                                                                *)
(***************************************************************************)
EXTENDS SignalHub, WellFoundedInduction, TLAPS

-----------------------------------------------------------------------------
(***************************************************************************)
(* Induction.                                                              *)
(***************************************************************************)

\* A set with 0 and with the successor of each of its numbers has all numbers.
LEMMA SetInduction ==
  ASSUME NEW S, 0 \in S, \A n \in Nat : n \in S => n + 1 \in S
  PROVE  Nat \subseteq S
<1> DEFINE R == OpToRel(<, Nat)
           T == Nat \ S
<1>1. \A i, j \in Nat : <<i, j>> \in R <=> i < j
  BY DEF OpToRel
<1>2. IsWellFoundedOn(R, Nat)
  BY NatLessThanWellFounded
<1> HIDE DEF R
<1> SUFFICES ASSUME T # {}
             PROVE  FALSE
  OBVIOUS
<1>3. PICK x \in T : \A y \in T : ~ (<<y, x>> \in R)
  <2>1. T \subseteq Nat /\ T # {}
    OBVIOUS
  <2> HIDE DEF T
  <2> QED
    BY <2>1, <1>2, WFMin
<1>4. x \in Nat /\ x # 0
  OBVIOUS
<1>5. x - 1 \in Nat /\ x - 1 < x /\ (x - 1) + 1 = x
  BY <1>4
<1>6. x - 1 \notin T
  BY <1>1, <1>3, <1>4, <1>5
<1> QED
  BY <1>4, <1>5, <1>6

\* A set with the empty sequence and with all that is appended to one of its
\* sequences has all sequences.
LEMMA SequenceInduction ==
  ASSUME NEW T, NEW P, <<>> \in P,
         \A seq \in Seq(T) : seq \in P => \A e \in T : Append(seq, e) \in P
  PROVE  Seq(T) \subseteq P
<1> DEFINE N == {n \in Nat : \A seq \in Seq(T) : Len(seq) = n => seq \in P}
<1>1. 0 \in N
  <2>1. \A seq \in Seq(T) : Len(seq) = 0 => seq = <<>>
    OBVIOUS
  <2> QED
    BY <2>1
<1>2. ASSUME NEW n \in Nat, n \in N
      PROVE  n + 1 \in N
  <2> SUFFICES ASSUME NEW seq \in Seq(T), Len(seq) = n + 1
               PROVE  seq \in P
    OBVIOUS
  <2> DEFINE front == SubSeq(seq, 1, n)
  <2>1. front \in Seq(T) /\ Len(front) = n /\ seq[n + 1] \in T
    OBVIOUS
  <2>2. seq = Append(front, seq[n + 1])
    OBVIOUS
  <2> HIDE DEF front
  <2> QED
    BY <1>2, <2>1, <2>2
<1>3. Nat \subseteq N
  <2> HIDE DEF N
  <2> QED
    BY <1>1, <1>2, SetInduction
<1> QED
  BY <1>3

-----------------------------------------------------------------------------
(***************************************************************************)
(* What Kept returns.                                                      *)
(***************************************************************************)

\* kept has what the loop of Kept has copied after each of the first n elements.
Step(kept, seq, S, i) ==
  IF i = 0 THEN <<>>
  ELSE IF seq[i] \in S THEN Append(kept[i - 1], seq[i])
  ELSE kept[i - 1]

Loop(kept, seq, S, n) == kept = [i \in 0 .. n |-> Step(kept, seq, S, i)]

\* The definition of one round of the loop.
LEMMA LoopStep ==
  ASSUME NEW kept, NEW seq, NEW S, NEW n \in Nat, Loop(kept, seq, S, n)
  PROVE  /\ kept[0] = <<>>
         /\ \A i \in Nat : i + 1 <= n =>
              kept[i + 1] = IF seq[i + 1] \in S THEN Append(kept[i], seq[i + 1])
                                                ELSE kept[i]
<1>1. \A j \in 0 .. n : kept[j] = Step(kept, seq, S, j)
  BY Zenon DEF Loop
<1>2. 0 \in 0 .. n
  OBVIOUS
<1>3. ASSUME NEW i \in Nat, i + 1 <= n
      PROVE  i + 1 \in 0 .. n /\ i + 1 # 0 /\ (i + 1) - 1 = i
  BY <1>3
<1> QED
  BY <1>1, <1>2, <1>3 DEF Step

\* The loop can be run for any number of rounds.
LEMMA LoopRuns ==
  ASSUME NEW seq, NEW S
  PROVE  \A n \in Nat : \E kept : Loop(kept, seq, S, n)
<1> DEFINE T == {n \in Nat : \E kept : Loop(kept, seq, S, n)}
<1>1. 0 \in T
  <2>1. Loop([i \in 0 .. 0 |-> <<>>], seq, S, 0)
    BY DEF Loop, Step
  <2> QED
    BY <2>1
<1>2. ASSUME NEW n \in Nat, n \in T
      PROVE  n + 1 \in T
  <2>1. PICK kept : Loop(kept, seq, S, n)
    BY <1>2
  <2> DEFINE last == IF seq[n + 1] \in S THEN Append(kept[n], seq[n + 1]) ELSE kept[n]
             more == [i \in 0 .. n + 1 |-> IF i = n + 1 THEN last ELSE kept[i]]
  <2>2. ASSUME NEW i \in 0 .. n + 1
        PROVE  more[i] = Step(more, seq, S, i)
    <3>1. CASE i = n + 1
      <4>1. i # 0 /\ i - 1 = n /\ n \in 0 .. n + 1 /\ n # n + 1
        BY <3>1
      <4>2. more[i - 1] = kept[n] /\ more[i] = last
        BY <4>1, <3>1
      <4> HIDE DEF more
      <4> QED
        BY <4>1, <4>2, <3>1 DEF Step
    <3>2. CASE i \in 0 .. n
      <4>1. kept[i] = Step(kept, seq, S, i)
        BY <2>1, <3>2, Zenon DEF Loop
      <4>2. more[i] = kept[i] /\ (i # 0 => more[i - 1] = kept[i - 1])
        BY <3>2
      <4> HIDE DEF more
      <4> QED
        BY <4>1, <4>2 DEF Step
    <3> QED
      BY <3>1, <3>2
  <2>3. more = [i \in 0 .. n + 1 |-> more[i]]
    OBVIOUS
  <2> HIDE DEF more
  <2>4. Loop(more, seq, S, n + 1)
    BY <2>2, <2>3, Zenon DEF Loop
  <2> QED
    BY <2>4
<1>3. Nat \subseteq T
  <2> HIDE DEF T
  <2> QED
    BY <1>1, <1>2, SetInduction
<1> QED
  BY <1>3

\* Kept is what its loop ends with.
LEMMA KeptIsLoop ==
  ASSUME NEW T, NEW seq \in Seq(T), NEW S
  PROVE  \E kept : Loop(kept, seq, S, Len(seq)) /\ Kept(seq, S) = kept[Len(seq)]
<1> DEFINE k == CHOOSE kept : Loop(kept, seq, S, Len(seq))
<1>1. Loop(k, seq, S, Len(seq))
  BY LoopRuns
<1>2. Kept(seq, S) = k[Len(seq)]
  BY Zenon DEF Kept, Loop, Step
<1> QED
  BY <1>1, <1>2

\* Rounds depend on the elements they have seen only.
LEMMA LoopPrefix ==
  ASSUME NEW seq, NEW seq2, NEW S, NEW m \in Nat, NEW n \in Nat, m <= n, NEW k, NEW k2,
         Loop(k, seq, S, m), Loop(k2, seq2, S, n),
         \A i \in 1 .. m : seq[i] = seq2[i]
  PROVE  k[m] = k2[m]
<1> DEFINE T == {i \in Nat : i <= m => k[i] = k2[i]}
<1>1. 0 \in T
  BY LoopStep
<1>2. ASSUME NEW i \in Nat, i \in T
      PROVE  i + 1 \in T
  <2>1. SUFFICES ASSUME i + 1 <= m
                 PROVE  k[i + 1] = k2[i + 1]
    OBVIOUS
  <2>2. k[i] = k2[i] /\ seq[i + 1] = seq2[i + 1] /\ i + 1 <= n
    BY <1>2, <2>1
  <2>3. k[i + 1] = IF seq[i + 1] \in S THEN Append(k[i], seq[i + 1]) ELSE k[i]
    BY <2>1, LoopStep
  <2>4. k2[i + 1] = IF seq2[i + 1] \in S THEN Append(k2[i], seq2[i + 1]) ELSE k2[i]
    BY <2>2, LoopStep
  <2> QED
    BY <2>2, <2>3, <2>4
<1>3. Nat \subseteq T
  <2> HIDE DEF T
  <2> QED
    BY <1>1, <1>2, SetInduction
<1> QED
  BY <1>3

\* The two equations Kept is characterised by.
LEMMA KeptEmpty == \A S : Kept(<<>>, S) = <<>>
<1> SUFFICES ASSUME NEW S
             PROVE  Kept(<<>>, S) = <<>>
  OBVIOUS
<1>1. <<>> \in Seq({}) /\ Len(<<>>) = 0
  OBVIOUS
<1>2. PICK kept : Loop(kept, <<>>, S, 0) /\ Kept(<<>>, S) = kept[0]
  BY <1>1, KeptIsLoop
<1> QED
  BY <1>2, LoopStep

\* The other equation: an element more.
LEMMA KeptAppend ==
  ASSUME NEW T, NEW seq \in Seq(T), NEW e \in T, NEW S
  PROVE  Kept(Append(seq, e), S) =
           IF e \in S THEN Append(Kept(seq, S), e) ELSE Kept(seq, S)
<1> DEFINE more == Append(seq, e)
           n == Len(seq)
<1>1. /\ more \in Seq(T) /\ n \in Nat /\ Len(more) = n + 1 /\ more[n + 1] = e
      /\ \A i \in 1 .. n : seq[i] = more[i]
  OBVIOUS
<1>2. PICK k : Loop(k, seq, S, n) /\ Kept(seq, S) = k[n]
  BY KeptIsLoop
<1> HIDE DEF more
<1>3. PICK k2 : Loop(k2, more, S, n + 1) /\ Kept(more, S) = k2[n + 1]
  BY <1>1, KeptIsLoop
<1> HIDE DEF n
<1>4. n <= n + 1 /\ n + 1 \in Nat
  BY <1>1
<1>5. k[n] = k2[n]
  BY <1>1, <1>2, <1>3, <1>4, LoopPrefix
<1>6. k2[n + 1] = IF e \in S THEN Append(k2[n], e) ELSE k2[n]
  BY <1>1, <1>3, <1>4, LoopStep
<1> QED
  BY <1>2, <1>3, <1>5, <1>6 DEF more

\* Kept selects the elements of S, in order and each once: where[j] is the place
\* in seq the j-th of them comes from.
Selects(where, kept, seq, S) ==
  /\ where \in [1 .. Len(kept) -> 1 .. Len(seq)]
  /\ \A j \in 1 .. Len(kept) : kept[j] = seq[where[j]] /\ kept[j] \in S
  /\ \A j, k \in 1 .. Len(kept) : j < k => where[j] < where[k]
  /\ \A i \in 1 .. Len(seq) : seq[i] \in S => \E j \in 1 .. Len(kept) : where[j] = i

\* One more element that is in S.
LEMMA SelectsMore ==
  ASSUME NEW T, NEW kept \in Seq(T), NEW seq \in Seq(T), NEW S, NEW e \in T, e \in S,
         NEW where, Selects(where, kept, seq, S)
  PROVE  \E more : Selects(more, Append(kept, e), Append(seq, e), S)
<1> DEFINE n == Len(kept)
           m == Len(seq)
           more == [j \in 1 .. n + 1 |-> IF j = n + 1 THEN m + 1 ELSE where[j]]
           kept2 == Append(kept, e)
           seq2 == Append(seq, e)
<1>1. /\ n \in Nat /\ m \in Nat /\ Len(kept2) = n + 1 /\ Len(seq2) = m + 1
      /\ kept2[n + 1] = e /\ seq2[m + 1] = e
      /\ \A j \in 1 .. n : kept2[j] = kept[j]
      /\ \A i \in 1 .. m : seq2[i] = seq[i]
  OBVIOUS
<1>2. /\ where \in [1 .. n -> 1 .. m]
      /\ \A j \in 1 .. n : kept[j] = seq[where[j]] /\ kept[j] \in S
      /\ \A j, k \in 1 .. n : j < k => where[j] < where[k]
      /\ \A i \in 1 .. m : seq[i] \in S => \E j \in 1 .. n : where[j] = i
  BY DEF Selects
<1> HIDE DEF kept2, seq2, n, m
<1>3. /\ more \in [1 .. n + 1 -> 1 .. m + 1]
      /\ more[n + 1] = m + 1
      /\ \A j \in 1 .. n : more[j] = where[j] /\ more[j] \in 1 .. m
  BY <1>1, <1>2
<1> HIDE DEF more
<1>4. \A j \in 1 .. n + 1 : j \in 1 .. n \/ j = n + 1
  BY <1>1
<1>5. \A j \in 1 .. n + 1 : kept2[j] = seq2[more[j]] /\ kept2[j] \in S
  <2>1. ASSUME NEW j \in 1 .. n
        PROVE  kept2[j] = seq2[more[j]] /\ kept2[j] \in S
    <3>1. kept2[j] = kept[j] /\ more[j] = where[j] /\ where[j] \in 1 .. m
      BY <1>1, <1>2, <1>3
    <3> QED
      BY <1>1, <1>2, <3>1
  <2> QED
    BY <1>1, <1>3, <1>4, <2>1
<1>6. ASSUME NEW j \in 1 .. n + 1, NEW k \in 1 .. n + 1, j < k
      PROVE  more[j] < more[k]
  <2>1. j \in 1 .. n
    BY <1>1, <1>6
  <2>2. CASE k \in 1 .. n
    BY <1>2, <1>3, <1>6, <2>1, <2>2
  <2>3. CASE k = n + 1
    <3>1. more[j] \in 1 .. m /\ more[k] = m + 1
      BY <1>3, <2>1, <2>3
    <3> QED
      BY <1>1, <3>1
  <2> QED
    BY <1>4, <2>2, <2>3
<1>7. ASSUME NEW i \in 1 .. m + 1, seq2[i] \in S
      PROVE  \E j \in 1 .. n + 1 : more[j] = i
  <2>1. CASE i = m + 1
    BY <1>1, <1>3, <2>1
  <2>2. CASE i \in 1 .. m
    <3>1. PICK j \in 1 .. n : where[j] = i
      BY <1>1, <1>2, <1>7, <2>2
    <3>2. more[j] = i /\ j \in 1 .. n + 1
      BY <1>1, <1>3, <3>1
    <3> QED
      BY <3>2
  <2> QED
    BY <1>1, <2>1, <2>2
<1>8. Selects(more, kept2, seq2, S)
  BY <1>1, <1>3, <1>5, <1>6, <1>7 DEF Selects
<1> QED
  BY <1>8 DEF kept2, seq2

\* One more element that is not in S.
LEMMA SelectsSame ==
  ASSUME NEW T, NEW kept \in Seq(T), NEW seq \in Seq(T), NEW S, NEW e \in T, e \notin S,
         NEW where, Selects(where, kept, seq, S)
  PROVE  Selects(where, kept, Append(seq, e), S)
<1> DEFINE seq2 == Append(seq, e)
<1>1. /\ Len(seq) \in Nat /\ Len(seq2) = Len(seq) + 1 /\ seq2[Len(seq) + 1] = e
      /\ \A i \in 1 .. Len(seq) : seq2[i] = seq[i]
  OBVIOUS
<1>2. \A i \in 1 .. Len(seq2) : i \in 1 .. Len(seq) \/ i = Len(seq) + 1
  BY <1>1
<1>3. 1 .. Len(seq) \subseteq 1 .. Len(seq2)
  BY <1>1
<1> HIDE DEF seq2
<1>4. /\ where \in [1 .. Len(kept) -> 1 .. Len(seq2)]
      /\ \A j \in 1 .. Len(kept) : where[j] \in 1 .. Len(seq)
  BY <1>3 DEF Selects
<1>5. \A j \in 1 .. Len(kept) : kept[j] = seq2[where[j]] /\ kept[j] \in S
  BY <1>1, <1>4 DEF Selects
<1>6. \A i \in 1 .. Len(seq2) : seq2[i] \in S => \E j \in 1 .. Len(kept) : where[j] = i
  BY <1>1, <1>2 DEF Selects
<1> QED
  BY <1>4, <1>5, <1>6 DEF Selects, seq2

\* Kept copies elements of the sequence, and copies them as Selects says.
LEMMA KeptSelects ==
  ASSUME NEW T, NEW seq \in Seq(T), NEW S
  PROVE  /\ Kept(seq, S) \in Seq(T)
         /\ \E where : Selects(where, Kept(seq, S), seq, S)
<1> DEFINE Good(s) == /\ Kept(s, S) \in Seq(T)
                      /\ \E where : Selects(where, Kept(s, S), s, S)
           P == {s \in Seq(T) : Good(s)}
<1>1. <<>> \in P
  <2>1. Kept(<<>>, S) = <<>> /\ <<>> \in Seq(T)
    BY KeptEmpty
  <2>2. Selects([j \in 1 .. 0 |-> 0], <<>>, <<>>, S)
    BY DEF Selects
  <2> QED
    BY <2>1, <2>2
<1>2. ASSUME NEW s \in Seq(T), s \in P, NEW e \in T
      PROVE  Append(s, e) \in P
  <2> DEFINE more == Append(s, e)
             kept == Kept(s, S)
  <2>1. more \in Seq(T) /\ kept \in Seq(T)
    BY <1>2
  <2>2. PICK where : Selects(where, kept, s, S)
    BY <1>2
  <2>3. Kept(more, S) = IF e \in S THEN Append(kept, e) ELSE kept
    BY KeptAppend
  <2> HIDE DEF kept
  <2>4. CASE e \in S
    <3>1. \E w : Selects(w, Append(kept, e), more, S)
      BY <2>1, <2>2, <2>4, SelectsMore
    <3>2. Append(kept, e) \in Seq(T)
      BY <2>1
    <3> HIDE DEF more
    <3> QED
      BY <2>1, <2>3, <2>4, <3>1, <3>2 DEF more
  <2>5. CASE e \notin S
    <3>1. Selects(where, kept, more, S)
      BY <2>1, <2>2, <2>5, SelectsSame
    <3> HIDE DEF more
    <3> QED
      BY <2>1, <2>3, <2>5, <3>1 DEF more
  <2> QED
    BY <2>4, <2>5
<1>3. Seq(T) \subseteq P
  <2> HIDE DEF P
  <2> QED
    BY <1>1, <1>2, SequenceInduction
<1> QED
  BY <1>3

\* Only which elements of the sequence are in S matters.
LEMMA KeptSame ==
  ASSUME NEW T, NEW S, NEW S2
  PROVE  \A seq \in Seq(T) :
           (\A i \in 1 .. Len(seq) : seq[i] \in S <=> seq[i] \in S2)
             => Kept(seq, S) = Kept(seq, S2)
<1> DEFINE Alike(s) == \A i \in 1 .. Len(s) : s[i] \in S <=> s[i] \in S2
           P == {s \in Seq(T) : Alike(s) => Kept(s, S) = Kept(s, S2)}
<1>1. <<>> \in P
  BY KeptEmpty
<1>2. ASSUME NEW s \in Seq(T), s \in P, NEW e \in T
      PROVE  Append(s, e) \in P
  <2> DEFINE more == Append(s, e)
  <2>1. /\ more \in Seq(T) /\ Len(s) \in Nat /\ Len(more) = Len(s) + 1
        /\ more[Len(s) + 1] = e /\ \A i \in 1 .. Len(s) : more[i] = s[i]
    OBVIOUS
  <2> HIDE DEF more
  <2> SUFFICES ASSUME Alike(more)
               PROVE  Kept(more, S) = Kept(more, S2)
    BY <2>1 DEF more
  <2>2. Alike(s) /\ (e \in S <=> e \in S2)
    BY <2>1
  <2>3. Kept(s, S) = Kept(s, S2)
    BY <1>2, <2>2
  <2>4. Kept(more, S) = IF e \in S THEN Append(Kept(s, S), e) ELSE Kept(s, S)
    BY KeptAppend DEF more
  <2>5. Kept(more, S2) = IF e \in S2 THEN Append(Kept(s, S2), e) ELSE Kept(s, S2)
    BY KeptAppend DEF more
  <2> QED
    BY <2>2, <2>3, <2>4, <2>5
<1>3. Seq(T) \subseteq P
  <2> HIDE DEF P
  <2> QED
    BY <1>1, <1>2, SequenceInduction
<1> QED
  BY <1>3

-----------------------------------------------------------------------------
(***************************************************************************)
(* Removing one element.                                                   *)
(***************************************************************************)

\* Two sequences, one after the other.
LEMMA Joined ==
  ASSUME NEW T, NEW a \in Seq(T), NEW b \in Seq(T)
  PROVE  /\ a \o b \in Seq(T) /\ Len(a \o b) = Len(a) + Len(b)
         /\ \A j \in 1 .. Len(a) + Len(b) :
              (a \o b)[j] = IF j <= Len(a) THEN a[j] ELSE b[j - Len(a)]
<1>1. a \o b \in Seq(T) /\ Len(a \o b) = Len(a) + Len(b)
  OBVIOUS
<1>2. \A j \in 1 .. Len(a) + Len(b) :
        (a \o b)[j] = IF j <= Len(a) THEN a[j] ELSE b[j - Len(a)]
  OBVIOUS
<1> QED
  BY <1>1, <1>2

\* RemoveAt by length and elements.
LEMMA RemoveAtElements ==
  ASSUME NEW T, NEW seq \in Seq(T), NEW i \in 1 .. Len(seq)
  PROVE  /\ RemoveAt(seq, i) \in Seq(T)
         /\ Len(RemoveAt(seq, i)) = Len(seq) - 1
         /\ \A j \in 1 .. Len(seq) - 1 :
              RemoveAt(seq, i)[j] = IF j < i THEN seq[j] ELSE seq[j + 1]
<1> DEFINE a == SubSeq(seq, 1, i - 1)
           b == SubSeq(seq, i + 1, Len(seq))
<1>1. /\ a \in Seq(T) /\ Len(a) = i - 1
      /\ \A j \in 1 .. i - 1 : a[j] = seq[j]
  OBVIOUS
<1>2. /\ b \in Seq(T) /\ Len(b) = Len(seq) - i
      /\ \A j \in 1 .. Len(seq) - i : b[j] = seq[j + i]
  OBVIOUS
<1>3. RemoveAt(seq, i) = a \o b
  BY DEF RemoveAt
<1> HIDE DEF a, b
<1>4. a \o b \in Seq(T) /\ Len(a \o b) = Len(seq) - 1
  <2>1. a \o b \in Seq(T) /\ Len(a \o b) = Len(a) + Len(b)
    BY <1>1, <1>2, Joined
  <2>2. (i - 1) + (Len(seq) - i) = Len(seq) - 1
    OBVIOUS
  <2> QED
    BY <1>1, <1>2, <2>1, <2>2
<1>5. ASSUME NEW j \in 1 .. Len(seq) - 1
      PROVE  (a \o b)[j] = IF j < i THEN seq[j] ELSE seq[j + 1]
  <2>1. CASE j < i
    BY <1>1, <1>2, <2>1
  <2>2. CASE ~(j < i)
    <3>1. j - (i - 1) \in 1 .. Len(seq) - i /\ (j - (i - 1)) + i = j + 1
      BY <2>2
    <3>2. (a \o b)[j] = b[j - (i - 1)]
      BY <1>1, <1>2, <2>2
    <3> QED
      BY <1>2, <2>2, <3>1, <3>2
  <2> QED
    BY <2>1, <2>2
<1> QED
  BY <1>3, <1>4, <1>5

\* Sequences of the same length with the same elements are the same.
LEMMA SameSequence ==
  ASSUME NEW T, NEW a \in Seq(T), NEW b \in Seq(T), Len(a) = Len(b),
         \A i \in 1 .. Len(a) : a[i] = b[i]
  PROVE  a = b
<1>1. a = [i \in 1 .. Len(a) |-> a[i]] /\ b = [i \in 1 .. Len(b) |-> b[i]]
  OBVIOUS
<1> QED
  BY <1>1

\* Removing an element and appending one can be done in either order.
LEMMA RemoveAtAppend ==
  ASSUME NEW T, NEW seq \in Seq(T), NEW e \in T, NEW i \in 1 .. Len(seq)
  PROVE  RemoveAt(Append(seq, e), i) = Append(RemoveAt(seq, i), e)
<1> DEFINE more == Append(seq, e)
           a == RemoveAt(more, i)
           b == RemoveAt(seq, i)
           c == Append(b, e)
<1>1. /\ more \in Seq(T) /\ Len(seq) \in Nat /\ Len(more) = Len(seq) + 1
      /\ more[Len(seq) + 1] = e /\ \A j \in 1 .. Len(seq) : more[j] = seq[j]
      /\ i \in 1 .. Len(more)
  OBVIOUS
<1> HIDE DEF more
<1>2. /\ a \in Seq(T) /\ Len(a) = Len(seq)
      /\ \A j \in 1 .. Len(seq) : a[j] = IF j < i THEN more[j] ELSE more[j + 1]
  <2>1. Len(more) - 1 = Len(seq)
    BY <1>1
  <2> QED
    BY <1>1, <2>1, RemoveAtElements
<1>3. /\ b \in Seq(T) /\ Len(b) = Len(seq) - 1
      /\ \A j \in 1 .. Len(seq) - 1 : b[j] = IF j < i THEN seq[j] ELSE seq[j + 1]
  BY RemoveAtElements
<1> HIDE DEF a, b
<1>4. c \in Seq(T) /\ Len(c) = Len(seq) /\ c[Len(seq)] = e
      /\ \A j \in 1 .. Len(seq) - 1 : c[j] = b[j]
  BY <1>1, <1>3
<1> HIDE DEF c
<1>5. ASSUME NEW j \in 1 .. Len(seq)
      PROVE  a[j] = c[j]
  <2>1. CASE j = Len(seq)
    BY <1>1, <1>2, <1>4, <2>1
  <2>2. CASE j \in 1 .. Len(seq) - 1
    <3>1. j + 1 \in 1 .. Len(seq)
      BY <1>1, <2>2
    <3> QED
      BY <1>1, <1>2, <1>3, <1>4, <2>2, <3>1
  <2> QED
    BY <1>1, <2>1, <2>2
<1>6. a = c
  BY <1>2, <1>4, <1>5, SameSequence
<1> QED
  BY <1>6 DEF a, b, c, more

\* Removing what was appended.
LEMMA RemoveAtEnd ==
  ASSUME NEW T, NEW seq \in Seq(T), NEW e \in T
  PROVE  RemoveAt(Append(seq, e), Len(seq) + 1) = seq
<1> DEFINE more == Append(seq, e)
           a == RemoveAt(more, Len(seq) + 1)
<1>1. /\ more \in Seq(T) /\ Len(seq) \in Nat /\ Len(more) = Len(seq) + 1
      /\ \A j \in 1 .. Len(seq) : more[j] = seq[j]
      /\ Len(seq) + 1 \in 1 .. Len(more) /\ Len(more) - 1 = Len(seq)
  OBVIOUS
<1> HIDE DEF more
<1>2. /\ a \in Seq(T) /\ Len(a) = Len(seq)
      /\ \A j \in 1 .. Len(seq) : a[j] = IF j < Len(seq) + 1 THEN more[j] ELSE more[j + 1]
  BY <1>1, RemoveAtElements
<1> HIDE DEF a
<1>3. \A j \in 1 .. Len(a) : a[j] = seq[j]
  BY <1>1, <1>2
<1>4. a = seq
  BY <1>2, <1>3, SameSequence
<1> QED
  BY <1>4 DEF a, more

Distinct(seq) == \A i, j \in 1 .. Len(seq) : seq[i] = seq[j] => i = j

KeptLacks(T, S, x) ==
  \A seq \in Seq(T) : Distinct(seq) =>
    \A i \in 1 .. Len(Kept(seq, S)) :
      Kept(seq, S)[i] = x => Kept(seq, S \ {x}) = RemoveAt(Kept(seq, S), i)

\* To keep one element less is to remove it, if no element occurs twice.
LEMMA KeptWithout ==
  ASSUME NEW T, NEW S, NEW x
  PROVE  KeptLacks(T, S, x)
<1> USE DEF KeptLacks
<1> DEFINE Good(s) ==
             \A i \in 1 .. Len(Kept(s, S)) :
               Kept(s, S)[i] = x => Kept(s, S \ {x}) = RemoveAt(Kept(s, S), i)
           P == {s \in Seq(T) : Distinct(s) => Good(s)}
<1>1. <<>> \in P
  BY KeptEmpty
<1>2. ASSUME NEW s \in Seq(T), s \in P, NEW e \in T
      PROVE  Append(s, e) \in P
  <2> DEFINE more == Append(s, e)
             kept == Kept(s, S)
  <2>1. /\ more \in Seq(T) /\ Len(s) \in Nat /\ Len(more) = Len(s) + 1
        /\ more[Len(s) + 1] = e /\ \A i \in 1 .. Len(s) : more[i] = s[i]
    OBVIOUS
  <2>2. /\ Kept(more, S) = IF e \in S THEN Append(kept, e) ELSE kept
        /\ Kept(more, S \ {x}) =
             IF e \in S \ {x} THEN Append(Kept(s, S \ {x}), e) ELSE Kept(s, S \ {x})
    BY KeptAppend
  <2>3. kept \in Seq(T) /\ \E where : Selects(where, kept, s, S)
    BY KeptSelects
  <2>4. SUFFICES ASSUME Distinct(more), NEW i \in 1 .. Len(Kept(more, S)),
                        Kept(more, S)[i] = x
                 PROVE  Kept(more, S \ {x}) = RemoveAt(Kept(more, S), i)
    BY <2>1
  <2> HIDE DEF more, kept
  <2>5. Distinct(s) /\ \A j \in 1 .. Len(s) : s[j] # e
    <3>1. \A j \in 1 .. Len(s) : j \in 1 .. Len(more) /\ j # Len(s) + 1
      BY <2>1
    <3>2. Len(s) + 1 \in 1 .. Len(more)
      BY <2>1
    <3> QED
      BY <2>1, <2>4, <3>1, <3>2 DEF Distinct
  <2>6. \A j \in 1 .. Len(kept) : kept[j] = x => Kept(s, S \ {x}) = RemoveAt(kept, j)
    BY <1>2, <2>5 DEF kept
  <2>7. CASE e \notin S
    BY <2>2, <2>4, <2>6, <2>7
  <2>8. CASE e \in S /\ e # x
    <3>1. Len(Append(kept, e)) = Len(kept) + 1 /\ Append(kept, e)[Len(kept) + 1] = e
          /\ Len(kept) \in Nat /\ \A j \in 1 .. Len(kept) : Append(kept, e)[j] = kept[j]
      BY <2>3
    <3>2. i \in 1 .. Len(kept) /\ kept[i] = x
      BY <2>2, <2>4, <2>8, <3>1
    <3>3. Kept(s, S \ {x}) = RemoveAt(kept, i)
      BY <2>6, <3>2
    <3>4. RemoveAt(Append(kept, e), i) = Append(RemoveAt(kept, i), e)
      BY <2>3, <3>2, RemoveAtAppend
    <3> QED
      BY <2>2, <2>8, <3>3, <3>4
  <2>9. CASE e \in S /\ e = x
    <3>1. Kept(s, S \ {x}) = kept
      <4>1. \A j \in 1 .. Len(s) : s[j] \in S \ {x} <=> s[j] \in S
        BY <2>5, <2>9
      <4> QED
        BY <4>1, KeptSame DEF kept
    <3>2. \A j \in 1 .. Len(kept) : kept[j] # x
      <4>1. PICK where : Selects(where, kept, s, S)
        BY <2>3
      <4>2. \A j \in 1 .. Len(kept) : where[j] \in 1 .. Len(s) /\ kept[j] = s[where[j]]
        BY <4>1 DEF Selects
      <4> QED
        BY <2>5, <2>9, <4>2
    <3>3. Len(Append(kept, e)) = Len(kept) + 1
          /\ Len(kept) \in Nat /\ \A j \in 1 .. Len(kept) : Append(kept, e)[j] = kept[j]
      BY <2>3
    <3>4. i = Len(kept) + 1
      BY <2>2, <2>4, <2>9, <3>2, <3>3
    <3>5. RemoveAt(Append(kept, e), Len(kept) + 1) = kept
      BY <2>3, RemoveAtEnd
    <3> QED
      BY <2>2, <2>9, <3>1, <3>4, <3>5
  <2> QED
    BY <2>7, <2>8, <2>9
<1>3. Seq(T) \subseteq P
  <2> HIDE DEF P
  <2> QED
    BY <1>1, <1>2, SequenceInduction
<1> QED
  BY <1>3

-----------------------------------------------------------------------------
(***************************************************************************)
(* Queues of numbers, one for each place.                                  *)
(***************************************************************************)

Filled(Q) == \A p \in Place : Q[p] \in Seq(Nat)

\* Message m is the i-th in queue p.
At(Q, p, i, m) == p \in Place /\ i \in 1 .. Len(Q[p]) /\ Q[p][i] = m

\* No message is at two positions.
Once(Q) ==
  \A m, i, j \in Nat : \A p, q \in Place : At(Q, p, i, m) /\ At(Q, q, j, m) => p = q /\ i = j

\* The queues have the messages of S and no others.
Inside(Q, S) == \A m, i \in Nat : \A p \in Place : At(Q, p, i, m) => m \in S

Covers(Q, S) == \A m \in S : \E p \in Place : \E i \in Nat : At(Q, p, i, m)

Placed(Q, S) == Once(Q) /\ Inside(Q, S) /\ Covers(Q, S)

\* The way of a message, as long as there is one stream.
Rank(p) == IF p = AtClient THEN 1
           ELSE IF p = InChannel THEN 3
           ELSE IF p = InBuffer THEN 4
           ELSE 2

Before(p, i, q, j) == Rank(p) < Rank(q) \/ (p = q /\ i < j)

\* Messages overtake each other neither in a queue nor on their way.
Sorted(Q) ==
  \A m, k, i, j \in Nat : \A p, q \in Place :
    At(Q, p, i, m) /\ At(Q, q, j, k) /\ Before(p, i, q, j) => m < k

\* A rank is one of four.
LEMMA RankOrder == \A p \in Place : Rank(p) \in 1 .. 4
BY DEF Rank

\* What At says of elements, and elements of At.
LEMMA AtElement ==
  ASSUME NEW Q, NEW p \in Place, NEW i, NEW m, Filled(Q)
  PROVE  /\ At(Q, p, i, m) => i \in Nat \ {0} /\ m \in Nat /\ Q[p] # <<>>
         /\ At(Q, p, i, m) <=> i \in DOMAIN Q[p] /\ Q[p][i] = m
<1>1. Q[p] \in Seq(Nat)
  BY DEF Filled
<1> QED
  BY <1>1 DEF At

\* Append, Head and Tail by length and elements.
LEMMA AppendElements ==
  ASSUME NEW T, NEW seq \in Seq(T), NEW e \in T
  PROVE  /\ Append(seq, e) \in Seq(T) /\ Len(seq) \in Nat
         /\ Len(Append(seq, e)) = Len(seq) + 1
         /\ Append(seq, e)[Len(seq) + 1] = e
         /\ \A i \in 1 .. Len(seq) : Append(seq, e)[i] = seq[i]
OBVIOUS

\* The rest of a sequence has its elements, one place further on.
LEMMA TailElements ==
  ASSUME NEW T, NEW seq \in Seq(T), seq # <<>>
  PROVE  /\ Tail(seq) \in Seq(T) /\ Len(seq) \in Nat \ {0}
         /\ Len(Tail(seq)) = Len(seq) - 1
         /\ Head(seq) \in T /\ Head(seq) = seq[1]
         /\ \A i \in 1 .. Len(seq) - 1 : Tail(seq)[i] = seq[i + 1]
OBVIOUS

\* What the three ways to change a queue change.
LEMMA SameAt ==
  ASSUME NEW Q, NEW Q2, NEW p, NEW i, NEW m, Q2[p] = Q[p]
  PROVE  At(Q2, p, i, m) <=> At(Q, p, i, m)
BY DEF At

\* Append adds one position, at the end.
LEMMA AppendAt ==
  ASSUME NEW Q, NEW Q2, NEW p \in Place, NEW e \in Nat, NEW i, NEW m, Filled(Q),
         Q2[p] = Append(Q[p], e)
  PROVE  /\ At(Q2, p, i, m) <=> At(Q, p, i, m) \/ (i = Len(Q[p]) + 1 /\ m = e)
         /\ Len(Q[p]) \in Nat
         /\ At(Q, p, i, m) => i < Len(Q[p]) + 1
<1>1. /\ Len(Q[p]) \in Nat /\ Len(Q2[p]) = Len(Q[p]) + 1
      /\ Q2[p][Len(Q[p]) + 1] = e
      /\ \A j \in 1 .. Len(Q[p]) : Q2[p][j] = Q[p][j]
  BY AppendElements DEF Filled
<1>2. i \in 1 .. Len(Q[p]) + 1 <=> i \in 1 .. Len(Q[p]) \/ i = Len(Q[p]) + 1
  BY <1>1
<1>3. i \in 1 .. Len(Q[p]) => i < Len(Q[p]) + 1
  BY <1>1
<1> QED
  BY <1>1, <1>2, <1>3 DEF At

\* Tail moves every element but the first one position forward.
LEMMA TailAt ==
  ASSUME NEW Q, NEW Q2, NEW p \in Place, NEW i \in Nat, NEW m, Filled(Q), Q[p] # <<>>,
         Q2[p] = Tail(Q[p])
  PROVE  /\ At(Q2, p, i, m) <=> i # 0 /\ At(Q, p, i + 1, m)
         /\ At(Q, p, 1, m) <=> m = Head(Q[p])
         /\ At(Q, p, i, m) => i = 1 \/ (i - 1 \in Nat /\ At(Q2, p, i - 1, m))
<1>1. /\ Len(Q[p]) \in Nat \ {0} /\ Len(Q2[p]) = Len(Q[p]) - 1
      /\ Head(Q[p]) = Q[p][1]
      /\ \A j \in 1 .. Len(Q[p]) - 1 : Q2[p][j] = Q[p][j + 1]
  BY TailElements DEF Filled
<1>2. 1 \in 1 .. Len(Q[p])
  BY <1>1
<1>3. i \in 1 .. Len(Q[p]) - 1 <=> i # 0 /\ i + 1 \in 1 .. Len(Q[p])
  BY <1>1
<1>4. i \in 1 .. Len(Q[p]) => i = 1 \/ (i - 1 \in 1 .. Len(Q[p]) - 1 /\ (i - 1) + 1 = i)
  BY <1>1
<1> QED
  BY <1>1, <1>2, <1>3, <1>4 DEF At

\* What Kept returns comes from positions of its argument, in their order.
LEMMA KeptAt ==
  ASSUME NEW Q, NEW Q2, NEW p \in Place, NEW d \in Place, NEW S, Filled(Q),
         Q2[d] = Kept(Q[p], S)
  PROVE  \E where :
           /\ \A j \in Nat : \A m :
                At(Q2, d, j, m) => where[j] \in Nat /\ At(Q, p, where[j], m) /\ m \in S
           /\ \A j, k \in Nat : \A m, l :
                At(Q2, d, j, m) /\ At(Q2, d, k, l) /\ j < k => where[j] < where[k]
           /\ \A i \in Nat : \A m :
                At(Q, p, i, m) /\ m \in S => \E j \in Nat : At(Q2, d, j, m)
<1>1. Q2[d] \in Seq(Nat) /\ Q[p] \in Seq(Nat)
  BY KeptSelects DEF Filled
<1>2. PICK where : Selects(where, Q2[d], Q[p], S)
  BY <1>1, KeptSelects
<1>3. \A j \in 1 .. Len(Q2[d]) : where[j] \in 1 .. Len(Q[p]) /\ Q2[d][j] = Q[p][where[j]]
                                 /\ Q2[d][j] \in S
  BY <1>2 DEF Selects
<1>4. ASSUME NEW j \in Nat, NEW m, At(Q2, d, j, m)
      PROVE  where[j] \in Nat /\ At(Q, p, where[j], m) /\ m \in S
  <2>1. j \in 1 .. Len(Q2[d]) /\ Q2[d][j] = m
    BY <1>4 DEF At
  <2>2. where[j] \in Nat
    BY <1>1, <1>3, <2>1
  <2> QED
    BY <1>3, <2>1, <2>2 DEF At
<1>5. ASSUME NEW j \in Nat, NEW k \in Nat, NEW m, NEW l,
             At(Q2, d, j, m), At(Q2, d, k, l), j < k
      PROVE  where[j] < where[k]
  BY <1>2, <1>5 DEF At, Selects
<1>6. ASSUME NEW i \in Nat, NEW m, At(Q, p, i, m), m \in S
      PROVE  \E j \in Nat : At(Q2, d, j, m)
  <2>1. PICK j \in 1 .. Len(Q2[d]) : where[j] = i
    BY <1>2, <1>6 DEF At, Selects
  <2>2. At(Q2, d, j, m) /\ j \in Nat
    BY <1>1, <1>3, <1>6, <2>1 DEF At
  <2> QED
    BY <2>2
<1> QED
  BY <1>4, <1>5, <1>6

-----------------------------------------------------------------------------
(***************************************************************************)
(* Each message stays at one position.                                     *)
(***************************************************************************)

\* A new message at the end of a queue.
LEMMA AppendPlaced ==
  ASSUME NEW Q, NEW Q2, NEW S, NEW e \in Nat, NEW p \in Place,
         Filled(Q), Placed(Q, S), e \notin S,
         Q2[p] = Append(Q[p], e),
         \A q \in Place \ {p} : Q2[q] = Q[q]
  PROVE  Placed(Q2, S \cup {e})
<1> DEFINE l == Len(Q[p]) + 1
<1>1. \A q \in Place : \A i, m :
        At(Q2, q, i, m) <=> At(Q, q, i, m) \/ (q = p /\ i = l /\ m = e)
  <2>1. \A i, m : At(Q2, p, i, m) <=> At(Q, p, i, m) \/ (i = l /\ m = e)
    BY AppendAt
  <2>2. \A q \in Place \ {p} : \A i, m : At(Q2, q, i, m) <=> At(Q, q, i, m)
    BY SameAt
  <2> QED
    BY <2>1, <2>2
<1>2. l \in Nat
  BY AppendAt
<1> HIDE DEF l
<1>3. Once(Q) /\ Inside(Q, S) /\ Covers(Q, S)
  BY DEF Placed
<1>4. Once(Q2)
  <2> SUFFICES ASSUME NEW m \in Nat, NEW i \in Nat, NEW j \in Nat,
                      NEW q \in Place, NEW r \in Place,
                      At(Q2, q, i, m), At(Q2, r, j, m)
               PROVE  q = r /\ i = j
    BY DEF Once
  <2>1. m = e => ~ At(Q, q, i, m) /\ ~ At(Q, r, j, m)
    BY <1>3 DEF Inside
  <2> QED
    BY <1>1, <1>3, <2>1 DEF Once
<1>5. Inside(Q2, S \cup {e})
  BY <1>1, <1>3 DEF Inside
<1>6. Covers(Q2, S \cup {e})
  <2> SUFFICES ASSUME NEW m \in S \cup {e}
               PROVE  \E q \in Place : \E i \in Nat : At(Q2, q, i, m)
    BY DEF Covers
  <2>1. CASE m = e
    BY <1>1, <1>2, <2>1
  <2>2. CASE m \in S
    BY <1>1, <1>3, <2>2 DEF Covers
  <2> QED
    BY <2>1, <2>2
<1> QED
  BY <1>4, <1>5, <1>6 DEF Placed

\* The head of a queue is given up.
LEMMA DropPlaced ==
  ASSUME NEW Q, NEW Q2, NEW S, NEW p \in Place,
         Filled(Q), Placed(Q, S), Q[p] # <<>>,
         Q2[p] = Tail(Q[p]),
         \A q \in Place \ {p} : Q2[q] = Q[q]
  PROVE  /\ Placed(Q2, S \ {Head(Q[p])})
         /\ Head(Q[p]) \in S
<1> DEFINE h == Head(Q[p])
<1>1. h \in Nat
  BY TailElements DEF Filled
<1>2. At(Q, p, 1, h)
  BY TailAt
<1>3. \A q \in Place \ {p} : \A i, m : At(Q2, q, i, m) <=> At(Q, q, i, m)
  BY SameAt
<1>4. \A i \in Nat : \A m :
        /\ At(Q2, p, i, m) <=> i # 0 /\ At(Q, p, i + 1, m)
        /\ At(Q, p, 1, m) <=> m = h
        /\ At(Q, p, i, m) => i = 1 \/ (i - 1 \in Nat /\ At(Q2, p, i - 1, m))
  BY TailAt
<1> HIDE DEF h
<1>5. Once(Q) /\ Inside(Q, S) /\ Covers(Q, S)
  BY DEF Placed
<1>6. Once(Q2)
  <2> SUFFICES ASSUME NEW m \in Nat, NEW i \in Nat, NEW j \in Nat,
                      NEW q \in Place, NEW r \in Place,
                      At(Q2, q, i, m), At(Q2, r, j, m)
               PROVE  q = r /\ i = j
    BY DEF Once
  <2>1. i + 1 \in Nat /\ j + 1 \in Nat /\ (i + 1 = j + 1 => i = j)
    OBVIOUS
  <2>2. CASE q = p /\ r = p
    BY <1>4, <1>5, <2>1, <2>2 DEF Once
  <2>3. CASE q = p /\ r # p
    BY <1>3, <1>4, <1>5, <2>1, <2>3 DEF Once
  <2>4. CASE q # p /\ r = p
    BY <1>3, <1>4, <1>5, <2>1, <2>4 DEF Once
  <2>5. CASE q # p /\ r # p
    BY <1>3, <1>5, <2>5 DEF Once
  <2> QED
    BY <2>2, <2>3, <2>4, <2>5
<1>7. Inside(Q2, S \ {h})
  <2> SUFFICES ASSUME NEW m \in Nat, NEW i \in Nat, NEW q \in Place, At(Q2, q, i, m)
               PROVE  m \in S \ {h}
    BY DEF Inside
  <2>1. i + 1 \in Nat /\ (i # 0 => i + 1 # 1)
    OBVIOUS
  <2>2. CASE q = p
    <3>1. i # 0 /\ At(Q, p, i + 1, m)
      BY <1>4, <2>2
    <3> QED
      BY <1>2, <1>5, <2>1, <3>1 DEF Once, Inside
  <2>3. CASE q # p
    BY <1>2, <1>3, <1>5, <2>3 DEF Once, Inside
  <2> QED
    BY <2>2, <2>3
<1>8. Covers(Q2, S \ {h})
  <2> SUFFICES ASSUME NEW m \in S, m # h
               PROVE  \E q \in Place : \E i \in Nat : At(Q2, q, i, m)
    BY DEF Covers
  <2>1. PICK q \in Place : \E i \in Nat : At(Q, q, i, m)
    BY <1>5 DEF Covers
  <2>2. PICK i \in Nat : At(Q, q, i, m)
    BY <2>1
  <2>3. CASE q = p
    BY <1>4, <2>2, <2>3
  <2>4. CASE q # p
    BY <1>3, <2>2, <2>4
  <2> QED
    BY <2>3, <2>4
<1>9. h \in S
  BY <1>1, <1>2, <1>5 DEF Inside
<1> QED
  BY <1>6, <1>7, <1>8, <1>9 DEF Placed, h

\* The head of a queue goes to the end of another: it is given up and comes back.
LEMMA MovePlaced ==
  ASSUME NEW Q, NEW Q2, NEW S, NEW p \in Place, NEW d \in Place, p # d,
         Filled(Q), Placed(Q, S), Q[p] # <<>>,
         Q2[p] = Tail(Q[p]),
         Q2[d] = Append(Q[d], Head(Q[p])),
         \A q \in Place \ {p, d} : Q2[q] = Q[q]
  PROVE  Placed(Q2, S)
<1> DEFINE R == [q \in Place |-> IF q = p THEN Tail(Q[p]) ELSE Q[q]]
<1>1. R[p] = Tail(Q[p]) /\ \A q \in Place \ {p} : R[q] = Q[q]
  OBVIOUS
<1>2. Filled(R)
  BY TailElements DEF Filled
<1> HIDE DEF R
<1>3. Placed(R, S \ {Head(Q[p])}) /\ Head(Q[p]) \in S
  BY <1>1, DropPlaced
<1>4. Head(Q[p]) \in Nat /\ Head(Q[p]) \notin S \ {Head(Q[p])}
  BY TailElements DEF Filled
<1>5. Q2[d] = Append(R[d], Head(Q[p])) /\ \A q \in Place \ {d} : Q2[q] = R[q]
  BY <1>1
<1>6. Placed(Q2, (S \ {Head(Q[p])}) \cup {Head(Q[p])})
  BY <1>2, <1>3, <1>4, <1>5, AppendPlaced
<1>7. (S \ {Head(Q[p])}) \cup {Head(Q[p])} = S
  BY <1>3
<1> QED
  BY <1>6, <1>7

\* An empty queue takes what another has in K, and the rest is gone.
LEMMA TakePlaced ==
  ASSUME NEW Q, NEW Q2, NEW S, NEW p \in Place, NEW d \in Place, p # d,
         NEW K, NEW G,
         Filled(Q), Placed(Q, S), Q[d] = <<>>,
         Q2[p] = <<>>,
         Q2[d] = Kept(Q[p], K),
         \A q \in Place \ {p, d} : Q2[q] = Q[q],
         \A m \in Nat : m \in G <=> m \notin K /\ \E i \in Nat : At(Q, p, i, m)
  PROVE  Placed(Q2, S \ G)
<1>1. PICK where :
           /\ \A j \in Nat : \A m :
                At(Q2, d, j, m) => where[j] \in Nat /\ At(Q, p, where[j], m) /\ m \in K
           /\ \A j, k \in Nat : \A m, l :
                At(Q2, d, j, m) /\ At(Q2, d, k, l) /\ j < k => where[j] < where[k]
           /\ \A i \in Nat : \A m :
                At(Q, p, i, m) /\ m \in K => \E j \in Nat : At(Q2, d, j, m)
  BY KeptAt
<1>2. \A q \in Place \ {p, d} : \A i, m : At(Q2, q, i, m) <=> At(Q, q, i, m)
  BY SameAt
<1>3. \A i, m : ~ At(Q2, p, i, m) /\ ~ At(Q, d, i, m)
  BY DEF At
<1>4. Once(Q) /\ Inside(Q, S) /\ Covers(Q, S)
  BY DEF Placed
<1>5. Once(Q2)
  <2> SUFFICES ASSUME NEW m \in Nat, NEW i \in Nat, NEW j \in Nat,
                      NEW q \in Place, NEW r \in Place,
                      At(Q2, q, i, m), At(Q2, r, j, m)
               PROVE  q = r /\ i = j
    BY DEF Once
  <2>1. q # p /\ r # p
    BY <1>3
  <2>2. CASE q = d /\ r = d
    <3>1. where[i] = where[j] /\ where[i] \in Nat
      BY <1>1, <1>4, <2>2 DEF Once
    <3>2. ~ (i < j) /\ ~ (j < i)
      BY <1>1, <2>2, <3>1
    <3> QED
      BY <2>2, <3>2
  <2>3. CASE q = d /\ r # d
    <3>1. where[i] \in Nat /\ At(Q, p, where[i], m) /\ At(Q, r, j, m)
      BY <1>1, <1>2, <2>1, <2>3
    <3> QED
      BY <1>4, <2>1, <3>1 DEF Once
  <2>4. CASE q # d /\ r = d
    <3>1. where[j] \in Nat /\ At(Q, p, where[j], m) /\ At(Q, q, i, m)
      BY <1>1, <1>2, <2>1, <2>4
    <3> QED
      BY <1>4, <2>1, <3>1 DEF Once
  <2>5. CASE q # d /\ r # d
    BY <1>2, <1>4, <2>1, <2>5 DEF Once
  <2> QED
    BY <2>2, <2>3, <2>4, <2>5
<1>6. Inside(Q2, S \ G)
  <2> SUFFICES ASSUME NEW m \in Nat, NEW i \in Nat, NEW q \in Place, At(Q2, q, i, m)
               PROVE  m \in S \ G
    BY DEF Inside
  <2>1. CASE q = d
    BY <1>1, <1>4, <2>1 DEF Inside
  <2>2. CASE q # d
    <3>1. At(Q, q, i, m) /\ q # p
      BY <1>2, <1>3, <2>2
    <3> QED
      BY <1>4, <3>1 DEF Inside, Once
  <2> QED
    BY <2>1, <2>2
<1>7. Covers(Q2, S \ G)
  <2> SUFFICES ASSUME NEW m \in S \ G
               PROVE  \E q \in Place : \E i \in Nat : At(Q2, q, i, m)
    BY DEF Covers
  <2>1. PICK q \in Place : \E i \in Nat : At(Q, q, i, m)
    BY <1>4 DEF Covers
  <2>2. PICK i \in Nat : At(Q, q, i, m)
    BY <2>1
  <2>3. m \in Nat
    BY <2>2, AtElement
  <2>4. CASE q = p
    BY <1>1, <2>2, <2>3, <2>4
  <2>5. CASE q # p
    BY <1>2, <1>3, <2>2, <2>5
  <2> QED
    BY <2>4, <2>5
<1> QED
  BY <1>5, <1>6, <1>7 DEF Placed

-----------------------------------------------------------------------------
(***************************************************************************)
(* The same steps, and the order of the messages.                          *)
(***************************************************************************)

\* A new message comes last if nothing is further away from the client.
LEMMA AppendSorted ==
  ASSUME NEW Q, NEW Q2, NEW e \in Nat, NEW p \in Place,
         Filled(Q), Sorted(Q),
         \A m, i \in Nat : \A q \in Place :
           At(Q, q, i, m) => m < e /\ ~ (Rank(p) < Rank(q)),
         Q2[p] = Append(Q[p], e),
         \A q \in Place \ {p} : Q2[q] = Q[q]
  PROVE  Sorted(Q2)
<1> DEFINE l == Len(Q[p]) + 1
<1>1. \A q \in Place : \A i, m :
        At(Q2, q, i, m) <=> At(Q, q, i, m) \/ (q = p /\ i = l /\ m = e)
  <2>1. \A i, m : At(Q2, p, i, m) <=> At(Q, p, i, m) \/ (i = l /\ m = e)
    BY AppendAt
  <2>2. \A q \in Place \ {p} : \A i, m : At(Q2, q, i, m) <=> At(Q, q, i, m)
    BY SameAt
  <2> QED
    BY <2>1, <2>2
<1>2. l \in Nat /\ \A i, m : At(Q, p, i, m) => i < l
  BY AppendAt
<1> HIDE DEF l
<1> SUFFICES ASSUME NEW m \in Nat, NEW k \in Nat, NEW i \in Nat, NEW j \in Nat,
                    NEW q \in Place, NEW r \in Place,
                    At(Q2, q, i, m), At(Q2, r, j, k), Before(q, i, r, j)
             PROVE  m < k
  BY DEF Sorted
<1>3. CASE At(Q, q, i, m) /\ At(Q, r, j, k)
  BY <1>3 DEF Sorted
<1>4. CASE At(Q, q, i, m) /\ r = p /\ j = l /\ k = e
  BY <1>4
<1>5. CASE q = p /\ i = l /\ m = e
  <2>1. At(Q, r, j, k) \/ (r = p /\ j = l)
    BY <1>1
  <2>2. ~ (Rank(p) < Rank(r))
    BY <2>1, RankOrder
  <2>3. r = p /\ l < j
    BY <1>5, <2>2 DEF Before
  <2> QED
    BY <1>2, <2>1, <2>3
<1> QED
  BY <1>1, <1>3, <1>4, <1>5

\* The head of a queue is given up.
LEMMA DropSorted ==
  ASSUME NEW Q, NEW Q2, NEW p \in Place, Filled(Q), Sorted(Q), Q[p] # <<>>,
         Q2[p] = Tail(Q[p]),
         \A q \in Place \ {p} : Q2[q] = Q[q]
  PROVE  Sorted(Q2)
<1> DEFINE old(q, i) == IF q = p THEN i + 1 ELSE i
<1>1. \A q \in Place : \A i \in Nat : \A m : At(Q2, q, i, m) => At(Q, q, old(q, i), m)
  <2>1. \A q \in Place \ {p} : \A i, m : At(Q2, q, i, m) <=> At(Q, q, i, m)
    BY SameAt
  <2>2. \A i \in Nat : \A m : At(Q2, p, i, m) <=> i # 0 /\ At(Q, p, i + 1, m)
    BY TailAt
  <2> QED
    BY <2>1, <2>2
<1>2. \A q, r \in Place : \A i, j \in Nat :
        /\ old(q, i) \in Nat
        /\ Before(q, i, r, j) => Before(q, old(q, i), r, old(r, j))
  BY DEF Before
<1> HIDE DEF old
<1> SUFFICES ASSUME NEW m \in Nat, NEW k \in Nat, NEW i \in Nat, NEW j \in Nat,
                    NEW q \in Place, NEW r \in Place,
                    At(Q2, q, i, m), At(Q2, r, j, k), Before(q, i, r, j)
             PROVE  m < k
  BY DEF Sorted
<1>3. At(Q, q, old(q, i), m) /\ At(Q, r, old(r, j), k)
  BY <1>1
<1>4. old(q, i) \in Nat /\ old(r, j) \in Nat /\ Before(q, old(q, i), r, old(r, j))
  BY <1>2
<1> QED
  BY <1>3, <1>4 DEF Sorted

\* A message reaches the client if nothing before it is still on its way.
LEMMA ReceiveSorted ==
  ASSUME NEW Q, NEW Q2, NEW p \in Place, p # AtClient, Filled(Q), Sorted(Q), Once(Q),
         Q[p] # <<>>,
         Q2[p] = Tail(Q[p]),
         Q2[AtClient] = Append(Q[AtClient], Head(Q[p])),
         \A q \in Place \ {p, AtClient} : Q2[q] = Q[q],
         \A q \in Place \ {p, AtClient} : Q[q] = <<>> \/ Rank(p) < Rank(q)
  PROVE  Sorted(Q2)
<1> DEFINE h == Head(Q[p])
           l == Len(Q[AtClient]) + 1
           R == [q \in Place |-> IF q = p THEN Tail(Q[p]) ELSE Q[q]]
<1>1. AtClient \in Place
  BY DEF Place
<1>2. R[p] = Tail(Q[p]) /\ \A q \in Place \ {p} : R[q] = Q[q]
  OBVIOUS
<1>3. Filled(R)
  BY TailElements DEF Filled
<1> HIDE DEF R
<1>4. Sorted(R)
  BY <1>2, DropSorted
<1>5. h \in Nat /\ At(Q, p, 1, h)
  <2>1. Q[p] \in Seq(Nat)
    BY DEF Filled
  <2>2. h \in Nat
    BY <2>1
  <2>3. At(Q, p, 1, h)
    BY TailAt
  <2> QED
    BY <2>2, <2>3
<1>6. Q2[AtClient] = Append(R[AtClient], h) /\ \A q \in Place \ {AtClient} : Q2[q] = R[q]
  BY <1>1, <1>2
<1>7. \A q \in Place : \A i, m :
        At(Q2, q, i, m) <=> At(R, q, i, m) \/ (q = AtClient /\ i = l /\ m = h)
  <2>1. R[AtClient] = Q[AtClient]
    BY <1>1, <1>2
  <2>2. \A i, m : At(Q2, AtClient, i, m) <=> At(R, AtClient, i, m) \/ (i = l /\ m = h)
    <3> HIDE DEF h
    <3> QED
      BY <1>1, <1>3, <1>5, <1>6, <2>1, AppendAt
  <2>3. \A q \in Place \ {AtClient} : \A i, m : At(Q2, q, i, m) <=> At(R, q, i, m)
    BY <1>6, SameAt
  <2> QED
    BY <2>2, <2>3
<1>8. l \in Nat /\ \A i, m : At(R, AtClient, i, m) => i < l
  <2>1. R[AtClient] = Q[AtClient]
    BY <1>1, <1>2
  <2>2. l \in Nat
    BY <1>1 DEF Filled
  <2>3. \A i \in 1 .. Len(Q[AtClient]) : i < l
    BY <2>2
  <2>4. \A i, m : At(R, AtClient, i, m) => i < l
    BY <2>1, <2>3, Zenon DEF At
  <2> QED
    BY <2>2, <2>4
<1> HIDE DEF h, l
<1>9. \A m, i \in Nat : At(R, AtClient, i, m) => m < h
  <2>1. Rank(AtClient) < Rank(p)
    BY DEF Rank
  <2>2. \A m, i \in Nat : At(R, AtClient, i, m) <=> At(Q, AtClient, i, m)
    BY <1>1, <1>2, SameAt
  <2> QED
    BY <1>1, <1>5, <2>1, <2>2 DEF Sorted, Before
\* What is not at the client is larger than the message that was first.
<1>10. ASSUME NEW q \in Place \ {AtClient}, NEW i \in Nat, NEW m \in Nat, At(R, q, i, m)
       PROVE  h < m
  <2>1. CASE q = p
    <3>1. i # 0 /\ At(Q, p, i + 1, m)
      BY <1>2, <1>10, <2>1, TailAt
    <3>2. Before(p, 1, p, i + 1)
      BY <3>1 DEF Before
    <3> QED
      BY <1>5, <3>1, <3>2 DEF Sorted
  <2>2. CASE q # p
    <3>1. At(Q, q, i, m) /\ Q[q] # <<>>
      BY <1>2, <1>10, <2>2, SameAt, AtElement
    <3>2. Before(p, 1, q, i)
      BY <2>2, <3>1 DEF Before
    <3> QED
      BY <1>5, <3>1, <3>2 DEF Sorted
  <2> QED
    BY <2>1, <2>2
<1> SUFFICES ASSUME NEW m \in Nat, NEW k \in Nat, NEW i \in Nat, NEW j \in Nat,
                    NEW q \in Place, NEW r \in Place,
                    At(Q2, q, i, m), At(Q2, r, j, k), Before(q, i, r, j)
             PROVE  m < k
  BY DEF Sorted
<1>11. CASE At(R, q, i, m) /\ At(R, r, j, k)
  BY <1>4, <1>11 DEF Sorted
<1>12. CASE r = AtClient /\ j = l /\ k = h
  <2>1. q = AtClient /\ i < l
    BY <1>1, <1>12, RankOrder DEF Before, Rank
  <2> QED
    BY <1>7, <1>8, <1>9, <1>12, <2>1
<1>13. CASE q = AtClient /\ i = l /\ m = h /\ At(R, r, j, k)
  <2>1. r # AtClient
    BY <1>1, <1>8, <1>13, RankOrder DEF Before
  <2> QED
    BY <1>10, <1>13, <2>1
<1> QED
  BY <1>7, <1>11, <1>12, <1>13

\* What is taken from a queue keeps its order; nothing else is on its way.
LEMMA TakeSorted ==
  ASSUME NEW Q, NEW Q2, NEW p \in Place, NEW d \in Place, NEW K,
         Filled(Q), Sorted(Q),
         Q2[d] = Kept(Q[p], K),
         \A q \in Place \ {d} : Q2[q] = <<>>
  PROVE  Sorted(Q2)
<1>1. PICK where :
           /\ \A j \in Nat : \A m :
                At(Q2, d, j, m) => where[j] \in Nat /\ At(Q, p, where[j], m) /\ m \in K
           /\ \A j, k \in Nat : \A m, l :
                At(Q2, d, j, m) /\ At(Q2, d, k, l) /\ j < k => where[j] < where[k]
           /\ \A i \in Nat : \A m :
                At(Q, p, i, m) /\ m \in K => \E j \in Nat : At(Q2, d, j, m)
  BY KeptAt
<1> SUFFICES ASSUME NEW m \in Nat, NEW k \in Nat, NEW i \in Nat, NEW j \in Nat,
                    NEW q \in Place, NEW r \in Place,
                    At(Q2, q, i, m), At(Q2, r, j, k), Before(q, i, r, j)
             PROVE  m < k
  BY DEF Sorted
<1>2. q = d /\ r = d
  BY DEF At
<1>3. i < j
  BY <1>2, RankOrder DEF Before
<1>4. where[i] \in Nat /\ At(Q, p, where[i], m) /\ where[j] \in Nat /\ At(Q, p, where[j], k)
      /\ where[i] < where[j]
  BY <1>1, <1>2, <1>3
<1>5. Before(p, where[i], p, where[j])
  BY <1>4 DEF Before
<1> QED
  BY <1>4, <1>5 DEF Sorted

-----------------------------------------------------------------------------
(***************************************************************************)
(* The inductive invariant of the hub.                                     *)
(***************************************************************************)

\* What the queues are called.
LEMMA PlacesAre ==
  /\ InChannel \in Place /\ InBuffer \in Place /\ AtClient \in Place
  /\ InChannel # InBuffer /\ InChannel # AtClient /\ InBuffer # AtClient
  /\ \A s \in Stream :
       /\ InReplay(s) \in Place
       /\ InReplay(s) # InChannel /\ InReplay(s) # InBuffer /\ InReplay(s) # AtClient
  /\ \A s, t \in Stream : InReplay(s) = InReplay(t) => s = t
  /\ \A p \in Place :
       p = InChannel \/ p = InBuffer \/ p = AtClient \/ \E s \in Stream : p = InReplay(s)
BY DEF Place, InChannel, InBuffer, AtClient, InReplay

\* What they hold, in a state and in the next.
LEMMA QueuesAre ==
  /\ Queues[InChannel] = ch /\ Queues[InBuffer] = buffer /\ Queues[AtClient] = received
  /\ \A s \in Stream : Queues[InReplay(s)] = replay[s]
BY PlacesAre DEF Queues, InReplay

\* The same of the queues of the next state.
LEMMA NextQueuesAre ==
  /\ Queues'[InChannel] = ch' /\ Queues'[InBuffer] = buffer' /\ Queues'[AtClient] = received'
  /\ \A s \in Stream : Queues'[InReplay(s)] = replay'[s]
BY PlacesAre DEF Queues, InReplay

\* The rank of each place.
LEMMA RanksAre ==
  /\ Rank(AtClient) = 1 /\ Rank(InChannel) = 3 /\ Rank(InBuffer) = 4
  /\ \A s \in Stream : Rank(InReplay(s)) = 2
BY PlacesAre DEF Rank

\* Each message that is not gone is at one position.
Messages == (1 .. count) \ gone

\* What streams leave behind.  A stream that does not replay has nothing to
\* replay; an active clientConn has an empty buffer; and before the first stream
\* all signals are buffered.
Idle ==
  /\ \A s \in Stream : pc[s] # "replaying" => replay[s] = <<>>
  /\ active => buffer = <<>>
  /\ (\A s \in Stream : pc[s] = "unopened") => ~ active /\ ch = <<>> /\ received = <<>>

\* A client whose streams do not overlap has at most one that is open, and then
\* the clientConn is active.  Without AtMostOne the end of one stream could
\* deactivate the clientConn under another.
AtMostOne == \A s, t \in Stream : Open(s) /\ Open(t) => s = t

OpenInv ==
  /\ ~ overlapped => AtMostOne
  /\ ActiveWhileServing

\* The client has opened at most one stream ever.
OneStream == \A s, t \in Stream : pc[s] # "unopened" /\ pc[t] # "unopened" => s = t

HubInv ==
  /\ TypeOK
  /\ gone \subseteq 1 .. count
  /\ Placed(Queues, Messages)
  /\ Idle
  /\ OpenInv
  /\ OneStream => Sorted(Queues)

\* Sequences of messages are sequences of numbers.
LEMMA QueuesFilled == TypeOK => Filled(Queues)
<1> SUFFICES ASSUME TypeOK, NEW p \in Place
             PROVE  Queues[p] \in Seq(Nat)
  BY DEF Filled
<1>1. \A seq \in Seq(Msg) : seq \in Seq(Nat)
  BY HubAssumption DEF Msg
<1>2. ch \in Seq(Msg) /\ buffer \in Seq(Msg) /\ received \in Seq(Msg)
      /\ \A s \in Stream : replay[s] \in Seq(Msg)
  BY DEF TypeOK
<1>3. /\ Queues[InChannel] \in Seq(Nat) /\ Queues[InBuffer] \in Seq(Nat)
      /\ Queues[AtClient] \in Seq(Nat)
      /\ \A s \in Stream : Queues[InReplay(s)] \in Seq(Nat)
  BY <1>1, <1>2, QueuesAre
<1>4. p = InChannel \/ p = InBuffer \/ p = AtClient \/ \E s \in Stream : p = InReplay(s)
  BY PlacesAre
<1> QED
  BY <1>3, <1>4

\* The invariant holds at the start: all queues are empty.
LEMMA InitHubInv == Init => HubInv
<1> SUFFICES ASSUME Init
             PROVE  HubInv
  OBVIOUS
<1>1. TypeOK
  <2>1. <<>> \in Seq(Msg) /\ Len(<<>>) <= Capacity
    BY HubAssumption
  <2>2. 0 \in 0 .. MaxMsgs
    BY HubAssumption
  <2> QED
    BY <2>1, <2>2 DEF Init, TypeOK, Location
<1>2. \A p \in Place : Queues[p] = <<>>
  BY PlacesAre, QueuesAre DEF Init
<1>3. \A p \in Place : \A i, m : ~ At(Queues, p, i, m)
  BY <1>2 DEF At
<1>4. Messages = {} /\ gone \subseteq 1 .. count
  BY DEF Init, Messages
<1>5. Placed(Queues, Messages) /\ Sorted(Queues)
  BY <1>3, <1>4 DEF Placed, Once, Inside, Covers, Sorted
<1>6. Idle /\ OpenInv
  BY DEF Init, Idle, OpenInv, AtMostOne, ActiveWhileServing, Open
<1> QED
  BY <1>1, <1>4, <1>5, <1>6 DEF HubInv

-----------------------------------------------------------------------------
(***************************************************************************)
(* Types.                                                                  *)
(***************************************************************************)

\* A signal that is published has a number no larger than MaxMsgs, and the channel room.
LEMMA PublishTypes ==
  ASSUME TypeOK, Publish
  PROVE  TypeOK'
<1>1. count + 1 \in Msg /\ count' \in 0 .. MaxMsgs
  BY HubAssumption DEF TypeOK, Publish, PublishLive, PublishDropped, PublishBuffered,
     NextMsg, Msg
<1>2. CASE PublishLive
  <2>1. ch' \in Seq(Msg) /\ Len(ch') <= Capacity
    BY <1>1, <1>2, HubAssumption DEF TypeOK, PublishLive
  <2> QED
    BY <1>1, <1>2, <2>1 DEF TypeOK, PublishLive, NextMsg
<1>3. CASE PublishDropped
  BY <1>1, <1>3 DEF TypeOK, PublishDropped, NextMsg
<1>4. CASE PublishBuffered
  <2>1. buffer' \in Seq(Msg)
    BY <1>1, <1>4 DEF TypeOK, PublishBuffered
  <2> QED
    BY <1>1, <1>4, <2>1 DEF TypeOK, PublishBuffered, NextMsg
<1> QED
  BY <1>2, <1>3, <1>4 DEF Publish

\* What is taken from the buffer is a sequence of messages.
LEMMA ConnectTypes ==
  ASSUME TypeOK, NEW s \in Stream, Connect(s)
  PROVE  TypeOK'
<1>1. pruneExpired(buffer) \in Seq(Msg)
  BY KeptSelects DEF TypeOK, pruneExpired
<1>2. replay' \in [Stream -> Seq(Msg)]
  BY <1>1 DEF TypeOK, Connect, TakeBuffer
<1>3. pc' \in [Stream -> Location] /\ up' \subseteq Stream /\ overlapped' \in BOOLEAN
  BY DEF TypeOK, Connect, Begin, Location
<1>4. gone' \subseteq Msg
  BY DEF TypeOK, Connect, TakeBuffer
<1>5. buffer' = <<>> /\ active' = TRUE /\ UNCHANGED <<count, ch, expired, received>>
  BY DEF Connect, Begin
<1> QED
  BY <1>2, <1>3, <1>4, <1>5 DEF TypeOK

\* A message that is written is received or gone.
LEMMA WriteTypes ==
  ASSUME TypeOK, NEW s \in Stream, NEW m \in Msg, WriteMsg(s, m)
  PROVE  received' \in Seq(Msg) /\ gone' \subseteq Msg
<1>1. received \in Seq(Msg) /\ Append(received, m) \in Seq(Msg) /\ gone \subseteq Msg
  BY DEF TypeOK
<1> QED
  BY <1>1 DEF WriteMsg

\* The steps of a stream.
LEMMA ServeTypes ==
  ASSUME TypeOK, NEW s \in Stream, ServeSignals(s)
  PROVE  TypeOK'
<1>1. CASE ReplayMsg(s)
  <2>1. Head(replay[s]) \in Msg /\ Tail(replay[s]) \in Seq(Msg)
    BY <1>1, TailElements DEF TypeOK, ReplayMsg
  <2>2. received' \in Seq(Msg) /\ gone' \subseteq Msg
    BY <1>1, <2>1, WriteTypes DEF ReplayMsg
  <2>3. replay' \in [Stream -> Seq(Msg)]
    BY <1>1, <2>1 DEF TypeOK, ReplayMsg
  <2>4. UNCHANGED <<count, active, ch, buffer, pc, up, expired, overlapped>>
    BY <1>1 DEF ReplayMsg, conn
  <2> QED
    BY <2>2, <2>3, <2>4 DEF TypeOK
<1>2. CASE StartStreaming(s)
  BY <1>2 DEF TypeOK, StartStreaming, conn, Location
<1>3. CASE Deliver(s)
  <2>1. Head(ch) \in Msg /\ Tail(ch) \in Seq(Msg) /\ Len(Tail(ch)) = Len(ch) - 1
        /\ Len(ch) \in Nat
    BY <1>3, TailElements DEF TypeOK, Deliver
  <2>2. received' \in Seq(Msg) /\ gone' \subseteq Msg
    BY <1>3, <2>1, WriteTypes DEF Deliver
  <2>3. ch' \in Seq(Msg) /\ Len(ch') <= Capacity
    BY <1>3, <2>1, HubAssumption DEF TypeOK, Deliver
  <2>4. UNCHANGED <<count, active, buffer, pc, up, replay, expired, overlapped>>
    BY <1>3 DEF Deliver
  <2> QED
    BY <2>2, <2>3, <2>4 DEF TypeOK
<1>4. CASE ClientDisconnected(s)
  BY <1>4 DEF TypeOK, ClientDisconnected, Location
<1> QED
  BY <1>1, <1>2, <1>3, <1>4 DEF ServeSignals

\* Every step keeps the types.
LEMMA NextTypes == TypeOK /\ [Next]_vars => TypeOK'
<1> SUFFICES ASSUME TypeOK, [Next]_vars
             PROVE  TypeOK'
  OBVIOUS
<1>1. ASSUME NEW m \in Msg, Expire(m)
      PROVE  TypeOK'
  BY <1>1 DEF TypeOK, Expire, conn
<1>2. ASSUME NEW s \in Stream, Drop(s)
      PROVE  TypeOK'
  BY <1>2 DEF TypeOK, Drop, conn
<1>3. CASE UNCHANGED vars
  BY <1>3 DEF TypeOK, vars, conn
<1> QED
  BY <1>1, <1>2, <1>3, PublishTypes, ConnectTypes, ServeTypes DEF Next

-----------------------------------------------------------------------------
(***************************************************************************)
(* Steps of the queues.                                                    *)
(***************************************************************************)

\* A published signal goes to the end of a queue or is gone.
LEMMA PublishQueues ==
  ASSUME HubInv, Publish
  PROVE  /\ gone' \subseteq 1 .. count'
         /\ Placed(Queues', Messages')
         /\ Sorted(Queues) => Sorted(Queues')
<1> DEFINE e == count + 1
<1>1. /\ TypeOK /\ Placed(Queues, Messages) /\ gone \subseteq 1 .. count /\ Idle
      /\ Filled(Queues)
  BY QueuesFilled DEF HubInv
<1>2. count \in Nat /\ count' = e /\ e \in Nat /\ UNCHANGED <<received, replay>>
  BY <1>1 DEF TypeOK, Publish, PublishLive, PublishDropped, PublishBuffered, NextMsg
<1>3. 1 .. e = (1 .. count) \cup {e} /\ e \notin 1 .. count
  BY <1>2
<1>4. e \notin Messages /\ \A m \in Messages : m < e
  BY <1>2, <1>3 DEF Messages
<1>5. UNCHANGED gone => Messages' = Messages \cup {e} /\ gone' \subseteq 1 .. count'
  BY <1>1, <1>2, <1>3 DEF Messages
<1> HIDE DEF e
\* Whatever is in a queue was published earlier.
<1>6. \A m, i \in Nat : \A p \in Place : At(Queues, p, i, m) => m < e
  BY <1>1, <1>4 DEF Placed, Inside
<1>7. CASE PublishLive
  <2>1. ch' = Append(ch, e) /\ UNCHANGED <<buffer, gone>> /\ buffer = <<>>
    BY <1>1, <1>7 DEF PublishLive, Idle, e
  <2>2. /\ Queues'[InChannel] = Append(Queues[InChannel], e)
        /\ \A p \in Place \ {InChannel} : Queues'[p] = Queues[p]
    BY <1>2, <2>1, PlacesAre, QueuesAre, NextQueuesAre
  <2>3. Placed(Queues', Messages \cup {e})
    BY <1>1, <1>2, <1>4, <2>2, PlacesAre, AppendPlaced
  <2>4. \A m, i \in Nat : \A p \in Place :
          At(Queues, p, i, m) => ~ (Rank(InChannel) < Rank(p))
    <3>1. \A p \in Place : Rank(InChannel) < Rank(p) => p = InBuffer
      BY RanksAre, PlacesAre
    <3> QED
      BY <1>1, <2>1, <3>1, QueuesAre, AtElement
  <2>5. Sorted(Queues) => Sorted(Queues')
    BY <1>1, <1>2, <1>6, <2>2, <2>4, PlacesAre, AppendSorted
  <2> QED
    BY <1>5, <2>1, <2>3, <2>5
<1>8. CASE PublishBuffered
  <2>1. buffer' = Append(buffer, e) /\ UNCHANGED <<ch, gone>>
    BY <1>8 DEF PublishBuffered, e
  <2>2. /\ Queues'[InBuffer] = Append(Queues[InBuffer], e)
        /\ \A p \in Place \ {InBuffer} : Queues'[p] = Queues[p]
    BY <1>2, <2>1, PlacesAre, QueuesAre, NextQueuesAre
  <2>3. Placed(Queues', Messages \cup {e})
    BY <1>1, <1>2, <1>4, <2>2, PlacesAre, AppendPlaced
  <2>4. \A p \in Place : ~ (Rank(InBuffer) < Rank(p))
    BY RanksAre, RankOrder
  <2>5. Sorted(Queues) => Sorted(Queues')
    BY <1>1, <1>2, <1>6, <2>2, <2>4, PlacesAre, AppendSorted
  <2> QED
    BY <1>5, <2>1, <2>3, <2>5
<1>9. CASE PublishDropped
  <2>1. gone' = gone \cup {e} /\ UNCHANGED <<ch, buffer>>
    BY <1>9 DEF PublishDropped, e
  <2>2. \A p \in Place : Queues'[p] = Queues[p]
    BY <1>2, <2>1, PlacesAre, QueuesAre, NextQueuesAre
  <2>3. Messages' = Messages /\ gone' \subseteq 1 .. count'
    BY <1>1, <1>2, <1>3, <2>1 DEF Messages, e
  <2>4. \A p \in Place : \A i, m : At(Queues', p, i, m) <=> At(Queues, p, i, m)
    BY <2>2, SameAt
  <2> QED
    BY <1>1, <2>3, <2>4 DEF Placed, Once, Inside, Covers, Sorted
<1> QED
  BY <1>7, <1>8, <1>9 DEF Publish

\* Steps that leave the queues alone.
LEMMA QuietQueues ==
  ASSUME HubInv, UNCHANGED <<count, ch, buffer, replay, received, gone>>
  PROVE  /\ gone' \subseteq 1 .. count'
         /\ Placed(Queues', Messages')
         /\ Sorted(Queues) => Sorted(Queues')
<1>1. Queues' = Queues /\ Messages' = Messages
  BY DEF Queues, Messages
<1> QED
  BY <1>1 DEF HubInv

\* A stream that opens takes the buffer; it has replayed nothing yet.
LEMMA ConnectQueues ==
  ASSUME HubInv, NEW s \in Stream, Connect(s)
  PROVE  /\ gone' \subseteq 1 .. count'
         /\ Placed(Queues', Messages')
         /\ (\A t \in Stream : pc[t] = "unopened") /\ Sorted(Queues) => Sorted(Queues')
<1> DEFINE d == InReplay(s)
           K == Msg \ expired
           G == ToSet(buffer) \cap expired
<1>1. /\ TypeOK /\ Placed(Queues, Messages) /\ gone \subseteq 1 .. count /\ Idle
      /\ Filled(Queues)
  BY QueuesFilled DEF HubInv
<1>2. /\ pc[s] = "unopened" /\ buffer' = <<>> /\ UNCHANGED <<count, ch, received>>
      /\ replay' = [replay EXCEPT ![s] = Kept(buffer, K)]
      /\ gone' = gone \cup G
  BY DEF Connect, Begin, TakeBuffer, pruneExpired
<1>3. replay[s] = <<>> /\ replay'[s] = Kept(buffer, K)
      /\ \A t \in Stream \ {s} : replay'[t] = replay[t]
  BY <1>1, <1>2 DEF TypeOK, Idle
<1>4. /\ Queues[d] = <<>> /\ Queues'[InBuffer] = <<>>
      /\ Queues'[d] = Kept(Queues[InBuffer], K)
      /\ \A p \in Place \ {InBuffer, d} : Queues'[p] = Queues[p]
  <2>1. \A p \in Place \ {InBuffer, d} : Queues'[p] = Queues[p]
    BY <1>2, <1>3, PlacesAre, QueuesAre, NextQueuesAre
  <2> HIDE DEF K
  <2> QED
    BY <1>2, <1>3, <2>1, QueuesAre, NextQueuesAre
<1>5. \A m \in Nat :
        m \in G <=> m \notin K /\ \E i \in Nat : At(Queues, InBuffer, i, m)
  <2>1. buffer \in Seq(Msg) /\ expired \subseteq Msg
    BY <1>1 DEF TypeOK
  <2>2. \A m : m \in ToSet(buffer) <=> \E i \in DOMAIN buffer : buffer[i] = m
    BY DEF ToSet
  <2>3. \A m, i : At(Queues, InBuffer, i, m) <=> i \in DOMAIN buffer /\ buffer[i] = m
    BY <1>1, QueuesAre, PlacesAre, AtElement
  <2>4. \A i \in DOMAIN buffer : i \in Nat /\ buffer[i] \in Msg
    BY <2>1
  <2> QED
    BY <2>1, <2>2, <2>3, <2>4
<1>6. G \subseteq Messages
  <2> SUFFICES ASSUME NEW m \in G
               PROVE  m \in Messages
    OBVIOUS
  <2>1. m \in Nat
    <3>1. expired \subseteq Msg /\ m \in expired
      BY <1>1 DEF TypeOK
    <3> QED
      BY <3>1, HubAssumption DEF Msg
  <2> QED
    BY <1>1, <1>5, <2>1, PlacesAre DEF Placed, Inside
<1>7. Messages' = Messages \ G /\ gone' \subseteq 1 .. count'
  BY <1>1, <1>2, <1>6 DEF Messages
<1> HIDE DEF G, K, d
<1>8. Placed(Queues', Messages \ G)
  <2>1. InBuffer \in Place /\ d \in Place /\ InBuffer # d
    BY PlacesAre DEF d
  <2> QED
    BY <1>1, <1>4, <1>5, <2>1, TakePlaced
<1>9. ASSUME \A t \in Stream : pc[t] = "unopened", Sorted(Queues)
      PROVE  Sorted(Queues')
  <2>1. ch = <<>> /\ received = <<>> /\ \A t \in Stream : replay[t] = <<>>
    BY <1>1, <1>9 DEF Idle
  <2>2. \A p \in Place \ {d} : Queues'[p] = <<>>
    BY <1>4, <2>1, PlacesAre, QueuesAre
  <2>3. InBuffer \in Place /\ d \in Place
    BY PlacesAre DEF d
  <2> QED
    BY <1>1, <1>4, <1>9, <2>2, <2>3, TakeSorted
<1> QED
  BY <1>7, <1>8, <1>9

\* The first message of a replay or of the channel reaches the client or is lost.
LEMMA WriteQueues ==
  ASSUME HubInv, NEW s \in Stream, NEW p \in Place, p # AtClient, Queues[p] # <<>>,
         WriteMsg(s, Head(Queues[p])),
         Queues'[p] = Tail(Queues[p]),
         \A q \in Place \ {p, AtClient} : Queues'[q] = Queues[q],
         UNCHANGED count
  PROVE  /\ gone' \subseteq 1 .. count'
         /\ Placed(Queues', Messages')
         /\ /\ Sorted(Queues)
            /\ \A q \in Place \ {p, AtClient} : Queues[q] = <<>> \/ Rank(p) < Rank(q)
            => Sorted(Queues')
<1> DEFINE h == Head(Queues[p])
<1>1. /\ Placed(Queues, Messages) /\ gone \subseteq 1 .. count /\ Filled(Queues)
      /\ Once(Queues)
  BY QueuesFilled DEF HubInv, Placed
<1>2. AtClient \in Place
  BY PlacesAre
<1>3. CASE s \in up
  <2>1. received' = Append(received, h) /\ UNCHANGED gone
    BY <1>3 DEF WriteMsg
  <2>2. Queues'[AtClient] = Append(Queues[AtClient], h)
    BY <2>1, QueuesAre, NextQueuesAre
  <2>3. Messages' = Messages /\ gone' \subseteq 1 .. count'
    BY <1>1, <2>1 DEF Messages
  <2>4. Placed(Queues', Messages)
    BY <1>1, <1>2, <2>2, MovePlaced
  <2>5. /\ Sorted(Queues)
        /\ \A q \in Place \ {p, AtClient} : Queues[q] = <<>> \/ Rank(p) < Rank(q)
        => Sorted(Queues')
    BY <1>1, <1>2, <2>2, ReceiveSorted
  <2> QED
    BY <2>3, <2>4, <2>5
<1>4. CASE s \notin up
  <2>1. gone' = gone \cup {h} /\ UNCHANGED received
    BY <1>4 DEF WriteMsg
  <2>2. \A q \in Place \ {p} : Queues'[q] = Queues[q]
    BY <2>1, QueuesAre, NextQueuesAre
  <2>3. Placed(Queues', Messages \ {h}) /\ h \in Messages
    BY <1>1, <2>2, DropPlaced
  <2>4. Messages' = Messages \ {h} /\ gone' \subseteq 1 .. count'
    BY <1>1, <2>1, <2>3 DEF Messages
  <2>5. Sorted(Queues) => Sorted(Queues')
    BY <1>1, <2>2, DropSorted
  <2> QED
    BY <2>3, <2>4, <2>5
<1> QED
  BY <1>3, <1>4

\* One message of a replay is written.  A stream that is alone writes it before any of
\* the channel.
LEMMA ReplayQueues ==
  ASSUME HubInv, NEW s \in Stream, ReplayMsg(s)
  PROVE  /\ gone' \subseteq 1 .. count'
         /\ Placed(Queues', Messages')
         /\ OneStream /\ Sorted(Queues) => Sorted(Queues')
<1> DEFINE p == InReplay(s)
<1>1. TypeOK /\ Idle
  BY DEF HubInv
<1>2. /\ pc[s] = "replaying" /\ replay[s] # <<>> /\ WriteMsg(s, Head(replay[s]))
      /\ UNCHANGED <<count, ch, buffer>>
      /\ replay' = [replay EXCEPT ![s] = Tail(replay[s])]
  BY DEF ReplayMsg, conn
<1>3. replay'[s] = Tail(replay[s]) /\ \A t \in Stream \ {s} : replay'[t] = replay[t]
  BY <1>1, <1>2 DEF TypeOK
<1>4. /\ p \in Place /\ p # AtClient /\ Queues[p] = replay[s]
      /\ Queues'[p] = Tail(Queues[p])
      /\ \A q \in Place \ {p, AtClient} : Queues'[q] = Queues[q]
  BY <1>2, <1>3, PlacesAre, QueuesAre, NextQueuesAre
<1>5. ASSUME OneStream
      PROVE  \A q \in Place \ {p, AtClient} : Queues[q] = <<>> \/ Rank(p) < Rank(q)
  <2>1. \A t \in Stream \ {s} : replay[t] = <<>>
    BY <1>1, <1>2, <1>5 DEF Idle, OneStream
  <2> QED
    BY <2>1, PlacesAre, QueuesAre, RanksAre
<1> HIDE DEF p
<1> QED
  BY <1>2, <1>4, <1>5, WriteQueues

\* One message of the channel is written.  A stream that is alone has replayed all.
LEMMA DeliverQueues ==
  ASSUME HubInv, NEW s \in Stream, Deliver(s)
  PROVE  /\ gone' \subseteq 1 .. count'
         /\ Placed(Queues', Messages')
         /\ OneStream /\ Sorted(Queues) => Sorted(Queues')
<1>1. TypeOK /\ Idle
  BY DEF HubInv
<1>2. /\ pc[s] = "streaming" /\ ch # <<>> /\ WriteMsg(s, Head(ch)) /\ ch' = Tail(ch)
      /\ UNCHANGED <<count, buffer, replay>>
  BY DEF Deliver
<1>3. /\ InChannel \in Place /\ InChannel # AtClient /\ Queues[InChannel] = ch
      /\ Queues'[InChannel] = Tail(Queues[InChannel])
      /\ \A q \in Place \ {InChannel, AtClient} : Queues'[q] = Queues[q]
  BY <1>2, PlacesAre, QueuesAre, NextQueuesAre
<1>4. ASSUME OneStream
      PROVE  \A q \in Place \ {InChannel, AtClient} :
               Queues[q] = <<>> \/ Rank(InChannel) < Rank(q)
  <2>1. \A t \in Stream : replay[t] = <<>>
    BY <1>1, <1>2, <1>4 DEF Idle, OneStream
  <2> QED
    BY <2>1, PlacesAre, QueuesAre, RanksAre
<1> QED
  BY <1>2, <1>3, <1>4, WriteQueues

-----------------------------------------------------------------------------
(***************************************************************************)
(* Streams.                                                                *)
(***************************************************************************)

\* Every step leaves behind what Idle says.
LEMMA NextIdle == HubInv /\ [Next]_vars => Idle'
<1> SUFFICES ASSUME HubInv, [Next]_vars
             PROVE  Idle'
  OBVIOUS
<1>1. TypeOK /\ Idle /\ OpenInv
  BY DEF HubInv
<1>2. CASE Publish
  <2>1. UNCHANGED <<active, pc, replay, received>>
        /\ (active => UNCHANGED buffer) /\ (~ active => UNCHANGED ch)
    BY <1>2 DEF Publish, PublishLive, PublishDropped, PublishBuffered, NextMsg
  <2> QED
    BY <1>1, <2>1 DEF Idle
<1>3. ASSUME NEW m \in Msg, Expire(m)
      PROVE  Idle'
  BY <1>1, <1>3 DEF Idle, Expire, conn
<1>4. ASSUME NEW s \in Stream, Connect(s)
      PROVE  Idle'
  <2>1. /\ pc' = [pc EXCEPT ![s] = "replaying"] /\ buffer' = <<>>
        /\ replay' = [replay EXCEPT ![s] = pruneExpired(buffer)]
    BY <1>4 DEF Connect, Begin, TakeBuffer
  <2>2. pc'[s] = "replaying" /\ \A t \in Stream \ {s} : pc'[t] = pc[t] /\ replay'[t] = replay[t]
    BY <1>1, <2>1 DEF TypeOK
  <2> QED
    BY <1>1, <2>1, <2>2 DEF Idle
<1>5. ASSUME NEW s \in Stream, ReplayMsg(s)
      PROVE  Idle'
  <2>1. /\ UNCHANGED <<active, buffer, pc>> /\ pc[s] = "replaying"
        /\ \A t \in Stream \ {s} : replay'[t] = replay[t]
    BY <1>1, <1>5 DEF ReplayMsg, conn, TypeOK
  <2> QED
    BY <1>1, <2>1 DEF Idle
<1>6. ASSUME NEW s \in Stream, StartStreaming(s)
      PROVE  Idle'
  <2>1. /\ UNCHANGED <<active, buffer, replay>> /\ replay[s] = <<>>
        /\ pc'[s] = "streaming" /\ \A t \in Stream \ {s} : pc'[t] = pc[t]
    BY <1>1, <1>6 DEF StartStreaming, conn, TypeOK
  <2> QED
    BY <1>1, <2>1 DEF Idle
<1>7. ASSUME NEW s \in Stream, Deliver(s)
      PROVE  Idle'
  <2>1. UNCHANGED <<active, buffer, pc, replay>> /\ pc[s] = "streaming"
    BY <1>7 DEF Deliver
  <2> QED
    BY <1>1, <2>1 DEF Idle
<1>8. ASSUME NEW s \in Stream, ClientDisconnected(s)
      PROVE  Idle'
  <2>1. /\ active' = FALSE /\ UNCHANGED replay /\ pc[s] = "streaming"
        /\ pc'[s] = "closed" /\ \A t \in Stream \ {s} : pc'[t] = pc[t]
    BY <1>1, <1>8 DEF ClientDisconnected, TypeOK
  <2> QED
    BY <1>1, <2>1 DEF Idle
<1>9. ASSUME NEW s \in Stream, Drop(s)
      PROVE  Idle'
  BY <1>1, <1>9 DEF Idle, Drop, conn
<1>10. CASE UNCHANGED vars
  BY <1>1, <1>10 DEF Idle, vars, conn
<1> QED
  BY <1>2, <1>3, <1>4, <1>5, <1>6, <1>7, <1>8, <1>9, <1>10 DEF Next, ServeSignals

\* Steps that neither open nor close a stream, nor touch active.
LEMMA QuietOpenInv ==
  ASSUME TypeOK, OpenInv, UNCHANGED <<active, overlapped>>,
         \/ UNCHANGED pc
         \/ \E s \in Stream : StartStreaming(s)
  PROVE  OpenInv'
<1>1. CASE UNCHANGED pc
  BY <1>1 DEF OpenInv, AtMostOne, ActiveWhileServing, Open
<1>2. ASSUME NEW s \in Stream, StartStreaming(s)
      PROVE  OpenInv'
  <2>1. \A t \in Stream : Open(t)' <=> Open(t)
    BY <1>2 DEF TypeOK, Location, StartStreaming, Open
  <2> QED
    BY <2>1 DEF OpenInv, AtMostOne, ActiveWhileServing
<1> QED
  BY <1>1, <1>2

\* A stream that opens while none is open is the only one, and makes the
\* clientConn active whatever happened before.
LEMMA ConnectOpenInv ==
  ASSUME TypeOK, OpenInv, NEW s \in Stream, Connect(s)
  PROVE  OpenInv'
<1>1. active' /\ pc' = [pc EXCEPT ![s] = "replaying"]
      /\ (overlapped' <=> \E t \in Stream : Open(t))
  BY DEF Connect, Begin
<1>2. ASSUME ~ overlapped'
      PROVE  AtMostOne'
  BY <1>1, <1>2 DEF TypeOK, AtMostOne, Open
<1> QED
  BY <1>1, <1>2 DEF OpenInv, ActiveWhileServing

\* The only stream that is open is the one that ends.
LEMMA DisconnectOpenInv ==
  ASSUME TypeOK, OpenInv, NEW s \in Stream, ClientDisconnected(s)
  PROVE  OpenInv'
<1>1. Open(s) /\ pc' = [pc EXCEPT ![s] = "closed"] /\ UNCHANGED overlapped
  BY DEF ClientDisconnected, Open
<1>2. ASSUME ~ overlapped
      PROVE  \A t \in Stream : ~ Open(t)'
  BY <1>1, <1>2 DEF TypeOK, OpenInv, AtMostOne, Open
<1> QED
  BY <1>1, <1>2 DEF OpenInv, AtMostOne, ActiveWhileServing

\* Every step keeps the account of open streams.
LEMMA NextOpenInv == HubInv /\ [Next]_vars => OpenInv'
<1> SUFFICES ASSUME HubInv, [Next]_vars
             PROVE  OpenInv'
  OBVIOUS
<1>1. TypeOK /\ OpenInv
  BY DEF HubInv
<1>2. CASE Publish \/ \E m \in Msg : Expire(m)
  <2>1. UNCHANGED <<active, pc, overlapped>>
    BY <1>2 DEF Publish, PublishLive, PublishDropped, PublishBuffered, NextMsg,
       Expire, conn
  <2> QED
    BY <1>1, <2>1, QuietOpenInv
<1>3. ASSUME NEW s \in Stream, ReplayMsg(s) \/ StartStreaming(s) \/ Deliver(s) \/ Drop(s)
      PROVE  OpenInv'
  <2>1. UNCHANGED <<active, overlapped>> /\ (UNCHANGED pc \/ StartStreaming(s))
    BY <1>3 DEF ReplayMsg, StartStreaming, Deliver, Drop, conn
  <2> QED
    BY <1>1, <2>1, QuietOpenInv
<1>4. CASE UNCHANGED vars
  BY <1>1, <1>4, QuietOpenInv DEF vars, conn
<1> QED
  BY <1>1, <1>2, <1>3, <1>4, ConnectOpenInv, DisconnectOpenInv DEF Next, ServeSignals

\* No stream goes back to unopened.
LEMMA OneStreamBefore ==
  ASSUME TypeOK, [Next]_vars, OneStream'
  PROVE  /\ OneStream
         /\ \A s \in Stream : Connect(s) => \A t \in Stream : pc[t] = "unopened"
<1>1. \A t \in Stream : pc[t] # "unopened" => pc'[t] # "unopened"
  <2>1. ASSUME NEW s \in Stream, Connect(s) \/ ServeSignals(s) \/ Drop(s)
        PROVE  \A t \in Stream : pc[t] # "unopened" => pc'[t] # "unopened"
    BY <2>1 DEF TypeOK, Connect, Begin, ServeSignals, ReplayMsg, StartStreaming, Deliver,
       ClientDisconnected, Drop
  <2>2. CASE Publish \/ \E m \in Msg : Expire(m)
    BY <2>2 DEF Publish, PublishLive, PublishDropped, PublishBuffered, NextMsg, Expire
  <2>3. CASE UNCHANGED vars
    BY <2>3 DEF vars
  <2> QED
    BY <2>1, <2>2, <2>3 DEF Next
<1>2. OneStream
  BY <1>1 DEF OneStream
<1>3. ASSUME NEW s \in Stream, Connect(s), NEW t \in Stream, pc[t] # "unopened"
      PROVE  FALSE
  <2>1. pc[s] = "unopened" /\ pc'[s] # "unopened" /\ pc'[t] # "unopened"
    BY <1>1, <1>3 DEF TypeOK, Connect, Begin
  <2> QED
    BY <1>3, <2>1 DEF OneStream
<1> QED
  BY <1>2, <1>3

-----------------------------------------------------------------------------
(***************************************************************************)
(* Theorems.                                                               *)
(***************************************************************************)

\* Every step preserves the invariant.
LEMMA NextHubInv == HubInv /\ [Next]_vars => HubInv'
<1> SUFFICES ASSUME HubInv, [Next]_vars
             PROVE  HubInv'
  OBVIOUS
<1>1. TypeOK /\ (OneStream => Sorted(Queues))
  BY DEF HubInv
<1>2. TypeOK' /\ Idle' /\ OpenInv'
  BY <1>1, NextTypes, NextIdle, NextOpenInv
<1>3. OneStream' =>
        OneStream /\ \A s \in Stream : Connect(s) => \A t \in Stream : pc[t] = "unopened"
  BY <1>1, OneStreamBefore
<1> DEFINE Good == /\ gone' \subseteq 1 .. count'
                   /\ Placed(Queues', Messages')
                   /\ OneStream' => Sorted(Queues')
<1>4. ASSUME Publish
      PROVE  Good
  BY <1>1, <1>3, <1>4, PublishQueues
<1>5. ASSUME NEW m \in Msg, Expire(m)
      PROVE  Good
  <2>1. UNCHANGED <<count, ch, buffer, replay, received, gone>>
    BY <1>5 DEF Expire, conn
  <2> QED
    BY <1>1, <1>3, <2>1, QuietQueues
<1>6. ASSUME NEW s \in Stream, Connect(s)
      PROVE  Good
  BY <1>1, <1>3, <1>6, ConnectQueues
<1>7. ASSUME NEW s \in Stream, ReplayMsg(s)
      PROVE  Good
  BY <1>1, <1>3, <1>7, ReplayQueues
<1>8. ASSUME NEW s \in Stream, Deliver(s)
      PROVE  Good
  BY <1>1, <1>3, <1>8, DeliverQueues
<1>9. ASSUME NEW s \in Stream, StartStreaming(s) \/ ClientDisconnected(s) \/ Drop(s)
      PROVE  Good
  <2>1. UNCHANGED <<count, ch, buffer, replay, received, gone>>
    BY <1>9 DEF StartStreaming, ClientDisconnected, Drop, conn
  <2> QED
    BY <1>1, <1>3, <2>1, QuietQueues
<1>10. ASSUME UNCHANGED vars
       PROVE  Good
  <2>1. UNCHANGED <<count, ch, buffer, replay, received, gone>>
    BY <1>10 DEF vars, conn
  <2> QED
    BY <1>1, <1>3, <2>1, QuietQueues
<1>11. Good
  BY <1>4, <1>5, <1>6, <1>7, <1>8, <1>9, <1>10 DEF Next, ServeSignals
<1> QED
  BY <1>2, <1>11 DEF HubInv

\* The invariant holds throughout.
LEMMA HubInvariant == Spec => []HubInv
BY InitHubInv, NextHubInv, PTL DEF Spec

\* The variables hold what they are declared to hold; the channel never exceeds
\* its capacity.
THEOREM TypeCorrect == Spec => []TypeOK
<1>1. HubInv => TypeOK
  BY DEF HubInv
<1> QED
  BY <1>1, HubInvariant, PTL

\* A signal is never delivered twice and never vanishes, whatever the streams of
\* the client do and however the messages expire.
THEOREM OnePlace == Spec => []ExactlyOnePlace
<1>1. ASSUME HubInv
      PROVE  ExactlyOnePlace
  <2> SUFFICES ASSUME NEW m \in 1 .. count
               PROVE  \E o \in Places(m) : Places(m) = {o}
    BY DEF ExactlyOnePlace
  <2>1. /\ Once(Queues) /\ Inside(Queues, Messages) /\ Covers(Queues, Messages)
        /\ Filled(Queues) /\ count \in Nat
    BY <1>1, QueuesFilled DEF HubInv, Placed, TypeOK
  <2>2. m \in Nat
    BY <2>1
  <2> DEFINE where(p) == {i \in DOMAIN Queues[p] : Queues[p][i] = m}
             found == UNION {{p} \X where(p) : p \in Place}
             lost == <<"gone", 0>>
  <2>3. \A p \in Place : \A i : i \in where(p) <=> i \in Nat /\ At(Queues, p, i, m)
    BY <2>1, AtElement
  <2>4. Places(m) = found \cup (IF m \in gone THEN {lost} ELSE {})
    BY DEF Places
  <2> HIDE DEF where, lost, found
  <2>5. CASE m \in gone
    <3>1. \A p \in Place : where(p) = {}
      BY <2>1, <2>2, <2>3, <2>5 DEF Inside, Messages
    <3>2. found = {}
      BY <3>1 DEF found
    <3>3. Places(m) = {lost}
      BY <2>4, <2>5, <3>2
    <3> QED
      BY <3>3
  <2>6. CASE m \notin gone
    <3>1. m \in Messages
      BY <2>6 DEF Messages
    <3>2. PICK p \in Place : \E i \in Nat : At(Queues, p, i, m)
      BY <2>1, <3>1 DEF Covers
    <3>3. PICK i \in Nat : At(Queues, p, i, m)
      BY <3>2
    <3>4. \A q \in Place : \A j : j \in where(q) <=> q = p /\ j = i
      BY <2>1, <2>2, <2>3, <3>3 DEF Once
    <3>5. where(p) = {i} /\ \A q \in Place \ {p} : where(q) = {}
      BY <3>4
    <3>6. found = {<<p, i>>}
      BY <3>5 DEF found
    <3>7. Places(m) = {<<p, i>>}
      BY <2>4, <2>6, <3>6
    <3> QED
      BY <3>7
  <2> QED
    BY <2>5, <2>6
<1> QED
  BY <1>1, HubInvariant, PTL

\* Of a client whose streams do not overlap, signals are only buffered while none
\* is open, and again so as soon as the streams of an overlap have all ended.
THEOREM BuffersOnlyWhileAway == Spec => []ActiveWhileServing
<1>1. HubInv => ActiveWhileServing
  BY DEF HubInv, OpenInv
<1> QED
  BY <1>1, HubInvariant, PTL

\* Until one of its streams ends, a client gets its signals in the order in which
\* they were published, however many wait in the buffer and in the channel.
THEOREM FirstStreamOrdered == Spec => []OrderedInFirstStream
<1>1. ASSUME HubInv, \A s \in Stream : pc[s] # "closed", ~ overlapped,
             NEW i \in DOMAIN received, NEW j \in DOMAIN received, i < j
      PROVE  received[i] < received[j]
  <2>1. TypeOK /\ OpenInv /\ Filled(Queues)
    BY <1>1, QueuesFilled DEF HubInv
  <2>2. \A s \in Stream : pc[s] # "unopened" => Open(s)
    BY <1>1, <2>1 DEF TypeOK, Location, Open
  <2>3. OneStream
    BY <1>1, <2>1, <2>2 DEF OneStream, OpenInv, AtMostOne
  <2>4. /\ At(Queues, AtClient, i, received[i]) /\ At(Queues, AtClient, j, received[j])
        /\ AtClient \in Place
    BY <2>1, PlacesAre, QueuesAre, AtElement
  <2>5. /\ i \in Nat /\ j \in Nat /\ received[i] \in Nat /\ received[j] \in Nat
    BY <2>1, <2>4, AtElement
  <2>6. Before(AtClient, i, AtClient, j)
    BY <1>1 DEF Before
  <2> QED
    BY <1>1, <2>3, <2>4, <2>5, <2>6 DEF HubInv, Sorted
<1>2. HubInv => OrderedInFirstStream
  BY <1>1 DEF OrderedInFirstStream
<1> QED
  BY <1>2, HubInvariant, PTL
=============================================================================
