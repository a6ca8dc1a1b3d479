--------------------------- MODULE EndpointsProofs ---------------------------
(***************************************************************************)
(* Theorems about Endpoints for any configuration files, requests and      *)
(* fields and any number of vault entries and Formal Tracks: a speculative *)
(* answer withholds and announces what the file says, and a document is    *)
(* served only for the resource and the query it was fetched for, but for  *)
(* ids with a colon.                                                       *)
(***************************************************************************)
EXTENDS Endpoints, WellFoundedInduction, TLAPS

-----------------------------------------------------------------------------
(***************************************************************************)
(* Paths and keys.                                                         *)
(***************************************************************************)

\* A set of numbers that is not empty has a least element.
LEMMA LeastExists ==
  ASSUME NEW S, S \subseteq Nat, S # {}
  PROVE  \E i \in S : \A j \in S : i <= j
<1> DEFINE R == OpToRel(<, Nat)
<1>1. \A i, j \in Nat : <<i, j>> \in R <=> i < j
  BY DEF OpToRel
<1>2. IsWellFoundedOn(R, Nat)
  BY NatLessThanWellFounded
<1> HIDE DEF R
<1>3. PICK x \in S : \A y \in S : ~ (<<y, x>> \in R)
  BY <1>2, WFMin
<1>4. \A y \in S : ~ (y < x)
  BY <1>1, <1>3
<1>5. \A y \in S : x <= y
  BY <1>4
<1> QED
  BY <1>5

\* Two sequences joined by a token.
LEMMA Joined ==
  ASSUME NEW T, NEW a \in Seq(T), NEW c \in T, NEW b \in Seq(T)
  PROVE  /\ a \o <<c>> \o b \in Seq(T) /\ Len(a \o <<c>> \o b) = Len(a) + 1 + Len(b)
         /\ \A i \in 1 .. Len(a) : (a \o <<c>> \o b)[i] = a[i]
         /\ (a \o <<c>> \o b)[Len(a) + 1] = c
         /\ \A i \in 1 .. Len(b) : (a \o <<c>> \o b)[Len(a) + 1 + i] = b[i]
<1> DEFINE ac == a \o <<c>>
<1>1. /\ ac \in Seq(T) /\ Len(ac) = Len(a) + 1
      /\ \A i \in 1 .. Len(a) : ac[i] = a[i]
      /\ ac[Len(a) + 1] = c
      /\ Len(a) \in Nat /\ Len(b) \in Nat
  OBVIOUS
<1> HIDE DEF ac
<1>2. /\ ac \o b \in Seq(T) /\ Len(ac \o b) = Len(ac) + Len(b)
      /\ \A i \in 1 .. Len(ac) : (ac \o b)[i] = ac[i]
      /\ \A i \in 1 .. Len(b) : (ac \o b)[Len(ac) + i] = b[i]
  BY <1>1
<1>3. /\ \A i \in 1 .. Len(a) : i \in 1 .. Len(ac)
      /\ Len(a) + 1 \in 1 .. Len(ac)
  BY <1>1
<1> QED
  BY <1>1, <1>2, <1>3 DEF ac

\* A path a resource and an id can be cut from: it begins with a slash and has no
\* question mark.
Whole(p, T) ==
  /\ p \in Seq(T) /\ Len(p) \in Nat \ {0} /\ p[1] = Slash
  /\ \A i \in 1 .. Len(p) : p[i] # Question

\* A cleaned path is one.
LEMMA CleanIsWhole ==
  ASSUME NEW T, Slash \in T, Slash # Question, NEW path \in Seq(T),
         \A i \in 1 .. Len(path) : path[i] # Question
  PROVE  Whole(Clean(path), T)
<1> DEFINE rooted == IF path # <<>> /\ Head(path) = Slash THEN path ELSE <<Slash>> \o path
<1>1. Whole(rooted, T)
  <2>1. CASE path # <<>> /\ Head(path) = Slash
    BY <2>1 DEF Whole
  <2>2. CASE ~(path # <<>> /\ Head(path) = Slash)
    <3>1. /\ <<Slash>> \o path \in Seq(T)
          /\ Len(<<Slash>> \o path) = 1 + Len(path)
          /\ (<<Slash>> \o path)[1] = Slash
          /\ \A i \in 2 .. 1 + Len(path) : (<<Slash>> \o path)[i] = path[i - 1]
      OBVIOUS
    <3>2. rooted = <<Slash>> \o path
      BY <2>2
    <3> HIDE DEF rooted
    <3>3. Len(path) \in Nat
      OBVIOUS
    <3>4. ASSUME NEW i \in 1 .. Len(rooted)
          PROVE  rooted[i] # Question
      <4>1. CASE i = 1
        BY <3>1, <3>2, <4>1
      <4>2. CASE i # 1
        <5>1. i \in 2 .. 1 + Len(path) /\ i - 1 \in 1 .. Len(path)
          BY <3>1, <3>2, <3>3, <4>2
        <5> QED
          BY <3>1, <3>2, <5>1
      <4> QED
        BY <4>1, <4>2
    <3> QED
      BY <3>1, <3>2, <3>3, <3>4 DEF Whole
  <2> QED
    BY <2>1, <2>2
<1>2. Clean(path) = IF Len(rooted) > 1 /\ Last(rooted) = Slash THEN Front(rooted) ELSE rooted
  BY DEF Clean
<1> HIDE DEF rooted
<1>3. ASSUME Len(rooted) > 1
      PROVE  Whole(Front(rooted), T)
  <2>1. /\ SubSeq(rooted, 1, Len(rooted) - 1) \in Seq(T)
        /\ Len(SubSeq(rooted, 1, Len(rooted) - 1)) = Len(rooted) - 1
        /\ \A i \in 1 .. Len(rooted) - 1 : SubSeq(rooted, 1, Len(rooted) - 1)[i] = rooted[i]
    BY <1>1, <1>3 DEF Whole
  <2> QED
    BY <1>1, <1>3, <2>1 DEF Whole, Front
<1> QED
  BY <1>1, <1>2, <1>3

\* It has a last slash.
LEMMA LastSlashIs ==
  ASSUME NEW T, NEW p, Whole(p, T)
  PROVE  LastSlash(p) \in 1 .. Len(p) /\ p[LastSlash(p)] = Slash
<1> DEFINE n == Len(p)
           left == {n - i : i \in Slashes(p)}
<1>1. DOMAIN p = 1 .. n /\ n \in Nat \ {0} /\ 1 \in Slashes(p)
  BY DEF Whole, Slashes
<1>2. Slashes(p) \subseteq 1 .. n
  BY <1>1 DEF Slashes
<1> HIDE DEF n
<1>3. left \subseteq Nat /\ left # {}
  BY <1>1, <1>2
<1>4. PICK d \in left : \A e \in left : d <= e
  <2> HIDE DEF left
  <2> QED
    BY <1>3, LeastExists
<1>5. PICK s \in Slashes(p) : d = n - s
  BY <1>4
<1>6. \A i \in Slashes(p) : s >= i
  <2>1. TAKE i \in Slashes(p)
  <2>2. n - i \in left /\ i \in 1 .. n /\ s \in 1 .. n
    BY <1>2
  <2>3. n - s <= n - i
    BY <1>4, <1>5, <2>2
  <2> HIDE DEF left
  <2> QED
    BY <1>1, <2>2, <2>3
<1>7. LastSlash(p) \in Slashes(p)
  BY <1>5, <1>6 DEF LastSlash, Max
<1>8. \A i \in Slashes(p) : p[i] = Slash
  BY DEF Slashes
<1>9. LastSlash(p) \in 1 .. n /\ p[LastSlash(p)] = Slash
  BY <1>2, <1>7, <1>8, Zenon
<1> QED
  BY <1>9 DEF n

\* The string a resource and an id are joined to: the cleaned path without its first
\* slash, and with a colon for its last.
LEMMA JoinIs ==
  ASSUME NEW T, NEW p, Whole(p, T), Colon \in T, Colon # Question, NEW s \in 2 .. Len(p)
  PROVE  LET k == SubSeq(p, 2, s - 1) \o <<Colon>> \o SubSeq(p, s + 1, Len(p)) IN
         /\ k \in Seq(T) /\ Len(k) = Len(p) - 1
         /\ \A i \in 1 .. Len(p) - 1 : k[i] = IF i = s - 1 THEN Colon ELSE p[i + 1]
         /\ \A i \in 1 .. Len(p) - 1 : k[i] # Question
<1> DEFINE a == SubSeq(p, 2, s - 1)
           b == SubSeq(p, s + 1, Len(p))
           k == a \o <<Colon>> \o b
<1>1. p \in Seq(T) /\ Len(p) \in Nat /\ s \in 2 .. Len(p)
  BY DEF Whole
<1>2. /\ a \in Seq(T) /\ Len(a) = s - 2
      /\ \A i \in 1 .. s - 2 : a[i] = p[i + 1]
  <2>1. CASE s = 2
    <3>1. SubSeq(p, 2, 1) = <<>> /\ <<>> \in Seq(T) /\ Len(<<>>) = 0
      BY <1>1
    <3> QED
      BY <2>1, <3>1
  <2>2. CASE s # 2
    BY <1>1, <2>2
  <2> QED
    BY <2>1, <2>2
<1>3. /\ b \in Seq(T) /\ Len(b) = Len(p) - s
      /\ \A i \in 1 .. Len(p) - s : b[i] = p[s + i]
  <2>1. CASE s = Len(p)
    <3>1. SubSeq(p, s + 1, s) = <<>> /\ <<>> \in Seq(T) /\ Len(<<>>) = 0
      BY <1>1
    <3> QED
      BY <2>1, <3>1
  <2>2. CASE s # Len(p)
    BY <1>1, <2>2
  <2> QED
    BY <2>1, <2>2
<1> HIDE DEF a, b
<1>4. /\ k \in Seq(T) /\ Len(k) = Len(a) + 1 + Len(b)
      /\ \A i \in 1 .. Len(a) : k[i] = a[i]
      /\ k[Len(a) + 1] = Colon
      /\ \A i \in 1 .. Len(b) : k[Len(a) + 1 + i] = b[i]
  <2>1. a \in Seq(T) /\ b \in Seq(T) /\ Colon \in T
    BY <1>2, <1>3
  <2> QED
    BY <2>1, Joined
<1> HIDE DEF k
<1>5. Len(k) = Len(p) - 1
  BY <1>1, <1>2, <1>3, <1>4
<1>6. ASSUME NEW i \in 1 .. Len(p) - 1
      PROVE  k[i] = IF i = s - 1 THEN Colon ELSE p[i + 1]
  <2>1. CASE i < s - 1
    <3>1. i \in 1 .. Len(a) /\ i \in 1 .. s - 2
      BY <1>1, <1>2, <2>1
    <3>2. k[i] = p[i + 1]
      BY <1>2, <1>4, <3>1, Zenon
    <3> QED
      BY <2>1, <3>2
  <2>2. CASE i = s - 1
    BY <1>1, <1>2, <1>4, <2>2
  <2>3. CASE i > s - 1
    <3> DEFINE m == i - (s - 1)
    <3>1. m \in 1 .. Len(p) - s /\ i = (s - 2) + 1 + m /\ s + m = i + 1
      BY <1>1, <2>3
    <3> HIDE DEF m
    <3>2. k[i] = b[m] /\ b[m] = p[s + m]
      BY <1>2, <1>3, <1>4, <3>1
    <3> QED
      BY <2>3, <3>1, <3>2, <1>1
  <2> QED
    BY <1>1, <2>1, <2>2, <2>3
<1>7. ASSUME NEW i \in 1 .. Len(p) - 1
      PROVE  k[i] # Question
  <2>1. i + 1 \in 1 .. Len(p)
    BY <1>1
  <2> QED
    BY <1>6, <2>1 DEF Whole
<1> QED
  BY <1>4, <1>5, <1>6, <1>7 DEF k, a, b

\* Two paths that are joined to one string, and have no colon in the id, are the same.
LEMMA JoinTellsPaths ==
  ASSUME NEW T, NEW U, NEW p, NEW o, Whole(p, T), Whole(o, U),
         NEW s \in 2 .. Len(p), NEW t \in 2 .. Len(o), p[s] = Slash, o[t] = Slash,
         Len(p) = Len(o),
         \A i \in 1 .. Len(p) - 1 :
           (IF i = s - 1 THEN Colon ELSE p[i + 1]) = (IF i = t - 1 THEN Colon ELSE o[i + 1]),
         \A i \in s + 1 .. Len(p) : p[i] # Colon,
         \A i \in t + 1 .. Len(o) : o[i] # Colon
  PROVE  p = o
<1>1. /\ p \in Seq(T) /\ o \in Seq(U) /\ Len(p) \in Nat \ {0}
      /\ p[1] = Slash /\ o[1] = Slash
  BY DEF Whole
<1>2. ~ (s < t)
  <2> SUFFICES ASSUME s < t
               PROVE  FALSE
    OBVIOUS
  <2>1. t - 1 \in 1 .. Len(p) - 1 /\ t - 1 # s - 1 /\ (t - 1) + 1 = t /\ t \in s + 1 .. Len(p)
    BY <1>1
  <2>2. p[t] = Colon
    BY <2>1
  <2> QED
    BY <2>1, <2>2
<1>3. ~ (t < s)
  <2> SUFFICES ASSUME t < s
               PROVE  FALSE
    OBVIOUS
  <2>1. s - 1 \in 1 .. Len(p) - 1 /\ t - 1 # s - 1 /\ (s - 1) + 1 = s /\ s \in t + 1 .. Len(o)
    BY <1>1
  <2>2. o[s] = Colon
    BY <2>1
  <2> QED
    BY <2>1, <2>2
<1>4. s = t
  BY <1>1, <1>2, <1>3
<1>5. ASSUME NEW i \in 1 .. Len(p)
      PROVE  p[i] = o[i]
  <2>1. CASE i = 1 \/ i = s
    BY <1>1, <1>4, <2>1
  <2>2. CASE i # 1 /\ i # s
    <3>1. i - 1 \in 1 .. Len(p) - 1 /\ i - 1 # s - 1 /\ (i - 1) + 1 = i
      BY <1>1, <2>2
    <3> QED
      BY <1>4, <3>1
  <2> QED
    BY <2>1, <2>2
<1>6. p = [i \in 1 .. Len(p) |-> p[i]] /\ o = [i \in 1 .. Len(o) |-> o[i]]
  BY <1>1
<1> QED
  BY <1>5, <1>6

\* Two strings, each with a query after a question mark or without one, are the same only
\* if they are the same before the question mark and after it.
LEMMA QueryIsApart ==
  ASSUME NEW T, NEW k \in Seq(T), NEW q \in Seq(T), NEW j \in Seq(T), NEW o \in Seq(T),
         Question \in T,
         \A i \in 1 .. Len(k) : k[i] # Question, \A i \in 1 .. Len(j) : j[i] # Question,
         (IF q = <<>> THEN k ELSE k \o <<Question>> \o q)
           = (IF o = <<>> THEN j ELSE j \o <<Question>> \o o)
  PROVE  k = j /\ q = o
<1>1. Len(k) \in Nat /\ Len(j) \in Nat /\ Len(q) \in Nat /\ Len(o) \in Nat
  OBVIOUS
<1>2. /\ Len(k \o <<Question>> \o q) = Len(k) + 1 + Len(q)
      /\ \A i \in 1 .. Len(k) : (k \o <<Question>> \o q)[i] = k[i]
      /\ (k \o <<Question>> \o q)[Len(k) + 1] = Question
      /\ \A i \in 1 .. Len(q) : (k \o <<Question>> \o q)[Len(k) + 1 + i] = q[i]
  BY Joined
<1>3. /\ Len(j \o <<Question>> \o o) = Len(j) + 1 + Len(o)
      /\ \A i \in 1 .. Len(j) : (j \o <<Question>> \o o)[i] = j[i]
      /\ (j \o <<Question>> \o o)[Len(j) + 1] = Question
      /\ \A i \in 1 .. Len(o) : (j \o <<Question>> \o o)[Len(j) + 1 + i] = o[i]
  BY Joined
<1> DEFINE kq == k \o <<Question>> \o q
           jo == j \o <<Question>> \o o
<1> HIDE DEF kq, jo
<1>4. /\ Len(kq) = Len(k) + 1 + Len(q) /\ Len(jo) = Len(j) + 1 + Len(o)
      /\ kq[Len(k) + 1] = Question /\ jo[Len(j) + 1] = Question
      /\ \A i \in 1 .. Len(k) : kq[i] = k[i]
      /\ \A i \in 1 .. Len(j) : jo[i] = j[i]
      /\ \A i \in 1 .. Len(q) : kq[Len(k) + 1 + i] = q[i]
      /\ \A i \in 1 .. Len(o) : jo[Len(j) + 1 + i] = o[i]
      /\ (IF q = <<>> THEN k ELSE kq) = (IF o = <<>> THEN j ELSE jo)
  BY <1>2, <1>3 DEF kq, jo
<1>5. CASE q = <<>> /\ o = <<>>
  BY <1>4, <1>5
<1>6. ~ (q # <<>> /\ o = <<>>)
  <2> SUFFICES ASSUME q # <<>>, o = <<>>
               PROVE  FALSE
    OBVIOUS
  <2>1. kq = j
    BY <1>4
  <2>2. Len(k) + 1 \in 1 .. Len(j)
    BY <1>1, <1>4, <2>1
  <2> QED
    BY <1>4, <2>1, <2>2
<1>7. ~ (q = <<>> /\ o # <<>>)
  <2> SUFFICES ASSUME q = <<>>, o # <<>>
               PROVE  FALSE
    OBVIOUS
  <2>1. jo = k
    BY <1>4
  <2>2. Len(j) + 1 \in 1 .. Len(k)
    BY <1>1, <1>4, <2>1
  <2> QED
    BY <1>4, <2>1, <2>2
<1>8. CASE q # <<>> /\ o # <<>>
  <2>1. kq = jo
    BY <1>4, <1>8
  <2>2. ~ (Len(k) < Len(j))
    <3> SUFFICES ASSUME Len(k) < Len(j)
                 PROVE  FALSE
      OBVIOUS
    <3>1. Len(k) + 1 \in 1 .. Len(j)
      BY <1>1
    <3> QED
      BY <1>4, <2>1, <3>1
  <2>3. ~ (Len(j) < Len(k))
    <3> SUFFICES ASSUME Len(j) < Len(k)
                 PROVE  FALSE
      OBVIOUS
    <3>1. Len(j) + 1 \in 1 .. Len(k)
      BY <1>1
    <3> QED
      BY <1>4, <2>1, <3>1
  <2>4. Len(k) = Len(j)
    BY <1>1, <2>2, <2>3
  <2>5. Len(q) = Len(o)
    BY <1>1, <1>4, <2>1, <2>4
  <2>6. \A i \in 1 .. Len(k) : k[i] = j[i]
    BY <1>4, <2>1, <2>4
  <2>7. \A i \in 1 .. Len(q) : q[i] = o[i]
    BY <1>4, <2>1, <2>4, <2>5
  <2>8. /\ k = [i \in 1 .. Len(k) |-> k[i]] /\ j = [i \in 1 .. Len(j) |-> j[i]]
        /\ q = [i \in 1 .. Len(q) |-> q[i]] /\ o = [i \in 1 .. Len(o) |-> o[i]]
    OBVIOUS
  <2> QED
    BY <2>4, <2>5, <2>6, <2>7, <2>8
<1> QED
  BY <1>5, <1>6, <1>7, <1>8

\* It does not matter in which order four strings are joined.
LEMMA JoinsInAnyOrder ==
  ASSUME NEW T, NEW a \in Seq(T), NEW b \in Seq(T), NEW c \in Seq(T)
  PROVE  (a \o b) \o c = a \o (b \o c)
<1> DEFINE l == (a \o b) \o c
           r == a \o (b \o c)
<1>1. /\ Len(a) \in Nat /\ Len(b) \in Nat /\ Len(c) \in Nat
      /\ a \o b \in Seq(T) /\ b \o c \in Seq(T)
      /\ Len(a \o b) = Len(a) + Len(b) /\ Len(b \o c) = Len(b) + Len(c)
  OBVIOUS
<1>2. l \in Seq(T) /\ r \in Seq(T) /\ Len(l) = Len(r)
  BY <1>1
<1>3. ASSUME NEW i \in 1 .. Len(l)
      PROVE  l[i] = r[i]
  OBVIOUS
<1> HIDE DEF l, r
<1>4. l = [i \in 1 .. Len(l) |-> l[i]] /\ r = [i \in 1 .. Len(r) |-> r[i]]
  BY <1>2
<1>5. l = r
  BY <1>2, <1>3, <1>4
<1> QED
  BY <1>5 DEF l, r

\* A resource path has tokens of its request's path and no question mark.
LEMMA ResourcePath ==
  ASSUME NEW r \in Request, Len(config.prefix) \in Nat, NEW T, ToSet(r.path) \subseteq T
  PROVE  /\ resourcePath(r) \in Seq(T)
         /\ \A i \in 1 .. Len(resourcePath(r)) : resourcePath(r)[i] # Question
<1> DEFINE n == Len(config.prefix)
           full == r.path
           p == SubSeq(full, n + 1, Len(full))
<1>1. full \in Seq(ToSet(full)) /\ \A i \in DOMAIN full : full[i] # Question
  BY PathAssumption
<1>2. n \in Nat
  OBVIOUS
<1>3. resourcePath(r) = p
  BY DEF resourcePath
<1> HIDE DEF n, full
<1>4. full \in Seq(T) /\ Len(full) \in Nat /\ DOMAIN full = 1 .. Len(full)
  BY <1>1 DEF full
<1>5. CASE n >= Len(full)
  <2>1. p = <<>>
    BY <1>2, <1>4, <1>5
  <2>2. <<>> \in Seq(T) /\ 1 .. Len(<<>>) = {}
    OBVIOUS
  <2> HIDE DEF p
  <2> QED
    BY <1>3, <2>1, <2>2
<1>6. CASE n < Len(full)
  <2>1. /\ p \in Seq(T) /\ Len(p) = Len(full) - n
        /\ \A i \in 1 .. Len(full) - n : p[i] = full[n + i]
    <3>1. n + 1 \in 1 .. Len(full) /\ Len(full) \in 1 .. Len(full)
      BY <1>2, <1>4, <1>6
    <3>2. p \in Seq(T)
      BY <1>4, <3>1
    <3>3. Len(p) = Len(full) - n
      BY <1>2, <1>4, <1>6, <3>1
    <3>4. ASSUME NEW i \in 1 .. Len(full) - n
          PROVE  p[i] = full[n + i]
      BY <1>2, <1>4, <1>6, <3>1
    <3> QED
      BY <3>2, <3>3, <3>4
  <2> HIDE DEF p
  <2>2. ASSUME NEW i \in 1 .. Len(p)
        PROVE  p[i] # Question
    <3>1. n + i \in DOMAIN full /\ i \in 1 .. Len(full) - n
      BY <1>2, <1>4, <1>6, <2>1
    <3> QED
      BY <1>1, <2>1, <3>1
  <2> QED
    BY <1>3, <2>1, <2>2
<1> QED
  BY <1>2, <1>4, <1>5, <1>6

\* The cleaned resource path of a request.
Cleaned(r) == Clean(resourcePath(r))

Join(p) == SubSeq(p, 2, LastSlash(p) - 1) \o <<Colon>> \o SubSeq(p, LastSlash(p) + 1, Len(p))

\* What the key of a request is made of.
LEMMA KeyIs ==
  ASSUME NEW r \in Request, Len(config.prefix) \in Nat, TwoParts(resourcePath(r)),
         NEW T, ToSet(r.path) \cup ToSet(r.query) \cup {Slash, Colon, Question} \subseteq T
  PROVE  LET p == Cleaned(r) IN
         /\ Whole(p, T) /\ LastSlash(p) \in 2 .. Len(p) /\ p[LastSlash(p)] = Slash
         /\ r.query \in Seq(T)
         /\ Key(r) = IF r.query = <<>> THEN Join(p) ELSE Join(p) \o <<Question>> \o r.query
         /\ Colon \notin ToSet(Id(resourcePath(r))) =>
              \A i \in LastSlash(p) + 1 .. Len(p) : p[i] # Colon
<1> DEFINE p == Cleaned(r)
           s == LastSlash(p)
           a == SubSeq(p, 2, s - 1)
           b == SubSeq(p, s + 1, Len(p))
           u == r.query
<1>1. Whole(p, T)
  <2>1. /\ resourcePath(r) \in Seq(T)
        /\ \A i \in 1 .. Len(resourcePath(r)) : resourcePath(r)[i] # Question
    BY ResourcePath
  <2>2. Slash \in T /\ Slash # Question
    BY EndpointsAssumption
  <2> QED
    BY <2>1, <2>2, CleanIsWhole DEF Cleaned
<1>2. s > 1
  BY DEF TwoParts, Cleaned
<1>3. u \in Seq(T)
  <2>1. r.query \in Seq(ToSet(r.query)) /\ ToSet(r.query) \subseteq T
    BY PathAssumption
  <2> QED
    BY <2>1
<1>4. /\ parsePath(resourcePath(r)).resource = a
      /\ parsePath(resourcePath(r)).id = b
  BY DEF parsePath, Cleaned
<1>5. Key(r) = a \o <<Colon>> \o (IF u = <<>> THEN b ELSE b \o <<Question>> \o u)
  BY <1>4 DEF Key
<1>6. Id(resourcePath(r)) = b
  BY <1>4 DEF Id
<1> HIDE DEF p
<1>7. s \in 1 .. Len(p) /\ p[s] = Slash
  BY <1>1, LastSlashIs
<1> HIDE DEF s
<1>8. s \in 2 .. Len(p) /\ Len(p) \in Nat /\ p \in Seq(T)
  BY <1>1, <1>2, <1>7 DEF Whole
<1>9. /\ a \in Seq(T) /\ b \in Seq(T) /\ <<Colon>> \in Seq(T) /\ <<Question>> \in Seq(T)
      /\ Len(b) = Len(p) - s
      /\ \A i \in 1 .. Len(p) - s : b[i] = p[s + i]
  <2>1. a \in Seq(T)
    BY <1>8
  <2>2. CASE s = Len(p)
    <3>1. b = <<>> /\ Len(<<>>) = 0
      BY <1>8, <2>2
    <3> QED
      BY <1>8, <2>1, <2>2, <3>1
  <2>3. CASE s # Len(p)
    BY <1>8, <2>1, <2>3
  <2> QED
    BY <2>2, <2>3
<1> HIDE DEF a, b, u
<1>10. a \o <<Colon>> \o (b \o <<Question>> \o u) = (a \o <<Colon>> \o b) \o <<Question>> \o u
  <2>1. a \o <<Colon>> \in Seq(T) /\ b \o <<Question>> \in Seq(T)
    BY <1>9
  <2>2. a \o <<Colon>> \o (b \o <<Question>> \o u) = (a \o <<Colon>>) \o (b \o <<Question>>) \o u
    <3> DEFINE x == a \o <<Colon>>
               y == b \o <<Question>>
    <3>1. x \in Seq(T) /\ y \in Seq(T) /\ u \in Seq(T)
      BY <1>3, <2>1
    <3> HIDE DEF x, y
    <3>2. x \o (y \o u) = (x \o y) \o u
      BY <3>1, JoinsInAnyOrder
    <3> QED
      BY <3>2 DEF x, y
  <2>3. (a \o <<Colon>>) \o (b \o <<Question>>) = (a \o <<Colon>>) \o b \o <<Question>>
    BY <1>9, <2>1, JoinsInAnyOrder
  <2> QED
    BY <2>2, <2>3
<1>11. ASSUME Colon \notin ToSet(b), NEW i \in s + 1 .. Len(p)
       PROVE  p[i] # Colon
  <2>1. i - s \in 1 .. Len(p) - s /\ s + (i - s) = i
    BY <1>8
  <2>2. b[i - s] = p[i] /\ i - s \in DOMAIN b
    BY <1>9, <2>1
  <2>3. b[i - s] \in ToSet(b)
    BY <2>2 DEF ToSet
  <2> QED
    BY <1>11, <2>2, <2>3
<1>12. Join(p) = a \o <<Colon>> \o b
  BY DEF Join, a, b, s
<1>13. Key(r) = IF u = <<>> THEN Join(p) ELSE Join(p) \o <<Question>> \o u
  BY <1>5, <1>10, <1>12
<1> QED
  BY <1>1, <1>3, <1>6, <1>7, <1>8, <1>11, <1>13 DEF p, s, u

\* Requests that share a key are for one resource, but for a colon in an id.
LEMMA KeyDetermines ==
  ASSUME NEW q \in Request, NEW r \in Request, Len(config.prefix) \in Nat,
         TwoParts(resourcePath(q)), TwoParts(resourcePath(r)), Key(q) = Key(r),
         Colon \notin ToSet(Id(resourcePath(q))), Colon \notin ToSet(Id(resourcePath(r)))
  PROVE  Cleaned(q) = Cleaned(r) /\ q.query = r.query
<1> DEFINE T == ToSet(q.path) \cup ToSet(q.query) \cup ToSet(r.path) \cup ToSet(r.query)
                  \cup {Slash, Colon, Question}
           p == Cleaned(q)
           o == Cleaned(r)
           s == LastSlash(p)
           t == LastSlash(o)
<1>1. /\ ToSet(q.path) \cup ToSet(q.query) \cup {Slash, Colon, Question} \subseteq T
      /\ ToSet(r.path) \cup ToSet(r.query) \cup {Slash, Colon, Question} \subseteq T
  OBVIOUS
<1> HIDE DEF T
<1>2. /\ Whole(p, T) /\ s \in 2 .. Len(p) /\ p[s] = Slash
      /\ q.query \in Seq(T)
      /\ Key(q) = IF q.query = <<>> THEN Join(p) ELSE Join(p) \o <<Question>> \o q.query
      /\ \A i \in s + 1 .. Len(p) : p[i] # Colon
  BY <1>1, KeyIs
<1>3. /\ Whole(o, T) /\ t \in 2 .. Len(o) /\ o[t] = Slash
      /\ r.query \in Seq(T)
      /\ Key(r) = IF r.query = <<>> THEN Join(o) ELSE Join(o) \o <<Question>> \o r.query
      /\ \A i \in t + 1 .. Len(o) : o[i] # Colon
  BY <1>1, KeyIs
<1>4. Colon \in T /\ Question \in T /\ Colon # Question
  BY <1>1, EndpointsAssumption
<1> HIDE DEF p, o
<1>5. /\ Join(p) \in Seq(T) /\ Len(Join(p)) = Len(p) - 1
      /\ \A i \in 1 .. Len(p) - 1 : Join(p)[i] = IF i = s - 1 THEN Colon ELSE p[i + 1]
      /\ \A i \in 1 .. Len(p) - 1 : Join(p)[i] # Question
  BY <1>2, <1>4, JoinIs DEF Join
<1>6. /\ Join(o) \in Seq(T) /\ Len(Join(o)) = Len(o) - 1
      /\ \A i \in 1 .. Len(o) - 1 : Join(o)[i] = IF i = t - 1 THEN Colon ELSE o[i + 1]
      /\ \A i \in 1 .. Len(o) - 1 : Join(o)[i] # Question
  BY <1>3, <1>4, JoinIs DEF Join
<1>7. Join(p) = Join(o) /\ q.query = r.query
  <2> DEFINE k == Join(p)
             j == Join(o)
             u == q.query
             v == r.query
  <2>1. /\ k \in Seq(T) /\ j \in Seq(T) /\ u \in Seq(T) /\ v \in Seq(T)
        /\ (IF u = <<>> THEN k ELSE k \o <<Question>> \o u)
             = (IF v = <<>> THEN j ELSE j \o <<Question>> \o v)
    BY <1>2, <1>3, <1>5, <1>6
  <2>2. (\A i \in 1 .. Len(k) : k[i] # Question) /\ (\A i \in 1 .. Len(j) : j[i] # Question)
    BY <1>5, <1>6, Zenon
  <2> HIDE DEF k, j, u, v
  <2>3. k = j /\ u = v
    BY <1>4, <2>1, <2>2, QueryIsApart
  <2> QED
    BY <2>3 DEF k, j, u, v
<1>8. Len(p) = Len(o)
  BY <1>2, <1>3, <1>5, <1>6, <1>7 DEF Whole
<1>9. \A i \in 1 .. Len(p) - 1 :
        (IF i = s - 1 THEN Colon ELSE p[i + 1]) = (IF i = t - 1 THEN Colon ELSE o[i + 1])
  BY <1>5, <1>6, <1>7, <1>8
<1> HIDE DEF s, t
<1>10. p = o
  BY <1>2, <1>3, <1>8, <1>9, JoinTellsPaths
<1> QED
  BY <1>7, <1>10 DEF p, o

-----------------------------------------------------------------------------
(***************************************************************************)
(* The file and what is made of it.                                        *)
(***************************************************************************)

\* Load keeps the paths of the endpoints and fills in the rest.
LEMMA LoadedIs ==
  ASSUME NEW raw \in Configs
  PROVE  /\ Len(Loaded(raw).prefix) \in Nat
         /\ DOMAIN Loaded(raw).endpoints = DOMAIN raw.endpoints
         /\ \A i \in DOMAIN raw.endpoints :
              Loaded(raw).endpoints[i] = LoadEndpoint(raw.endpoints[i])
<1>1. /\ DOMAIN raw = {"prefix", "driver", "ttl", "timeout", "endpoints"}
      /\ raw.prefix = Unset \/ Len(raw.prefix) \in Nat
  <2>1. raw.prefix = Unset \/ raw.prefix \in Seq(ToSet(raw.prefix))
    BY FileAssumption
  <2> QED
    BY <2>1, FileAssumption
<1>2. /\ Loaded(raw).prefix = Default(raw.prefix, <<Slash, "spec">>)
      /\ Loaded(raw).endpoints
           = [i \in DOMAIN raw.endpoints |-> LoadEndpoint(raw.endpoints[i])]
  BY <1>1 DEF Loaded
<1>3. Len(Default(raw.prefix, <<Slash, "spec">>)) \in Nat
  <2>1. Len(<<Slash, "spec">>) = 2
    OBVIOUS
  <2> QED
    BY <1>1, <2>1 DEF Default
<1> QED
  BY <1>2, <1>3

\* What LoadEndpoint makes of each setting.
LEMMA LoadEndpointIs ==
  ASSUME NEW ep,
         DOMAIN ep = {"path", "volatility", "maxStaleness", "replaceThreshold",
                      "defaultClass", "fields"},
         \A f \in DOMAIN ep.fields : DOMAIN ep.fields[f] = {"class", "volatility"}
  PROVE  LET new == LoadEndpoint(ep) IN
         /\ new.path = ep.path
         /\ new.volatility = Default(ep.volatility, "low")
         /\ new.maxStaleness = Default(ep.maxStaleness, 5000)
         /\ new.replaceThreshold = Default(ep.replaceThreshold, 50)
         /\ new.defaultClass = Default(ep.defaultClass, "SPECULATIVE")
         /\ DOMAIN new.fields = DOMAIN ep.fields
         /\ \A f \in DOMAIN ep.fields :
              /\ new.fields[f].class = ep.fields[f].class
              /\ new.fields[f].volatility
                   = Default(ep.fields[f].volatility, Default(ep.volatility, "low"))
<1> DEFINE v == Default(ep.volatility, "low")
           new == LoadEndpoint(ep)
           fields == [f \in DOMAIN ep.fields |->
                        [ep.fields[f] EXCEPT !.volatility = Default(ep.fields[f].volatility, v)]]
<1>1. /\ new.path = ep.path
      /\ new.volatility = v
      /\ new.maxStaleness = Default(ep.maxStaleness, 5000)
      /\ new.replaceThreshold = Default(ep.replaceThreshold, 50)
      /\ new.defaultClass = Default(ep.defaultClass, "SPECULATIVE")
      /\ new.fields = fields
  BY DEF LoadEndpoint
<1>2. /\ DOMAIN fields = DOMAIN ep.fields
      /\ \A f \in DOMAIN ep.fields :
           /\ fields[f].class = ep.fields[f].class
           /\ fields[f].volatility = Default(ep.fields[f].volatility, v)
  OBVIOUS
<1> HIDE DEF new, fields
<1> QED
  BY <1>1, <1>2 DEF new

\* The same of an endpoint of a file.
LEMMA EndpointIs ==
  ASSUME NEW raw \in Configs, NEW i \in DOMAIN raw.endpoints
  PROVE  LET ep == raw.endpoints[i]
             new == Loaded(raw).endpoints[i]
         IN
         /\ i \in Nat \ {0}
         /\ new.path = ep.path
         /\ new.volatility = Default(ep.volatility, "low")
         /\ new.maxStaleness = Default(ep.maxStaleness, 5000)
         /\ new.replaceThreshold = Default(ep.replaceThreshold, 50)
         /\ new.defaultClass = Default(ep.defaultClass, "SPECULATIVE")
         /\ DOMAIN new.fields = DOMAIN ep.fields
         /\ \A f \in DOMAIN ep.fields :
              /\ new.fields[f].class = ep.fields[f].class
              /\ new.fields[f].volatility
                   = Default(ep.fields[f].volatility, Default(ep.volatility, "low"))
<1> DEFINE ep == raw.endpoints[i]
<1>1. /\ DOMAIN ep = {"path", "volatility", "maxStaleness", "replaceThreshold",
                      "defaultClass", "fields"}
      /\ \A f \in DOMAIN ep.fields : DOMAIN ep.fields[f] = {"class", "volatility"}
      /\ i \in Nat \ {0}
  BY FileAssumption
<1>2. Loaded(raw).endpoints[i] = LoadEndpoint(ep)
  BY LoadedIs
<1> HIDE DEF ep
<1>3. LET new == LoadEndpoint(ep) IN
         /\ new.path = ep.path
         /\ new.volatility = Default(ep.volatility, "low")
         /\ new.maxStaleness = Default(ep.maxStaleness, 5000)
         /\ new.replaceThreshold = Default(ep.replaceThreshold, 50)
         /\ new.defaultClass = Default(ep.defaultClass, "SPECULATIVE")
         /\ DOMAIN new.fields = DOMAIN ep.fields
         /\ \A f \in DOMAIN ep.fields :
              /\ new.fields[f].class = ep.fields[f].class
              /\ new.fields[f].volatility
                   = Default(ep.fields[f].volatility, Default(ep.volatility, "low"))
  BY <1>1, LoadEndpointIs
<1> QED
  BY <1>1, <1>2, <1>3 DEF ep

\* The first setting that is there, of one.
LEMMA FirstSetOfOne == \A a, d : FirstSet(<<a>>, d) = Default(a, d)
<1> SUFFICES ASSUME NEW a, NEW d
             PROVE  FirstSet(<<a>>, d) = Default(a, d)
  OBVIOUS
<1> DEFINE set == {i \in DOMAIN <<a>> : <<a>>[i] # Unset}
           least == CHOOSE i \in set : \A j \in set : i <= j
<1>1. DOMAIN <<a>> = {1} /\ <<a>>[1] = a
  OBVIOUS
<1>2. FirstSet(<<a>>, d) = IF set = {} THEN d ELSE <<a>>[least]
  BY DEF FirstSet
<1>3. CASE a = Unset
  <2>1. set = {}
    BY <1>1, <1>3
  <2> QED
    BY <1>2, <1>3, <2>1 DEF Default
<1>4. CASE a # Unset
  <2>1. set = {1}
    BY <1>1, <1>4
  <2> HIDE DEF set
  <2>2. least = 1
    BY <2>1
  <2> HIDE DEF least
  <2> QED
    BY <1>1, <1>2, <1>4, <2>1, <2>2 DEF Default
<1> QED
  BY <1>3, <1>4

\* The first setting that is there, of two.
LEMMA FirstSetOfTwo == \A a, b, d : FirstSet(<<a, b>>, d) = Default(a, Default(b, d))
<1> SUFFICES ASSUME NEW a, NEW b, NEW d
             PROVE  FirstSet(<<a, b>>, d) = Default(a, Default(b, d))
  OBVIOUS
<1> DEFINE set == {i \in DOMAIN <<a, b>> : <<a, b>>[i] # Unset}
           least == CHOOSE i \in set : \A j \in set : i <= j
<1>1. DOMAIN <<a, b>> = {1, 2} /\ <<a, b>>[1] = a /\ <<a, b>>[2] = b
  OBVIOUS
<1>2. FirstSet(<<a, b>>, d) = IF set = {} THEN d ELSE <<a, b>>[least]
  BY DEF FirstSet
<1>3. \A i : i \in set <=> (i = 1 /\ a # Unset) \/ (i = 2 /\ b # Unset)
  BY <1>1
<1> HIDE DEF set
<1>4. CASE a = Unset /\ b = Unset
  <2>1. set = {}
    BY <1>3, <1>4
  <2> QED
    BY <1>2, <1>4, <2>1 DEF Default
<1>5. CASE a # Unset
  <2>1. 1 \in set /\ \A j \in set : 1 <= j
    BY <1>3, <1>5
  <2>2. \A i \in set : (\A j \in set : i <= j) => i = 1
    BY <1>3, <2>1
  <2>3. least = 1
    BY <2>1, <2>2
  <2> HIDE DEF least
  <2> QED
    BY <1>1, <1>2, <1>5, <2>1, <2>3 DEF Default
<1>6. CASE a = Unset /\ b # Unset
  <2>1. set = {2}
    BY <1>3, <1>6
  <2>2. least = 2
    BY <2>1
  <2> HIDE DEF least
  <2> QED
    BY <1>1, <1>2, <1>6, <2>1, <2>2 DEF Default
<1> QED
  BY <1>4, <1>5, <1>6

-----------------------------------------------------------------------------
(***************************************************************************)
(* The inductive invariant.  The properties speak of the last answer;      *)
(* what they need is where the vault's entries came from, and that what    *)
(* was decided for the answer was decided by the file, which no step of a  *)
(* serving process changes.                                                *)
(***************************************************************************)

\* Where a vault entry can have come from.
Came(k, path, query) ==
  \E r \in Request :
    Accepted(r) /\ k = Key(r) /\ path = resourcePath(r) /\ query = r.query

\* How the last answer was decided, if it was served from the vault.
Decided ==
  \E r \in Request :
    /\ Accepted(r) /\ answer.path = r.path /\ answer.query = r.query
    /\ Came(Key(r), answer.source.path, answer.source.query)
    /\ answer.source.age <= MaxStalenessMs(resourcePath(r))
    /\ answer.treatment = Treatment(resourcePath(r))

\* What a vault entry is.
Entry(k, entry) ==
  DOMAIN entry = {"age", "path", "query"} /\ Came(k, entry.path, entry.query)

EndInv ==
  /\ file \in Configs
  /\ config # Unset => config = Loaded(file)
  /\ Serving => config = Loaded(file)
  /\ ~Serving => DOMAIN vault = {} /\ tracks = {} /\ ~Speculative
  /\ \A r \in tracks : r \in Request /\ Accepted(r)
  /\ \A k \in DOMAIN vault : Entry(k, vault[k])
  /\ Speculative => Decided

\* The state of an answer that is not built from the vault.
LEMMA AnsweredIs ==
  ASSUME NEW r, NEW status, NEW state
  PROVE  LET new == Answered(r, status, state) IN
         /\ DOMAIN new = {"handler", "path", "query", "status", "state", "source",
                          "treatment"}
         /\ new.path = r.path /\ new.query = r.query /\ new.state = state
BY DEF Answered, NoAnswer

\* A serving process keeps its configuration and its driver.
LEMMA ServingStays ==
  ASSUME [Next]_vars, Serving
  PROVE  UNCHANGED <<file, config, driver>>
<1>1. driver # "none"
  BY DEF Serving
<1>2. ~Load /\ ~Start
  BY <1>1 DEF Load, Start
<1>3. ASSUME NEW r \in Request,
             HandleSpecRefused(r) \/ serveConfirmed(r) \/ HandleSpecHot(r)
               \/ ServeOther(r) \/ runFormalTrack(r)
      PROVE  UNCHANGED <<file, config, driver>>
  BY <1>3 DEF HandleSpecRefused, serveConfirmed, HandleSpecHot, ServeOther,
              runFormalTrack
<1>4. CASE Age
  BY <1>4 DEF Age
<1>5. CASE UNCHANGED vars
  BY <1>5 DEF vars
<1> QED
  BY <1>2, <1>3, <1>4, <1>5 DEF Next

\* The endpoint that is chosen of those that match.
FirstOf(matching) ==
  IF matching = {} THEN NoEndpoint
  ELSE CHOOSE i \in matching : \A j \in matching : i <= j

\* What the configuration decides of a request stays while it does.
LEMMA DecisionsStay ==
  ASSUME UNCHANGED <<config, driver>>
  PROVE  /\ \A r : Accepted(r)' <=> Accepted(r)
         /\ \A r : Key(r)' = Key(r) /\ resourcePath(r)' = resourcePath(r)
         /\ \A path : MaxStalenessMs(path)' = MaxStalenessMs(path)
         /\ \A path : Treatment(path)' = Treatment(path)
         /\ \A k, path, query : Came(k, path, query)' <=> Came(k, path, query)
         /\ \A k, entry : Entry(k, entry)' <=> Entry(k, entry)
<1>1. Routes' = Routes
  BY DEF Routes
<1>2. \A path : Route(path)' = Route(path)
  BY <1>1 DEF Route
<1>3. \A r : resourcePath(r)' = resourcePath(r)
  BY DEF resourcePath
<1>4. \A r : Key(r)' = Key(r)
  BY <1>3 DEF Key
<1>5. \A r : Accepted(r)' <=> Accepted(r)
  BY <1>2, <1>3 DEF Accepted, Receive, Serving
<1>6. \A path : matchEndpoint(path)' = matchEndpoint(path) /\ Matched(path)' = Matched(path)
  <2>1. ASSUME NEW path
        PROVE  Matching(path)' = Matching(path)
    <3>1. config' = config
      OBVIOUS
    <3>2. Matching(path)'
            = {i \in DOMAIN config'.endpoints : PatternMatches(config'.endpoints[i].path, path)}
      BY Zenon DEF Matching
    <3> QED
      BY <3>1, <3>2, Zenon DEF Matching
  <2>2. ASSUME NEW path
        PROVE  matchEndpoint(path)' = matchEndpoint(path)
    <3>1. Matching(path)' = Matching(path)
      BY <2>1
    <3>2. matchEndpoint(path)' = FirstOf(Matching(path)')
      BY Zenon DEF matchEndpoint, FirstOf
    <3>3. matchEndpoint(path) = FirstOf(Matching(path))
      BY Zenon DEF matchEndpoint, FirstOf
    <3> QED
      BY <3>1, <3>2, <3>3, Zenon
  <2>3. ASSUME NEW path
        PROVE  Matched(path)' = Matched(path)
    <3>1. config' = config /\ matchEndpoint(path)' = matchEndpoint(path)
      BY <2>2
    <3> QED
      BY <3>1, Zenon DEF Matched
  <2> QED
    BY <2>2, <2>3
<1>7. \A path : MaxStalenessMs(path)' = MaxStalenessMs(path)
  BY <1>6 DEF MaxStalenessMs
<1>8. \A path, f : ClassOf(path, f)' = ClassOf(path, f)
  BY <1>6 DEF ClassOf
<1>9. \A path, f : VolatilityOf(path, f)' = VolatilityOf(path, f)
  BY <1>6 DEF VolatilityOf
<1>10. \A path : DeferredFields(path)' = DeferredFields(path)
  BY <1>8 DEF DeferredFields
<1>11. \A path : VolatilityMap(path)' = VolatilityMap(path)
  BY <1>9 DEF VolatilityMap
<1>12. \A path : InvariantFields(path)' = InvariantFields(path)
  BY <1>8 DEF InvariantFields
<1>13. \A path : ReplaceThreshold(path)' = ReplaceThreshold(path)
  BY <1>6 DEF ReplaceThreshold
<1>14. \A path : Treatment(path)' = Treatment(path)
  BY <1>7, <1>10, <1>11, <1>12, <1>13 DEF Treatment
<1>15. \A k, path, query : Came(k, path, query)' <=> Came(k, path, query)
  BY <1>3, <1>4, <1>5 DEF Came
<1>16. \A k, entry : Entry(k, entry)' <=> Entry(k, entry)
  BY <1>15 DEF Entry
<1> QED
  BY <1>3, <1>4, <1>5, <1>7, <1>14, <1>15, <1>16

\* It holds initially.
LEMMA InitEndInv == Init => EndInv
<1> SUFFICES ASSUME Init PROVE EndInv
  OBVIOUS
<1>1. /\ file \in Configs /\ config = Unset /\ driver = "none" /\ vault = <<>>
      /\ tracks = {} /\ answer = NoAnswer
  BY DEF Init
<1>2. ~Serving
  BY <1>1 DEF Serving
<1>3. DOMAIN vault = {}
  BY <1>1
<1>4. ~Speculative
  BY <1>1 DEF Speculative, NoAnswer
<1> QED
  BY <1>1, <1>2, <1>3, <1>4 DEF EndInv

\* What Store leaves in the vault came from requests.
LEMMA StoreEntries ==
  ASSUME NEW r \in Request, Accepted(r), EndInv, Store(r)
  PROVE  \A k \in DOMAIN vault' : Entry(k, vault'[k])
<1> DEFINE entry == [age |-> 0, path |-> resourcePath(r), query |-> r.query]
<1>1. vault' = [k \in DOMAIN vault \cup {Key(r)} |->
                  IF k = Key(r) THEN entry ELSE vault[k]]
  BY DEF Store
<1>2. Entry(Key(r), entry)
  BY DEF Entry, Came
<1>3. \A k \in DOMAIN vault : Entry(k, vault[k])
  BY DEF EndInv
<1> HIDE DEF entry
<1>4. SUFFICES ASSUME NEW k \in DOMAIN vault'
               PROVE  Entry(k, vault'[k])
  OBVIOUS
<1>5. CASE k = Key(r)
  BY <1>1, <1>2, <1>5
<1>6. CASE k # Key(r)
  <2>1. k \in DOMAIN vault /\ vault'[k] = vault[k]
    BY <1>1, <1>4, <1>6
  <2> QED
    BY <1>3, <2>1
<1> QED
  BY <1>5, <1>6

\* Before the process serves: Load and Start only.
LEMMA StartEndInv ==
  ASSUME EndInv, [Next]_vars, ~Serving
  PROVE  EndInv'
<1>1. /\ file \in Configs /\ (config # Unset => config = Loaded(file))
      /\ DOMAIN vault = {} /\ tracks = {} /\ ~Speculative
  BY DEF EndInv
<1>2. ASSUME NEW r \in Request
      PROVE  /\ ~HandleSpecRefused(r) /\ ~serveConfirmed(r) /\ ~HandleSpecHot(r)
             /\ ~ServeOther(r) /\ ~runFormalTrack(r)
  BY <1>1 DEF HandleSpecRefused, serveConfirmed, HandleSpecHot, ServeOther,
              runFormalTrack, Accepted, Receive
<1>3. /\ file' = file /\ DOMAIN vault' = {} /\ tracks' = tracks /\ answer' = answer
      /\ config' # Unset => config' = Loaded(file)
      /\ Serving' => config # Unset /\ config' = config
  <2>1. CASE Load
    BY <1>1, <2>1 DEF Load, Serving
  <2>2. CASE Start
    BY <1>1, <2>2 DEF Start
  <2>3. CASE Age
    BY <1>1, <2>3 DEF Age, Serving
  <2>4. CASE UNCHANGED vars
    BY <1>1, <2>4 DEF vars, Serving
  <2> QED
    BY <1>2, <2>1, <2>2, <2>3, <2>4 DEF Next
<1>4. ~Speculative'
  BY <1>1, <1>3 DEF Speculative
<1> QED
  BY <1>1, <1>3, <1>4 DEF EndInv

\* While it serves.
LEMMA ServeEndInv ==
  ASSUME EndInv, [Next]_vars, Serving
  PROVE  EndInv'
<1>1. UNCHANGED <<file, config, driver>> /\ Serving'
  BY ServingStays DEF Serving
<1>2. /\ file \in Configs /\ config = Loaded(file)
      /\ \A r \in tracks : r \in Request /\ Accepted(r)
      /\ \A k \in DOMAIN vault : Entry(k, vault[k])
      /\ Speculative => Decided
  BY DEF EndInv
<1>3. /\ \A r : Accepted(r)' <=> Accepted(r)
      /\ \A r : Key(r)' = Key(r) /\ resourcePath(r)' = resourcePath(r)
      /\ \A path : MaxStalenessMs(path)' = MaxStalenessMs(path)
      /\ \A path : Treatment(path)' = Treatment(path)
      /\ \A k, path, query : Came(k, path, query)' <=> Came(k, path, query)
      /\ \A k, entry : Entry(k, entry)' <=> Entry(k, entry)
  BY <1>1, DecisionsStay
<1> DEFINE Tracked == \A r \in tracks' : r \in Request /\ Accepted(r)
           Kept == \A k \in DOMAIN vault' : Entry(k, vault'[k])
<1>4. Tracked /\ Kept /\ (Speculative' => Decided')
  <2>1. ASSUME answer' = answer
        PROVE  Speculative' => Decided'
    BY <1>2, <1>3, <2>1 DEF Speculative, Decided
  <2>2. ASSUME NEW r \in Request, NEW status, NEW state, state # "speculative",
               answer' = Answered(r, status, state)
        PROVE  ~Speculative'
    BY <2>2, AnsweredIs DEF Speculative
  <2>3. ASSUME NEW r \in Request, HandleSpecRefused(r)
        PROVE  Tracked /\ Kept /\ (Speculative' => Decided')
    <3>1. tracks' = tracks /\ vault' = vault
      BY <2>3 DEF HandleSpecRefused
    <3>2. \E status : answer' = Answered(r, status, "")
      BY <2>3 DEF HandleSpecRefused
    <3> QED
      BY <1>2, <2>2, <3>1, <3>2
  <2>4. ASSUME NEW r \in Request, serveConfirmed(r)
        PROVE  Tracked /\ Kept /\ (Speculative' => Decided')
    <3>1. tracks' = tracks /\ Accepted(r) /\ (vault' = vault \/ Store(r))
      BY <2>4 DEF serveConfirmed
    <3>2. \E status, state : state # "speculative" /\ answer' = Answered(r, status, state)
      <4>1. "" # "speculative" /\ "confirmed" # "speculative"
        OBVIOUS
      <4> QED
        BY <2>4, <4>1 DEF serveConfirmed
    <3>3. Kept
      BY <1>2, <3>1, StoreEntries
    <3> QED
      BY <1>2, <2>2, <3>1, <3>2, <3>3
  <2>5. ASSUME NEW r \in Request, HandleSpecHot(r)
        PROVE  Tracked /\ Kept /\ (Speculative' => Decided')
    <3> DEFINE path == resourcePath(r)
               new == Answered(r, 200, "speculative")
    <3>1. /\ Accepted(r) /\ Hot(r)
          /\ tracks' = tracks \cup {r} /\ vault' = vault
          /\ answer' = [new EXCEPT !.source = vault[Key(r)],
                                   !.treatment = Treatment(path)]
      BY <2>5 DEF HandleSpecHot
    <3>2. /\ DOMAIN new = {"handler", "path", "query", "status", "state", "source",
                           "treatment"}
          /\ new.path = r.path /\ new.query = r.query
      BY AnsweredIs
    <3> HIDE DEF new
    <3>3. /\ answer'.path = r.path /\ answer'.query = r.query
          /\ answer'.source = vault[Key(r)] /\ answer'.treatment = Treatment(path)
      BY <3>1, <3>2
    <3>4. Key(r) \in DOMAIN vault /\ vault[Key(r)].age <= MaxStalenessMs(path)
      BY <3>1 DEF Hot
    <3>5. Came(Key(r), answer'.source.path, answer'.source.query)
      BY <1>2, <3>3, <3>4 DEF Entry
    <3>6. Decided'
      <4>1. answer'.source.age <= MaxStalenessMs(path)
        BY <3>3, <3>4
      <4> QED
        BY <1>3, <3>1, <3>3, <3>5, <4>1 DEF Decided
    <3>7. Tracked
      BY <1>2, <3>1
    <3>8. Kept
      BY <1>2, <3>1
    <3> QED
      BY <3>6, <3>7, <3>8
  <2>6. ASSUME NEW r \in Request, ServeOther(r)
        PROVE  Tracked /\ Kept /\ (Speculative' => Decided')
    <3>1. tracks' = tracks /\ vault' = vault
      BY <2>6 DEF ServeOther
    <3>2. \E status : answer' = Answered(r, status, "")
      BY <2>6 DEF ServeOther
    <3> QED
      BY <1>2, <2>2, <3>1, <3>2
  <2>7. ASSUME NEW r \in Request, runFormalTrack(r)
        PROVE  Tracked /\ Kept /\ (Speculative' => Decided')
    <3>1. /\ r \in tracks /\ tracks' = tracks \ {r} /\ answer' = answer
          /\ vault' = vault \/ Store(r)
      BY <2>7 DEF runFormalTrack
    <3>2. Kept
      BY <1>2, <3>1, StoreEntries
    <3>3. Tracked
      BY <1>2, <3>1
    <3> QED
      BY <2>1, <3>1, <3>2, <3>3
  <2>8. CASE Age
    <3> DEFINE aged(k) ==
          [vault[k] EXCEPT !.age = IF @ + AgeStep <= MaxAge THEN @ + AgeStep ELSE @]
    <3>1. /\ vault' = [k \in DOMAIN vault |-> aged(k)]
          /\ tracks' = tracks /\ answer' = answer
      BY <2>8 DEF Age
    <3>2. ASSUME NEW k \in DOMAIN vault
          PROVE  Entry(k, aged(k))
      <4>1. /\ DOMAIN vault[k] = {"age", "path", "query"}
            /\ Came(k, vault[k].path, vault[k].query)
        BY <1>2, <3>2 DEF Entry
      <4>2. /\ DOMAIN aged(k) = {"age", "path", "query"}
            /\ aged(k).path = vault[k].path /\ aged(k).query = vault[k].query
        BY <4>1
      <4> HIDE DEF aged
      <4> QED
        BY <4>1, <4>2 DEF Entry
    <3> HIDE DEF aged
    <3>3. Kept
      BY <1>2, <3>1, <3>2
    <3> QED
      BY <1>2, <2>1, <3>1, <3>3
  <2>9. CASE UNCHANGED vars
    BY <1>2, <2>1, <2>9 DEF vars
  <2>10. ~Load /\ ~Start
    BY DEF Serving, Load, Start
  <2> QED
    BY <2>3, <2>4, <2>5, <2>6, <2>7, <2>8, <2>9, <2>10 DEF Next
<1>5. /\ (\A r \in tracks : r \in Request /\ Accepted(r))'
      /\ (\A k \in DOMAIN vault : Entry(k, vault[k]))'
  BY <1>3, <1>4
<1> QED
  BY <1>1, <1>2, <1>4, <1>5 DEF EndInv

\* It holds in every state.
LEMMA EndInvariant == Spec => []EndInv
<1>1. EndInv /\ [Next]_vars => EndInv'
  BY StartEndInv, ServeEndInv
<1> QED
  BY InitEndInv, <1>1, PTL DEF Spec

-----------------------------------------------------------------------------
(***************************************************************************)
(* The theorems.                                                           *)
(***************************************************************************)

\* A document is served only for the resource and the query it was fetched for, whatever
\* resources, ids and queries hold, as long as the id has no colon: the joined key has the
\* query after its first question mark and the id after the last colon before that.
THEOREM EntriesAreOwn == Spec => []EntryIsOwn
<1>1. EndInv => EntryIsOwn
  <2> DEFINE path == SubSeq(answer.path, Len(config.prefix) + 1, Len(answer.path))
             source == answer.source
  <2> SUFFICES ASSUME EndInv, Speculative, Colon \notin ToSet(Id(path)),
                      Colon \notin ToSet(Id(source.path))
               PROVE  Clean(source.path) = Clean(path) /\ source.query = answer.query
    BY DEF EntryIsOwn
  <2>1. PICK r \in Request :
          /\ Accepted(r) /\ answer.path = r.path /\ answer.query = r.query
          /\ Came(Key(r), source.path, source.query)
    BY DEF EndInv, Decided
  <2>2. PICK q \in Request :
          /\ Accepted(q) /\ Key(r) = Key(q)
          /\ source.path = resourcePath(q) /\ source.query = q.query
    BY <2>1 DEF Came
  <2>3. Len(config.prefix) \in Nat
    <3>1. Serving
      BY <2>1 DEF Accepted, Receive
    <3> QED
      BY <3>1, LoadedIs DEF EndInv
  <2>4. path = resourcePath(r)
    BY <2>1 DEF resourcePath
  <2> HIDE DEF path, source
  <2>5. TwoParts(resourcePath(q)) /\ TwoParts(resourcePath(r))
    BY <2>1, <2>2 DEF Accepted
  <2>6. Cleaned(q) = Cleaned(r) /\ q.query = r.query
    BY <2>2, <2>3, <2>4, <2>5, KeyDetermines
  <2> QED
    BY <2>1, <2>2, <2>4, <2>6 DEF Cleaned
<1> QED
  BY <1>1, EndInvariant, PTL

\* The endpoint the classifier finds in the loaded configuration is the one of the file
\* that a path belongs to; if it finds none, the path belongs to one with nothing in it.
LEMMA WrittenIs ==
  ASSUME EndInv, Serving, NEW path
  PROVE  IF matchEndpoint(path) = NoEndpoint
         THEN Written(path) = [path |-> path, volatility |-> Unset, maxStaleness |-> Unset,
                               replaceThreshold |-> Unset, defaultClass |-> Unset,
                               fields |-> <<>>]
         ELSE /\ matchEndpoint(path) \in DOMAIN file.endpoints
              /\ Written(path) = file.endpoints[matchEndpoint(path)]
<1>1. file \in Configs /\ config = Loaded(file)
  BY DEF EndInv
<1>2. /\ DOMAIN config.endpoints = DOMAIN file.endpoints
      /\ \A i \in DOMAIN file.endpoints :
           i \in Nat \ {0} /\ config.endpoints[i].path = file.endpoints[i].path
  BY <1>1, LoadedIs, EndpointIs
<1> DEFINE matching == {i \in DOMAIN file.endpoints :
                          PatternMatches(file.endpoints[i].path, path)}
           least == CHOOSE i \in matching : \A j \in matching : i <= j
<1>3. Matching(path) = matching
  BY <1>2 DEF Matching
<1>4. CASE matching = {}
  <2>1. matchEndpoint(path) = NoEndpoint
    BY <1>3, <1>4 DEF matchEndpoint
  <2> QED
    BY <1>4, <2>1 DEF Written
<1>5. CASE matching # {}
  <2>1. Written(path) = file.endpoints[least]
    BY <1>5 DEF Written
  <2>2. matching \subseteq Nat \ {0} /\ matching \subseteq DOMAIN file.endpoints
    BY <1>2
  <2> HIDE DEF matching
  <2>3. least \in matching
    BY <1>5, <2>2, LeastExists
  <2>4. matchEndpoint(path) = least
    BY <1>3, <1>5 DEF matchEndpoint
  <2> HIDE DEF least
  <2> QED
    BY <2>1, <2>2, <2>3, <2>4 DEF NoEndpoint
<1> QED
  BY <1>4, <1>5

\* Load and the classifier together keep the order: the field's setting, the endpoint's,
\* the default.  A path no endpoint matches gets the defaults.
LEMMA TreatedAsWritten ==
  ASSUME EndInv, Serving, NEW path
  PROVE  LET ep == Written(path) IN
         /\ MaxStalenessMs(path) = Default(ep.maxStaleness, 5000)
         /\ ReplaceThreshold(path) = Default(ep.replaceThreshold, 50)
         /\ \A f \in Field :
              /\ VolatilityOf(path, f) = Default(Says(ep, f, "volatility"),
                                                 Default(ep.volatility, "low"))
              /\ ClassOf(path, f) = normaliseClass(Default(Says(ep, f, "class"),
                                                     Default(ep.defaultClass, "SPECULATIVE")))
<1> DEFINE i == matchEndpoint(path)
           new == Matched(path)
           ep == Written(path)
<1>1. file \in Configs /\ config = Loaded(file)
  BY DEF EndInv
<1>2. CASE i = NoEndpoint
  <2>1. /\ MaxStalenessMs(path) = 5000 /\ ReplaceThreshold(path) = 50
        /\ \A f \in Field : VolatilityOf(path, f) = "low" /\ ClassOf(path, f) = "SPECULATIVE"
    BY <1>2 DEF MaxStalenessMs, ReplaceThreshold, VolatilityOf, ClassOf
  <2>2. /\ ep.maxStaleness = Unset /\ ep.replaceThreshold = Unset
        /\ ep.volatility = Unset /\ ep.defaultClass = Unset /\ ep.fields = <<>>
    BY <1>2, WrittenIs
  <2> HIDE DEF ep
  <2>3. \A f, what : Says(ep, f, what) = Unset
    BY <2>2 DEF Says
  <2>4. normaliseClass("SPECULATIVE") = "SPECULATIVE"
    BY DEF normaliseClass
  <2> QED
    BY <2>1, <2>2, <2>3, <2>4 DEF Default, ep
<1>3. CASE i # NoEndpoint
  <2>1. i \in DOMAIN file.endpoints /\ ep = file.endpoints[i]
    BY <1>3, WrittenIs
  <2>2. /\ new.volatility = Default(ep.volatility, "low")
        /\ new.maxStaleness = Default(ep.maxStaleness, 5000)
        /\ new.replaceThreshold = Default(ep.replaceThreshold, 50)
        /\ new.defaultClass = Default(ep.defaultClass, "SPECULATIVE")
        /\ DOMAIN new.fields = DOMAIN ep.fields
        /\ \A f \in DOMAIN ep.fields :
             /\ new.fields[f].class = ep.fields[f].class
             /\ new.fields[f].volatility
                  = Default(ep.fields[f].volatility, Default(ep.volatility, "low"))
    BY <1>1, <2>1, EndpointIs DEF Matched
  <2>3. /\ MaxStalenessMs(path) = new.maxStaleness
        /\ ReplaceThreshold(path) = new.replaceThreshold
        /\ \A f : VolatilityOf(path, f) =
                    IF f \in DOMAIN new.fields /\ new.fields[f].volatility # Unset
                      THEN new.fields[f].volatility ELSE new.volatility
        /\ \A f : ClassOf(path, f) =
                    IF f \in DOMAIN new.fields /\ new.fields[f].class # Unset
                      THEN normaliseClass(new.fields[f].class)
                      ELSE normaliseClass(new.defaultClass)
    BY <1>3 DEF MaxStalenessMs, ReplaceThreshold, VolatilityOf, ClassOf
  <2> HIDE DEF i, new, ep
  <2>4. ASSUME NEW f \in Field
        PROVE  VolatilityOf(path, f) = Default(Says(ep, f, "volatility"),
                                               Default(ep.volatility, "low"))
    <3>1. CASE f \in DOMAIN ep.fields
      BY <2>2, <2>3, <3>1 DEF Default, Says
    <3>2. CASE f \notin DOMAIN ep.fields
      BY <2>2, <2>3, <3>2 DEF Default, Says
    <3> QED
      BY <3>1, <3>2
  <2>5. ASSUME NEW f \in Field
        PROVE  ClassOf(path, f) = normaliseClass(Default(Says(ep, f, "class"),
                                                   Default(ep.defaultClass, "SPECULATIVE")))
    <3>1. CASE f \in DOMAIN ep.fields
      BY <2>2, <2>3, <3>1 DEF Default, Says
    <3>2. CASE f \notin DOMAIN ep.fields
      BY <2>2, <2>3, <3>2 DEF Default, Says
    <3> QED
      BY <3>1, <3>2
  <2> QED
    BY <2>2, <2>3, <2>4, <2>5 DEF ep
<1> QED
  BY <1>2, <1>3

\* What a speculative answer withholds and announces, how old it may be and what its
\* Formal Track goes by is what the first endpoint of the file that matches its path says:
\* of the field, else of all fields, else the default; for a path no endpoint matches, the
\* defaults.
THEOREM AnswersFollowTheFile == Spec => []AnsweredAsWritten
<1>1. EndInv => AnsweredAsWritten
  <2> DEFINE path == SubSeq(answer.path, Len(config.prefix) + 1, Len(answer.path))
             ep == Written(path)
             treatment == answer.treatment
             class(f) == normaliseClass(FirstSet(<<Says(ep, f, "class"), ep.defaultClass>>,
                                                 "SPECULATIVE"))
  <2> SUFFICES ASSUME EndInv, Speculative
               PROVE  /\ answer.source.age <= FirstSet(<<ep.maxStaleness>>, 5000)
                      /\ treatment.replaceThreshold = FirstSet(<<ep.replaceThreshold>>, 50)
                      /\ \A f \in Field :
                           /\ treatment.volatility[f] =
                                FirstSet(<<Says(ep, f, "volatility"), ep.volatility>>, "low")
                           /\ f \in treatment.deferred <=>
                                class(f) \in {"DEFERRED", "PROVISIONAL"}
                           /\ f \in treatment.invariant <=> class(f) = "INVARIANT"
    BY DEF AnsweredAsWritten
  <2>1. PICK r \in Request :
          /\ Accepted(r) /\ answer.path = r.path
          /\ answer.source.age <= MaxStalenessMs(resourcePath(r))
          /\ treatment = Treatment(resourcePath(r))
    BY DEF EndInv, Decided
  <2>2. resourcePath(r) = path /\ Serving
    BY <2>1 DEF resourcePath, Accepted, Receive
  <2> HIDE DEF path
  <2>3. /\ MaxStalenessMs(path) = Default(ep.maxStaleness, 5000)
        /\ ReplaceThreshold(path) = Default(ep.replaceThreshold, 50)
        /\ \A f \in Field :
             /\ VolatilityOf(path, f) = Default(Says(ep, f, "volatility"),
                                                Default(ep.volatility, "low"))
             /\ ClassOf(path, f) = normaliseClass(Default(Says(ep, f, "class"),
                                                    Default(ep.defaultClass, "SPECULATIVE")))
    BY <2>2, TreatedAsWritten
  <2>4. /\ answer.source.age <= MaxStalenessMs(path)
        /\ treatment.deferred = DeferredFields(path)
        /\ treatment.invariant = InvariantFields(path)
        /\ treatment.volatility = VolatilityMap(path)
        /\ treatment.replaceThreshold = ReplaceThreshold(path)
    BY <2>1, <2>2 DEF Treatment
  <2> HIDE DEF ep, treatment
  <2>5. ASSUME NEW f \in Field
        PROVE  /\ treatment.volatility[f] = VolatilityOf(path, f)
               /\ f \in treatment.deferred <=> ClassOf(path, f) \in {"DEFERRED", "PROVISIONAL"}
               /\ f \in treatment.invariant <=> ClassOf(path, f) = "INVARIANT"
    BY <2>4 DEF VolatilityMap, DeferredFields, InvariantFields
  <2>6. /\ answer.source.age <= FirstSet(<<ep.maxStaleness>>, 5000)
        /\ treatment.replaceThreshold = FirstSet(<<ep.replaceThreshold>>, 50)
    BY <2>3, <2>4, FirstSetOfOne
  <2>7. ASSUME NEW f \in Field
        PROVE  /\ VolatilityOf(path, f) =
                    FirstSet(<<Says(ep, f, "volatility"), ep.volatility>>, "low")
               /\ ClassOf(path, f) = class(f)
    BY <2>3, FirstSetOfTwo
  <2> HIDE DEF class
  <2> QED
    BY <2>5, <2>6, <2>7
<1> QED
  BY <1>1, EndInvariant, PTL
====
