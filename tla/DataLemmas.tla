----------------------------- MODULE DataLemmas -----------------------------
(***************************************************************************)
(* Facts about the data the models are built from, for the proofs about    *)
(* them.  No state: everything here is constant.                           *)
(*                                                                         *)
(* First, a stream of requests cut into pieces, as a connection sees it:   *)
(* what is in its read buffer and on the network behind it goes on where   *)
(* the request it is reading stops.  A token <<n, i>> is the i-th of the   *)
(* n-th request; sz gives the tokens of each.  PeerCacheProofs and         *)
(* PeerHttpProofs use these facts.                                         *)
(*                                                                         *)
(* Then, the sum of a function over a finite set, which the library        *)
(* defines by taking the elements one after the other: the order does not  *)
(* matter.  A minimal counterexample (Smallest) stands for induction.      *)
(* LocalCacheProofs and CachePartsProofs use these facts.                  *)
(*                                                                         *)
(* Then, sequences of numbers defined by recursion, and free lists, for    *)
(* CachePartsProofs.                                                       *)
(*                                                                         *)
(* Last, streams made by joining one piece per element of a list, for the  *)
(* multi operations in SocketProofs.                                       *)
(***************************************************************************)
EXTENDS Integers, SequenceTheorems, FiniteSets, FiniteSetsExt, Functions, FiniteSetTheorems,
        WellFoundedInduction, TLAPS

\* The tokens p are a piece of a stream of whole requests of the sizes sz.
Cuts(p, sz) ==
    \A i \in 1..Len(p) :
        /\ p[i][1] \in 1..Len(sz) /\ p[i][2] \in 1..sz[p[i][1]]
        /\ \A m \in 1..sz[p[i][1]] :
              (i + m - p[i][2]) \in 1..Len(p) => p[i + m - p[i][2]] = <<p[i][1], m>>
        /\ (i < Len(p) /\ p[i][2] = sz[p[i][1]]) => p[i + 1] = <<p[i][1] + 1, 1>>

\* The token that follows when l tokens of the request c are still to come.
Expected(sz, c, l) == IF l = 0 THEN <<c + 1, 1>> ELSE <<c, sz[c] - l + 1>>

\* p goes on where the request c, of which l tokens are missing, stops, and if
\* the stream is whole goes on to its end.
Aligned(p, sz, c, l, whole) ==
    /\ Cuts(p, sz)
    /\ Len(p) > 0 => p[1] = Expected(sz, c, l)
    /\ (whole /\ Len(p) = 0) => (l = 0 /\ c = Len(sz))
    /\ (whole /\ Len(p) > 0) => p[Len(p)] = <<Len(sz), sz[Len(sz)]>>

-----------------------------------------------------------------------------
LEMMA Suffix ==
  ASSUME NEW S, NEW p \in Seq(S), NEW n \in 0..Len(p)
  PROVE  /\ SubSeq(p, n + 1, Len(p)) \in Seq(S)
         /\ Len(SubSeq(p, n + 1, Len(p))) = Len(p) - n
         /\ \A i \in 1..(Len(p) - n) : SubSeq(p, n + 1, Len(p))[i] = p[i + n]
  OBVIOUS

LEMMA Prefix ==
  ASSUME NEW S, NEW p \in Seq(S), NEW n \in 0..Len(p)
  PROVE  /\ SubSeq(p, 1, n) \in Seq(S)
         /\ Len(SubSeq(p, 1, n)) = n
         /\ \A i \in 1..n : SubSeq(p, 1, n)[i] = p[i]
  OBVIOUS

LEMMA Cat ==
  ASSUME NEW S, NEW r \in Seq(S), NEW p \in Seq(S)
  PROVE  /\ r \o p \in Seq(S) /\ Len(r \o p) = Len(r) + Len(p)
         /\ \A i \in 1..(Len(r) + Len(p)) :
               (r \o p)[i] = IF i <= Len(r) THEN r[i] ELSE p[i - Len(r)]
  OBVIOUS

LEMMA Appended ==
  ASSUME NEW S, NEW w \in Seq(S), NEW e \in S
  PROVE  /\ Append(w, e) \in Seq(S) /\ Len(Append(w, e)) = Len(w) + 1
         /\ \A i \in 1..Len(w) : Append(w, e)[i] = w[i]
         /\ Append(w, e)[Len(w) + 1] = e
  OBVIOUS

LEMMA Assoc ==
  \A r, p, t \in Seq(Nat \X Nat) : (r \o p) \o t = r \o (p \o t)
<1> DEFINE S == Nat \X Nat
<1> HIDE DEF S
<1>1. \A r, p, t \in Seq(S) : (r \o p) \o t = r \o (p \o t)
  BY ConcatAssociative
<1>. QED
  BY <1>1 DEF S

\* Bytes that move from the network to the buffer stay where they are in the
\* stream ...
LEMMA Moved ==
  ASSUME NEW S, NEW r \in Seq(S), NEW p \in Seq(S), NEW n \in 0..Len(p)
  PROVE  (r \o SubSeq(p, 1, n)) \o SubSeq(p, n + 1, Len(p)) = r \o p
<1> DEFINE a == SubSeq(p, 1, n)
           b == SubSeq(p, n + 1, Len(p))
<1>1. a \in Seq(S) /\ Len(a) = n /\ \A i \in 1..n : a[i] = p[i]
  BY Prefix
<1>2. b \in Seq(S) /\ Len(b) = Len(p) - n /\ \A i \in 1..(Len(p) - n) : b[i] = p[i + n]
  BY Suffix
<1>3. n \in Nat /\ Len(p) \in Nat /\ Len(r) \in Nat
  OBVIOUS
<1>4. a \o b = p
  <2> HIDE DEF a, b
  <2>0. /\ a \o b \in Seq(S) /\ Len(a \o b) = Len(a) + Len(b)
        /\ \A i \in 1..(Len(a) + Len(b)) : (a \o b)[i] = IF i <= Len(a) THEN a[i] ELSE b[i - Len(a)]
    BY <1>1, <1>2, Cat
  <2>1. Len(a \o b) = Len(p)
    BY <1>1, <1>2, <1>3, <2>0
  <2>2. \A i \in 1..Len(p) : (a \o b)[i] = p[i]
    <3>1. SUFFICES ASSUME NEW i \in 1..Len(p) PROVE (a \o b)[i] = p[i]
      OBVIOUS
    <3>4. i \in Nat /\ (i <= n \/ i > n)
      BY <1>3
    <3>2. CASE i <= n
      BY <1>1, <1>2, <1>3, <2>0, <3>2
    <3>3. CASE i > n
      <4>1. i - n \in 1..(Len(p) - n) /\ (i - n) + n = i
        BY <1>3, <3>3
      <4>2. b[i - n] = p[(i - n) + n]
        BY <1>2, <4>1
      <4>. QED
        BY <1>1, <1>2, <1>3, <2>0, <3>3, <4>1, <4>2
    <3>. QED
      BY <3>2, <3>3, <3>4
  <2>. QED
    BY <2>0, <2>1, <2>2, SeqEqual
<1>5. (r \o a) \o b = r \o (a \o b)
  <2> HIDE DEF a, b
  <2>. QED
    BY <1>1, <1>2, ConcatAssociative, SMTT(30)
<1>. QED
  BY <1>4, <1>5

\* ... and those taken from the buffer leave it at the front.
LEMMA TakenOff ==
  ASSUME NEW S, NEW r \in Seq(S), NEW p \in Seq(S), NEW n \in 0..Len(r)
  PROVE  SubSeq(r, n + 1, Len(r)) \o p = SubSeq(r \o p, n + 1, Len(r \o p))
<1> DEFINE a == SubSeq(r, n + 1, Len(r))
           q == r \o p
           b == SubSeq(q, n + 1, Len(q))
<1>1. a \in Seq(S) /\ Len(a) = Len(r) - n /\ \A i \in 1..(Len(r) - n) : a[i] = r[i + n]
  BY Suffix
<1>2. /\ q \in Seq(S) /\ Len(q) = Len(r) + Len(p) /\ n \in 0..Len(q)
      /\ \A i \in 1..Len(q) : q[i] = IF i <= Len(r) THEN r[i] ELSE p[i - Len(r)]
  OBVIOUS
<1>3. b \in Seq(S) /\ Len(b) = Len(q) - n /\ \A i \in 1..(Len(q) - n) : b[i] = q[i + n]
  <2> HIDE DEF q
  <2>. QED
    BY <1>2, Suffix
<1>4. n \in Nat /\ Len(p) \in Nat /\ Len(r) \in Nat
  OBVIOUS
<1> HIDE DEF a, b, q
<1>5. /\ a \o p \in Seq(S) /\ Len(a \o p) = Len(a) + Len(p)
      /\ \A i \in 1..(Len(a) + Len(p)) : (a \o p)[i] = IF i <= Len(a) THEN a[i] ELSE p[i - Len(a)]
  BY <1>1, Cat
<1>6. Len(a \o p) = Len(b) /\ \A i \in 1..Len(b) : (a \o p)[i] = b[i]
  <2>1. Len(a) = Len(r) - n /\ Len(b) = Len(a) + Len(p)
    BY <1>1, <1>2, <1>3, <1>4
  <2>2. SUFFICES ASSUME NEW i \in 1..Len(b) PROVE (a \o p)[i] = b[i]
    BY <1>5, <2>1
  <2>3. i + n \in 1..Len(q) /\ b[i] = q[i + n] /\ i \in 1..(Len(a) + Len(p))
    BY <1>2, <1>3, <1>4, <2>1
  <2>4. CASE i <= Len(a)
    BY <1>1, <1>2, <1>4, <1>5, <2>1, <2>3, <2>4
  <2>5. CASE i > Len(a)
    <3>1. i - Len(a) = (i + n) - Len(r)
      BY <1>4, <2>1
    <3>2. (a \o p)[i] = p[i - Len(a)]
      <4>1. ~(i <= Len(a))
        BY <1>4, <2>1, <2>5
      <4>. QED
        BY <1>5, <2>3, <4>1
    <3>3. q[i + n] = p[(i + n) - Len(r)]
      <4>1. ~(i + n <= Len(r))
        BY <1>4, <2>1, <2>5
      <4>. QED
        BY <1>2, <2>3, <4>1
    <3>. QED
      BY <2>3, <3>1, <3>2, <3>3
  <2>. QED
    BY <1>4, <2>1, <2>4, <2>5
<1>7. a \o p = b
  BY <1>3, <1>5, <1>6, SeqEqual
<1>. QED
  BY <1>7 DEF a, b, q

LEMMA Shift ==
  \A a, b, n \in Nat : b = a - n =>
      /\ \A i \in 1..b : i < b => i + n < a /\ i + 1 \in 1..(a - n) /\ (i + 1) + n = i + n + 1
      /\ b > 0 => b \in 1..(a - n) /\ b + n = a /\ a > 0
  OBVIOUS

LEMMA CutsSuffix ==
  ASSUME NEW sz \in Seq(1..6), NEW p \in Seq(Nat \X Nat), NEW n \in 0..Len(p), Cuts(p, sz)
  PROVE  Cuts(SubSeq(p, n + 1, Len(p)), sz)
<1> DEFINE q == SubSeq(p, n + 1, Len(p))
<1>1. q \in Seq(Nat \X Nat) /\ \A i \in 1..(Len(p) - n) : q[i] = p[i + n]
  BY Suffix
<1>0. Len(q) = Len(p) - n
  BY Suffix
<1>2. n \in Nat /\ Len(p) \in Nat /\ Len(sz) \in Nat
  OBVIOUS
<1> HIDE DEF q
<1>3. SUFFICES ASSUME NEW i \in 1..Len(q)
               PROVE  /\ q[i][1] \in 1..Len(sz) /\ q[i][2] \in 1..sz[q[i][1]]
                      /\ \A m \in 1..sz[q[i][1]] :
                            (i + m - q[i][2]) \in 1..Len(q) => q[i + m - q[i][2]] = <<q[i][1], m>>
                      /\ (i < Len(q) /\ q[i][2] = sz[q[i][1]]) => q[i + 1] = <<q[i][1] + 1, 1>>
  BY DEF Cuts, q
<1>4. i + n \in 1..Len(p) /\ q[i] = p[i + n]
  BY <1>0, <1>1, <1>2
<1> DEFINE c == p[i + n][1]
           k == p[i + n][2]
<1>10. c \in 1..Len(sz) /\ k \in 1..sz[c]
  BY <1>4 DEF Cuts
<1>5. /\ \A m \in 1..sz[c] : (i + n + m - k) \in 1..Len(p) => p[i + n + m - k] = <<c, m>>
      /\ (i + n < Len(p) /\ k = sz[c]) => p[i + n + 1] = <<c + 1, 1>>
  BY <1>4 DEF Cuts
<1>7. q[i][1] = c /\ q[i][2] = k
  BY <1>4
<1> HIDE DEF c, k
<1>6. sz[c] \in 1..6 /\ c \in Nat /\ k \in Nat
  BY <1>10
<1>8. ASSUME NEW m \in 1..sz[c], (i + m - k) \in 1..Len(q) PROVE q[i + m - k] = <<c, m>>
  <2>1. (i + n + m - k) \in 1..Len(p) /\ (i + m - k) + n = i + n + m - k
    BY <1>0, <1>2, <1>6, <1>8
  <2>. QED
    BY <1>0, <1>1, <1>5, <1>8, <2>1
<1>9. ASSUME i < Len(q), k = sz[c] PROVE q[i + 1] = <<c + 1, 1>>
  <2>0. i < Len(q)
    BY <1>9
  <2>1. i + n < Len(p) /\ i + 1 \in 1..(Len(p) - n) /\ (i + 1) + n = i + n + 1
    <3>1. i \in Nat /\ i >= 1 /\ Len(q) \in Nat
      BY <1>1
    <3>2. i + n < Len(p)
      BY <1>0, <1>2, <2>0, <3>1
    <3>3. i + 1 <= Len(p) - n /\ i + 1 >= 1 /\ i + 1 \in Nat
      BY <1>0, <1>2, <2>0, <3>1
    <3>4. (i + 1) + n = i + n + 1
      BY <1>2, <3>1
    <3>. QED
      BY <1>2, <3>2, <3>3, <3>4
  <2>2. p[i + n + 1] = <<c + 1, 1>>
    BY <1>5, <1>9, <2>1
  <2>. QED
    BY <1>1, <2>1, <2>2
<1>. QED
  BY <1>7, <1>8, <1>9, <1>10

LEMMA Offsets ==
  \A s, l, j \in Nat : (l < s /\ j <= l) =>
         /\ s - l + j <= s /\ s - l + j \in Nat \ {0} /\ 1 + (s - l + j) - (s - l + 1) = j
         /\ s - l + (j + 1) = s - (l - j) + 1
  OBVIOUS

\* A body is consumed, whole or in part.
LEMMA TakeBody ==
  ASSUME NEW sz \in Seq(1..6), NEW p \in Seq(Nat \X Nat), NEW c \in 1..Len(sz),
         NEW l \in Nat, l < sz[c], NEW n \in Nat \ {0}, n <= l, n <= Len(p), NEW whole \in BOOLEAN,
         Aligned(p, sz, c, l, whole)
  PROVE  Aligned(SubSeq(p, n + 1, Len(p)), sz, c, l - n, whole)
<1> DEFINE q == SubSeq(p, n + 1, Len(p))
<1>00. n \in 0..Len(p) /\ n \in Nat /\ Len(p) \in Nat /\ 1 \in 1..Len(p)
  OBVIOUS
<1>1. q \in Seq(Nat \X Nat) /\ \A i \in 1..(Len(p) - n) : q[i] = p[i + n]
  BY <1>00, Suffix
<1>0. Len(q) = Len(p) - n
  BY <1>00, Suffix
<1>2. Cuts(q, sz)
  BY <1>00, CutsSuffix DEF Aligned
<1>3. n \in Nat /\ Len(p) \in Nat /\ Len(sz) \in Nat /\ l \in Nat /\ sz[c] \in 1..6 /\ c \in Nat /\ l < sz[c]
  OBVIOUS
<1> HIDE DEF q
<1>10. PICK s \in Nat : s = sz[c]
  BY <1>3
<1>11. l < s
  BY <1>10
<1>4. p[1] = <<c, s - l + 1>> /\ Cuts(p, sz)
  <2>1. l # 0 /\ Len(p) > 0
    BY <1>00
  <2>. QED
    BY <1>10, <2>1 DEF Aligned, Expected
<1>5. ASSUME NEW j \in 1..l, j <= Len(p) PROVE p[j] = <<c, s - l + j>>
  <2> DEFINE m == s - l + j
  <2>1. m \in 1..s /\ 1 + m - (s - l + 1) = j /\ j \in 1..Len(p)
    <3>1. j \in Nat /\ j <= l /\ j \in 1..Len(p)
      BY <1>00, <1>5
    <3>2. m <= s /\ m \in Nat \ {0} /\ 1 + m - (s - l + 1) = j
      BY <1>11, <3>1, Offsets
    <3> HIDE DEF m
    <3>. QED
      BY <3>1, <3>2
  <2>2. p[1][1] = c /\ p[1][2] = s - l + 1
    BY <1>4
  <2> HIDE DEF m
  <2>3. (1 + m - p[1][2]) \in 1..Len(p) => p[1 + m - p[1][2]] = <<c, m>>
    BY <1>00, <1>4, <1>10, <2>1, <2>2 DEF Cuts
  <2>4. p[j] = <<c, m>>
    BY <2>1, <2>2, <2>3
  <2>. QED
    BY <2>4 DEF m
<1>6. ASSUME Len(q) > 0 PROVE q[1] = Expected(sz, c, l - n)
  <2>1. q[1] = p[n + 1] /\ n + 1 \in 1..Len(p)
    <3>1. 1 \in 1..(Len(p) - n) /\ n + 1 \in 1..Len(p) /\ 1 + n = n + 1
      BY <1>0, <1>00, <1>6
    <3>. QED
      BY <1>1, <3>1
  <2>2. CASE n = l
    <3>0. n \in 1..Len(p) /\ n < Len(p)
      BY <1>0, <1>00, <1>6
    <3>1. p[n] = <<c, s - l + n>> /\ s - l + n = s
      BY <1>3, <1>5, <2>2
    <3>3. p[n][1] = c /\ p[n][2] = s
      BY <3>1
    <3>2. p[n + 1] = <<c + 1, 1>>
      BY <1>4, <1>10, <3>0, <3>3 DEF Cuts
    <3>. QED
      BY <1>3, <2>1, <2>2, <3>2 DEF Expected
  <2>3. CASE n < l
    <3>0. n + 1 \in 1..l /\ n + 1 <= Len(p)
      BY <1>00, <2>1, <2>3
    <3>1. p[n + 1] = <<c, s - l + (n + 1)>>
      BY <1>5, <3>0
    <3>2. l - n # 0 /\ s - l + (n + 1) = s - (l - n) + 1
      <4>2. s - l + (n + 1) = s - (l - n) + 1
        BY <1>11, Offsets
      <4>3. l - n # 0
        BY <2>3
      <4>. QED
        BY <4>2, <4>3
    <3>. QED
      BY <1>10, <2>1, <3>1, <3>2 DEF Expected
  <2>. QED
    BY <1>00, <2>2, <2>3
<1>7. ASSUME whole, Len(q) = 0 PROVE l - n = 0 /\ c = Len(sz)
  <2>1. n = Len(p) /\ Len(p) > 0
    BY <1>0, <1>00, <1>7
  <2>2. p[n] = <<Len(sz), sz[Len(sz)]>>
    BY <1>7, <2>1 DEF Aligned
  <2>3. p[n] = <<c, s - l + n>>
    BY <1>5
  <2>4. c = Len(sz) /\ s - l + n = s
    BY <1>10, <2>2, <2>3
  <2>. QED
    BY <2>4
<1>8. ASSUME whole, Len(q) > 0 PROVE q[Len(q)] = <<Len(sz), sz[Len(sz)]>>
  <2>2. Len(q) > 0
    BY <1>8
  <2>0. Len(q) \in 1..(Len(p) - n) /\ Len(q) + n = Len(p) /\ Len(p) > 0
    <3>1. Len(q) \in Nat
      BY <1>1
    <3>. QED
      BY <1>0, <1>00, <2>2, <3>1, Shift, Zenon
  <2>1. q[Len(q)] = p[Len(p)]
    BY <1>1, <2>0
  <2>. QED
    BY <1>8, <2>0, <2>1 DEF Aligned
<1>9. Aligned(q, sz, c, l - n, whole)
  BY <1>2, <1>6, <1>7, <1>8 DEF Aligned
<1>. QED
  BY <1>9 DEF q

\* The header of the next request is consumed.
LEMMA TakeHeader ==
  ASSUME NEW sz \in Seq(1..6), NEW p \in Seq(Nat \X Nat), NEW c \in Nat,
         1 <= Len(p), NEW whole \in BOOLEAN, Aligned(p, sz, c, 0, whole)
  PROVE  /\ p[1] = <<c + 1, 1>> /\ c + 1 \in 1..Len(sz)
         /\ Aligned(SubSeq(p, 2, Len(p)), sz, c + 1, sz[c + 1] - 1, whole)
<1> DEFINE q == SubSeq(p, 2, Len(p))
           d == c + 1
<1>00. 1 \in 0..Len(p) /\ 1 + 1 = 2 /\ Len(p) \in Nat
  OBVIOUS
<1>1. q \in Seq(Nat \X Nat) /\ \A i \in 1..(Len(p) - 1) : q[i] = p[i + 1]
  BY <1>00, Suffix
<1>0. Len(q) = Len(p) - 1
  BY <1>00, Suffix
<1>2. p[1] = <<d, 1>> /\ Cuts(p, sz) /\ 1 \in 1..Len(p)
  BY DEF Aligned, Expected
<1>3. d \in 1..Len(sz) /\ sz[d] \in 1..6 /\ Len(p) \in Nat /\ d \in Nat /\ Len(sz) \in Nat
  BY <1>2 DEF Cuts
<1>4. Cuts(q, sz)
  BY <1>00, <1>2, CutsSuffix
<1> HIDE DEF q, d
<1>5. ASSUME Len(q) > 0 PROVE q[1] = Expected(sz, d, sz[d] - 1)
  <2>0. 2 \in 1..Len(p) /\ 1 < Len(p) /\ 1 \in 1..(Len(p) - 1)
    BY <1>0, <1>00, <1>5
  <2>1. q[1] = p[2] /\ 2 \in 1..Len(p) /\ 1 < Len(p)
    BY <1>00, <1>1, <2>0
  <2>2. p[1][1] = d /\ p[1][2] = 1
    BY <1>2
  <2>3. CASE sz[d] = 1
    <3>1. p[2] = <<d + 1, 1>>
      BY <1>2, <2>1, <2>2, <2>3 DEF Cuts
    <3>. QED
      BY <2>1, <2>3, <3>1 DEF Expected
  <2>4. CASE sz[d] > 1
    <3>1. 2 \in 1..sz[d] /\ 1 + 2 - 1 = 2
      BY <1>3, <2>4
    <3>2. p[2] = <<d, 2>>
      BY <1>2, <2>1, <2>2, <3>1 DEF Cuts
    <3>3. sz[d] - 1 # 0 /\ sz[d] - (sz[d] - 1) + 1 = 2
      BY <1>3, <2>4
    <3>. QED
      BY <2>1, <3>2, <3>3 DEF Expected
  <2>. QED
    BY <1>3, <2>3, <2>4
<1>6. ASSUME whole, Len(q) = 0 PROVE sz[d] - 1 = 0 /\ d = Len(sz)
  <2>1. 1 = Len(p) /\ Len(p) > 0
    BY <1>0, <1>00, <1>6
  <2>2. p[1] = <<Len(sz), sz[Len(sz)]>>
    BY <1>6, <2>1 DEF Aligned
  <2>3. d = Len(sz) /\ sz[d] = 1
    BY <1>2, <2>2
  <2>. QED
    BY <2>3
<1>7. ASSUME whole, Len(q) > 0 PROVE q[Len(q)] = <<Len(sz), sz[Len(sz)]>>
  <2>0. Len(q) \in 1..(Len(p) - 1) /\ Len(q) + 1 = Len(p) /\ Len(p) > 0
    BY <1>0, <1>00, <1>7
  <2>1. q[Len(q)] = p[Len(p)]
    BY <1>1, <2>0
  <2>. QED
    BY <1>7, <2>0, <2>1 DEF Aligned
<1>8. Aligned(q, sz, d, sz[d] - 1, whole)
  BY <1>4, <1>5, <1>6, <1>7 DEF Aligned
<1>. QED
  BY <1>2, <1>3, <1>8 DEF q, d

\* The connection breaks and the bytes on their way are lost.
LEMMA LoseNet ==
  ASSUME NEW sz \in Seq(1..6), NEW r \in Seq(Nat \X Nat), NEW p \in Seq(Nat \X Nat),
         NEW c \in Nat, NEW l \in Nat, NEW whole \in BOOLEAN, Aligned(r \o p, sz, c, l, whole)
  PROVE  Aligned(r \o <<>>, sz, c, l, FALSE)
<1> DEFINE q == r \o p
<1>0. Len(q) = Len(r) + Len(p)
  BY Cat
<1>1. /\ q \in Seq(Nat \X Nat)
      /\ \A i \in 1..(Len(r) + Len(p)) : q[i] = IF i <= Len(r) THEN r[i] ELSE p[i - Len(r)]
  BY Cat
<1>2. Len(r) \in Nat /\ Len(p) \in Nat /\ r \o <<>> = r
  OBVIOUS
<1>3. Cuts(q, sz) /\ (Len(q) > 0 => q[1] = Expected(sz, c, l))
  BY DEF Aligned
<1> HIDE DEF q
<1>4. ASSUME NEW i \in 1..Len(r) PROVE i \in 1..Len(q) /\ q[i] = r[i]
  <2>1. i \in 1..(Len(r) + Len(p)) /\ i <= Len(r)
    BY <1>2
  <2>. QED
    BY <1>0, <1>1, <2>1
<1>5. Cuts(r, sz)
  <2>1. SUFFICES ASSUME NEW i \in 1..Len(r)
                 PROVE  /\ r[i][1] \in 1..Len(sz) /\ r[i][2] \in 1..sz[r[i][1]]
                        /\ \A m \in 1..sz[r[i][1]] :
                              (i + m - r[i][2]) \in 1..Len(r) => r[i + m - r[i][2]] = <<r[i][1], m>>
                        /\ (i < Len(r) /\ r[i][2] = sz[r[i][1]]) => r[i + 1] = <<r[i][1] + 1, 1>>
    BY DEF Cuts
  <2> DEFINE d == r[i][1]
             k == r[i][2]
  <2>2. /\ d \in 1..Len(sz) /\ k \in 1..sz[d]
        /\ \A m \in 1..sz[d] : (i + m - k) \in 1..Len(q) => q[i + m - k] = <<d, m>>
        /\ (i < Len(q) /\ k = sz[d]) => q[i + 1] = <<d + 1, 1>>
    BY <1>3, <1>4 DEF Cuts
  <2> HIDE DEF d, k
  <2>3. \A m \in 1..sz[d] : (i + m - k) \in 1..Len(r) => r[i + m - k] = <<d, m>>
    BY <1>4, <2>2
  <2>4. (i < Len(r) /\ k = sz[d]) => r[i + 1] = <<d + 1, 1>>
    <3>1. i < Len(r) => i + 1 \in 1..Len(r) /\ i < Len(q)
      BY <1>0, <1>2
    <3>. QED
      BY <1>4, <2>2, <3>1
  <2>. QED
    BY <2>2, <2>3, <2>4 DEF d, k
<1>6. Len(r) > 0 => r[1] = Expected(sz, c, l)
  <2>1. Len(r) > 0 => 1 \in 1..Len(r) /\ Len(q) > 0
    BY <1>0, <1>2
  <2>. QED
    BY <1>3, <1>4, <2>1
<1>. QED
  BY <1>2, <1>5, <1>6 DEF Aligned

\* A request is sent: the stream goes on behind its end.
LEMMA Extend ==
  ASSUME NEW sz \in Seq(1..6), NEW p \in Seq(Nat \X Nat), NEW c \in Nat, NEW l \in Nat,
         c <= Len(sz), l = 0 \/ c >= 1,
         NEW z \in 1..6, NEW t \in Seq(Nat \X Nat), Len(t) = z,
         \A i \in 1..z : t[i] = <<Len(sz) + 1, i>>,
         Aligned(p, sz, c, l, TRUE)
  PROVE  Aligned(p \o t, Append(sz, z), c, l, TRUE)
<1> DEFINE q == p \o t
           s == Append(sz, z)
           N == Len(sz)
           L == Len(p)
<1>1. q \in Seq(Nat \X Nat)
  BY Cat
<1>2. Len(q) = L + z
  BY Cat
<1>3. \A i \in 1..(L + z) : q[i] = IF i <= L THEN p[i] ELSE t[i - L]
  BY Cat
<1>4. s \in Seq(1..6) /\ Len(s) = N + 1 /\ (\A n \in 1..N : s[n] = sz[n]) /\ s[N + 1] = z
  OBVIOUS
<1>5. L \in Nat /\ N \in Nat /\ z \in Nat /\ z >= 1
  OBVIOUS
<1>6. Cuts(p, sz)
  BY DEF Aligned
<1>7. L > 0 => p[1] = Expected(sz, c, l) /\ p[L] = <<N, sz[N]>>
  BY DEF Aligned
<1>8. L = 0 => l = 0 /\ c = N
  BY DEF Aligned
<1>9. \A i \in 1..L : q[i] = p[i]
  BY <1>3, <1>5
<1>10. \A i \in 1..z : q[L + i] = <<N + 1, i>>
  <2>1. SUFFICES ASSUME NEW i \in 1..z PROVE q[L + i] = <<N + 1, i>>
    OBVIOUS
  <2>2. L + i \in 1..(L + z) /\ ~(L + i <= L) /\ (L + i) - L = i
    BY <1>5
  <2> HIDE DEF q, L, N
  <2>3. q[L + i] = t[i]
    BY <1>3, <2>2
  <2>. QED
    BY <2>3 DEF N
<1> HIDE DEF q, s, N, L
\* the old part
<1>11. ASSUME NEW i \in 1..L
       PROVE  /\ p[i][1] \in 1..N /\ p[i][2] \in 1..sz[p[i][1]] /\ sz[p[i][1]] \in 1..6
              /\ \A m \in 1..sz[p[i][1]] :
                    (i + m - p[i][2]) \in 1..L => p[i + m - p[i][2]] = <<p[i][1], m>>
              /\ (i < L /\ p[i][2] = sz[p[i][1]]) => p[i + 1] = <<p[i][1] + 1, 1>>
  <2>1. i \in 1..Len(p)
    BY DEF L
  <2>2. p[i][1] \in 1..N /\ p[i][2] \in 1..sz[p[i][1]]
    BY <1>6, <2>1 DEF Cuts, N
  <2>3. sz[p[i][1]] \in 1..6
    BY <2>2 DEF N
  <2>4. \A m \in 1..sz[p[i][1]] :
           (i + m - p[i][2]) \in 1..L => p[i + m - p[i][2]] = <<p[i][1], m>>
    BY <1>6, <2>1, Zenon DEF Cuts, L
  <2>5. (i < L /\ p[i][2] = sz[p[i][1]]) => p[i + 1] = <<p[i][1] + 1, 1>>
    BY <1>6, <2>1, Zenon DEF Cuts, L
  <2>. QED
    BY <2>2, <2>3, <2>4, <2>5
<1>12. ASSUME NEW i \in 1..L
       PROVE  /\ q[i][1] \in 1..Len(s) /\ q[i][2] \in 1..s[q[i][1]]
              /\ \A m \in 1..s[q[i][1]] :
                    (i + m - q[i][2]) \in 1..Len(q) => q[i + m - q[i][2]] = <<q[i][1], m>>
              /\ (i < Len(q) /\ q[i][2] = s[q[i][1]]) => q[i + 1] = <<q[i][1] + 1, 1>>
  <2> DEFINE d == p[i][1]
             k == p[i][2]
  <2>1. q[i] = p[i]
    BY <1>9
  <2>2. /\ d \in 1..N /\ k \in 1..sz[d] /\ sz[d] \in 1..6
    BY <1>11
  <2>3. \A m \in 1..sz[d] : (i + m - k) \in 1..L => p[i + m - k] = <<d, m>>
    BY <1>11
  <2>4. (i < L /\ k = sz[d]) => p[i + 1] = <<d + 1, 1>>
    BY <1>11
  <2>5. q[i][1] = d /\ q[i][2] = k
    BY <2>1
  <2> HIDE DEF d, k
  <2>6. s[d] = sz[d] /\ d \in 1..Len(s) /\ d \in Nat /\ k \in Nat
    BY <1>4, <1>5, <2>2
  <2>7. PICK x \in Nat : x = sz[d] /\ k <= x /\ k >= 1
    BY <2>2, SMTT(30)
  <2>8. i \in Nat /\ i <= L /\ i >= 1
    BY <1>5
  <2>9. ASSUME NEW m \in 1..x, (i + m - k) \in 1..(L + z) PROVE q[i + m - k] = <<d, m>>
    <3>1. CASE i + m - k <= L
      <4>1. (i + m - k) \in 1..L
        BY <1>5, <2>8, <2>9, <3>1
      <4>. QED
        BY <1>9, <2>3, <2>7, <2>9, <4>1
    <3>2. CASE i + m - k > L
      <4> DEFINE y == k + L - i
      <4>1. y \in 1..x /\ i + y - k = L /\ L \in 1..L /\ y < m /\ m <= x /\ y \in Nat
        BY <1>5, <2>6, <2>7, <2>8, <2>9, <3>2
      <4> HIDE DEF y
      <4>2. p[L] = <<d, y>>
        BY <2>3, <2>7, <4>1
      <4>3. p[L] = <<N, sz[N]>>
        BY <1>5, <1>7, <2>8
      <4>4. y = x
        BY <2>7, <4>2, <4>3
      <4>. QED
        BY <2>9, <4>1, <4>4
    <3>. QED
      BY <1>5, <2>6, <2>8, <2>9, <3>1, <3>2
  <2>10. ASSUME i < L + z, k = sz[d] PROVE q[i + 1] = <<d + 1, 1>>
    <3>1. CASE i < L
      <4>1. i + 1 \in 1..L
        BY <1>5, <2>8, <3>1
      <4>. QED
        BY <1>9, <2>4, <2>10, <3>1, <4>1
    <3>2. CASE i = L
      <4>1. q[L + 1] = <<N + 1, 1>>
        BY <1>5, <1>10
      <4>2. p[L] = <<N, sz[N]>> /\ p[L] = p[i]
        BY <1>5, <1>7, <2>8, <3>2
      <4>3. d = N
        BY <4>2 DEF d
      <4>. QED
        BY <3>2, <4>1, <4>3
    <3>. QED
      BY <1>5, <2>8, <3>1, <3>2
  <2>. QED
    BY <1>2, <2>2, <2>5, <2>6, <2>7, <2>9, <2>10
<1>13. ASSUME NEW j \in 1..z
       PROVE  /\ q[L + j][1] \in 1..Len(s) /\ q[L + j][2] \in 1..s[q[L + j][1]]
              /\ \A m \in 1..s[q[L + j][1]] :
                    (L + j + m - q[L + j][2]) \in 1..Len(q)
                      => q[L + j + m - q[L + j][2]] = <<q[L + j][1], m>>
              /\ (L + j < Len(q) /\ q[L + j][2] = s[q[L + j][1]])
                    => q[L + j + 1] = <<q[L + j][1] + 1, 1>>
  <2>1. q[L + j][1] = N + 1 /\ q[L + j][2] = j
    BY <1>10
  <2>2. N + 1 \in 1..Len(s) /\ s[N + 1] = z /\ j \in 1..z
    BY <1>4, <1>5
  <2>3. ASSUME NEW m \in 1..z PROVE q[L + j + m - j] = <<N + 1, m>>
    <3>1. L + j + m - j = L + m
      BY <1>5
    <3>. QED
      BY <1>10, <3>1
  <2>4. ~(L + j < L + z /\ j = z)
    BY <1>5
  <2>. QED
    BY <1>2, <2>1, <2>2, <2>3, <2>4
<1>14. Cuts(q, s)
  <2>1. SUFFICES ASSUME NEW i \in 1..Len(q)
                 PROVE  /\ q[i][1] \in 1..Len(s) /\ q[i][2] \in 1..s[q[i][1]]
                        /\ \A m \in 1..s[q[i][1]] :
                              (i + m - q[i][2]) \in 1..Len(q) => q[i + m - q[i][2]] = <<q[i][1], m>>
                        /\ (i < Len(q) /\ q[i][2] = s[q[i][1]]) => q[i + 1] = <<q[i][1] + 1, 1>>
    BY DEF Cuts
  <2>2. CASE i \in 1..L
    BY <1>12, <2>2
  <2>3. CASE i \notin 1..L
    <3>1. PICK j \in 1..z : i = L + j
      <4>1. i - L \in 1..z /\ i = L + (i - L)
        BY <1>2, <1>5, <2>3
      <4>. QED
        BY <4>1
    <3>. QED
      BY <1>13, <3>1
  <2>. QED
    BY <2>2, <2>3
<1>15. q[1] = Expected(s, c, l)
  <2>1. CASE L > 0
    <3>1. 1 \in 1..L
      BY <1>5, <2>1
    <3>2. l # 0 => s[c] = sz[c]
      BY <1>4 DEF N
    <3>. QED
      BY <1>7, <1>9, <2>1, <3>1, <3>2 DEF Expected
  <2>2. CASE L = 0
    <3>1. q[L + 1] = <<N + 1, 1>> /\ L + 1 = 1
      BY <1>5, <1>10, <2>2
    <3>. QED
      BY <1>8, <2>2, <3>1 DEF Expected
  <2>. QED
    BY <1>5, <2>1, <2>2
<1>16. q[Len(q)] = <<Len(s), s[Len(s)]>> /\ Len(q) > 0
  BY <1>2, <1>4, <1>5, <1>10
<1>17. Aligned(q, s, c, l, TRUE)
  BY <1>14, <1>15, <1>16 DEF Aligned
<1>. QED
  BY <1>17 DEF q, s
\* What a stream that is in step begins with: the next request, as far as it
\* has come.
LEMMA FirstTokens ==
  ASSUME NEW sz \in Seq(1..6), NEW p \in Seq(Nat \X Nat), NEW c \in Nat,
         1 <= Len(p), NEW whole \in BOOLEAN, Aligned(p, sz, c, 0, whole)
  PROVE  /\ c + 1 \in 1..Len(sz)
         /\ \A j \in 1..sz[c + 1] : j <= Len(p) => p[j] = <<c + 1, j>>
<1>1. p[1] = <<c + 1, 1>> /\ c + 1 \in 1..Len(sz)
  BY TakeHeader
<1>2. 1 \in 1..Len(p) /\ Cuts(p, sz)
  BY DEF Aligned
<1> DEFINE d == p[1][1]
           k == p[1][2]
<1>3. d = c + 1 /\ k = 1
  BY <1>1
<1>4. \A m \in 1..sz[d] : (1 + m - k) \in 1..Len(p) => p[1 + m - k] = <<d, m>>
  BY <1>2 DEF Cuts
<1> HIDE DEF d, k
<1>5. sz[c + 1] \in 1..6
  BY <1>1
<1>6. SUFFICES ASSUME NEW j \in 1..sz[c + 1], j <= Len(p) PROVE p[j] = <<c + 1, j>>
  BY <1>1
<1>7. 1 + j - k = j /\ j \in 1..Len(p)
  BY <1>3, <1>5, <1>6
<1>. QED
  BY <1>3, <1>4, <1>7

LEMMA Twice ==
  ASSUME NEW S, NEW p \in Seq(S), 1 <= Len(p), NEW n \in 1..Len(p)
  PROVE  LET q == SubSeq(p, 2, Len(p)) IN
         /\ Len(q) = Len(p) - 1
         /\ SubSeq(q, (n - 1) + 1, Len(q)) = SubSeq(p, n + 1, Len(p))
<1> DEFINE q == SubSeq(p, 2, Len(p))
           a == SubSeq(q, (n - 1) + 1, Len(q))
           b == SubSeq(p, n + 1, Len(p))
<1>0. Len(p) \in Nat /\ n \in Nat /\ 1 \in 0..Len(p) /\ n \in 0..Len(p) /\ 1 + 1 = 2
  OBVIOUS
<1>1. q \in Seq(S) /\ Len(q) = Len(p) - 1 /\ \A i \in 1..(Len(p) - 1) : q[i] = p[i + 1]
  BY <1>0, Suffix, ZenonT(40)
<1>2. n - 1 \in 0..Len(q)
  BY <1>0, <1>1
<1>3. b \in Seq(S) /\ Len(b) = Len(p) - n /\ \A i \in 1..(Len(p) - n) : b[i] = p[i + n]
  BY <1>0, Suffix
<1>4. /\ a \in Seq(S) /\ Len(a) = Len(q) - (n - 1)
      /\ \A i \in 1..(Len(q) - (n - 1)) : a[i] = q[i + (n - 1)]
  <2> HIDE DEF q
  <2>. QED
    BY <1>1, <1>2, Suffix
<1> HIDE DEF a, b, q
<1>5. Len(a) = Len(p) - n /\ Len(b) = Len(a)
  BY <1>0, <1>1, <1>3, <1>4
<1>6. ASSUME NEW i \in 1..Len(b) PROVE a[i] = b[i]
  <2>1. i \in 1..(Len(q) - (n - 1)) /\ i \in 1..(Len(p) - n)
    BY <1>0, <1>1, <1>5
  <2>2. i + (n - 1) \in 1..(Len(p) - 1) /\ (i + (n - 1)) + 1 = i + n
    BY <1>0, <2>1
  <2>. QED
    BY <1>1, <1>3, <1>4, <2>1, <2>2
<1>7. a = b
  BY <1>3, <1>4, <1>5, <1>6, SeqEqual
<1>. QED
  BY <1>1, <1>7 DEF a, b, q

\* The first tokens of the next request are consumed.
LEMMA TakeFirst ==
  ASSUME NEW sz \in Seq(1..6), NEW p \in Seq(Nat \X Nat), NEW c \in Nat,
         NEW whole \in BOOLEAN, Aligned(p, sz, c, 0, whole),
         NEW n \in Nat \ {0}, n <= Len(p), n <= sz[c + 1]
  PROVE  /\ c + 1 \in 1..Len(sz)
         /\ Aligned(SubSeq(p, n + 1, Len(p)), sz, c + 1, sz[c + 1] - n, whole)
<1> DEFINE q == SubSeq(p, 2, Len(p))
           l == sz[c + 1] - 1
<1>0. Len(p) \in Nat /\ 1 <= Len(p) /\ n \in 1..Len(p) /\ 1 \in 0..Len(p) /\ 1 + 1 = 2
  OBVIOUS
<1>1. c + 1 \in 1..Len(sz) /\ Aligned(q, sz, c + 1, l, whole)
  BY <1>0, TakeHeader
<1>2. sz[c + 1] \in 1..6
  BY <1>1
<1>3. q \in Seq(Nat \X Nat)
  BY <1>0, Suffix
<1>4. Len(q) = Len(p) - 1
  BY <1>0, Suffix
<1> HIDE DEF q
<1>8. PICK s \in 1..6 : s = sz[c + 1]
  BY <1>2
<1>9. n <= s /\ l = s - 1
  BY <1>8
<1>5. l \in Nat /\ l < sz[c + 1] /\ l - (n - 1) = sz[c + 1] - n
  <2>1. s - 1 \in Nat /\ s - 1 < s /\ (s - 1) - (n - 1) = s - n
    OBVIOUS
  <2>. QED
    BY <1>8, <1>9, <2>1
<1>6. CASE n = 1
  <2>1. Aligned(q, sz, c + 1, sz[c + 1] - n, whole) /\ n + 1 = 2
    BY <1>1, <1>6
  <2>2. q = SubSeq(p, n + 1, Len(p))
    BY <2>1 DEF q
  <2>. QED
    BY <1>1, <2>1, <2>2
<1>7. CASE n # 1
  <2>0. n - 1 \in Nat \ {0} /\ n - 1 <= Len(q)
    BY <1>0, <1>4, <1>7
  <2>1. n - 1 \in Nat \ {0} /\ n - 1 <= l /\ n - 1 <= Len(q)
    <3>1. n - 1 <= s - 1
      BY <1>9
    <3>. QED
      BY <1>9, <2>0, <3>1
  <2> HIDE DEF q, l
  <2>2. Aligned(SubSeq(q, (n - 1) + 1, Len(q)), sz, c + 1, l - (n - 1), whole)
    BY <1>1, <1>3, <1>5, <2>1, TakeBody
  <2> DEFINE S == Nat \X Nat
  <2> HIDE DEF S
  <2>3. p \in Seq(S)
    BY DEF S
  <2>4. SubSeq(q, (n - 1) + 1, Len(q)) = SubSeq(p, n + 1, Len(p))
    BY <1>0, <2>3, Twice DEF q
  <2>. QED
    BY <1>1, <1>5, <2>2, <2>4
<1>. QED
  BY <1>6, <1>7

\* A set of numbers has a least one.
LEMMA Least ==
  ASSUME NEW T \in SUBSET Nat, T # {}
  PROVE  \E x \in T : \A y \in T : x <= y
<1> DEFINE R == OpToRel(<, Nat)
<1>1. \A a, b \in Nat : a < b => <<a, b>> \in R
  BY DEF OpToRel
<1>2. IsWellFoundedOn(R, Nat)
  BY NatLessThanWellFounded
<1>. HIDE DEF R
<1>3. PICK x \in T : \A y \in T : ~(<<y, x>> \in R)
  BY <1>2, WFMin
<1>4. ASSUME NEW y \in T PROVE x <= y
  <2>1. x \in Nat /\ y \in Nat
    OBVIOUS
  <2>2. ~(y < x)
    BY <1>1, <1>3, <2>1
  <2>. QED
    BY <2>1, <2>2
<1>. QED
  BY <1>4
-----------------------------------------------------------------------------
(* Sums over finite sets.                                                  *)

\* A nonempty set of subsets of a finite set has a smallest one.
LEMMA Smallest ==
  ASSUME NEW S, IsFiniteSet(S), NEW B \in SUBSET SUBSET S, B # {}
  PROVE  \E T \in B : IsFiniteSet(T) /\ \A U \in B : ~(U \subseteq T /\ U # T)
<1> DEFINE R == StrictSubsetOrdering(S)
           F == FiniteSubsetsOf(S)
<1>0. \A T \in SUBSET S : IsFiniteSet(T)
  BY FS_Subset
<1>1. B \subseteq F
  BY <1>0 DEF FiniteSubsetsOf
<1>2. IsWellFoundedOn(R, F)
  BY FS_StrictSubsetOrderingWellFounded
<1>3. \A U, T \in B : (U \subseteq T /\ U # T) => <<U, T>> \in R
  BY DEF StrictSubsetOrdering
<1> HIDE DEF R, F
<1>4. PICK T \in B : \A U \in B : ~(<<U, T>> \in R)
  BY <1>1, <1>2, WFMin
<1>. QED
  BY <1>0, <1>3, <1>4

Pick(s) == CHOOSE x \in s : TRUE

\* it adds the values of f over every part of S, one element at a time.
Adds(it, f, S) ==
  it = [s \in SUBSET S |-> IF s = {} THEN 0 ELSE f[Pick(s)] + it[s \ {Pick(s)}]]

LEMMA SumIs ==
  ASSUME NEW f, NEW S
  PROVE  SumFunctionOnSet(f, S) = (CHOOSE it : Adds(it, f, S))[S]
BY DEF SumFunctionOnSet, FoldFunctionOnSet, MapThenFoldSet, Adds, Pick

LEMMA Picked ==
  ASSUME NEW s, s # {}
  PROVE  Pick(s) \in s
BY DEF Pick

LEMMA AddsAt ==
  ASSUME NEW f, NEW S, NEW it, Adds(it, f, S), NEW s \in SUBSET S
  PROVE  it[s] = IF s = {} THEN 0 ELSE f[Pick(s)] + it[s \ {Pick(s)}]
BY DEF Adds

LEMMA AddsUnique ==
  ASSUME NEW f, NEW S, IsFiniteSet(S), NEW T, NEW a, NEW b, Adds(a, f, S), Adds(b, f, T),
         NEW V \in SUBSET S, V \in SUBSET T
  PROVE  a[V] = b[V]
<1> DEFINE B == {s \in SUBSET S : s \in SUBSET T /\ a[s] # b[s]}
<1>1. SUFFICES ASSUME B # {} PROVE FALSE
  OBVIOUS
<1>2. PICK s \in B : \A U \in B : ~(U \subseteq s /\ U # s)
  <2>1. B \in SUBSET SUBSET S
    OBVIOUS
  <2> HIDE DEF B
  <2>. QED
    BY <1>1, <2>1, Smallest
<1>0. s \in SUBSET S /\ s \in SUBSET T /\ a[s] # b[s]
  OBVIOUS
<1>3. a[s] = (IF s = {} THEN 0 ELSE f[Pick(s)] + a[s \ {Pick(s)}])
  BY <1>0, AddsAt
<1>4. b[s] = (IF s = {} THEN 0 ELSE f[Pick(s)] + b[s \ {Pick(s)}])
  BY <1>0 DEF Adds
<1>5. s # {}
  BY <1>3, <1>4
<1>6. s \ {Pick(s)} \notin B
  BY <1>2, <1>5, Picked
<1>7. a[s \ {Pick(s)}] = b[s \ {Pick(s)}]
  BY <1>6
<1>. QED
  BY <1>3, <1>4, <1>7

\* The defining equation, where the sums over the parts are known to exist.
LEMMA SumEquationIf ==
  ASSUME NEW f, NEW S, IsFiniteSet(S), \A T \in SUBSET S : \E it : Adds(it, f, T)
  PROVE  SumFunctionOnSet(f, S) =
           IF S = {} THEN 0 ELSE f[Pick(S)] + SumFunctionOnSet(f, S \ {Pick(S)})
<1> DEFINE a == CHOOSE it : Adds(it, f, S)
           R == S \ {Pick(S)}
           b == CHOOSE it : Adds(it, f, R)
<1>1. Adds(a, f, S)
  <2>1. \E it : Adds(it, f, S)
    OBVIOUS
  <2>. QED
    BY <2>1
<1>2. Adds(b, f, R)
  <2>1. \E it : Adds(it, f, R)
    OBVIOUS
  <2>. QED
    BY <2>1
<1>3. SumFunctionOnSet(f, S) = a[S] /\ SumFunctionOnSet(f, R) = b[R]
  BY SumIs
<1> HIDE DEF a, b
<1>4. a[S] = IF S = {} THEN 0 ELSE f[Pick(S)] + a[R]
  BY <1>1, AddsAt
<1>5. a[R] = b[R]
  <2>1. R \in SUBSET S /\ R \in SUBSET R
    OBVIOUS
  <2> HIDE DEF R
  <2>. QED
    BY <1>1, <1>2, <2>1, AddsUnique
<1>. QED
  BY <1>3, <1>4, <1>5

LEMMA AddsExists ==
  ASSUME NEW f, NEW S, IsFiniteSet(S)
  PROVE  \E it : Adds(it, f, S)
<1> DEFINE B == {T \in SUBSET S : ~\E it : Adds(it, f, T)}
<1>1. SUFFICES ASSUME B # {} PROVE FALSE
  OBVIOUS
<1>2. PICK T \in B : IsFiniteSet(T) /\ \A U \in B : ~(U \subseteq T /\ U # T)
  <2>1. B \in SUBSET SUBSET S
    OBVIOUS
  <2> HIDE DEF B
  <2>. QED
    BY <1>1, <2>1, Smallest
<1> DEFINE h == [s \in SUBSET T |->
                   IF s = {} THEN 0 ELSE f[Pick(s)] + SumFunctionOnSet(f, s \ {Pick(s)})]
<1>3. ASSUME NEW U, U \subseteq T, U # T
      PROVE  h[U] = SumFunctionOnSet(f, U)
  <2>1. \A V \in SUBSET U : \E it : Adds(it, f, V)
    BY <1>2, <1>3
  <2>2. IsFiniteSet(U)
    BY <1>2, <1>3, FS_Subset
  <2>3. SumFunctionOnSet(f, U) =
           IF U = {} THEN 0 ELSE f[Pick(U)] + SumFunctionOnSet(f, U \ {Pick(U)})
    BY <2>1, <2>2, SumEquationIf
  <2>. QED
    BY <1>3, <2>3
<1>4. ASSUME NEW s \in SUBSET T
      PROVE  h[s] = IF s = {} THEN 0 ELSE f[Pick(s)] + h[s \ {Pick(s)}]
  <2>1. CASE s = {}
    BY <2>1
  <2>2. CASE s # {}
    <3>1. s \ {Pick(s)} \subseteq T /\ s \ {Pick(s)} # T
      BY <2>2, Picked
    <3>2. h[s \ {Pick(s)}] = SumFunctionOnSet(f, s \ {Pick(s)})
      BY <1>3, <3>1
    <3>. QED
      BY <2>2, <3>2
  <2>. QED
    BY <2>1, <2>2
<1>5. Adds(h, f, T)
  <2>1. h = [s \in SUBSET T |-> h[s]]
    OBVIOUS
  <2>. HIDE DEF h
  <2>2. [s \in SUBSET T |-> h[s]]
          = [s \in SUBSET T |-> IF s = {} THEN 0 ELSE f[Pick(s)] + h[s \ {Pick(s)}]]
    BY <1>4
  <2>. QED
    BY <2>1, <2>2 DEF Adds
<1>. QED
  BY <1>2, <1>5

LEMMA SumEquation ==
  ASSUME NEW f, NEW S, IsFiniteSet(S)
  PROVE  SumFunctionOnSet(f, S) =
           IF S = {} THEN 0 ELSE f[Pick(S)] + SumFunctionOnSet(f, S \ {Pick(S)})
<1>1. \A T \in SUBSET S : IsFiniteSet(T)
  BY FS_Subset
<1>2. \A T \in SUBSET S : \E it : Adds(it, f, T)
  BY <1>1, AddsExists
<1>. QED
  BY <1>2, SumEquationIf

LEMMA SumOfNone ==
  ASSUME NEW f
  PROVE  SumFunctionOnSet(f, {}) = 0
BY FS_EmptySet, SumEquation

\* Any element may be added first.
LEMMA SumTakes ==
  ASSUME NEW f, NEW S, IsFiniteSet(S), \A x \in S : f[x] \in Int
  PROVE  /\ SumFunctionOnSet(f, S) \in Int
         /\ \A x \in S : SumFunctionOnSet(f, S) = f[x] + SumFunctionOnSet(f, S \ {x})
<1> DEFINE Sm(T) == SumFunctionOnSet(f, T)
           Ok(T) == Sm(T) \in Int /\ \A x \in T : Sm(T) = f[x] + Sm(T \ {x})
           B == {T \in SUBSET S : ~Ok(T)}
<1>0. \A T : IsFiniteSet(T) => Sm(T) = IF T = {} THEN 0 ELSE f[Pick(T)] + Sm(T \ {Pick(T)})
  BY SumEquation
<1> HIDE DEF Sm
<1>1. SUFFICES ASSUME B # {} PROVE FALSE
  BY DEF Sm
<1>2. PICK T \in B : IsFiniteSet(T) /\ \A U \in B : ~(U \subseteq T /\ U # T)
  <2>1. B \in SUBSET SUBSET S
    OBVIOUS
  <2> HIDE DEF B
  <2>. QED
    BY <1>1, <2>1, Smallest
<1>3. T \subseteq S /\ ~Ok(T)
  OBVIOUS
<1>4. \A U : (U \subseteq T /\ U # T) => Ok(U)
  BY <1>2, <1>3
<1>5. T # {}
  <2>1. SUFFICES ASSUME T = {} PROVE FALSE
    OBVIOUS
  <2>2. Sm(T) = 0
    BY <1>0, <1>2, <2>1
  <2>. QED
    BY <1>3, <2>1, <2>2
<1> DEFINE p == Pick(T)
<1>6. p \in T /\ f[p] \in Int
  BY <1>3, <1>5, Picked
<1>7. Sm(T) = f[p] + Sm(T \ {p}) /\ Sm(T \ {p}) \in Int
  <2>1. Ok(T \ {p})
    BY <1>4, <1>6
  <2>. QED
    BY <1>0, <1>2, <1>5, <2>1
<1> HIDE DEF p
<1>8. ASSUME NEW x \in T, x # p
      PROVE  Sm(T) = f[x] + Sm(T \ {x})
  <2>1. Ok(T \ {p}) /\ Ok(T \ {x}) /\ Ok((T \ {p}) \ {x})
    <3>1. (T \ {p}) \subseteq T /\ (T \ {p}) # T
      BY <1>6
    <3>2. (T \ {x}) \subseteq T /\ (T \ {x}) # T
      OBVIOUS
    <3>3. ((T \ {p}) \ {x}) \subseteq T /\ ((T \ {p}) \ {x}) # T
      OBVIOUS
    <3> HIDE DEF Ok
    <3>. QED
      BY <1>4, <3>1, <3>2, <3>3
  <2>2. Sm(T \ {p}) = f[x] + Sm((T \ {p}) \ {x})
    BY <1>8, <2>1
  <2>3. Sm(T \ {x}) = f[p] + Sm((T \ {x}) \ {p})
    BY <1>6, <1>8, <2>1
  <2>4. (T \ {x}) \ {p} = (T \ {p}) \ {x}
    OBVIOUS
  <2>5. f[x] \in Int /\ Sm((T \ {p}) \ {x}) \in Int
    BY <1>3, <2>1
  <2>6. \A a, b, c \in Int : a + (b + c) = b + (a + c)
    OBVIOUS
  <2>7. f[p] + (f[x] + Sm((T \ {p}) \ {x})) = f[x] + (f[p] + Sm((T \ {p}) \ {x}))
    BY <1>6, <2>5, <2>6
  <2>. QED
    BY <1>7, <2>2, <2>3, <2>4, <2>7
<1>9. Sm(T) \in Int
  BY <1>6, <1>7
<1>. QED
  BY <1>3, <1>7, <1>8, <1>9

LEMMA SumAdds ==
  ASSUME NEW f, NEW S, IsFiniteSet(S), NEW x, x \notin S, \A y \in S \cup {x} : f[y] \in Int
  PROVE  /\ SumFunctionOnSet(f, S \cup {x}) = SumFunctionOnSet(f, S) + f[x]
         /\ SumFunctionOnSet(f, S) \in Int
<1>1. IsFiniteSet(S \cup {x}) /\ (S \cup {x}) \ {x} = S /\ f[x] \in Int
  BY FS_AddElement
<1>2. SumFunctionOnSet(f, S) \in Int
  BY SumTakes
<1>3. SumFunctionOnSet(f, S \cup {x}) = f[x] + SumFunctionOnSet(f, (S \cup {x}) \ {x})
  BY <1>1, SumTakes
<1>4. \A a, b \in Int : a + b = b + a
  OBVIOUS
<1>5. f[x] + SumFunctionOnSet(f, S) = SumFunctionOnSet(f, S) + f[x]
  BY <1>1, <1>2, <1>4
<1>. QED
  BY <1>1, <1>2, <1>3, <1>5

\* The values outside the set do not matter.
LEMMA SumSame ==
  ASSUME NEW f, NEW g, NEW S, IsFiniteSet(S), \A x \in S : f[x] = g[x]
  PROVE  SumFunctionOnSet(f, S) = SumFunctionOnSet(g, S)
<1> DEFINE Sf(T) == SumFunctionOnSet(f, T)
           Sg(T) == SumFunctionOnSet(g, T)
           B == {T \in SUBSET S : Sf(T) # Sg(T)}
<1>0. /\ \A T : IsFiniteSet(T) => Sf(T) = IF T = {} THEN 0 ELSE f[Pick(T)] + Sf(T \ {Pick(T)})
      /\ \A T : IsFiniteSet(T) => Sg(T) = IF T = {} THEN 0 ELSE g[Pick(T)] + Sg(T \ {Pick(T)})
  BY SumEquation
<1> HIDE DEF Sf, Sg
<1>1. SUFFICES ASSUME B # {} PROVE FALSE
  BY DEF Sf, Sg
<1>2. PICK T \in B : IsFiniteSet(T) /\ \A U \in B : ~(U \subseteq T /\ U # T)
  <2>1. B \in SUBSET SUBSET S
    OBVIOUS
  <2> HIDE DEF B
  <2>. QED
    BY <1>1, <2>1, Smallest
<1>3. T \subseteq S /\ Sf(T) # Sg(T)
  OBVIOUS
<1>4. T # {}
  BY <1>0, <1>2, <1>3
<1>5. Pick(T) \in T /\ f[Pick(T)] = g[Pick(T)]
  BY <1>3, <1>4, Picked
<1>6. Sf(T \ {Pick(T)}) = Sg(T \ {Pick(T)})
  BY <1>2, <1>3, <1>5
<1>7. Sf(T) = f[Pick(T)] + Sf(T \ {Pick(T)}) /\ Sg(T) = g[Pick(T)] + Sg(T \ {Pick(T)})
  BY <1>0, <1>2, <1>4
<1>. QED
  BY <1>3, <1>5, <1>6, <1>7

\* The sum over two sets that share nothing.
LEMMA SumUnion ==
  ASSUME NEW f, NEW S, NEW U, IsFiniteSet(S), IsFiniteSet(U), S \cap U = {},
         \A x \in S \cup U : f[x] \in Int
  PROVE  SumFunctionOnSet(f, S \cup U) = SumFunctionOnSet(f, S) + SumFunctionOnSet(f, U)
<1> DEFINE Sm(T) == SumFunctionOnSet(f, T)
           B == {T \in SUBSET U : Sm(S \cup T) # Sm(S) + Sm(T)}
<1>0. \A T : (IsFiniteSet(T) /\ T \subseteq S \cup U) =>
         Sm(T) \in Int /\ \A x \in T : Sm(T) = f[x] + Sm(T \ {x})
  BY SumTakes
<1>00. Sm({}) = 0
  BY SumOfNone
<1> HIDE DEF Sm
<1>1. SUFFICES ASSUME B # {} PROVE FALSE
  BY DEF Sm
<1>2. PICK T \in B : IsFiniteSet(T) /\ \A V \in B : ~(V \subseteq T /\ V # T)
  <2>1. B \in SUBSET SUBSET U
    OBVIOUS
  <2> HIDE DEF B
  <2>. QED
    BY <1>1, <2>1, Smallest
<1>3. T \subseteq U /\ Sm(S \cup T) # Sm(S) + Sm(T)
  OBVIOUS
<1>4. Sm(S) \in Int
  BY <1>0
<1>5. T # {}
  <2>1. SUFFICES ASSUME T = {} PROVE FALSE
    OBVIOUS
  <2>2. S \cup T = S
    BY <2>1
  <2>. QED
    BY <1>00, <1>3, <1>4, <2>1, <2>2
<1>6. PICK x \in T : TRUE
  BY <1>5
<1>7. Sm(S \cup (T \ {x})) = Sm(S) + Sm(T \ {x})
  BY <1>2, <1>3
<1>8. IsFiniteSet(S \cup T) /\ IsFiniteSet(T \ {x})
  BY <1>2, FS_Union, FS_RemoveElement
<1>9. Sm(T) = f[x] + Sm(T \ {x}) /\ Sm(T \ {x}) \in Int
  BY <1>0, <1>2, <1>3, <1>8
<1>10. Sm(S \cup T) = f[x] + Sm((S \cup T) \ {x})
  BY <1>0, <1>3, <1>8
<1>11. (S \cup T) \ {x} = S \cup (T \ {x})
  BY <1>3
<1>12. f[x] \in Int
  BY <1>3
<1>13. \A a, b, c \in Int : a + (b + c) = b + (a + c)
  OBVIOUS
<1>14. f[x] + (Sm(S) + Sm(T \ {x})) = Sm(S) + (f[x] + Sm(T \ {x}))
  BY <1>4, <1>9, <1>12, <1>13
<1>. QED
  BY <1>3, <1>7, <1>9, <1>10, <1>11, <1>14

\* Some of the elements go.
LEMMA SumLeaves ==
  ASSUME NEW f, NEW C, IsFiniteSet(C), NEW G \in SUBSET C, \A x \in C : f[x] \in Int
  PROVE  /\ SumFunctionOnSet(f, C) \in Int /\ SumFunctionOnSet(f, G) \in Int
         /\ SumFunctionOnSet(f, C \ G) = SumFunctionOnSet(f, C) - SumFunctionOnSet(f, G)
         /\ Cardinality(C) \in Nat /\ Cardinality(G) \in Nat
         /\ Cardinality(C \ G) = Cardinality(C) - Cardinality(G)
<1>1. IsFiniteSet(G) /\ IsFiniteSet(C \ G)
  BY FS_Subset, FS_Difference
<1>2. /\ SumFunctionOnSet(f, C) \in Int /\ SumFunctionOnSet(f, G) \in Int
      /\ SumFunctionOnSet(f, C \ G) \in Int
  BY <1>1, SumTakes
<1>3. (C \ G) \cup G = C /\ (C \ G) \cap G = {} /\ C \cap G = G
  OBVIOUS
<1>4. SumFunctionOnSet(f, C) = SumFunctionOnSet(f, C \ G) + SumFunctionOnSet(f, G)
  BY <1>1, <1>3, SumUnion
<1>5. \A a, b, c \in Int : a = b + c => b = a - c
  OBVIOUS
<1>6. /\ Cardinality(C) \in Nat /\ Cardinality(G) \in Nat
      /\ Cardinality(C \ G) = Cardinality(C) - Cardinality(G)
  BY <1>1, <1>3, FS_CardinalityType, FS_Difference
<1>. QED
  BY <1>2, <1>4, <1>5, <1>6

LEMMA SumNat ==
  ASSUME NEW f, NEW S, IsFiniteSet(S), \A x \in S : f[x] \in Nat
  PROVE  SumFunctionOnSet(f, S) \in Nat
<1> DEFINE Sm(T) == SumFunctionOnSet(f, T)
           B == {T \in SUBSET S : Sm(T) \notin Nat}
<1>0. \A T : IsFiniteSet(T) => Sm(T) = IF T = {} THEN 0 ELSE f[Pick(T)] + Sm(T \ {Pick(T)})
  BY SumEquation
<1> HIDE DEF Sm
<1>1. SUFFICES ASSUME B # {} PROVE FALSE
  BY DEF Sm
<1>2. PICK T \in B : IsFiniteSet(T) /\ \A U \in B : ~(U \subseteq T /\ U # T)
  <2>1. B \in SUBSET SUBSET S
    OBVIOUS
  <2> HIDE DEF B
  <2>. QED
    BY <1>1, <2>1, Smallest
<1>3. T \subseteq S /\ Sm(T) \notin Nat
  OBVIOUS
<1>4. T # {}
  <2>1. SUFFICES ASSUME T = {} PROVE FALSE
    OBVIOUS
  <2>2. Sm(T) = 0
    BY <1>0, <1>2, <2>1
  <2>. QED
    BY <1>3, <2>2
<1>5. Pick(T) \in T /\ f[Pick(T)] \in Nat
  BY <1>3, <1>4, Picked
<1>6. Sm(T \ {Pick(T)}) \in Nat
  BY <1>2, <1>3, <1>5
<1>7. Sm(T) = f[Pick(T)] + Sm(T \ {Pick(T)})
  BY <1>0, <1>2, <1>4
<1>8. \A x, y \in Nat : x + y \in Nat
  OBVIOUS
<1>. QED
  BY <1>3, <1>5, <1>6, <1>7, <1>8
-----------------------------------------------------------------------------
(* Numbers defined one after the other, division, least elements.          *)

\* f is made by applying G to a, from the second step on, up to n.
Iterates(f, a, G, N) ==
  f = [c \in N |-> IF c <= 1 THEN a ELSE G[f[c - 1]]]

LEMMA IteratesUnique ==
  ASSUME NEW a, NEW G, NEW m \in Nat, NEW n \in Nat, NEW f, NEW g,
         Iterates(f, a, G, 0..m), Iterates(g, a, G, 0..n), NEW i \in Nat, i <= m, i <= n
  PROVE  f[i] = g[i]
<1> DEFINE B == {c \in Nat : c <= m /\ c <= n /\ f[c] # g[c]}
<1>1. SUFFICES ASSUME B # {} PROVE FALSE
  OBVIOUS
<1>2. PICK c \in B : \A d \in B : c <= d
  <2>1. B \in SUBSET Nat
    OBVIOUS
  <2> HIDE DEF B
  <2>. QED
    BY <1>1, <2>1, Least
<1>3. /\ c \in Nat /\ c \in 0..m /\ c \in 0..n /\ f[c] # g[c]
  OBVIOUS
<1>4. f[c] = (IF c <= 1 THEN a ELSE G[f[c - 1]])
  BY <1>3 DEF Iterates
<1>5. g[c] = (IF c <= 1 THEN a ELSE G[g[c - 1]])
  BY <1>3 DEF Iterates
<1>6. ~(c <= 1) /\ c - 1 \in Nat /\ c - 1 <= m /\ c - 1 <= n /\ ~(c <= c - 1)
  BY <1>3, <1>4, <1>5
<1>7. f[c - 1] = g[c - 1]
  BY <1>2, <1>6
<1>. QED
  BY <1>3, <1>4, <1>5, <1>7

LEMMA IteratesUpTo ==
  ASSUME NEW a, NEW G, NEW n \in Nat
  PROVE  \E f : Iterates(f, a, G, 0..n)
<1> DEFINE B == {c \in Nat : ~\E f : Iterates(f, a, G, 0..c)}
<1>1. SUFFICES ASSUME B # {} PROVE FALSE
  OBVIOUS
<1>2. PICK c \in B : \A d \in B : c <= d
  <2>1. B \in SUBSET Nat
    OBVIOUS
  <2> HIDE DEF B
  <2>. QED
    BY <1>1, <2>1, Least
<1>3. c \in Nat /\ ~\E f : Iterates(f, a, G, 0..c)
  OBVIOUS
<1>4. CASE c = 0
  <2> DEFINE f == [i \in 0..c |-> a]
  <2>1. \A i \in 0..c : i <= 1 /\ f[i] = a
    BY <1>4
  <2>2. Iterates(f, a, G, 0..c)
    BY <2>1 DEF Iterates
  <2>. QED
    BY <1>3, <2>2
<1>5. CASE c # 0
  <2>1. c - 1 \in Nat /\ ~(c <= c - 1)
    BY <1>3, <1>5
  <2>2. c - 1 \notin B
    BY <1>2, <2>1
  <2>3. PICK g : Iterates(g, a, G, 0..(c - 1))
    BY <2>1, <2>2
  <2> DEFINE f == [i \in 0..c |-> IF i = c THEN (IF c <= 1 THEN a ELSE G[g[c - 1]]) ELSE g[i]]
  <2>4. \A i \in 0..c : f[i] = IF i <= 1 THEN a ELSE G[f[i - 1]]
    <3>1. ASSUME NEW i \in 0..c, i # c
          PROVE  f[i] = IF i <= 1 THEN a ELSE G[f[i - 1]]
      <4>1. i \in 0..(c - 1)
        BY <1>3, <3>1
      <4>2. g[i] = IF i <= 1 THEN a ELSE G[g[i - 1]]
        BY <2>3, <4>1 DEF Iterates
      <4>3. i > 1 => i - 1 \in 0..c /\ i - 1 # c
        BY <4>1, <1>3
      <4>. QED
        BY <3>1, <4>2, <4>3
    <3>2. c > 1 => c - 1 \in 0..c /\ c - 1 # c
      BY <1>3
    <3>3. f[c] = IF c <= 1 THEN a ELSE G[f[c - 1]]
      BY <1>3, <3>2
    <3>. QED
      BY <3>1, <3>3
  <2>5. f = [i \in 0..c |-> f[i]]
    OBVIOUS
  <2> HIDE DEF f
  <2>6. [i \in 0..c |-> f[i]] = [i \in 0..c |-> IF i <= 1 THEN a ELSE G[f[i - 1]]]
    BY <2>4
  <2>7. Iterates(f, a, G, 0..c)
    BY <2>5, <2>6 DEF Iterates
  <2>. QED
    BY <1>3, <2>7
<1>. QED
  BY <1>4, <1>5

\* The recursive definition f[c \in Nat] is well founded.
LEMMA IteratesExists ==
  ASSUME NEW a, NEW G
  PROVE  \E f : Iterates(f, a, G, Nat)
<1> DEFINE F(n) == CHOOSE f : Iterates(f, a, G, 0..n)
           h == [n \in Nat |-> F(n)[n]]
<1>1. \A n \in Nat : Iterates(F(n), a, G, 0..n)
  BY IteratesUpTo
<1> HIDE DEF F
<1>2. ASSUME NEW n \in Nat
      PROVE  h[n] = IF n <= 1 THEN a ELSE G[h[n - 1]]
  <2>1. F(n)[n] = IF n <= 1 THEN a ELSE G[F(n)[n - 1]]
    <3>1. Iterates(F(n), a, G, 0..n) /\ n \in 0..n
      BY <1>1
    <3>. QED
      BY <3>1 DEF Iterates
  <2>2. CASE n > 1
    <3>1. n - 1 \in Nat /\ n - 1 <= n /\ n - 1 <= n - 1
      BY <2>2
    <3>2. F(n)[n - 1] = F(n - 1)[n - 1]
      BY <1>1, <3>1, IteratesUnique
    <3>. QED
      BY <2>1, <2>2, <3>1, <3>2
  <2>. QED
    BY <2>1, <2>2
<1>3. h = [n \in Nat |-> h[n]]
  OBVIOUS
<1> HIDE DEF h
<1>4. [n \in Nat |-> h[n]] = [n \in Nat |-> IF n <= 1 THEN a ELSE G[h[n - 1]]]
  BY <1>2
<1>5. Iterates(h, a, G, Nat)
  BY <1>3, <1>4 DEF Iterates
<1>. QED
  BY <1>5

\* Division rounds down.
LEMMA Divides ==
  ASSUME NEW a \in Nat, NEW d \in Nat, d > 0
  PROVE  a \div d \in Nat /\ d * (a \div d) <= a /\ a < d * (a \div d) + d
OBVIOUS

LEMMA MinOfTwo ==
  ASSUME NEW a \in Nat, NEW b \in Nat
  PROVE  Min({a, b}) \in {a, b}
<1>1. \E x \in {a, b} : \A y \in {a, b} : x <= y
  <2>1. CASE a <= b
    BY <2>1
  <2>2. CASE b <= a
    BY <2>2
  <2>. QED
    BY <2>1, <2>2
<1>. QED
  BY <1>1 DEF Min

\* The least element of a set of numbers.
LEMMA MinIs ==
  ASSUME NEW T \in SUBSET Nat, NEW x \in T, \A y \in T : x <= y
  PROVE  Min(T) = x
<1>1. Min(T) \in T /\ \A y \in T : Min(T) <= y
  BY DEF Min
<1>2. Min(T) <= x /\ x <= Min(T) /\ x \in Nat /\ Min(T) \in Nat
  BY <1>1
<1>. QED
  BY <1>2

-----------------------------------------------------------------------------
(* Free lists: queues without repetition.                                  *)

\* The head of a queue without repetition leaves it.
LEMMA Popped ==
  ASSUME NEW S, NEW q \in Seq(S), q # <<>>, IsInjective(q)
  PROVE  /\ Tail(q) \in Seq(S) /\ IsInjective(Tail(q)) /\ Len(Tail(q)) <= Len(q)
         /\ Head(q) \in Range(q) /\ Head(q) \in S
         /\ Range(Tail(q)) = Range(q) \ {Head(q)}
<1>1. Len(q) \in Nat /\ Len(q) > 0 /\ Head(q) = q[1] /\ DOMAIN q = 1..Len(q)
  OBVIOUS
<1>2. /\ Tail(q) \in Seq(S) /\ Len(Tail(q)) = Len(q) - 1
      /\ \A i \in 1..(Len(q) - 1) : Tail(q)[i] = q[i + 1]
  OBVIOUS
<1>3. DOMAIN Tail(q) = 1..(Len(q) - 1)
  BY <1>2
<1>4. \A i, j \in 1..Len(q) : q[i] = q[j] => i = j
  BY <1>1 DEF IsInjective
<1> HIDE DEF IsInjective
<1>5. IsInjective(Tail(q))
  <2>1. ASSUME NEW i \in 1..(Len(q) - 1), NEW j \in 1..(Len(q) - 1), Tail(q)[i] = Tail(q)[j]
        PROVE  i = j
    <3>1. q[i + 1] = q[j + 1] /\ i + 1 \in 1..Len(q) /\ j + 1 \in 1..Len(q)
      BY <1>1, <1>2, <2>1
    <3>2. i + 1 = j + 1
      BY <1>4, <3>1
    <3>. QED
      BY <3>2
  <2>. QED
    BY <1>3, <2>1 DEF IsInjective
<1>6. Range(Tail(q)) = Range(q) \ {Head(q)}
  <2>1. Range(q) = {q[i] : i \in 1..Len(q)}
    BY <1>1 DEF Range
  <2>2. Range(Tail(q)) = {Tail(q)[i] : i \in 1..(Len(q) - 1)}
    BY <1>3 DEF Range
  <2>3. ASSUME NEW i \in 1..(Len(q) - 1)
        PROVE  Tail(q)[i] \in Range(q) /\ Tail(q)[i] # Head(q)
    <3>1. i + 1 \in 1..Len(q) /\ 1 \in 1..Len(q) /\ i + 1 # 1
      BY <1>1
    <3>. QED
      BY <1>1, <1>2, <1>4, <2>1, <3>1
  <2>4. ASSUME NEW i \in 1..Len(q), q[i] # Head(q)
        PROVE  q[i] \in Range(Tail(q))
    <3>1. i - 1 \in 1..(Len(q) - 1) /\ (i - 1) + 1 = i
      BY <1>1, <2>4
    <3>2. Tail(q)[i - 1] = q[i]
      BY <1>2, <3>1
    <3>. QED
      BY <2>2, <3>1, <3>2
  <2>. QED
    BY <2>1, <2>2, <2>3, <2>4
<1>7. Head(q) \in Range(q) /\ Head(q) \in S
  <2>1. 1 \in 1..Len(q)
    BY <1>1
  <2>. QED
    BY <1>1, <2>1 DEF Range
<1>. QED
  BY <1>1, <1>2, <1>5, <1>6, <1>7

\* A new element in front.
LEMMA Pushed ==
  ASSUME NEW S, NEW q \in Seq(S), NEW b \in S, b \notin Range(q), IsInjective(q)
  PROVE  /\ <<b>> \o q \in Seq(S) /\ IsInjective(<<b>> \o q) /\ Len(<<b>> \o q) = Len(q) + 1
         /\ Range(<<b>> \o q) = Range(q) \cup {b}
<1> DEFINE r == <<b>> \o q
<1>1. /\ r \in Seq(S) /\ Len(r) = Len(q) + 1 /\ r[1] = b
      /\ \A i \in 1..Len(q) : r[i + 1] = q[i]
  OBVIOUS
<1>2. Len(q) \in Nat /\ DOMAIN q = 1..Len(q) /\ DOMAIN r = 1..(Len(q) + 1)
  BY <1>1
<1>3. \A i, j \in 1..Len(q) : q[i] = q[j] => i = j
  BY <1>2 DEF IsInjective
<1>4. Range(q) = {q[i] : i \in 1..Len(q)} /\ Range(r) = {r[i] : i \in 1..(Len(q) + 1)}
  BY <1>2 DEF Range
<1> HIDE DEF r
<1>5. ASSUME NEW i \in 1..(Len(q) + 1), i # 1
      PROVE  i - 1 \in 1..Len(q) /\ r[i] = q[i - 1] /\ r[i] # b
  <2>1. i - 1 \in 1..Len(q) /\ (i - 1) + 1 = i
    BY <1>2, <1>5
  <2>. QED
    BY <1>1, <1>4, <2>1
<1>6. IsInjective(r)
  <2>1. ASSUME NEW i \in 1..(Len(q) + 1), NEW j \in 1..(Len(q) + 1), r[i] = r[j]
        PROVE  i = j
    <3>1. CASE i = 1 \/ j = 1
      BY <1>1, <1>5, <2>1, <3>1
    <3>2. CASE i # 1 /\ j # 1
      <4>1. i - 1 = j - 1
        BY <1>3, <1>5, <2>1, <3>2
      <4>. QED
        BY <4>1
    <3>. QED
      BY <3>1, <3>2
  <2>. QED
    BY <1>2, <2>1 DEF IsInjective
<1>7. Range(r) = Range(q) \cup {b}
  <2>1. \A i \in 1..(Len(q) + 1) : r[i] \in Range(q) \cup {b}
    BY <1>1, <1>4, <1>5
  <2>2. b \in Range(r)
    BY <1>1, <1>2, <1>4
  <2>3. \A i \in 1..Len(q) : q[i] \in Range(r)
    <3>1. \A i \in 1..Len(q) : i + 1 \in 1..(Len(q) + 1)
      BY <1>2
    <3>. QED
      BY <1>1, <1>4, <3>1
  <2>. QED
    BY <1>4, <2>1, <2>2, <2>3
<1>. QED
  BY <1>1, <1>6, <1>7 DEF r
-----------------------------------------------------------------------------
(* Pieces joined into a stream: the requests of a call, and their replies. *)

\* f[i] joins the first i of the pieces s.
Joins(f, s, n) == f = [i \in 1..n |-> IF i = 1 THEN s[i] ELSE f[i - 1] \o s[i]]
Flat(s) == IF Len(s) = 0 THEN s ELSE (CHOOSE f : Joins(f, s, Len(s)))[Len(s)]

\* The pieces F gives the elements of s, joined.
Pieces(P, T) == [P -> Seq(T)]
Chain(F, s) == Flat([n \in 1..Len(s) |-> F[s[n]]])

LEMMA JoinsAt ==
  ASSUME NEW f, NEW s, NEW n \in Nat, Joins(f, s, n), NEW i \in 1..n
  PROVE  f[i] = IF i = 1 THEN s[i] ELSE f[i - 1] \o s[i]
BY DEF Joins

LEMMA JoinsUnique ==
  ASSUME NEW s, NEW t, NEW m \in Nat, NEW n \in Nat, NEW f, NEW g, Joins(f, s, m), Joins(g, t, n),
         NEW i \in 1..m, i <= n, \A j \in 1..i : s[j] = t[j]
  PROVE  f[i] = g[i]
<1> DEFINE B == {c \in Nat : c \in 1..i /\ f[c] # g[c]}
<1>1. SUFFICES ASSUME B # {} PROVE FALSE
  <2>1. i \in Nat /\ i \in 1..i
    OBVIOUS
  <2>. QED
    BY <2>1
<1>2. PICK c \in B : \A d \in B : c <= d
  <2>1. B \in SUBSET Nat
    OBVIOUS
  <2> HIDE DEF B
  <2>. QED
    BY <1>1, <2>1, Least
<1>3. c \in Nat /\ c \in 1..i /\ c \in 1..m /\ c \in 1..n /\ f[c] # g[c] /\ s[c] = t[c]
  OBVIOUS
<1>4. f[c] = (IF c = 1 THEN s[c] ELSE f[c - 1] \o s[c])
  BY <1>3, JoinsAt
<1>5. g[c] = (IF c = 1 THEN t[c] ELSE g[c - 1] \o t[c])
  BY <1>3, JoinsAt
<1>6. c # 1 /\ c - 1 \in 1..i /\ c - 1 \in Nat /\ ~(c <= c - 1)
  BY <1>3, <1>4, <1>5
<1>7. f[c - 1] = g[c - 1]
  BY <1>2, <1>6
<1>. QED
  BY <1>3, <1>4, <1>5, <1>7

LEMMA JoinsExists ==
  ASSUME NEW s, NEW n \in Nat
  PROVE  \E f : Joins(f, s, n)
<1> DEFINE B == {c \in Nat : ~\E f : Joins(f, s, c)}
<1>1. SUFFICES ASSUME B # {} PROVE FALSE
  OBVIOUS
<1>2. PICK c \in B : \A d \in B : c <= d
  <2>1. B \in SUBSET Nat
    OBVIOUS
  <2> HIDE DEF B
  <2>. QED
    BY <1>1, <2>1, Least
<1>3. c \in Nat /\ ~\E f : Joins(f, s, c)
  OBVIOUS
<1>4. CASE c = 0
  <2> DEFINE f == [i \in 1..c |-> s[1]]
  <2>0. \A i \in 1..c : FALSE
    BY <1>4
  <2>1. Joins(f, s, c)
    BY <2>0 DEF Joins
  <2>. QED
    BY <1>3, <2>1
<1>5. CASE c # 0
  <2>1. c - 1 \in Nat /\ ~(c <= c - 1)
    BY <1>3, <1>5
  <2>2. c - 1 \notin B
    BY <1>2, <2>1
  <2>3. PICK g : Joins(g, s, c - 1)
    BY <2>1, <2>2
  <2> DEFINE f == [i \in 1..c |-> IF i = c THEN (IF c = 1 THEN s[c] ELSE g[c - 1] \o s[c]) ELSE g[i]]
  <2>4. \A i \in 1..c : f[i] = IF i = 1 THEN s[i] ELSE f[i - 1] \o s[i]
    <3>1. ASSUME NEW i \in 1..c, i # c
          PROVE  f[i] = IF i = 1 THEN s[i] ELSE f[i - 1] \o s[i]
      <4>1. i \in 1..(c - 1)
        BY <1>3, <3>1
      <4>2. g[i] = IF i = 1 THEN s[i] ELSE g[i - 1] \o s[i]
        BY <2>1, <2>3, <4>1, JoinsAt
      <4>3. i # 1 => i - 1 \in 1..c /\ i - 1 # c
        BY <4>1, <1>3
      <4>. QED
        BY <3>1, <4>2, <4>3
    <3>2. c # 1 => c - 1 \in 1..c /\ c - 1 # c
      BY <1>3, <1>5
    <3>3. c \in 1..c
      BY <1>3, <1>5
    <3>4. f[c] = IF c = 1 THEN s[c] ELSE f[c - 1] \o s[c]
      BY <3>2, <3>3
    <3>. QED
      BY <3>1, <3>4
  <2>5. f = [i \in 1..c |-> f[i]]
    OBVIOUS
  <2> HIDE DEF f
  <2>6. [i \in 1..c |-> f[i]] = [i \in 1..c |-> IF i = 1 THEN s[i] ELSE f[i - 1] \o s[i]]
    BY <2>4
  <2>7. Joins(f, s, c)
    BY <2>5, <2>6 DEF Joins
  <2>. QED
    BY <1>3, <2>7
<1>. QED
  BY <1>4, <1>5

\* One more piece.
LEMMA FlatMore ==
  ASSUME NEW S, NEW s \in Seq(S), Len(s) > 0, NEW t, DOMAIN t = 1..(Len(s) - 1), Len(t) = Len(s) - 1,
         \A i \in 1..(Len(s) - 1) : t[i] = s[i]
  PROVE  Flat(s) = IF Len(s) = 1 THEN s[1] ELSE Flat(t) \o s[Len(s)]
<1>1. PICK n \in Nat : n = Len(s) /\ n > 0
  OBVIOUS
<1>2. PICK f : f = (CHOOSE g : Joins(g, s, n))
  OBVIOUS
<1>3. Joins(f, s, n)
  BY <1>2, JoinsExists
<1>4. Flat(s) = f[n]
  BY <1>1, <1>2 DEF Flat
<1>5. n \in 1..n /\ f[n] = IF n = 1 THEN s[n] ELSE f[n - 1] \o s[n]
  BY <1>1, <1>3, JoinsAt
<1>6. CASE n = 1
  BY <1>1, <1>4, <1>5, <1>6
<1>7. CASE n # 1
  <2>0. n - 1 \in Nat /\ n - 1 # 0 /\ n - 1 \in 1..n /\ n - 1 <= n - 1 /\ Len(t) = n - 1
    BY <1>1, <1>7
  <2>1. PICK e : e = (CHOOSE g : Joins(g, t, n - 1))
    OBVIOUS
  <2>2. Joins(e, t, n - 1)
    BY <2>0, <2>1, JoinsExists
  <2>3. Flat(t) = e[n - 1]
    BY <2>0, <2>1 DEF Flat
  <2>4. \A j \in 1..(n - 1) : s[j] = t[j]
    BY <1>1
  <2>5. f[n - 1] = e[n - 1]
    BY <1>3, <2>0, <2>2, <2>4, JoinsUnique, SMTT(30)
  <2>. QED
    BY <1>1, <1>4, <1>5, <1>7, <2>3, <2>5
<1>. QED
  BY <1>6, <1>7

LEMMA ChainEmpty ==
  ASSUME NEW F
  PROVE  Chain(F, <<>>) = <<>>
<1>1. [n \in 1..Len(<<>>) |-> F[<<>>[n]]] = <<>>
  OBVIOUS
<1>. QED
  BY <1>1 DEF Chain, Flat

LEMMA ChainMore ==
  ASSUME NEW P, NEW T, NEW F \in Pieces(P, T), NEW s \in Seq(P), NEW x \in P, Chain(F, s) \in Seq(T)
  PROVE  Chain(F, Append(s, x)) = Chain(F, s) \o F[x]
<1> DEFINE r == Append(s, x)
           p == [n \in 1..Len(r) |-> F[r[n]]]
           q == [n \in 1..Len(s) |-> F[s[n]]]
<1>1. /\ r \in Seq(P) /\ Len(r) = Len(s) + 1 /\ r[Len(s) + 1] = x /\ Len(s) \in Nat
      /\ \A i \in 1..Len(s) : r[i] = s[i]
  BY Appended
<1>2. Chain(F, r) = Flat(p) /\ Chain(F, s) = Flat(q)
  BY DEF Chain
<1>3. p \in Seq(Seq(T)) /\ Len(p) = Len(s) + 1 /\ p[Len(s) + 1] = F[x]
  <2> HIDE DEF r
  <2>. QED
    BY <1>1 DEF Pieces
<1>4. DOMAIN q = 1..Len(s) /\ Len(q) = Len(s) /\ \A i \in 1..Len(s) : q[i] = p[i]
  <2> HIDE DEF r
  <2>. QED
    BY <1>1
<1> HIDE DEF p, q, r
<1>5. Len(p) > 0 /\ Len(p) - 1 = Len(s)
  BY <1>1, <1>3
<1>6. Flat(p) = IF Len(p) = 1 THEN p[1] ELSE Flat(q) \o p[Len(p)]
  BY <1>3, <1>4, <1>5, FlatMore
<1>7. CASE Len(s) = 0
  <2>1. s = <<>>
    BY <1>7
  <2>2. Chain(F, s) = <<>>
    BY <2>1, ChainEmpty
  <2>3. Flat(p) = F[x] /\ F[x] \in Seq(T)
    BY <1>3, <1>6, <1>7 DEF Pieces
  <2>. QED
    BY <1>2, <2>2, <2>3 DEF r
<1>8. CASE Len(s) # 0
  <2>1. Len(p) # 1
    BY <1>1, <1>3, <1>8
  <2>2. Flat(p) = Flat(q) \o p[Len(p)]
    BY <1>6, <2>1
  <2>. QED
    BY <1>2, <1>3, <2>2 DEF r
<1>. QED
  BY <1>7, <1>8

LEMMA PrefixMore ==
  ASSUME NEW S, NEW s \in Seq(S), NEW n \in 1..Len(s)
  PROVE  SubSeq(s, 1, n) = Append(SubSeq(s, 1, n - 1), s[n])
<1>1. n - 1 \in 0..Len(s) /\ n \in 0..Len(s) /\ n \in Nat /\ s[n] \in S /\ Len(s) \in Nat
  OBVIOUS
<1>2. PICK a \in Seq(S) : a = SubSeq(s, 1, n - 1) /\ Len(a) = n - 1 /\ \A i \in 1..(n - 1) : a[i] = s[i]
  BY <1>1, Prefix
<1>3. PICK b \in Seq(S) : b = SubSeq(s, 1, n) /\ Len(b) = n /\ \A i \in 1..n : b[i] = s[i]
  BY <1>1, Prefix, ZenonT(40)
<1>4. PICK c \in Seq(S) : /\ c = Append(a, s[n]) /\ Len(c) = Len(a) + 1
                          /\ \A i \in 1..Len(a) : c[i] = a[i]
                          /\ c[Len(a) + 1] = s[n]
  BY <1>1, Appended
<1>5. Len(c) = Len(b)
  BY <1>1, <1>2, <1>3, <1>4
<1>6. \A i \in 1..Len(b) : b[i] = c[i]
  <2>1. ASSUME NEW i \in 1..n PROVE b[i] = c[i]
    <3>1. CASE i = n
      <4>1. (n - 1) + 1 = n
        BY <1>1
      <4>. QED
        BY <1>2, <1>3, <1>4, <3>1, <4>1
    <3>2. CASE i # n
      <4>1. i \in 1..(n - 1)
        BY <1>1, <3>2
      <4>. QED
        BY <1>2, <1>3, <1>4, <4>1
    <3>. QED
      BY <3>1, <3>2
  <2>. QED
    BY <1>3, <2>1
<1>7. b = c
  BY <1>5, <1>6, SeqEqual
<1>. QED
  BY <1>2, <1>3, <1>4, <1>7

\* A stream is as typed as its pieces.
LEMMA ChainType ==
  ASSUME NEW P, NEW T, NEW F \in Pieces(P, T), NEW s \in Seq(P)
  PROVE  Chain(F, s) \in Seq(T)
<1> DEFINE B == {n \in Nat : n <= Len(s) /\ Chain(F, SubSeq(s, 1, n)) \notin Seq(T)}
<1>1. SUFFICES ASSUME B # {} PROVE FALSE
  <2>1. Len(s) \in Nat /\ Len(s) <= Len(s) /\ SubSeq(s, 1, Len(s)) = s
    OBVIOUS
  <2>. QED
    BY <2>1
<1>2. PICK c \in B : \A d \in B : c <= d
  <2>1. B \in SUBSET Nat
    OBVIOUS
  <2> HIDE DEF B
  <2>. QED
    BY <1>1, <2>1, Least
<1>3. c \in Nat /\ c <= Len(s) /\ Chain(F, SubSeq(s, 1, c)) \notin Seq(T) /\ Len(s) \in Nat
  OBVIOUS
<1>6. \A d \in Nat : d <= Len(s) /\ ~(c <= d) => Chain(F, SubSeq(s, 1, d)) \in Seq(T)
  BY <1>2
<1> HIDE DEF B
<1>4. CASE c = 0
  <2>1. SubSeq(s, 1, c) = <<>>
    BY <1>4
  <2>2. <<>> \in Seq(T)
    OBVIOUS
  <2>. QED
    BY <1>3, <2>1, <2>2, ChainEmpty
<1>5. CASE c # 0
  <2>1. c - 1 \in Nat /\ c - 1 <= Len(s) /\ ~(c <= c - 1) /\ c \in 1..Len(s) /\ c - 1 \in 0..Len(s)
    BY <1>3, <1>5
  <2>2. Chain(F, SubSeq(s, 1, c - 1)) \in Seq(T)
    BY <1>6, <2>1
  <2>0. SubSeq(s, 1, c - 1) \in Seq(P) /\ s[c] \in P
    BY <2>1, Prefix
  <2>3. PICK r \in Seq(P), x \in P : r = SubSeq(s, 1, c - 1) /\ x = s[c]
    BY <2>0
  <2>4. SubSeq(s, 1, c) = Append(r, x)
    BY <2>1, <2>3, PrefixMore
  <2>5. F[x] \in Seq(T) /\ Chain(F, r) \in Seq(T)
    BY <2>2, <2>3 DEF Pieces
  <2>6. Chain(F, Append(r, x)) = Chain(F, r) \o F[x]
    BY <2>5, ChainMore
  <2>7. Chain(F, r) \o F[x] \in Seq(T)
    BY <2>5, Cat
  <2>. QED
    BY <1>3, <2>4, <2>6, <2>7
<1>. QED
  BY <1>4, <1>5

LEMMA ChainOne ==
  ASSUME NEW P, NEW T, NEW F \in Pieces(P, T), NEW x \in P
  PROVE  Chain(F, <<x>>) = F[x]
<1>1. <<>> \in Seq(P) /\ <<>> \in Seq(T) /\ Append(<<>>, x) = <<x>> /\ F[x] \in Seq(T)
  BY DEF Pieces
<1>2. Chain(F, Append(<<>>, x)) = Chain(F, <<>>) \o F[x]
  BY <1>1, ChainEmpty, ChainMore
<1>. QED
  BY <1>1, <1>2, ChainEmpty

\* The stream of two lists is the stream of one behind that of the other.
LEMMA ChainCat ==
  ASSUME NEW P, NEW T, NEW F \in Pieces(P, T), NEW r \in Seq(P), NEW s \in Seq(P)
  PROVE  Chain(F, r \o s) = Chain(F, r) \o Chain(F, s)
<1> DEFINE B == {n \in Nat : n <= Len(s) /\
                   Chain(F, r \o SubSeq(s, 1, n)) # Chain(F, r) \o Chain(F, SubSeq(s, 1, n))}
<1>1. SUFFICES ASSUME B # {} PROVE FALSE
  <2>1. Len(s) \in Nat /\ Len(s) <= Len(s) /\ SubSeq(s, 1, Len(s)) = s
    OBVIOUS
  <2>. QED
    BY <2>1
<1>2. PICK c \in B : \A d \in B : c <= d
  <2>1. B \in SUBSET Nat
    OBVIOUS
  <2> HIDE DEF B
  <2>. QED
    BY <1>1, <2>1, Least
<1>3. /\ c \in Nat /\ c <= Len(s) /\ Len(s) \in Nat
      /\ Chain(F, r \o SubSeq(s, 1, c)) # Chain(F, r) \o Chain(F, SubSeq(s, 1, c))
  OBVIOUS
<1>6. \A d \in Nat : d <= Len(s) /\ ~(c <= d) =>
        Chain(F, r \o SubSeq(s, 1, d)) = Chain(F, r) \o Chain(F, SubSeq(s, 1, d))
  BY <1>2
<1> HIDE DEF B
<1>0. Chain(F, r) \in Seq(T)
  BY ChainType
<1>4. CASE c = 0
  <2>1. SubSeq(s, 1, c) = <<>> /\ r \o <<>> = r /\ Chain(F, r) \o <<>> = Chain(F, r)
    BY <1>0, <1>4
  <2>. QED
    BY <1>3, <2>1, ChainEmpty
<1>5. CASE c # 0
  <2>1. c - 1 \in Nat /\ c - 1 <= Len(s) /\ ~(c <= c - 1) /\ c \in 1..Len(s) /\ c - 1 \in 0..Len(s)
    BY <1>3, <1>5
  <2>2. Chain(F, r \o SubSeq(s, 1, c - 1)) = Chain(F, r) \o Chain(F, SubSeq(s, 1, c - 1))
    BY <1>6, <2>1
  <2>0. SubSeq(s, 1, c - 1) \in Seq(P) /\ s[c] \in P
    BY <2>1, Prefix
  <2>3. PICK q \in Seq(P), x \in P : q = SubSeq(s, 1, c - 1) /\ x = s[c]
    BY <2>0
  <2>4. SubSeq(s, 1, c) = Append(q, x)
    BY <2>1, <2>3, PrefixMore
  <2>5. r \o Append(q, x) = Append(r \o q, x) /\ r \o q \in Seq(P)
    OBVIOUS
  <2>6. /\ Chain(F, q) \in Seq(T) /\ F[x] \in Seq(T) /\ Chain(F, r \o q) \in Seq(T)
    <3>1. F[x] \in Seq(T)
      BY DEF Pieces
    <3>. QED
      BY <2>5, <3>1, ChainType
  <2>7. /\ Chain(F, Append(q, x)) = Chain(F, q) \o F[x]
        /\ Chain(F, Append(r \o q, x)) = Chain(F, r \o q) \o F[x]
    BY <2>5, <2>6, ChainMore
  <2>8. (Chain(F, r) \o Chain(F, q)) \o F[x] = Chain(F, r) \o (Chain(F, q) \o F[x])
    <3>1. PICK a \in Seq(T), b \in Seq(T), e \in Seq(T) : a = Chain(F, r) /\ b = Chain(F, q) /\ e = F[x]
      BY <1>0, <2>6
    <3>2. (a \o b) \o e = a \o (b \o e)
      BY ConcatAssociative
    <3>. QED
      BY <3>1, <3>2
  <2>. QED
    BY <1>3, <2>2, <2>3, <2>4, <2>5, <2>7, <2>8
<1>. QED
  BY <1>4, <1>5

\* What is left of X behind its first p elements.
Rest(X, p) == SubSeq(X, p + 1, Len(X))

LEMMA RestIs ==
  ASSUME NEW S, NEW X \in Seq(S), NEW p \in 0..Len(X)
  PROVE  /\ Rest(X, p) \in Seq(S) /\ Len(Rest(X, p)) = Len(X) - p
         /\ \A i \in 1..(Len(X) - p) : Rest(X, p)[i] = X[i + p]
BY Suffix DEF Rest

LEMMA RestOfNone ==
  ASSUME NEW S, NEW X \in Seq(S)
  PROVE  Rest(X, 0) = X
BY DEF Rest

LEMMA RestOfRest ==
  ASSUME NEW S, NEW X \in Seq(S), NEW p \in Nat, NEW k \in Nat, p + k <= Len(X)
  PROVE  Rest(Rest(X, p), k) = Rest(X, p + k)
<1>0. PICK L \in Nat : L = Len(X)
  OBVIOUS
<1>1. p \in 0..L /\ p + k \in 0..L /\ k \in 0..(L - p) /\ (L - p) - k = L - (p + k)
  BY <1>0
<1> DEFINE Y == Rest(X, p)
           Z == Rest(Y, k)
           W == Rest(X, p + k)
<1>2. Y \in Seq(S) /\ Len(Y) = L - p /\ \A i \in 1..(L - p) : Y[i] = X[i + p]
  BY <1>0, <1>1, RestIs
<1> HIDE DEF Y
<1>3. Z \in Seq(S) /\ Len(Z) = (L - p) - k /\ \A i \in 1..((L - p) - k) : Z[i] = Y[i + k]
  <2>1. k \in 0..Len(Y) /\ Len(Y) - k = (L - p) - k
    BY <1>1, <1>2
  <2>2. Z \in Seq(S) /\ Len(Z) = Len(Y) - k /\ \A i \in 1..(Len(Y) - k) : Z[i] = Y[i + k]
    BY <1>2, <2>1, RestIs
  <2>. QED
    BY <2>1, <2>2
<1>4. W \in Seq(S) /\ Len(W) = L - (p + k) /\ \A i \in 1..(L - (p + k)) : W[i] = X[i + (p + k)]
  BY <1>0, <1>1, RestIs
<1> HIDE DEF Z, W
<1>5. ASSUME NEW i \in 1..Len(W) PROVE Z[i] = W[i]
  <2>1. i \in 1..(L - (p + k)) /\ i \in 1..((L - p) - k) /\ i + k \in 1..(L - p) /\ (i + k) + p = i + (p + k)
    BY <1>1, <1>4
  <2>. QED
    BY <1>2, <1>3, <1>4, <2>1
<1>6. Z = W
  <2>1. Len(Z) = Len(W)
    BY <1>1, <1>3, <1>4
  <2>. QED
    BY <1>3, <1>4, <1>5, <2>1, SeqEqual
<1>. QED
  BY <1>6 DEF W, Y, Z

LEMMA RestOfCat ==
  ASSUME NEW S, NEW X \in Seq(S), NEW Y \in Seq(S), NEW p \in 0..Len(X)
  PROVE  Rest(X \o Y, p) = Rest(X, p) \o Y
BY TakenOff DEF Rest

LEMMA RestOfHead ==
  ASSUME NEW S, NEW X \in Seq(S), NEW Y \in Seq(S)
  PROVE  Rest(X \o Y, Len(X)) = Y
<1>1. Len(X) \in 0..Len(X)
  OBVIOUS
<1>2. Rest(X, Len(X)) = <<>>
  BY DEF Rest
<1>3. <<>> \o Y = Y
  OBVIOUS
<1>. QED
  BY <1>1, <1>2, <1>3, RestOfCat

LEMMA HeadAndRest ==
  ASSUME NEW S, NEW X \in Seq(S), NEW k \in 0..Len(X)
  PROVE  SubSeq(X, 1, k) \o Rest(X, k) = X
<1>1. (<<>> \o SubSeq(X, 1, k)) \o SubSeq(X, k + 1, Len(X)) = <<>> \o X
  <2>1. <<>> \in Seq(S)
    OBVIOUS
  <2>. QED
    BY <2>1, Moved
<1>2. SubSeq(X, 1, k) \in Seq(S)
  BY Prefix
<1>3. \A Y \in Seq(S) : <<>> \o Y = Y
  OBVIOUS
<1>. QED
  BY <1>1, <1>2, <1>3 DEF Rest

\* The first c elements, and those behind them up to the b-th.
LEMMA Cut ==
  ASSUME NEW S, NEW s \in Seq(S), NEW b \in 0..Len(s), NEW c \in 0..b
  PROVE  /\ SubSeq(s, 1, b) = SubSeq(s, 1, c) \o SubSeq(s, c + 1, b)
         /\ SubSeq(s, 1, c) \in Seq(S) /\ SubSeq(s, c + 1, b) \in Seq(S)
<1>0. PICK n \in Nat : n = Len(s)
  OBVIOUS
<1>1. b \in Nat /\ c \in Nat /\ c <= b /\ b <= n /\ c \in 0..Len(s)
  BY <1>0
<1>2. PICK x \in Seq(S) : x = SubSeq(s, 1, b) /\ Len(x) = b /\ \A i \in 1..b : x[i] = s[i]
  BY Prefix
<1>3. PICK y \in Seq(S) : y = SubSeq(s, 1, c) /\ Len(y) = c /\ \A i \in 1..c : y[i] = s[i]
  BY <1>1, Prefix, ZenonT(40)
<1>4. PICK z \in Seq(S) : z = SubSeq(s, c + 1, b) /\ Len(z) = b - c /\ \A i \in 1..(b - c) : z[i] = s[i + c]
  <2>1. SubSeq(s, c + 1, b) \in Seq(S)
    BY <1>0, <1>1
  <2>2. Len(SubSeq(s, c + 1, b)) = b - c
    BY <1>0, <1>1
  <2>3. \A i \in 1..(b - c) : SubSeq(s, c + 1, b)[i] = s[i + c]
    BY <1>0, <1>1
  <2>. QED
    BY <2>1, <2>2, <2>3
<1> DEFINE w == y \o z
<1>5. /\ w \in Seq(S) /\ Len(w) = c + (b - c)
      /\ \A i \in 1..(c + (b - c)) : w[i] = IF i <= c THEN y[i] ELSE z[i - c]
  <2>1. /\ w \in Seq(S) /\ Len(w) = Len(y) + Len(z)
        /\ \A i \in 1..(Len(y) + Len(z)) : w[i] = IF i <= Len(y) THEN y[i] ELSE z[i - Len(y)]
    BY Cat
  <2> HIDE DEF w
  <2>. QED
    BY <1>3, <1>4, <2>1
<1> HIDE DEF w
<1>6. c + (b - c) = b
  BY <1>1
<1>7. ASSUME NEW i \in 1..b PROVE x[i] = w[i]
  <2>1. CASE i <= c
    <3>1. i \in 1..c
      BY <1>1, <2>1
    <3>. QED
      BY <1>2, <1>3, <1>5, <1>6, <2>1, <3>1
  <2>2. CASE ~(i <= c)
    <3>1. i - c \in 1..(b - c) /\ (i - c) + c = i
      BY <1>1, <2>2
    <3>2. w[i] = z[i - c]
      BY <1>5, <1>6, <2>2
    <3>3. z[i - c] = s[(i - c) + c]
      BY <1>4, <3>1
    <3>. QED
      BY <1>2, <3>1, <3>2, <3>3
  <2>. QED
    BY <2>1, <2>2
<1>8. x = w
  BY <1>2, <1>5, <1>6, <1>7, SeqEqual
<1>. QED
  BY <1>2, <1>3, <1>4, <1>8 DEF w
=============================================================================
