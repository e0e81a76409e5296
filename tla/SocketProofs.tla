---------------------------- MODULE SocketProofs ----------------------------
(***************************************************************************)
(* Proofs about the socket pools of the Java client for any number of      *)
(* threads and sockets and every setting of the pool: a socket is in one   *)
(* place, replies never cross, and only a race with shutdown strands a     *)
(* socket; and about one multi call over those sockets, for any servers,   *)
(* keys, values and cuts: requests go out in order, replies reach their    *)
(* positions, only quiet sockets are pooled, and a stall has a known cause.*)
(***************************************************************************)
EXTENDS SocketPool, MultiOps, DataLemmas

Pooled == Range(active) \cup Range(inactive)
Late == {t \in Threads : pc[t] \in {"size", "addActive", "addInactive"}}

PoolTypes ==
  /\ initialized \in BOOLEAN /\ main \in {"up", "active", "inactive", "down"}
  /\ initialized <=> main = "up"
  /\ active \in Seq(Sockets) /\ inactive \in Seq(Sockets) /\ open \subseteq Sockets
  /\ idle \in [Sockets -> Nat]
  /\ pending \in [Sockets -> Seq(Threads)]
  /\ pc \in [Threads -> {"idle", "inactive", "create", "has", "wait", "close", "size",
                         "addActive", "addInactive"}]
  /\ holds \in [Threads -> Sockets \cup {NoSocket}]
  /\ passing \in BOOLEAN /\ raced \subseteq Threads

\* A connected socket is in a pool, once, or held by one thread, which is then
\* past getSocket and not yet through with giving it back.
Places ==
  /\ IsInjective(active) /\ IsInjective(inactive) /\ Range(active) \cap Range(inactive) = {}
  /\ Pooled \subseteq open
  /\ \A t \in Threads : holds[t] # NoSocket => holds[t] \in open /\ holds[t] \notin Pooled
  /\ \A t, u \in Threads : holds[t] = holds[u] /\ holds[t] # NoSocket => t = u
  /\ \A t \in Threads : holds[t] = NoSocket <=> pc[t] \in {"idle", "inactive", "create"}
  /\ \A s \in open : s \in Pooled \/ \E t \in Threads : holds[t] = s

\* Replies are to come only on the socket of a thread that waits for them.
Quiet ==
  /\ \A s \in Sockets : s \notin open \/ s \in Pooled => pending[s] = <<>>
  /\ \A t \in Threads :
       /\ pc[t] = "wait" => Range(pending[holds[t]]) = {t}
       /\ pc[t] # "wait" /\ holds[t] # NoSocket => pending[holds[t]] = <<>>

\* From shutdown on no thread passes the test of the flag: the sockets that get
\* past closeSocketPool and the threads still to add one are paid for by those
\* that raced with it.
Racers ==
  /\ main = "active" => Late \subseteq raced
  /\ main = "inactive" => Cardinality(Range(active)) + Cardinality(Late) <= Cardinality(raced)
  /\ main = "down" => Cardinality(Pooled) + Cardinality(Late) <= Cardinality(raced)

PoolInv == PoolTypes /\ Places /\ Quiet /\ Racers
-----------------------------------------------------------------------------
(* Sequences without repetition.                                           *)

LEMMA SmallestNat ==
  ASSUME NEW T, T \subseteq Nat, T # {}
  PROVE  \E x \in T : \A y \in T : ~(y < x)
<1>1. \E x \in T : \A y \in T : ~(<<y, x>> \in OpToRel(<, Nat))
  BY NatLessThanWellFounded, WFMin
<1>. QED
  BY <1>1 DEF OpToRel

LEMMA RangeOf ==
  ASSUME NEW S, NEW s \in Seq(S)
  PROVE  /\ Range(s) = {s[i] : i \in 1..Len(s)}
         /\ Range(s) \subseteq S
         /\ IsInjective(s) <=> \A i, j \in 1..Len(s) : s[i] = s[j] => i = j
  BY DEF IsInjective, Range

LEMMA HeadTail ==
  ASSUME NEW S, NEW s \in Seq(S), s # <<>>, IsInjective(s)
  PROVE  /\ Tail(s) \in Seq(S) /\ Head(s) \in S /\ IsInjective(Tail(s))
         /\ Head(s) \in Range(s) /\ Range(Tail(s)) = Range(s) \ {Head(s)}
<1>1. /\ Tail(s) \in Seq(S) /\ Head(s) \in S /\ Len(Tail(s)) = Len(s) - 1 /\ Len(s) \in Nat \ {0}
      /\ Head(s) = s[1]
  BY EmptySeq
<1>2. \A i \in 1..Len(Tail(s)) : Tail(s)[i] = s[i + 1]
  BY HeadTailProperties
<1>3. \A i, j \in 1..Len(s) : s[i] = s[j] => i = j
  BY RangeOf
<1>4. IsInjective(Tail(s))
  <2>1. \A i, j \in 1..Len(Tail(s)) : Tail(s)[i] = Tail(s)[j] => i = j
    <3> SUFFICES ASSUME NEW i \in 1..Len(Tail(s)), NEW j \in 1..Len(Tail(s)), Tail(s)[i] = Tail(s)[j]
                 PROVE  i = j
      OBVIOUS
    <3>1. i + 1 \in 1..Len(s) /\ j + 1 \in 1..Len(s) /\ s[i + 1] = s[j + 1]
      BY <1>1, <1>2
    <3>2. i + 1 = j + 1
      BY <1>3, <3>1
    <3>. QED
      BY <1>1, <3>2
  <2>. QED
    BY <1>1, <2>1, RangeOf
<1>5. Range(s) = {s[i] : i \in 1..Len(s)} /\ Range(Tail(s)) = {Tail(s)[i] : i \in 1..Len(Tail(s))}
  <2>1. Range(s) = {s[i] : i \in 1..Len(s)}
    BY RangeOf
  <2>2. Range(Tail(s)) = {Tail(s)[i] : i \in 1..Len(Tail(s))}
    BY <1>1, RangeOf
  <2>. QED
    BY <2>1, <2>2
<1>6. Head(s) \in Range(s)
  BY <1>1, <1>5
<1>7. ASSUME NEW x \in Range(Tail(s)) PROVE x \in Range(s) /\ x # Head(s)
  <2>1. PICK i \in 1..Len(Tail(s)) : x = Tail(s)[i]
    BY <1>5
  <2>2. i + 1 \in 1..Len(s) /\ x = s[i + 1] /\ i + 1 # 1
    BY <1>1, <1>2, <2>1
  <2>3. 1 \in 1..Len(s)
    BY <1>1
  <2>. QED
    BY <1>1, <1>3, <1>5, <2>2, <2>3
<1>8. ASSUME NEW x \in Range(s), x # Head(s) PROVE x \in Range(Tail(s))
  <2>1. PICK i \in 1..Len(s) : x = s[i]
    BY <1>5
  <2>2. i - 1 \in 1..Len(Tail(s)) /\ (i - 1) + 1 = i
    BY <1>1, <1>8, <2>1
  <2>3. x = Tail(s)[i - 1]
    BY <1>2, <2>1, <2>2
  <2>. QED
    BY <1>5, <2>2, <2>3
<1>. QED
  BY <1>1, <1>4, <1>6, <1>7, <1>8

LEMMA Joined ==
  ASSUME NEW S, NEW s \in Seq(S), NEW t \in Seq(S)
  PROVE  /\ s \o t \in Seq(S) /\ Range(s \o t) = Range(s) \cup Range(t)
         /\ IsInjective(s) /\ IsInjective(t) /\ Range(s) \cap Range(t) = {} => IsInjective(s \o t)
<1>1. s \o t \in Seq(S) /\ Len(s \o t) = Len(s) + Len(t) /\ Len(s) \in Nat /\ Len(t) \in Nat
  OBVIOUS
<1>2. Range(s \o t) = Range(s) \cup Range(t)
  BY RangeConcatenation
<1>3. ASSUME IsInjective(s), IsInjective(t), Range(s) \cap Range(t) = {} PROVE IsInjective(s \o t)
  <2>1. /\ \A i, j \in 1..Len(s) : s[i] = s[j] => i = j
        /\ \A i, j \in 1..Len(t) : t[i] = t[j] => i = j
        /\ \A i \in 1..Len(s), j \in 1..Len(t) : s[i] # t[j]
    <3>1. Range(s) = {s[i] : i \in 1..Len(s)} /\ Range(t) = {t[i] : i \in 1..Len(t)}
      BY RangeOf
    <3>2. \A i, j \in 1..Len(s) : s[i] = s[j] => i = j
      BY <1>3, RangeOf
    <3>3. \A i, j \in 1..Len(t) : t[i] = t[j] => i = j
      BY <1>3, RangeOf
    <3>4. ASSUME NEW i \in 1..Len(s), NEW j \in 1..Len(t) PROVE s[i] # t[j]
      <4>1. s[i] \in Range(s) /\ t[j] \in Range(t)
        BY <3>1
      <4>. QED
        BY <1>3, <4>1
    <3>. QED
      BY <3>2, <3>3, <3>4
  <2>2. ASSUME NEW i \in 1..Len(s \o t), NEW j \in 1..Len(s \o t), (s \o t)[i] = (s \o t)[j]
        PROVE  i = j
    <3>1. i \in 1..(Len(s) + Len(t)) /\ j \in 1..(Len(s) + Len(t))
      BY <1>1
    <3>2. /\ (s \o t)[i] = IF i <= Len(s) THEN s[i] ELSE t[i - Len(s)]
          /\ (s \o t)[j] = IF j <= Len(s) THEN s[j] ELSE t[j - Len(s)]
      BY <3>1, ConcatProperties
    <3>3. /\ i <= Len(s) => i \in 1..Len(s)
          /\ j <= Len(s) => j \in 1..Len(s)
          /\ ~(i <= Len(s)) => i - Len(s) \in 1..Len(t)
          /\ ~(j <= Len(s)) => j - Len(s) \in 1..Len(t)
      BY <1>1, <3>1
    <3>4. CASE i <= Len(s) /\ j <= Len(s)
      BY <2>1, <2>2, <3>2, <3>3, <3>4
    <3>5. CASE ~(i <= Len(s)) /\ ~(j <= Len(s))
      <4>1. i - Len(s) = j - Len(s)
        BY <2>1, <2>2, <3>2, <3>3, <3>5
      <4>. QED
        BY <1>1, <3>1, <4>1
    <3>6. CASE i <= Len(s) /\ ~(j <= Len(s))
      BY <2>1, <2>2, <3>2, <3>3, <3>6
    <3>7. CASE ~(i <= Len(s)) /\ j <= Len(s)
      BY <2>1, <2>2, <3>2, <3>3, <3>7
    <3>. QED
      BY <3>4, <3>5, <3>6, <3>7
  <2>. QED
    BY <1>1, <2>2, RangeOf
<1>. QED
  BY <1>1, <1>2, <1>3

LEMMA RangeOfPart ==
  ASSUME NEW S, NEW s \in Seq(S), NEW m \in 1..(Len(s) + 1), NEW n \in 0..Len(s), IsInjective(s)
  PROVE  /\ SubSeq(s, m, n) \in Seq(S) /\ IsInjective(SubSeq(s, m, n))
         /\ Range(SubSeq(s, m, n)) = {s[i] : i \in m..n}
<1>1. m \in Int /\ n \in Int /\ Len(s) \in Nat /\ \A i \in m..n : i \in 1..Len(s)
  OBVIOUS
<1>2. /\ SubSeq(s, m, n) \in Seq(S)
      /\ Len(SubSeq(s, m, n)) = IF m <= n THEN n - m + 1 ELSE 0
      /\ \A i \in 1..(n - m + 1) : SubSeq(s, m, n)[i] = s[m + i - 1]
  BY <1>1, SubSeqProperties
<1> DEFINE q == SubSeq(s, m, n)
<1>3. \A i \in 1..Len(q) : i + m - 1 \in m..n /\ q[i] = s[i + m - 1]
  BY <1>1, <1>2
<1>4. \A i, j \in 1..Len(s) : s[i] = s[j] => i = j
  BY RangeOf
<1> HIDE DEF q
<1>5. \A i, j \in 1..Len(q) : q[i] = q[j] => i = j
  <2> SUFFICES ASSUME NEW i \in 1..Len(q), NEW j \in 1..Len(q), q[i] = q[j] PROVE i = j
    OBVIOUS
  <2>1. i + m - 1 \in 1..Len(s) /\ j + m - 1 \in 1..Len(s) /\ s[i + m - 1] = s[j + m - 1]
    BY <1>1, <1>3
  <2>2. i + m - 1 = j + m - 1
    BY <1>4, <2>1
  <2>. QED
    BY <1>1, <2>2
<1>6. \A i \in m..n : i - m + 1 \in 1..Len(q) /\ q[i - m + 1] = s[i]
  <2> SUFFICES ASSUME NEW i \in m..n PROVE i - m + 1 \in 1..Len(q) /\ q[i - m + 1] = s[i]
    OBVIOUS
  <2>1. i - m + 1 \in 1..Len(q) /\ (i - m + 1) + m - 1 = i
    BY <1>1, <1>2 DEF q
  <2>. QED
    BY <1>3, <2>1
<1>7. q \in Seq(S)
  BY <1>2 DEF q
<1>8. IsInjective(q) /\ Range(q) = {q[i] : i \in 1..Len(q)}
  BY <1>5, <1>7, RangeOf
<1>9. Range(q) = {s[i] : i \in m..n}
  <2>1. ASSUME NEW x \in Range(q) PROVE x \in {s[i] : i \in m..n}
    BY <1>3, <1>8, <2>1
  <2>2. ASSUME NEW i \in m..n PROVE s[i] \in Range(q)
    BY <1>6, <1>8, <2>2
  <2>. QED
    BY <2>1, <2>2
<1>. QED
  BY <1>7, <1>8, <1>9 DEF q

LEMMA Reversed ==
  ASSUME NEW S, NEW s \in Seq(S), IsInjective(s)
  PROVE  Reverse(s) \in Seq(S) /\ IsInjective(Reverse(s)) /\ Range(Reverse(s)) = Range(s)
<1> DEFINE q == Reverse(s)
<1>1. Len(s) \in Nat /\ \A i \in 1..Len(s) : (Len(s) - i) + 1 \in 1..Len(s) /\ s[(Len(s) - i) + 1] \in S
  OBVIOUS
<1>2. q \in Seq(S) /\ Len(q) = Len(s) /\ \A i \in 1..Len(s) : q[i] = s[(Len(s) - i) + 1]
  BY <1>1 DEF Reverse
<1>3. \A i, j \in 1..Len(s) : s[i] = s[j] => i = j
  BY RangeOf
<1> HIDE DEF q
<1>4. \A i, j \in 1..Len(q) : q[i] = q[j] => i = j
  <2> SUFFICES ASSUME NEW i \in 1..Len(s), NEW j \in 1..Len(s), q[i] = q[j] PROVE i = j
    BY <1>2
  <2>1. (Len(s) - i) + 1 = (Len(s) - j) + 1
    BY <1>1, <1>2, <1>3
  <2>. QED
    BY <1>1, <2>1
<1>5. \A i \in 1..Len(s) : s[i] = q[(Len(s) - i) + 1]
  <2> SUFFICES ASSUME NEW i \in 1..Len(s) PROVE s[i] = q[(Len(s) - i) + 1]
    OBVIOUS
  <2>1. (Len(s) - i) + 1 \in 1..Len(s) /\ (Len(s) - ((Len(s) - i) + 1)) + 1 = i
    BY <1>1
  <2>. QED
    BY <1>2, <2>1
<1>6. IsInjective(q) /\ Range(q) = {q[i] : i \in 1..Len(q)} /\ Range(s) = {s[i] : i \in 1..Len(s)}
  BY <1>2, <1>4, RangeOf
<1>7. Range(q) = Range(s)
  <2>1. ASSUME NEW x \in Range(q) PROVE x \in Range(s)
    BY <1>1, <1>2, <1>6, <2>1
  <2>2. ASSUME NEW x \in Range(s) PROVE x \in Range(q)
    BY <1>1, <1>2, <1>5, <1>6, <2>2
  <2>. QED
    BY <2>1, <2>2
<1>. QED
  BY <1>2, <1>6, <1>7 DEF q
-----------------------------------------------------------------------------
(* What the steps do to pools, threads and connections.                    *)

\* A thread takes a socket from a pool or makes one.
LEMMA Taken ==
  ASSUME PoolTypes, Places, Quiet, NEW t \in Threads, NEW s \in Sockets, holds[t] = NoSocket,
         Take(t, s), UNCHANGED pending,
         IsInjective(active'), IsInjective(inactive'), Range(active') \subseteq Range(active),
         Range(inactive') \subseteq Range(inactive),
         \/ s \in Pooled /\ Pooled' = Pooled \ {s} /\ UNCHANGED open
         \/ s \notin open /\ UNCHANGED Pooled /\ open' = open \cup {s}
  PROVE  Places' /\ Quiet'
<1>1. /\ pc'[t] = "has" /\ holds'[t] = s /\ s # NoSocket
      /\ \A u \in Threads : u # t => pc'[u] = pc[u] /\ holds'[u] = holds[u]
  BY PoolAssumption DEF Take, Go, PoolTypes
<1>2. /\ \A u \in Threads : holds[u] # s
      /\ pending[s] = <<>> /\ s \notin Pooled' /\ s \in open' /\ open \subseteq open' /\ open' \subseteq open \cup {s}
      /\ Pooled' \subseteq Pooled /\ open' \ Pooled' = (open \ Pooled) \cup {s}
  BY <1>1 DEF Places, Quiet
<1>3. \A u, v \in Threads : holds'[u] = holds'[v] /\ holds'[u] # NoSocket => u = v
  BY <1>1, <1>2 DEF Places
<1>4. \A x \in open' : x \in Pooled' \/ \E u \in Threads : holds'[u] = x
  <2> SUFFICES ASSUME NEW x \in open', x \notin Pooled' PROVE \E u \in Threads : holds'[u] = x
    OBVIOUS
  <2>1. CASE x = s
    BY <1>1, <2>1
  <2>2. CASE x # s
    <3>1. PICK u \in Threads : holds[u] = x
      BY <1>2, <2>2 DEF Places
    <3>2. u # t
      BY <1>1, <1>2, <2>2, <3>1, PoolAssumption DEF PoolTypes
    <3>. QED
      BY <1>1, <3>1, <3>2
  <2>. QED
    BY <2>1, <2>2
<1>5. \A u \in Threads : holds'[u] # NoSocket => holds'[u] \in open' /\ holds'[u] \notin Pooled'
  BY <1>1, <1>2 DEF Places
<1>6. \A u \in Threads : holds'[u] = NoSocket <=> pc'[u] \in {"idle", "inactive", "create"}
  BY <1>1 DEF Places
<1>7. Pooled' \subseteq open'
  BY <1>2 DEF Places
<1>8. Range(active') \cap Range(inactive') = {}
  BY DEF Places
<1>9. Places'
  BY <1>3, <1>4, <1>5, <1>6, <1>7, <1>8 DEF Places
<1>10. \A x \in Sockets : x \notin open' \/ x \in Pooled' => pending'[x] = <<>>
  BY <1>2 DEF Quiet
<1>11. Quiet'
  BY <1>1, <1>2, <1>10 DEF Quiet
<1>. QED
  BY <1>9, <1>11

\* A thread gives its socket to a pool.
LEMMA Given ==
  ASSUME PoolTypes, Places, Quiet, NEW t \in Threads, holds[t] # NoSocket, pc[t] # "wait",
         LetGo(t), UNCHANGED <<open, pending>>, IsInjective(active'), IsInjective(inactive'),
         Range(active') \cap Range(inactive') = {}, Pooled' = Pooled \cup {holds[t]}
  PROVE  Places' /\ Quiet'
<1> DEFINE h == holds[t]
<1>1. /\ pc'[t] = "idle" /\ holds'[t] = NoSocket
      /\ \A u \in Threads : u # t => pc'[u] = pc[u] /\ holds'[u] = holds[u]
  BY DEF LetGo, Go, PoolTypes
<1>2. /\ h \in open /\ \A u \in Threads : u # t => holds[u] # h
      /\ pending[h] = <<>>
  BY DEF Places, Quiet
<1>3. \A u, v \in Threads : holds'[u] = holds'[v] /\ holds'[u] # NoSocket => u = v
  BY <1>1 DEF Places
<1>4. \A x \in open' : x \in Pooled' \/ \E u \in Threads : holds'[u] = x
  BY <1>1 DEF Places
<1>5. \A u \in Threads : holds'[u] # NoSocket => holds'[u] \in open' /\ holds'[u] \notin Pooled'
  BY <1>1, <1>2 DEF Places
<1>6. \A u \in Threads : holds'[u] = NoSocket <=> pc'[u] \in {"idle", "inactive", "create"}
  BY <1>1 DEF Places
<1>7. Pooled' \subseteq open'
  BY <1>2 DEF Places
<1>8. Places'
  BY <1>3, <1>4, <1>5, <1>6, <1>7 DEF Places
<1>9. \A x \in Sockets : x \notin open' \/ x \in Pooled' => pending'[x] = <<>>
  BY <1>2 DEF Quiet
<1>10. Quiet'
  BY <1>1, <1>9 DEF Quiet
<1>. QED
  BY <1>8, <1>10

\* A thread closes its socket for good.
LEMMA Closed ==
  ASSUME PoolTypes, Places, Quiet, NEW t \in Threads, holds[t] # NoSocket,
         LetGo(t), trueClose({holds[t]}), UNCHANGED <<active, inactive>>
  PROVE  Places' /\ Quiet'
<1> DEFINE h == holds[t]
<1>1. /\ pc'[t] = "idle" /\ holds'[t] = NoSocket
      /\ \A u \in Threads : u # t => pc'[u] = pc[u] /\ holds'[u] = holds[u]
  BY DEF LetGo, Go, PoolTypes
<1>2. /\ h \in open /\ h \in Sockets /\ h \notin Pooled /\ \A u \in Threads : u # t => holds[u] # h
      /\ Pooled' = Pooled /\ open' = open \ {h}
      /\ pending'[h] = <<>> /\ \A x \in Sockets : x # h => pending'[x] = pending[x]
  BY DEF Places, PoolTypes, trueClose, Pooled
<1>3. \A u, v \in Threads : holds'[u] = holds'[v] /\ holds'[u] # NoSocket => u = v
  BY <1>1 DEF Places
<1>4. \A x \in open' : x \in Pooled' \/ \E u \in Threads : holds'[u] = x
  BY <1>1, <1>2 DEF Places
<1>5. \A u \in Threads : holds'[u] # NoSocket => holds'[u] \in open' /\ holds'[u] \notin Pooled'
  BY <1>1, <1>2 DEF Places
<1>6. \A u \in Threads : holds'[u] = NoSocket <=> pc'[u] \in {"idle", "inactive", "create"}
  BY <1>1 DEF Places
<1>7. Pooled' \subseteq open'
  BY <1>2 DEF Places
<1>8. Places'
  BY <1>3, <1>4, <1>5, <1>6, <1>7 DEF Places
<1>9. \A x \in Sockets : x \notin open' \/ x \in Pooled' => pending'[x] = <<>>
  BY <1>2 DEF Quiet
<1>10. ASSUME NEW u \in Threads, u # t, holds[u] # NoSocket PROVE pending'[holds[u]] = pending[holds[u]]
  BY <1>2, <1>10 DEF PoolTypes
<1>11. \A u \in Threads : pc[u] = "wait" => holds[u] # NoSocket
  BY DEF Places
<1>12. Quiet'
  BY <1>1, <1>9, <1>10, <1>11 DEF Quiet
<1>. QED
  BY <1>8, <1>12

\* The pools alone change: the sockets X are closed, the sockets N are new.
LEMMA Repooled ==
  ASSUME PoolTypes, Places, Quiet, UNCHANGED <<pc, holds>>,
         IsInjective(active'), IsInjective(inactive'), Range(active') \cap Range(inactive') = {},
         NEW X \in SUBSET Pooled, NEW N \in SUBSET (Sockets \ open),
         Pooled' = (Pooled \ X) \cup N, open' = (open \ X) \cup N,
         \A s \in Sockets : pending'[s] = IF s \in X THEN <<>> ELSE pending[s]
  PROVE  Places' /\ Quiet'
<1>1. Pooled' \subseteq open'
  BY DEF Places
<1>2. \A u \in Threads : holds[u] # NoSocket => holds[u] \in open /\ holds[u] \notin X \cup N \cup Pooled
  BY DEF Places
<1>3. \A x \in open' : x \in Pooled' \/ \E u \in Threads : holds[u] = x
  BY DEF Places
<1>4. Places'
  BY <1>1, <1>2, <1>3 DEF Places
<1>5. \A x \in Sockets : x \notin open' \/ x \in Pooled' => pending'[x] = <<>>
  BY DEF Quiet, Places
<1>6. \A u \in Threads : holds[u] # NoSocket => pending'[holds[u]] = pending[holds[u]]
  BY <1>2 DEF PoolTypes
<1>7. \A u \in Threads : pc[u] = "wait" => holds[u] # NoSocket
  BY DEF Places
<1>8. Quiet'
  BY <1>5, <1>6, <1>7 DEF Quiet
<1>. QED
  BY <1>4, <1>8

LEMMA Steady ==
  ASSUME PoolTypes, Places, Quiet, UNCHANGED <<active, inactive, open, pending, holds>>,
         NEW t \in Threads, NEW p, Go(t, p), pc[t] # "wait", p # "wait",
         pc[t] \in {"idle", "inactive", "create"} <=> p \in {"idle", "inactive", "create"}
  PROVE  Places' /\ Quiet'
<1>1. pc'[t] = p /\ \A u \in Threads : u # t => pc'[u] = pc[u]
  BY DEF Go, PoolTypes
<1>2. Pooled' = Pooled
  BY DEF Pooled
<1>3. \A u \in Threads : holds[u] = NoSocket <=> pc'[u] \in {"idle", "inactive", "create"}
  BY <1>1 DEF Places
<1>4. Places'
  BY <1>2, <1>3 DEF Places
<1>5. Quiet'
  BY <1>1, <1>2 DEF Quiet
<1>. QED
  BY <1>4, <1>5

\* The number of sockets maintainInactiveSocket keeps is well defined.
LEMMA KeepExists ==
  ASSUME NEW len \in Nat, NEW Old
  PROVE  \E k \in 0..len :
           /\ k = len - MaxClosed \/ k = 0 \/ k \notin Old
           /\ k + MaxClosed >= len
           /\ \A n \in (k + 1)..len : n \in Old
<1> DEFINE K == {k \in 0..len : k + MaxClosed >= len /\ \A n \in (k + 1)..len : n \in Old}
<1>0. MaxClosed \in Nat \ {0}
  BY PoolAssumption
<1>1. len \in K
  BY <1>0
<1>2. K \subseteq Nat
  OBVIOUS
<1>3. PICK k \in K : \A y \in K : ~(y < k)
  <2> HIDE DEF K
  <2>. QED
    BY <1>1, <1>2, SmallestNat
<1>4. ASSUME k # len - MaxClosed, k # 0, k \in Old PROVE FALSE
  <2>1. k \in 0..len /\ k - 1 \in 0..len /\ (k - 1) + MaxClosed >= len
    BY <1>0, <1>4
  <2>2. \A n \in ((k - 1) + 1)..len : n \in Old
    <3> SUFFICES ASSUME NEW n \in ((k - 1) + 1)..len PROVE n \in Old
      OBVIOUS
    <3>1. n = k \/ n \in (k + 1)..len
      BY <2>1
    <3>. QED
      BY <1>4, <3>1
  <2>3. k - 1 \in K
    BY <2>1, <2>2
  <2>4. k - 1 < k
    BY <2>1
  <2>. QED
    BY <1>3, <2>3, <2>4
<1>. QED
  BY <1>4

LEMMA Maintained ==
  ASSUME PoolTypes, Places, Quiet, maintainInactiveSocket
  PROVE  /\ PoolTypes' /\ Places' /\ Quiet'
         /\ Range(inactive') \subseteq Range(inactive)
         /\ UNCHANGED <<main, active, pc, raced>>
<1>1. PICK lag \in {0, 1} :
        LET old(n) == idle[inactive[n]] > inactiveSocketTimeout + lag
            keep == CHOOSE k \in 0..Len(inactive) :
                      /\ k = Len(inactive) - MaxClosed \/ k = 0 \/ ~old(k)
                      /\ k + MaxClosed >= Len(inactive)
                      /\ \A n \in (k + 1)..Len(inactive) : old(n)
        IN /\ inactive' = SubSeq(inactive, 1, keep)
           /\ trueClose({inactive[n] : n \in (keep + 1)..Len(inactive)})
  BY DEF maintainInactiveSocket
<1> DEFINE old(n) == idle[inactive[n]] > inactiveSocketTimeout + lag
           keep == CHOOSE k \in 0..Len(inactive) :
                     /\ k = Len(inactive) - MaxClosed \/ k = 0 \/ ~old(k)
                     /\ k + MaxClosed >= Len(inactive)
                     /\ \A n \in (k + 1)..Len(inactive) : old(n)
           X == {inactive[n] : n \in (keep + 1)..Len(inactive)}
<1>2. keep \in 0..Len(inactive)
  <2> DEFINE Old == {n \in 0..Len(inactive) : old(n)}
  <2>1. Len(inactive) \in Nat
    BY DEF PoolTypes
  <2>2. \E k \in 0..Len(inactive) :
          /\ k = Len(inactive) - MaxClosed \/ k = 0 \/ k \notin Old
          /\ k + MaxClosed >= Len(inactive)
          /\ \A n \in (k + 1)..Len(inactive) : n \in Old
    <3> HIDE DEF Old
    <3>. QED
      BY <2>1, KeepExists
  <2>3. \E k \in 0..Len(inactive) :
          /\ k = Len(inactive) - MaxClosed \/ k = 0 \/ ~old(k)
          /\ k + MaxClosed >= Len(inactive)
          /\ \A n \in (k + 1)..Len(inactive) : old(n)
    <3> HIDE DEF old
    <3>. QED
      BY <2>2
  <2> HIDE DEF old
  <2>. QED
    BY <2>3
<1>3. inactive' = SubSeq(inactive, 1, keep) /\ trueClose(X)
  BY <1>1
<1> HIDE DEF keep
<1>4. inactive \in Seq(Sockets) /\ IsInjective(inactive) /\ Len(inactive) \in Nat
  BY DEF PoolTypes, Places
<1>5. /\ SubSeq(inactive, 1, keep) \in Seq(Sockets) /\ IsInjective(SubSeq(inactive, 1, keep))
      /\ Range(SubSeq(inactive, 1, keep)) = {inactive[i] : i \in 1..keep}
  <2>1. 1 \in 1..(Len(inactive) + 1)
    BY <1>4
  <2>. QED
    BY <1>2, <1>4, <2>1, RangeOfPart
<1>6. Range(inactive) = {inactive[i] : i \in 1..Len(inactive)}
  BY <1>4, RangeOf
<1>7. X \subseteq Range(inactive) /\ Range(inactive') = Range(inactive) \ X
  <2>1. X \subseteq Range(inactive)
    BY <1>2, <1>4, <1>6
  <2>2. ASSUME NEW x \in Range(inactive') PROVE x \in Range(inactive) \ X
    <3>1. PICK i \in 1..keep : x = inactive[i]
      BY <1>3, <1>5
    <3>2. i \in 1..Len(inactive)
      BY <1>2, <1>4
    <3>3. \A n \in (keep + 1)..Len(inactive) : n \in 1..Len(inactive) /\ n # i
      BY <1>2, <1>4
    <3>4. \A j \in 1..Len(inactive) : inactive[j] = inactive[i] => j = i
      BY <1>4, <3>2, RangeOf
    <3>. QED
      BY <1>6, <3>1, <3>2, <3>3, <3>4
  <2>3. ASSUME NEW x \in Range(inactive) \ X PROVE x \in Range(inactive')
    <3>1. PICK i \in 1..Len(inactive) : x = inactive[i]
      BY <1>6
    <3>2. i \in 1..keep \/ i \in (keep + 1)..Len(inactive)
      BY <1>2, <1>4
    <3>. QED
      BY <1>3, <1>5, <3>1, <3>2
  <2>. QED
    BY <2>1, <2>2, <2>3
<1> HIDE DEF X
<1>8. PoolTypes'
  <2>1. <<>> \in Seq(Threads)
    OBVIOUS
  <2>2. /\ UNCHANGED <<initialized, main, active, idle, pc, holds, raced>> /\ passing' = FALSE
        /\ inactive' \in Seq(Sockets)
    BY <1>3, <1>5 DEF maintainInactiveSocket
  <2>. QED
    BY <1>3, <2>1, <2>2 DEF PoolTypes, trueClose
<1>9. /\ UNCHANGED <<main, active, pc, raced>> /\ UNCHANGED <<pc, holds>>
  BY DEF maintainInactiveSocket
<1>10. /\ X \in SUBSET Pooled /\ {} \in SUBSET (Sockets \ open)
       /\ Pooled' = (Pooled \ X) \cup {} /\ open' = (open \ X) \cup {}
       /\ Range(active') \cap Range(inactive') = {}
  BY <1>3, <1>7, <1>9 DEF Pooled, Places, trueClose
<1>11. \A s \in Sockets : pending'[s] = IF s \in X THEN <<>> ELSE pending[s]
  BY <1>3 DEF trueClose
<1>12. IsInjective(active') /\ IsInjective(inactive')
  BY <1>3, <1>5, <1>9 DEF Places
<1>13. Places' /\ Quiet'
  BY <1>9, <1>10, <1>11, <1>12, Repooled
<1>. QED
  BY <1>7, <1>8, <1>9, <1>13

LEMMA Initialized ==
  ASSUME PoolTypes, Places, Quiet, initialize
  PROVE  PoolTypes' /\ Places' /\ Quiet'
<1>0. PICK n \in 0..initConn : \E new \in [1..n -> Sockets \ open] :
        LET room == Min({n, Max({maxActiveConn - Len(active), 0})})
        IN /\ IsInjective(new)
           /\ open' = open \cup Range(new)
           /\ active' = active \o SubSeq(new, 1, room)
           /\ inactive' = Reverse(SubSeq(new, room + 1, n)) \o inactive
           /\ idle' = [s \in Sockets |-> IF s \in Range(new) THEN 0 ELSE idle[s]]
  BY DEF initialize
<1> DEFINE room == Min({n, Max({maxActiveConn - Len(active), 0})})
<1>1. PICK new \in [1..n -> Sockets \ open] :
        /\ IsInjective(new)
        /\ open' = open \cup Range(new)
        /\ active' = active \o SubSeq(new, 1, room)
        /\ inactive' = Reverse(SubSeq(new, room + 1, n)) \o inactive
        /\ idle' = [s \in Sockets |-> IF s \in Range(new) THEN 0 ELSE idle[s]]
  BY <1>0
<1> DEFINE one == SubSeq(new, 1, room)
           two == SubSeq(new, room + 1, n)
<1>2. n \in Nat /\ new \in Seq(Sockets \ open) /\ Len(new) = n
  BY PoolAssumption
<1>3. room \in 0..n
  <2> DEFINE m == Max({maxActiveConn - Len(active), 0})
  <2>1. maxActiveConn - Len(active) \in Int
    BY PoolAssumption DEF PoolTypes
  <2>2. m \in Nat
    BY <2>1, SMTT(30) DEF Max
  <2> HIDE DEF m
  <2>3. Min({n, m}) \in 0..n
    <3>1. \E x \in {n, m} : \A y \in {n, m} : x =< y
      BY <1>2, <2>2
    <3>2. Min({n, m}) \in {n, m} /\ \A y \in {n, m} : Min({n, m}) =< y
      BY <3>1 DEF Min
    <3>. QED
      BY <1>2, <2>2, <3>2
  <2>. QED
    BY <2>3 DEF m
<1>4. /\ IsInjective(new) /\ open' = open \cup Range(new)
      /\ active' = active \o one /\ inactive' = Reverse(two) \o inactive
      /\ idle' = [s \in Sockets |-> IF s \in Range(new) THEN 0 ELSE idle[s]]
  BY <1>1
<1> HIDE DEF room
<1>5. /\ one \in Seq(Sockets \ open) /\ IsInjective(one)
      /\ Range(one) = {new[i] : i \in 1..room}
  <2>1. 1 \in 1..(Len(new) + 1) /\ room \in 0..Len(new)
    BY <1>2, <1>3
  <2>2. new \in Seq(Sockets \ open) /\ IsInjective(new)
    BY <1>2, <1>4
  <2>. QED
    BY <2>1, <2>2, RangeOfPart
<1>6. /\ two \in Seq(Sockets \ open) /\ IsInjective(two)
      /\ Range(two) = {new[i] : i \in (room + 1)..n}
  <2>1. room + 1 \in 1..(Len(new) + 1) /\ n \in 0..Len(new)
    BY <1>2, <1>3
  <2>. QED
    BY <1>2, <1>4, <2>1, RangeOfPart, SMTT(30)
<1> HIDE DEF one, two
<1>7. Range(new) = {new[i] : i \in 1..n} /\ \A i, j \in 1..n : new[i] = new[j] => i = j
  BY <1>2, <1>4, RangeOf
<1>8. Range(one) \cup Range(two) = Range(new)
  <2>1. \A i : i \in 1..n <=> i \in 1..room \/ i \in (room + 1)..n
    BY <1>2, <1>3
  <2>. QED
    BY <1>5, <1>6, <1>7, <2>1
<1>9. Range(one) \cap Range(two) = {}
  <2> SUFFICES ASSUME NEW i \in 1..room, NEW j \in (room + 1)..n PROVE new[i] # new[j]
    BY <1>5, <1>6
  <2>1. i \in 1..n /\ j \in 1..n /\ i # j
    BY <1>2, <1>3
  <2>. QED
    BY <1>7, <2>1
<1>10. /\ Reverse(two) \in Seq(Sockets \ open) /\ IsInjective(Reverse(two))
       /\ Range(Reverse(two)) = Range(two)
  BY <1>6, Reversed
<1>11. Range(new) \subseteq Sockets \ open
  BY <1>2, RangeOf
<1>12. /\ one \in Seq(Sockets) /\ Reverse(two) \in Seq(Sockets)
       /\ active \in Seq(Sockets) /\ inactive \in Seq(Sockets)
  BY <1>5, <1>10 DEF PoolTypes
<1>13. /\ Range(active) \subseteq open /\ Range(inactive) \subseteq open
       /\ Range(active) \cap Range(inactive) = {} /\ IsInjective(active) /\ IsInjective(inactive)
  BY DEF Places, Pooled
<1>14. active' \in Seq(Sockets) /\ Range(active') = Range(active) \cup Range(one)
  BY <1>4, <1>12, Joined
<1>15. inactive' \in Seq(Sockets) /\ Range(inactive') = Range(two) \cup Range(inactive)
  BY <1>4, <1>10, <1>12, Joined
<1>16. IsInjective(active')
  <2>1. Range(active) \cap Range(one) = {}
    BY <1>8, <1>11, <1>13
  <2>. QED
    BY <1>4, <1>5, <1>12, <1>13, <2>1, Joined
<1>17. IsInjective(inactive')
  <2>1. Range(Reverse(two)) \cap Range(inactive) = {}
    BY <1>8, <1>10, <1>11, <1>13
  <2>. QED
    BY <1>4, <1>10, <1>12, <1>13, <2>1, Joined
<1>18. PoolTypes'
  <2>1. UNCHANGED <<pending, pc, holds, passing>> /\ initialized' = TRUE /\ main' = "up" /\ raced' = {}
    BY DEF initialize
  <2>2. idle' \in [Sockets -> Nat]
    BY <1>4 DEF PoolTypes
  <2>. QED
    BY <1>4, <1>11, <1>14, <1>15, <2>1, <2>2 DEF PoolTypes
<1>19. /\ UNCHANGED <<pc, holds>> /\ UNCHANGED pending
  BY DEF initialize
<1>20. /\ {} \in SUBSET Pooled /\ Range(new) \in SUBSET (Sockets \ open)
       /\ Pooled' = (Pooled \ {}) \cup Range(new) /\ open' = (open \ {}) \cup Range(new)
  BY <1>4, <1>8, <1>11, <1>14, <1>15 DEF Pooled
<1>21. Range(active') \cap Range(inactive') = {}
  BY <1>8, <1>9, <1>11, <1>13, <1>14, <1>15
<1>22. Places' /\ Quiet'
  <2>1. \A s \in Sockets : pending'[s] = IF s \in {} THEN <<>> ELSE pending[s]
    BY <1>19
  <2>. QED
    BY <1>16, <1>17, <1>19, <1>20, <1>21, <2>1, Repooled
<1>. QED
  BY <1>18, <1>22

\* Every step keeps the types, the places of the sockets and the order of the
\* replies.
LEMMA PoolStep ==
  ASSUME PoolTypes, Places, Quiet, [Next]_vars
  PROVE  PoolTypes' /\ Places' /\ Quiet'
<1>0. NoSocket \notin Sockets
  BY PoolAssumption
<1>1. \A t \in Threads : holds[t] # NoSocket => holds[t] \in Sockets
  BY DEF PoolTypes
<1>2. ASSUME NEW t \in Threads, PollActive(t) PROVE PoolTypes' /\ Places' /\ Quiet'
  <2>1. holds[t] = NoSocket
    BY <1>2 DEF PollActive, Places
  <2>2. CASE active = <<>>
    <3>1. Go(t, "inactive") /\ UNCHANGED <<active, inactive, open, pending, holds>>
      BY <1>2, <2>2 DEF PollActive
    <3>2. PoolTypes'
      BY <1>2, <3>1 DEF PollActive, PoolTypes, Go
    <3>. QED
      BY <1>2, <3>1, <3>2, Steady DEF PollActive
  <2>3. CASE active # <<>>
    <3>1. /\ Tail(active) \in Seq(Sockets) /\ Head(active) \in Sockets /\ IsInjective(Tail(active))
          /\ Head(active) \in Range(active) /\ Range(Tail(active)) = Range(active) \ {Head(active)}
      BY <2>3, HeadTail DEF PoolTypes, Places
    <3>2. /\ Take(t, Head(active)) /\ active' = Tail(active) /\ UNCHANGED pending
          /\ UNCHANGED <<inactive, open>>
      BY <1>2, <2>3 DEF PollActive
    <3>3. PoolTypes'
      BY <1>2, <3>1, <3>2 DEF PollActive, PoolTypes, Take, Go
    <3>4. /\ Head(active) \in Pooled /\ Pooled' = Pooled \ {Head(active)}
          /\ IsInjective(active') /\ IsInjective(inactive')
          /\ Range(active') \subseteq Range(active) /\ Range(inactive') \subseteq Range(inactive)
      BY <3>1, <3>2 DEF Pooled, Places
    <3>. QED
      BY <2>1, <3>1, <3>2, <3>3, <3>4, Taken
  <2>. QED
    BY <2>2, <2>3
<1>3. ASSUME NEW t \in Threads, PollInactive(t) PROVE PoolTypes' /\ Places' /\ Quiet'
  <2>1. holds[t] = NoSocket
    BY <1>3 DEF PollInactive, Places
  <2>2. CASE inactive = <<>>
    <3>1. Go(t, "create") /\ UNCHANGED <<active, inactive, open, pending, holds>>
      BY <1>3, <2>2 DEF PollInactive
    <3>2. PoolTypes'
      BY <1>3, <3>1 DEF PollInactive, PoolTypes, Go
    <3>. QED
      BY <1>3, <3>1, <3>2, Steady DEF PollInactive
  <2>3. CASE inactive # <<>>
    <3>1. /\ Tail(inactive) \in Seq(Sockets) /\ Head(inactive) \in Sockets /\ IsInjective(Tail(inactive))
          /\ Head(inactive) \in Range(inactive)
          /\ Range(Tail(inactive)) = Range(inactive) \ {Head(inactive)}
      BY <2>3, HeadTail DEF PoolTypes, Places
    <3>2. /\ Take(t, Head(inactive)) /\ inactive' = Tail(inactive) /\ UNCHANGED pending
          /\ UNCHANGED <<active, open>>
      BY <1>3, <2>3 DEF PollInactive
    <3>3. PoolTypes'
      BY <1>3, <3>1, <3>2 DEF PollInactive, PoolTypes, Take, Go
    <3>4. /\ Head(inactive) \in Pooled /\ Pooled' = Pooled \ {Head(inactive)}
          /\ IsInjective(active') /\ IsInjective(inactive')
          /\ Range(active') \subseteq Range(active) /\ Range(inactive') \subseteq Range(inactive)
      BY <3>1, <3>2 DEF Pooled, Places
    <3>. QED
      BY <2>1, <3>1, <3>2, <3>3, <3>4, Taken
  <2>. QED
    BY <2>2, <2>3
<1>4. ASSUME NEW t \in Threads, createSocket(t) PROVE PoolTypes' /\ Places' /\ Quiet'
  <2>1. holds[t] = NoSocket /\ UNCHANGED <<active, inactive>> /\ UNCHANGED pending
    BY <1>4 DEF createSocket, Places
  <2>2. ASSUME NEW s \in Sockets \ open, Take(t, s), open' = open \cup {s}
        PROVE  PoolTypes' /\ Places' /\ Quiet'
    <3>1. PoolTypes'
      BY <1>4, <2>2 DEF createSocket, PoolTypes, Take, Go
    <3>2. /\ UNCHANGED Pooled /\ IsInjective(active') /\ IsInjective(inactive')
          /\ Range(active') \subseteq Range(active) /\ Range(inactive') \subseteq Range(inactive)
      BY <2>1 DEF Pooled, Places
    <3>. QED
      BY <2>1, <2>2, <3>1, <3>2, Taken
  <2>3. CASE LetGo(t) /\ UNCHANGED open
    <3>1. UNCHANGED holds
      BY <2>1, <2>3 DEF LetGo, PoolTypes
    <3>2. PoolTypes'
      BY <1>4, <2>3, <3>1 DEF createSocket, PoolTypes, LetGo, Go
    <3>3. Go(t, "idle") /\ UNCHANGED <<active, inactive, open, pending, holds>> /\ pc[t] = "create"
      BY <1>4, <2>1, <2>3, <3>1 DEF LetGo, createSocket
    <3>. QED
      BY <3>2, <3>3, Steady
  <2>. QED
    BY <1>4, <2>2, <2>3 DEF createSocket
<1>5. ASSUME NEW t \in Threads, Request(t) PROVE PoolTypes' /\ Places' /\ Quiet'
  <2> DEFINE h == holds[t]
  <2>1. PICK n \in 1..MaxPipeline : pending' = [pending EXCEPT ![h] = @ \o [i \in 1..n |-> t]]
    BY <1>5 DEF Request
  <2>2. h # NoSocket /\ h \in Sockets /\ pending[h] = <<>>
    BY <1>1, <1>5 DEF Request, Places, Quiet
  <2> DEFINE q == [i \in 1..n |-> t]
  <2>3. n \in Nat \ {0}
    BY PoolAssumption
  <2>4. q \in Seq(Threads) /\ DOMAIN q = 1..n
    BY <2>3
  <2>5. Range(q) = {t}
    <3>1. 1 \in 1..n
      BY <2>3
    <3>. QED
      BY <3>1 DEF Range
  <2>6. pending'[h] = q /\ \A s \in Sockets : s # h => pending'[s] = pending[s]
    <3>1. <<>> \o q = q
      BY <2>4, ConcatEmptySeq
    <3>. QED
      BY <2>1, <2>2, <3>1 DEF PoolTypes
  <2> HIDE DEF q
  <2>7. PoolTypes'
    <3>1. pending' \in [Sockets -> Seq(Threads)]
      <4>1. <<>> \o q \in Seq(Threads)
        BY <2>4
      <4>. QED
        BY <2>1, <2>2, <4>1 DEF PoolTypes, q
    <3>. QED
      BY <1>5, <3>1 DEF Request, PoolTypes, Go
  <2>8. /\ pc[t] = "has" /\ pc'[t] = "wait" /\ \A u \in Threads : u # t => pc'[u] = pc[u]
        /\ UNCHANGED <<active, inactive, open, holds>>
    BY <1>5 DEF Request, Go, PoolTypes
  <2>9. UNCHANGED Pooled
    BY <2>8 DEF Pooled
  <2>10. Places'
    BY <2>8, <2>9 DEF Places
  <2>11. \A u \in Threads : u # t /\ holds[u] # NoSocket => pending'[holds[u]] = pending[holds[u]]
    BY <1>1, <2>2, <2>6 DEF Places
  <2>12. h \in open /\ h \notin Pooled /\ \A u \in Threads : pc[u] = "wait" => holds[u] # NoSocket
    BY <2>2 DEF Places
  <2>13. Quiet'
    BY <2>2, <2>5, <2>6, <2>8, <2>9, <2>11, <2>12 DEF Quiet
  <2>. QED
    BY <2>7, <2>10, <2>13
<1>6. ASSUME NEW t \in Threads, ReadReply(t) PROVE PoolTypes' /\ Places' /\ Quiet'
  <2> DEFINE h == holds[t]
             q == pending[h]
  <2>1. /\ pc[t] = "wait" /\ q # <<>> /\ UNCHANGED <<active, inactive, open, holds>>
        /\ h # NoSocket /\ h \in Sockets /\ q \in Seq(Threads) /\ Range(q) = {t}
    BY <1>1, <1>6 DEF ReadReply, Places, Quiet, PoolTypes
  <2>2. /\ pending'[h] = Tail(q) /\ \A s \in Sockets : s # h => pending'[s] = pending[s]
        /\ Tail(q) \in Seq(Threads)
    BY <1>6, <2>1 DEF ReadReply, PoolTypes
  <2>3. PoolTypes'
    BY <1>6, <2>1, <2>2 DEF ReadReply, PoolTypes, Go
  <2>4. Len(q) \in Nat \ {0} /\ Len(Tail(q)) = Len(q) - 1
    BY <2>1, EmptySeq
  <2>5. CASE Len(q) = 1
    <3>1. Tail(q) = <<>>
      <4>1. Tail(q) \in Seq(Threads) /\ Len(Tail(q)) = 0
        BY <2>2, <2>4, <2>5
      <4> HIDE DEF q
      <4>. QED
        BY <4>1, EmptySeq
    <3>2. pc'[t] = "close" /\ \A u \in Threads : u # t => pc'[u] = pc[u]
      BY <1>6, <2>5 DEF ReadReply, Go, PoolTypes
    <3>3. UNCHANGED Pooled
      BY <2>1 DEF Pooled
    <3>4. Places'
      BY <2>1, <3>2, <3>3 DEF Places
    <3>5. \A u \in Threads : u # t /\ holds[u] # NoSocket => pending'[holds[u]] = pending[holds[u]]
      BY <1>1, <2>1, <2>2 DEF Places
    <3>6. h \in open /\ h \notin Pooled /\ \A u \in Threads : pc[u] = "wait" => holds[u] # NoSocket
      BY <2>1 DEF Places
    <3>7. Quiet'
      <4>1. ASSUME NEW s \in Sockets, s \notin open' \/ s \in Pooled' PROVE pending'[s] = <<>>
        <5>1. (s \notin open \/ s \in Pooled) /\ s # h
          BY <2>1, <3>3, <3>6, <4>1
        <5>. QED
          BY <2>2, <5>1 DEF Quiet
      <4>2. ASSUME NEW u \in Threads
            PROVE  /\ pc'[u] = "wait" => Range(pending'[holds'[u]]) = {u}
                   /\ pc'[u] # "wait" /\ holds'[u] # NoSocket => pending'[holds'[u]] = <<>>
        <5>1. CASE u = t
          BY <2>1, <2>2, <3>1, <3>2, <5>1
        <5>2. CASE u # t
          <6>1. pc'[u] = pc[u] /\ holds'[u] = holds[u]
            BY <2>1, <3>2, <5>2
          <6>2. holds[u] # NoSocket => pending'[holds[u]] = pending[holds[u]]
            BY <3>5, <5>2
          <6>. QED
            BY <3>6, <6>1, <6>2 DEF Quiet
        <5>. QED
          BY <5>1, <5>2
      <4>. QED
        BY <4>1, <4>2 DEF Quiet
    <3>. QED
      BY <2>3, <3>4, <3>7
  <2>6. CASE Len(q) # 1
    <3>1. Range(Tail(q)) = {t}
      <4>1. /\ Range(q) = {q[i] : i \in 1..Len(q)}
            /\ Range(Tail(q)) = {Tail(q)[i] : i \in 1..Len(Tail(q))}
        <5>1. Range(q) = {q[i] : i \in 1..Len(q)}
          BY <2>1, RangeOf
        <5>2. Range(Tail(q)) = {Tail(q)[i] : i \in 1..Len(Tail(q))}
          <6>1. Tail(q) \in Seq(Threads)
            BY <2>2
          <6> HIDE DEF q
          <6>. QED
            BY <6>1, RangeOf
        <5>. QED
          BY <5>1, <5>2
      <4>2. \A i \in 1..Len(Tail(q)) : i + 1 \in 1..Len(q) /\ Tail(q)[i] = q[i + 1]
        BY <2>1, <2>4, HeadTailProperties
      <4>3. \A i \in 1..Len(Tail(q)) : Tail(q)[i] = t
        BY <2>1, <4>1, <4>2
      <4>4. 1 \in 1..Len(Tail(q))
        <5> HIDE DEF q
        <5>. QED
          BY <2>4, <2>6
      <4>. QED
        BY <4>1, <4>3, <4>4
    <3>2. UNCHANGED pc
      BY <1>6, <2>6 DEF ReadReply
    <3>3. UNCHANGED Pooled
      BY <2>1 DEF Pooled
    <3>4. Places'
      BY <2>1, <3>2, <3>3 DEF Places
    <3>5. \A u \in Threads : u # t /\ holds[u] # NoSocket => pending'[holds[u]] = pending[holds[u]]
      BY <1>1, <2>1, <2>2 DEF Places
    <3>6. h \in open /\ h \notin Pooled /\ \A u \in Threads : pc[u] = "wait" => holds[u] # NoSocket
      BY <2>1 DEF Places
    <3>7. Quiet'
      BY <2>1, <2>2, <3>1, <3>2, <3>3, <3>5, <3>6 DEF Quiet
    <3>. QED
      BY <2>3, <3>4, <3>7
  <2>. QED
    BY <2>5, <2>6
<1>7. ASSUME NEW t \in Threads, pc[t] \in {"has", "wait", "close"}, trueClose({holds[t]}), LetGo(t),
             UNCHANGED <<initialized, main, active, inactive, idle, passing, raced>>
      PROVE  PoolTypes' /\ Places' /\ Quiet'
  <2>1. holds[t] # NoSocket /\ UNCHANGED <<active, inactive>>
    BY <1>7 DEF Places
  <2>2. PoolTypes'
    <3>1. <<>> \in Seq(Threads)
      OBVIOUS
    <3>. QED
      BY <1>7, <3>1 DEF PoolTypes, trueClose, LetGo, Go
  <2>. QED
    BY <1>7, <2>1, <2>2, Closed
<1>8. ASSUME NEW t \in Threads, Abandon(t) PROVE PoolTypes' /\ Places' /\ Quiet'
  BY <1>7, <1>8 DEF Abandon
<1>9. ASSUME NEW t \in Threads, TestInitialized(t) PROVE PoolTypes' /\ Places' /\ Quiet'
  <2>1. CASE initialized
    <3>1. Go(t, "size") /\ UNCHANGED <<active, inactive, open, pending, holds>> /\ pc[t] = "close"
      BY <1>9, <2>1 DEF TestInitialized
    <3>2. PoolTypes'
      BY <1>9, <3>1 DEF TestInitialized, PoolTypes, Go
    <3>. QED
      BY <3>1, <3>2, Steady
  <2>2. CASE ~initialized
    BY <1>7, <1>9, <2>2 DEF TestInitialized
  <2>. QED
    BY <2>1, <2>2
<1>10. ASSUME NEW t \in Threads, TestSize(t) PROVE PoolTypes' /\ Places' /\ Quiet'
  <2>1. PICK p \in {"addActive", "addInactive"} : Go(t, p)
    BY <1>10 DEF TestSize
  <2>2. UNCHANGED <<active, inactive, open, pending, holds>> /\ pc[t] = "size"
    BY <1>10 DEF TestSize
  <2>3. PoolTypes'
    <3>1. idle' \in [Sockets -> Nat]
      BY <1>10 DEF TestSize, PoolTypes
    <3>. QED
      BY <1>10, <2>1, <2>2, <3>1 DEF TestSize, PoolTypes, Go
  <2>. QED
    BY <2>1, <2>2, <2>3, Steady
<1>11. ASSUME NEW t \in Threads, AddActive(t) PROVE PoolTypes' /\ Places' /\ Quiet'
  <2> DEFINE h == holds[t]
  <2>1. /\ pc[t] = "addActive" /\ LetGo(t) /\ UNCHANGED <<open, pending>> /\ UNCHANGED inactive
        /\ active' = Append(active, h)
    BY <1>11 DEF AddActive
  <2>2. h # NoSocket /\ h \in Sockets /\ h \notin Range(active) /\ h \notin Range(inactive)
    BY <1>1, <2>1 DEF Places, Pooled
  <2>3. active \in Seq(Sockets) /\ IsInjective(active)
    BY DEF PoolTypes, Places
  <2>4. <<h>> \in Seq(Sockets) /\ IsInjective(<<h>>) /\ Range(<<h>>) = {h}
    BY <2>2 DEF IsInjective, Range
  <2>5. active' = active \o <<h>>
    BY <2>1, <2>2, <2>3, AppendIsConcat
  <2>6. Range(active) \cap Range(<<h>>) = {}
    BY <2>2, <2>4
  <2>7. /\ active' \in Seq(Sockets) /\ IsInjective(active') /\ Range(active') = Range(active) \cup {h}
    <3>1. active \o <<h>> \in Seq(Sockets) /\ Range(active \o <<h>>) = Range(active) \cup Range(<<h>>)
      BY <2>3, <2>4, Joined
    <3>2. IsInjective(active \o <<h>>)
      BY <2>3, <2>4, <2>6, Joined
    <3>. QED
      BY <2>4, <2>5, <3>1, <3>2
  <2>8. PoolTypes'
    BY <1>11, <2>1, <2>7 DEF AddActive, PoolTypes, LetGo, Go
  <2>9. /\ IsInjective(inactive') /\ Pooled' = Pooled \cup {h}
        /\ Range(active') \cap Range(inactive') = {}
    BY <2>1, <2>2, <2>7 DEF Places, Pooled
  <2>. QED
    BY <2>1, <2>2, <2>7, <2>8, <2>9, Given
<1>12. ASSUME NEW t \in Threads, AddInactive(t) PROVE PoolTypes' /\ Places' /\ Quiet'
  <2> DEFINE h == holds[t]
  <2>1. /\ pc[t] = "addInactive" /\ LetGo(t) /\ UNCHANGED <<open, pending>> /\ UNCHANGED active
        /\ inactive' = <<h>> \o inactive
    BY <1>12 DEF AddInactive
  <2>2. h # NoSocket /\ h \in Sockets /\ h \notin Range(active) /\ h \notin Range(inactive)
    BY <1>1, <2>1 DEF Places, Pooled
  <2>3. inactive \in Seq(Sockets) /\ IsInjective(inactive)
    BY DEF PoolTypes, Places
  <2>4. <<h>> \in Seq(Sockets) /\ IsInjective(<<h>>) /\ Range(<<h>>) = {h}
    BY <2>2 DEF IsInjective, Range
  <2>5. Range(<<h>>) \cap Range(inactive) = {}
    BY <2>2, <2>4
  <2>6. /\ inactive' \in Seq(Sockets) /\ IsInjective(inactive')
        /\ Range(inactive') = {h} \cup Range(inactive)
    <3>1. <<h>> \o inactive \in Seq(Sockets) /\ Range(<<h>> \o inactive) = Range(<<h>>) \cup Range(inactive)
      <4> DEFINE k == <<h>>
      <4>1. k \in Seq(Sockets)
        BY <2>4
      <4> HIDE DEF k
      <4>2. k \o inactive \in Seq(Sockets) /\ Range(k \o inactive) = Range(k) \cup Range(inactive)
        BY <2>3, <4>1, Joined
      <4>. QED
        BY <4>2 DEF k
    <3>2. IsInjective(<<h>> \o inactive)
      BY <2>3, <2>4, <2>5, Joined
    <3>. QED
      BY <2>1, <2>4, <3>1, <3>2
  <2>7. PoolTypes'
    BY <1>12, <2>1, <2>6 DEF AddInactive, PoolTypes, LetGo, Go
  <2>8. /\ IsInjective(active') /\ Pooled' = Pooled \cup {h}
        /\ Range(active') \cap Range(inactive') = {}
    BY <2>1, <2>2, <2>6 DEF Places, Pooled
  <2>. QED
    BY <2>1, <2>2, <2>6, <2>7, <2>8, Given
<1>13. ASSUME UNCHANGED <<active, inactive, open, pending, pc, holds>> PROVE Places' /\ Quiet'
  <2>1. UNCHANGED Pooled
    BY <1>13 DEF Pooled
  <2>. QED
    BY <1>13, <2>1 DEF Places, Quiet
<1>14. ASSUME Tick \/ MaintainThread_run \/ shutdown PROVE PoolTypes' /\ Places' /\ Quiet'
  <2>1. Places' /\ Quiet'
    BY <1>13, <1>14 DEF Tick, MaintainThread_run, shutdown
  <2>2. Tick => idle' \in [Sockets -> Nat]
    BY DEF Tick, PoolTypes
  <2>3. PoolTypes'
    <3>1. CASE Tick
      BY <2>2, <3>1 DEF Tick, PoolTypes
    <3>2. CASE MaintainThread_run
      BY <3>2 DEF MaintainThread_run, PoolTypes
    <3>3. CASE shutdown
      BY <3>3 DEF shutdown, PoolTypes
    <3>. QED
      BY <1>14, <3>1, <3>2, <3>3
  <2>. QED
    BY <2>1, <2>3
<1>15. ASSUME maintainInactiveSocket PROVE PoolTypes' /\ Places' /\ Quiet'
  BY <1>15, Maintained
<1>16. ASSUME initialize PROVE PoolTypes' /\ Places' /\ Quiet'
  BY <1>16, Initialized
<1>17. ASSUME CloseActive PROVE PoolTypes' /\ Places' /\ Quiet'
  <2>1. CASE active = <<>>
    <3>1. UNCHANGED <<active, inactive, open, pending, pc, holds>>
      BY <1>17, <2>1 DEF CloseActive
    <3>2. PoolTypes'
      BY <1>17, <2>1 DEF CloseActive, PoolTypes
    <3>. QED
      BY <1>13, <3>1, <3>2
  <2>2. CASE active # <<>>
    <3> DEFINE h == Head(active)
    <3>1. /\ Tail(active) \in Seq(Sockets) /\ h \in Sockets /\ IsInjective(Tail(active))
          /\ h \in Range(active) /\ Range(Tail(active)) = Range(active) \ {h}
      BY <2>2, HeadTail DEF PoolTypes, Places
    <3>2. /\ active' = Tail(active) /\ trueClose({h}) /\ UNCHANGED inactive /\ UNCHANGED <<pc, holds>>
      BY <1>17, <2>2 DEF CloseActive
    <3>3. PoolTypes'
      <4>1. <<>> \in Seq(Threads)
        OBVIOUS
      <4>. QED
        BY <1>17, <2>2, <3>1, <3>2, <4>1 DEF CloseActive, PoolTypes, trueClose
    <3>4. /\ {h} \in SUBSET Pooled /\ {} \in SUBSET (Sockets \ open)
          /\ Pooled' = (Pooled \ {h}) \cup {} /\ open' = (open \ {h}) \cup {}
          /\ Range(active') \cap Range(inactive') = {}
          /\ IsInjective(active') /\ IsInjective(inactive')
      BY <3>1, <3>2 DEF Pooled, Places, trueClose
    <3>5. \A s \in Sockets : pending'[s] = IF s \in {h} THEN <<>> ELSE pending[s]
      BY <3>2 DEF trueClose
    <3>6. Places' /\ Quiet'
      BY <3>2, <3>4, <3>5, Repooled
    <3>. QED
      BY <3>3, <3>6
  <2>. QED
    BY <2>1, <2>2
<1>18. ASSUME CloseInactive PROVE PoolTypes' /\ Places' /\ Quiet'
  <2> DEFINE X == Range(inactive)
  <2>1. /\ inactive' = <<>> /\ trueClose(X) /\ UNCHANGED active /\ UNCHANGED <<pc, holds>>
    BY <1>18 DEF CloseInactive
  <2>2. Range(inactive') = {} /\ IsInjective(inactive')
    BY <2>1 DEF Range, IsInjective
  <2> HIDE DEF X
  <2>3. PoolTypes'
    <3>1. <<>> \in Seq(Threads) /\ <<>> \in Seq(Sockets)
      OBVIOUS
    <3>. QED
      BY <1>18, <2>1, <3>1 DEF CloseInactive, PoolTypes, trueClose
  <2>4. /\ X \in SUBSET Pooled /\ {} \in SUBSET (Sockets \ open)
        /\ Pooled' = (Pooled \ X) \cup {} /\ open' = (open \ X) \cup {}
        /\ Range(active') \cap Range(inactive') = {} /\ IsInjective(active')
    BY <2>1, <2>2 DEF Pooled, Places, trueClose, X
  <2>5. \A s \in Sockets : pending'[s] = IF s \in X THEN <<>> ELSE pending[s]
    BY <2>1 DEF trueClose
  <2>6. Places' /\ Quiet'
    BY <2>1, <2>2, <2>4, <2>5, Repooled
  <2>. QED
    BY <2>3, <2>6
<1>19. CASE UNCHANGED vars
  BY <1>13, <1>19 DEF vars, PoolTypes
<1>. QED
  BY <1>2, <1>3, <1>4, <1>5, <1>6, <1>8, <1>9, <1>10, <1>11, <1>12, <1>14, <1>15, <1>16,
     <1>17, <1>18, <1>19 DEF Next

\* Fewer threads on their way to a pool and fewer sockets in the pools.
LEMMA RacersFewer ==
  ASSUME PoolTypes, Racers, Late' \subseteq Late, Range(active') \subseteq Range(active),
         Pooled' \subseteq Pooled, UNCHANGED <<main, raced>>
  PROVE  Racers'
<1>1. IsFiniteSet(Late) /\ IsFiniteSet(Pooled) /\ IsFiniteSet(Range(active))
  <2>1. Late \subseteq Threads /\ Range(active) \subseteq Sockets /\ Pooled \subseteq Sockets
    <3>1. Range(active) \subseteq Sockets /\ Range(inactive) \subseteq Sockets
      BY RangeOf DEF PoolTypes
    <3>. QED
      BY <3>1 DEF Late, Pooled
  <2>. QED
    BY <2>1, PoolAssumption, FS_Subset
<1>2. Cardinality(Late') <= Cardinality(Late) /\ Cardinality(Late') \in Nat /\ Cardinality(Late) \in Nat
  BY <1>1, FS_Subset, FS_CardinalityType
<1>3. /\ Cardinality(Pooled') <= Cardinality(Pooled)
      /\ Cardinality(Pooled') \in Nat /\ Cardinality(Pooled) \in Nat
  BY <1>1, FS_Subset, FS_CardinalityType
<1>4. /\ Cardinality(Range(active')) <= Cardinality(Range(active))
      /\ Cardinality(Range(active')) \in Nat /\ Cardinality(Range(active)) \in Nat
  BY <1>1, FS_Subset, FS_CardinalityType
<1>5. Cardinality(raced) \in Nat
  BY PoolAssumption, FS_Subset, FS_CardinalityType DEF PoolTypes
<1>6. main = "active" => Late' \subseteq raced
  BY DEF Racers
<1>7. main = "inactive" => Cardinality(Range(active')) + Cardinality(Late') <= Cardinality(raced)
  BY <1>2, <1>4, <1>5 DEF Racers
<1>8. main = "down" => Cardinality(Pooled') + Cardinality(Late') <= Cardinality(raced)
  BY <1>2, <1>3, <1>5 DEF Racers
<1>. QED
  BY <1>6, <1>7, <1>8 DEF Racers

\* A thread that raced adds its socket to a pool.
LEMMA RacersAdd ==
  ASSUME PoolTypes, Racers, NEW t \in Late, Late' = Late \ {t}, NEW h \in Sockets, h \notin Pooled,
         Pooled' = Pooled \cup {h}, Range(active') \subseteq Range(active) \cup {h},
         UNCHANGED <<main, raced>>
  PROVE  Racers'
<1>1. IsFiniteSet(Late) /\ IsFiniteSet(Pooled) /\ IsFiniteSet(Range(active))
  <2>1. Late \subseteq Threads /\ Range(active) \subseteq Sockets /\ Pooled \subseteq Sockets
    <3>1. Range(active) \subseteq Sockets /\ Range(inactive) \subseteq Sockets
      BY RangeOf DEF PoolTypes
    <3>. QED
      BY <3>1 DEF Late, Pooled
  <2>. QED
    BY <2>1, PoolAssumption, FS_Subset
<1>2. Cardinality(Late') = Cardinality(Late) - 1 /\ Cardinality(Late) \in Nat
  BY <1>1, FS_RemoveElement, FS_CardinalityType
<1>3. Cardinality(Pooled') = Cardinality(Pooled) + 1 /\ Cardinality(Pooled) \in Nat
  BY <1>1, FS_AddElement, FS_CardinalityType
<1>4. /\ Cardinality(Range(active')) <= Cardinality(Range(active)) + 1
      /\ Cardinality(Range(active')) \in Nat /\ Cardinality(Range(active)) \in Nat
  <2>1. /\ IsFiniteSet(Range(active) \cup {h})
        /\ Cardinality(Range(active) \cup {h}) \in Nat
        /\ Cardinality(Range(active) \cup {h}) <= Cardinality(Range(active)) + 1
        /\ Cardinality(Range(active)) \in Nat
    <3>1. Cardinality(Range(active)) \in Nat
      BY <1>1, FS_CardinalityType
    <3>2. IsFiniteSet(Range(active) \cup {h})
      BY <1>1, FS_AddElement
    <3>3. Cardinality(Range(active) \cup {h}) =
            IF h \in Range(active) THEN Cardinality(Range(active)) ELSE Cardinality(Range(active)) + 1
      BY <1>1, FS_AddElement
    <3>. QED
      BY <3>1, <3>2, <3>3
  <2>2. /\ Cardinality(Range(active')) <= Cardinality(Range(active) \cup {h})
        /\ Cardinality(Range(active')) \in Nat
    BY <2>1, FS_Subset, FS_CardinalityType
  <2>. QED
    BY <2>1, <2>2
<1>5. Cardinality(raced) \in Nat
  BY PoolAssumption, FS_Subset, FS_CardinalityType DEF PoolTypes
<1>6. main = "active" => Late' \subseteq raced
  BY DEF Racers
<1>7. main = "inactive" => Cardinality(Range(active')) + Cardinality(Late') <= Cardinality(raced)
  BY <1>2, <1>4, <1>5 DEF Racers
<1>8. main = "down" => Cardinality(Pooled') + Cardinality(Late') <= Cardinality(raced)
  BY <1>2, <1>3, <1>5 DEF Racers
<1>. QED
  BY <1>6, <1>7, <1>8 DEF Racers

LEMMA RacersStep ==
  ASSUME PoolTypes, Places, Quiet, PoolTypes', Places', Racers, [Next]_vars
  PROVE  Racers'
<1>1. ASSUME main' = "up" PROVE Racers'
  BY <1>1 DEF Racers
<1>2. ASSUME NEW t \in Threads, \A u \in Threads : u # t => pc'[u] = pc[u],
             pc'[t] \in {"size", "addActive", "addInactive"} =>
               pc[t] \in {"size", "addActive", "addInactive"}
      PROVE  Late' \subseteq Late
  BY <1>2 DEF Late
<1>3. ASSUME NEW t \in Threads, PollActive(t) \/ PollInactive(t) PROVE Racers'
  <2>1. /\ UNCHANGED <<main, raced>>
        /\ \A u \in Threads : u # t => pc'[u] = pc[u]
        /\ pc'[t] \in {"inactive", "create", "has"}
    BY <1>3 DEF PollActive, PollInactive, Take, Go, PoolTypes
  <2>2. Late' \subseteq Late
    BY <1>2, <2>1
  <2>3. CASE PollActive(t)
    <3>1. active # <<>> => Range(Tail(active)) \subseteq Range(active)
      BY HeadTail DEF PoolTypes, Places
    <3>2. Range(active') \subseteq Range(active) /\ Pooled' \subseteq Pooled
      BY <2>3, <3>1 DEF PollActive, Pooled
    <3>. QED
      BY <2>1, <2>2, <3>2, RacersFewer
  <2>4. CASE PollInactive(t)
    <3>1. inactive # <<>> => Range(Tail(inactive)) \subseteq Range(inactive)
      BY HeadTail DEF PoolTypes, Places
    <3>2. Range(active') \subseteq Range(active) /\ Pooled' \subseteq Pooled
      BY <2>4, <3>1 DEF PollInactive, Pooled
    <3>. QED
      BY <2>1, <2>2, <3>2, RacersFewer
  <2>. QED
    BY <1>3, <2>3, <2>4
<1>4. ASSUME NEW t \in Threads, \/ createSocket(t) \/ Request(t) \/ ReadReply(t) \/ Abandon(t)
                                \/ TestSize(t)
      PROVE  Racers'
  <2>1. /\ UNCHANGED <<main, raced>> /\ UNCHANGED <<active, inactive>>
        /\ \A u \in Threads : u # t => pc'[u] = pc[u]
    BY <1>4 DEF createSocket, Request, ReadReply, Abandon, TestSize, Take, LetGo, Go, PoolTypes
  <2>2. CASE createSocket(t) \/ Request(t) \/ ReadReply(t) \/ Abandon(t)
    <3>1. pc'[t] \in {"has", "idle", "wait", "close"}
      BY <2>2 DEF createSocket, Request, ReadReply, Abandon, Take, LetGo, Go, PoolTypes
    <3>2. Late' \subseteq Late
      BY <1>2, <2>1, <3>1
    <3>3. Range(active') \subseteq Range(active) /\ Pooled' \subseteq Pooled
      BY <2>1 DEF Pooled
    <3>. QED
      BY <2>1, <3>2, <3>3, RacersFewer
  <2>3. CASE TestSize(t)
    <3>1. pc[t] = "size"
      BY <2>3 DEF TestSize
    <3>2. Late' \subseteq Late
      BY <1>2, <2>1, <3>1
    <3>3. Range(active') \subseteq Range(active) /\ Pooled' \subseteq Pooled
      BY <2>1 DEF Pooled
    <3>. QED
      BY <2>1, <3>2, <3>3, RacersFewer
  <2>. QED
    BY <1>4, <2>2, <2>3
<1>5. ASSUME NEW t \in Threads, TestInitialized(t) PROVE Racers'
  <2>1. CASE initialized
    <3>1. main' = "up"
      BY <1>5, <2>1 DEF TestInitialized, PoolTypes
    <3>. QED
      BY <1>1, <3>1
  <2>2. CASE ~initialized
    <3>1. /\ UNCHANGED <<main, raced>> /\ UNCHANGED <<active, inactive>>
          /\ pc'[t] = "idle" /\ \A u \in Threads : u # t => pc'[u] = pc[u]
      BY <1>5, <2>2 DEF TestInitialized, LetGo, Go, PoolTypes
    <3>2. Late' \subseteq Late
      BY <1>2, <3>1
    <3>3. Range(active') \subseteq Range(active) /\ Pooled' \subseteq Pooled
      BY <3>1 DEF Pooled
    <3>. QED
      BY <3>1, <3>2, <3>3, RacersFewer
  <2>. QED
    BY <2>1, <2>2
<1>6. ASSUME NEW t \in Threads, AddActive(t) \/ AddInactive(t) PROVE Racers'
  <2> DEFINE h == holds[t]
  <2>1. /\ pc[t] \in {"addActive", "addInactive"} /\ UNCHANGED <<main, raced>>
        /\ pc'[t] = "idle" /\ \A u \in Threads : u # t => pc'[u] = pc[u]
    BY <1>6 DEF AddActive, AddInactive, LetGo, Go, PoolTypes
  <2>2. t \in Late /\ Late' = Late \ {t}
    BY <2>1 DEF Late
  <2>3. h # NoSocket /\ h \in Sockets /\ h \notin Pooled
    BY <2>1 DEF Places, PoolTypes
  <2>4. active \in Seq(Sockets) /\ inactive \in Seq(Sockets) /\ <<h>> \in Seq(Sockets) /\ Range(<<h>>) = {h}
    BY <2>3 DEF PoolTypes, Range
  <2>5. CASE AddActive(t)
    <3>1. active' = active \o <<h>> /\ UNCHANGED inactive
      BY <2>3, <2>4, <2>5, AppendIsConcat DEF AddActive
    <3>2. Range(active \o <<h>>) = Range(active) \cup Range(<<h>>)
      <4> DEFINE k == <<h>>
      <4>1. k \in Seq(Sockets)
        BY <2>4
      <4> HIDE DEF k
      <4>2. Range(active \o k) = Range(active) \cup Range(k)
        BY <2>4, <4>1, Joined
      <4>. QED
        BY <4>2 DEF k
    <3>3. Range(active') = Range(active) \cup {h} /\ Pooled' = Pooled \cup {h}
      BY <2>4, <3>1, <3>2 DEF Pooled
    <3>. QED
      BY <2>1, <2>2, <2>3, <3>3, RacersAdd
  <2>6. CASE AddInactive(t)
    <3> DEFINE k == <<h>>
    <3>1. inactive' = k \o inactive /\ UNCHANGED active
      BY <2>6 DEF AddInactive
    <3>2. k \in Seq(Sockets) /\ Range(k) = {h}
      BY <2>4
    <3> HIDE DEF k
    <3>3. Range(k \o inactive) = Range(k) \cup Range(inactive)
      BY <2>4, <3>2, Joined
    <3>4. Range(active') \subseteq Range(active) \cup {h} /\ Pooled' = Pooled \cup {h}
      BY <3>1, <3>2, <3>3 DEF Pooled
    <3>. QED
      BY <2>1, <2>2, <2>3, <3>4, RacersAdd
  <2>. QED
    BY <1>6, <2>5, <2>6
<1>7. ASSUME UNCHANGED <<main, active, pc, raced>>, Range(inactive') \subseteq Range(inactive)
      PROVE  Racers'
  <2>1. Late' \subseteq Late /\ Range(active') \subseteq Range(active) /\ Pooled' \subseteq Pooled
    BY <1>7 DEF Late, Pooled
  <2>2. UNCHANGED <<main, raced>>
    BY <1>7
  <2>. QED
    BY <2>1, <2>2, RacersFewer
<1>8. ASSUME Tick \/ MaintainThread_run PROVE Racers'
  BY <1>7, <1>8 DEF Tick, MaintainThread_run
<1>9. ASSUME maintainInactiveSocket PROVE Racers'
  BY <1>7, <1>9, Maintained
<1>10. ASSUME initialize PROVE Racers'
  BY <1>1, <1>10 DEF initialize
<1>11. ASSUME shutdown PROVE Racers'
  BY <1>11 DEF shutdown, Racers, Late
<1>12. ASSUME CloseActive PROVE Racers'
  <2>1. main = "active" /\ Late \subseteq raced /\ UNCHANGED <<inactive, pc, raced>>
    BY <1>12 DEF CloseActive, Racers
  <2>2. Late' = Late
    BY <2>1 DEF Late
  <2>3. CASE active = <<>>
    <3>1. main' = "inactive" /\ UNCHANGED active
      BY <1>12, <2>3 DEF CloseActive
    <3>2. Range(active') = {}
      BY <2>3, <3>1 DEF Range
    <3>3. IsFiniteSet(raced)
      BY PoolAssumption, FS_Subset DEF PoolTypes
    <3>4. /\ Cardinality(Late) <= Cardinality(raced) /\ Cardinality(Late) \in Nat
          /\ Cardinality({}) = 0
      BY <2>1, <3>3, FS_Subset, FS_CardinalityType, FS_EmptySet
    <3>. QED
      BY <2>1, <2>2, <3>1, <3>2, <3>4 DEF Racers
  <2>4. CASE active # <<>>
    <3>1. main' = "active"
      BY <1>12, <2>1, <2>4 DEF CloseActive
    <3>. QED
      BY <2>1, <2>2, <3>1 DEF Racers
  <2>. QED
    BY <2>3, <2>4
<1>13. ASSUME CloseInactive PROVE Racers'
  <2>1. main = "inactive" /\ main' = "down" /\ inactive' = <<>> /\ UNCHANGED <<active, pc, raced>>
    BY <1>13 DEF CloseInactive
  <2>2. Late' = Late
    BY <2>1 DEF Late
  <2>3. Pooled' = Range(active)
    BY <2>1 DEF Pooled, Range
  <2>. QED
    BY <2>1, <2>2, <2>3 DEF Racers
<1>14. CASE UNCHANGED vars
  BY <1>7, <1>14 DEF vars
<1>. QED
  BY <1>3, <1>4, <1>5, <1>6, <1>8, <1>9, <1>10, <1>11, <1>12, <1>13, <1>14 DEF Next

LEMMA PoolInit ==
  ASSUME Init
  PROVE  PoolInv
<1>1. Pooled = {} /\ Range(active) = {} /\ Late = {}
  BY DEF Init, Pooled, Late, Range
<1>2. PoolTypes
  <2>1. 0 \in Nat /\ <<>> \in Seq(Threads) /\ <<>> \in Seq(Sockets)
    OBVIOUS
  <2>2. /\ idle \in [Sockets -> Nat] /\ pending \in [Sockets -> Seq(Threads)]
        /\ holds \in [Threads -> Sockets \cup {NoSocket}]
    BY <2>1 DEF Init
  <2>. QED
    BY <2>1, <2>2 DEF Init, PoolTypes
<1>3. Places
  BY <1>1 DEF Init, Places, IsInjective
<1>4. Quiet
  BY <1>1 DEF Init, Quiet
<1>5. Racers
  <2>1. Cardinality({}) = 0
    BY FS_EmptySet
  <2>. QED
    BY <1>1, <2>1 DEF Init, Racers
<1>. QED
  BY <1>2, <1>3, <1>4, <1>5 DEF PoolInv

\* The inductive invariant: the types, the one place of every socket, the replies
\* outstanding on it, and the threads that were past `initialized` at shutdown.
THEOREM PoolInvariant == Spec => []PoolInv
<1>1. Init => PoolInv
  BY PoolInit
<1>2. PoolInv /\ [Next]_vars => PoolInv'
  BY PoolStep, RacersStep DEF PoolInv
<1>. QED
  BY <1>1, <1>2, PTL DEF Spec

LEMMA PoolIsBoth ==
  ASSUME PoolTypes, Places
  PROVE  Range(Pool) = Pooled /\ IsInjective(Pool)
  BY Joined DEF PoolTypes, Places, Pool, Pooled

\* Whatever threads, maintenance and shutdown do to the pools at once, a socket
\* is neither shared nor lost nor handed out after it was closed.
THEOREM SocketsHaveOnePlace == Spec => []OnePlace
<1>1. ASSUME PoolInv PROVE OnePlace
  <2>1. PoolTypes /\ Places
    BY <1>1 DEF PoolInv
  <2>2. Range(Pool) = Pooled /\ IsInjective(Pool)
    BY <2>1, PoolIsBoth
  <2>3. ASSUME NEW s \in Sockets, s \in open, s \in Pooled PROVE Holders(s) = {}
    BY <2>1, <2>3, PoolAssumption DEF Places, Holders
  <2>4. ASSUME NEW s \in Sockets, s \in open, s \notin Pooled PROVE Cardinality(Holders(s)) = 1
    <3>1. PICK t \in Threads : holds[t] = s
      BY <2>1, <2>4 DEF Places
    <3>2. s # NoSocket
      BY PoolAssumption
    <3>3. Holders(s) = {t}
      BY <2>1, <3>1, <3>2 DEF Places, Holders
    <3>. QED
      BY <3>3, FS_Singleton
  <2>5. ASSUME NEW s \in Sockets, s \notin open PROVE s \notin Pooled /\ Holders(s) = {}
    BY <2>1, <2>5, PoolAssumption DEF Places, Holders
  <2>. QED
    BY <2>2, <2>3, <2>4, <2>5 DEF OnePlace
<1>. QED
  BY <1>1, PoolInvariant, PTL

\* A pooled socket has no reply outstanding and a thread reads replies to its
\* own requests only: every failed operation closes its socket for good.
THEOREM RepliesNeverCross == Spec => []NoCrossTalk
<1>1. ASSUME PoolInv PROVE NoCrossTalk
  <2>1. PoolTypes /\ Places /\ Quiet
    BY <1>1 DEF PoolInv
  <2>2. Range(Pool) = Pooled
    BY <2>1, PoolIsBoth
  <2>3. Pooled \subseteq Sockets
    BY <2>1 DEF PoolTypes, Places
  <2>. QED
    BY <2>1, <2>2, <2>3 DEF Quiet, NoCrossTalk
<1>. QED
  BY <1>1, PoolInvariant, PTL

\* At most one socket per thread that was past the test of `initialized` at
\* shutdown stays in a pool.
THEOREM OnlyRacersStrand == Spec => []StrandedOnlyByRace
<1>1. ASSUME PoolInv PROVE StrandedOnlyByRace
  <2>1. PoolTypes /\ Places /\ Racers
    BY <1>1 DEF PoolInv
  <2>2. Range(Pool) = Pooled
    BY <2>1, PoolIsBoth
  <2>3. Cardinality(Pooled) \in Nat /\ Cardinality(Late) \in Nat /\ Cardinality(raced) \in Nat
    <3>1. Pooled \subseteq Sockets /\ Late \subseteq Threads /\ raced \subseteq Threads
      BY <2>1 DEF PoolTypes, Places, Late
    <3>. QED
      BY <3>1, PoolAssumption, FS_Subset, FS_CardinalityType
  <2>. QED
    BY <2>1, <2>2, <2>3 DEF Racers, StrandedOnlyByRace
<1>. QED
  BY <1>1, PoolInvariant, PTL

-----------------------------------------------------------------------------
(***************************************************************************)
(* The multi operations: one call over several servers.                    *)
(***************************************************************************)

Parts == {"head", "fixed", "error", "data"}
Entries == {Nothing} \cup [is : {"answer"}, to : Positions]

\* The units of each request and of each reply.
Asking == [i \in Positions |-> [u \in 1..ReqLen(i) |-> i]]
Replying == [i \in Positions |-> Reply(i)]

\* The stream of the elements of s from n + 1 to m.
Part(F, s, n, m) == Chain(F, SubSeq(s, n + 1, m))

\* x is y and z behind it.
Splits(x, y, z) == x = y \o z

\* x is a beginning of y.
Begins(x, y) == Len(x) <= Len(y) /\ \A i \in 1..Len(x) : x[i] = y[i]

\* What a connection has written and is about to write is all of the first c
\* requests; ld, the item loaded, is the next one.
Sends(A, s, c, ob, sn, ow, ld) ==
  /\ c \in 0..Len(s)
  /\ sn \o ob = Part(A, s, 0, c)
  /\ ~ow => ob = <<>> /\ c = Len(s)
  /\ ld = 0 \/ ld = s[IF c < Len(s) THEN c + 1 ELSE Len(s)]

\* The server has answered m requests, whole ones, and what is left of their
\* replies behind the first n and p units of the next is the stream.
Answered(A, V, s, sn, sv, st, n, p, m) ==
  /\ n \in 0..m
  /\ sv = Len(Part(A, s, 0, m)) /\ sv <= Len(sn)
  /\ p <= Len(Part(V, s, n, m))
  /\ st = Rest(Part(V, s, n, m), p)

\* The units of the reply before the t-th of part q.
Place(q, t) == t + (CASE q = "head" -> 0
                      [] q = "data" -> PartLen + PartLen
                      [] OTHER -> PartLen)

\* The part being read is one the reply has, and is not yet whole, unless it is
\* an empty value.
Reads(s, n, q, t) ==
  \/ q = "head" /\ t < PartLen
  \/ /\ n < Len(s)
     /\ \/ q = "error" /\ ~found[s[n + 1]] /\ t < PartLen
        \/ q = "fixed" /\ found[s[n + 1]] /\ kind # "delete" /\ t < PartLen
        \/ /\ q = "data" /\ found[s[n + 1]] /\ kind = "get"
           /\ t < dataLen[s[n + 1]] \/ t = 0

InputsOK ==
  /\ kind \in {"get", "update", "delete", "expiration"}
  /\ dataLen \in [Positions -> Nat] /\ found \in [Positions -> BOOLEAN]

RequestsOK ==
  /\ curr \in [Hosts -> Nat] /\ outBuffer \in [Hosts -> Seq(Positions)]
  /\ sent \in [Hosts -> Seq(Positions)] /\ opWrite \in [Hosts -> BOOLEAN]
  /\ DOMAIN loaded = Hosts /\ DOMAIN limit = Hosts
  /\ \A h \in Hosts :
       /\ Sends(Asking, Items[h], curr[h], outBuffer[h], sent[h], opWrite[h], loaded[h])
       /\ kind # "update" => loaded[h] = 0

RepliesOK ==
  /\ served \in [Hosts -> Nat] /\ stream \in [Hosts -> Seq(Positions \X Parts)]
  /\ state \in [Hosts -> Parts] /\ taken \in [Hosts -> Nat] /\ processed \in [Hosts -> Nat]
  /\ \A h \in Hosts :
       /\ Reads(Items[h], processed[h], state[h], taken[h])
       /\ \E m \in 0..Len(Items[h]) :
            Answered(Asking, Replying, Items[h], sent[h], served[h], stream[h],
                     processed[h], Place(state[h], taken[h]), m)

ResultsOK ==
  /\ result \in [Positions -> Entries] /\ dropped \subseteq Positions
  /\ \A i \in Positions :
       /\ result[i] # Nothing => result[i] = Answer(i) /\ found[i]
       /\ kind \in {"update", "delete"} => (i \in dropped <=> result[i] # Nothing)
  /\ \A h \in Hosts : \A n \in 1..Len(Items[h]) :
       processed[h] < n => result[Items[h][n]] = Nothing

PhaseOK ==
  /\ phase \in {"init", "loop", "finally", "done"} /\ todo \subseteq Hosts
  /\ DOMAIN socket = Hosts /\ DOMAIN peer = Hosts
  /\ \A h \in Hosts :
       /\ h \in todo => curr[h] = 0 /\ outBuffer[h] = <<>>
       /\ h \notin todo /\ phase # "done" => socket[h] \in {"null", "nonblocking"}
       /\ phase = "done" => socket[h] \in {"null", "pooled", "closed"}
       /\ socket[h] = "pooled" => phase = "done" /\ processed[h] = Len(Items[h])
       /\ phase = "init" => processed[h] = 0
  /\ phase # "init" => todo = {}
  /\ phase \in {"init", "loop"} => ended = ""
  /\ selector = "pooled" => phase = "done" /\ \A h \in Hosts : socket[h] \in {"null", "pooled"}

CountOK ==
  phase = "loop" => numConns = Cardinality({h \in Hosts : processed[h] # Len(Items[h])})

MultiInv ==
  InputsOK /\ RequestsOK /\ RepliesOK /\ ResultsOK /\ PhaseOK /\ CountOK /\ StallsOnlyFor
-----------------------------------------------------------------------------
(* The streams of one connection.                                          *)

\* The stream of a whole list, cut behind the first c elements.
LEMMA PartCut ==
  ASSUME NEW P, NEW T, NEW F \in Pieces(P, T), NEW s \in Seq(P), NEW b \in 0..Len(s), NEW c \in 0..b
  PROVE  /\ Splits(Part(F, s, 0, b), Part(F, s, 0, c), Part(F, s, c, b))
         /\ Part(F, s, 0, b) \in Seq(T) /\ Part(F, s, 0, c) \in Seq(T) /\ Part(F, s, c, b) \in Seq(T)
         /\ Len(Part(F, s, 0, b)) = Len(Part(F, s, 0, c)) + Len(Part(F, s, c, b))
<1> SUFFICES /\ Chain(F, SubSeq(s, 1, b)) = Chain(F, SubSeq(s, 1, c)) \o Chain(F, SubSeq(s, c + 1, b))
             /\ Chain(F, SubSeq(s, 1, b)) \in Seq(T) /\ Chain(F, SubSeq(s, 1, c)) \in Seq(T)
             /\ Chain(F, SubSeq(s, c + 1, b)) \in Seq(T)
             /\ Len(Chain(F, SubSeq(s, 1, b))) = Len(Chain(F, SubSeq(s, 1, c))) + Len(Chain(F, SubSeq(s, c + 1, b)))
  <2>1. 0 + 1 = 1
    OBVIOUS
  <2>. QED
    BY <2>1 DEF Part, Splits
<1>1. PICK x \in Seq(P), y \in Seq(P), z \in Seq(P) :
         x = SubSeq(s, 1, b) /\ y = SubSeq(s, 1, c) /\ z = SubSeq(s, c + 1, b) /\ x = y \o z
  <2>1. /\ SubSeq(s, 1, b) = SubSeq(s, 1, c) \o SubSeq(s, c + 1, b)
        /\ SubSeq(s, 1, c) \in Seq(P) /\ SubSeq(s, c + 1, b) \in Seq(P)
    BY Cut
  <2>2. SubSeq(s, 1, b) \in Seq(P)
    BY Prefix
  <2>. QED
    BY <2>1, <2>2
<1>2. Chain(F, y \o z) = Chain(F, y) \o Chain(F, z)
  BY ChainCat, SMTT(30)
<1>3. Chain(F, x) \in Seq(T) /\ Chain(F, y) \in Seq(T) /\ Chain(F, z) \in Seq(T)
  BY ChainType
<1>4. Len(Chain(F, y) \o Chain(F, z)) = Len(Chain(F, y)) + Len(Chain(F, z))
  BY <1>3, Cat
<1>. QED
  BY <1>1, <1>2, <1>3, <1>4

\* The first of the elements from n + 1 to m.
LEMMA PartFirst ==
  ASSUME NEW P, NEW T, NEW F \in Pieces(P, T), NEW s \in Seq(P), NEW m \in 0..Len(s), NEW n \in Nat,
         NEW k \in 1..m, k = n + 1
  PROVE  /\ k \in 1..Len(s) /\ s[k] \in P /\ F[s[k]] \in Seq(T)
         /\ Splits(Part(F, s, n, m), F[s[k]], Part(F, s, k, m))
         /\ Part(F, s, k, m) \in Seq(T)
<1>0. k + 1 = n + 2 /\ n < m
  OBVIOUS
<1>1. n + 1 \in 1..Len(s) /\ s[n + 1] \in P /\ F[s[n + 1]] \in Seq(T)
  BY DEF Pieces
<1>2. PICK z \in Seq(P) : z = SubSeq(s, n + 2, m) /\ SubSeq(s, n + 1, m) = <<s[n + 1]>> \o z
  <2>1. SubSeq(s, n + 2, m) \in Seq(P)
    OBVIOUS
  <2>2. SubSeq(s, n + 1, m) = <<s[n + 1]>> \o SubSeq(s, n + 2, m)
    OBVIOUS
  <2>. QED
    BY <2>1, <2>2
<1>7. <<s[n + 1]>> \in Seq(P)
  BY <1>1
<1>3. PICK w \in Seq(P) : w = <<s[n + 1]>>
  BY <1>7
<1>4. Chain(F, w \o z) = Chain(F, w) \o Chain(F, z)
  BY ChainCat
<1>5. Chain(F, <<s[n + 1]>>) = F[s[n + 1]]
  BY <1>1, ChainOne
<1>6. Chain(F, z) \in Seq(T)
  BY ChainType
<1>8. Chain(F, SubSeq(s, n + 1, m)) = F[s[n + 1]] \o Chain(F, SubSeq(s, n + 2, m))
  BY <1>2, <1>3, <1>4, <1>5
<1>. QED
  BY <1>0, <1>1, <1>2, <1>6, <1>8 DEF Part, Splits

\* The last of the elements up to m + 1.
LEMMA PartLast ==
  ASSUME NEW P, NEW T, NEW F \in Pieces(P, T), NEW s \in Seq(P), NEW m \in Nat,
         NEW n \in 0..m, NEW k \in 1..Len(s), k = m + 1
  PROVE  /\ s[k] \in P /\ F[s[k]] \in Seq(T)
         /\ Splits(Part(F, s, n, k), Part(F, s, n, m), F[s[k]])
         /\ Part(F, s, n, m) \in Seq(T)
<1>1. m + 1 \in 1..Len(s) /\ s[m + 1] \in P /\ F[s[m + 1]] \in Seq(T)
  BY DEF Pieces
<1>2. PICK z \in Seq(P) : z = SubSeq(s, n + 1, m) /\ SubSeq(s, n + 1, m + 1) = z \o <<s[m + 1]>>
  <2>1. SubSeq(s, n + 1, m) \in Seq(P)
    OBVIOUS
  <2>2. SubSeq(s, n + 1, m + 1) = SubSeq(s, n + 1, m) \o <<s[m + 1]>>
    OBVIOUS
  <2>. QED
    BY <2>1, <2>2
<1>7. <<s[m + 1]>> \in Seq(P)
  BY <1>1
<1>3. PICK w \in Seq(P) : w = <<s[m + 1]>>
  BY <1>7
<1>4. Chain(F, z \o w) = Chain(F, z) \o Chain(F, w)
  BY ChainCat
<1>5. Chain(F, <<s[m + 1]>>) = F[s[m + 1]]
  BY <1>1, ChainOne
<1>6. Chain(F, z) \in Seq(T)
  BY ChainType
<1>8. Chain(F, SubSeq(s, n + 1, m + 1)) = Chain(F, SubSeq(s, n + 1, m)) \o F[s[m + 1]]
  BY <1>2, <1>3, <1>4, <1>5
<1>. QED
  BY <1>1, <1>2, <1>6, <1>8 DEF Part, Splits

LEMMA PartType ==
  ASSUME NEW P, NEW T, NEW F \in Pieces(P, T), NEW s \in Seq(P), NEW m \in 0..Len(s), NEW n \in 0..m
  PROVE  Part(F, s, n, m) \in Seq(T)
<1>1. SubSeq(s, n + 1, m) \in Seq(P)
  OBVIOUS
<1>2. PICK r \in Seq(P) : r = SubSeq(s, n + 1, m)
  BY <1>1
<1>3. Chain(F, r) \in Seq(T)
  BY ChainType
<1>. QED
  BY <1>2, <1>3 DEF Part

LEMMA PartEmpty ==
  ASSUME NEW F, NEW P, NEW s \in Seq(P), NEW m \in 0..Len(s)
  PROVE  Part(F, s, m, m) = <<>>
<1>1. SubSeq(s, m + 1, m) = <<>>
  OBVIOUS
<1>. QED
  BY <1>1, ChainEmpty DEF Part

LEMMA PartWhole ==
  ASSUME NEW F, NEW P, NEW s \in Seq(P)
  PROVE  Part(F, s, 0, Len(s)) = Chain(F, s)
<1>1. SubSeq(s, 0 + 1, Len(s)) = s
  OBVIOUS
<1>. QED
  BY <1>1 DEF Part

LEMMA PartGrows ==
  ASSUME NEW P, NEW T, NEW F \in Pieces(P, T), NEW s \in Seq(P), NEW b \in 0..Len(s), NEW c \in 0..b
  PROVE  Len(Part(F, s, 0, c)) <= Len(Part(F, s, 0, b))
<1>1. PICK x \in Seq(T), y \in Seq(T), z \in Seq(T) :
        x = Part(F, s, 0, b) /\ y = Part(F, s, 0, c) /\ z = Part(F, s, c, b) /\ Len(x) = Len(y) + Len(z)
  BY PartCut
<1>2. Len(y) \in Nat /\ Len(z) \in Nat
  OBVIOUS
<1>. QED
  BY <1>1, <1>2
\* A write takes k units of the output buffer.
LEMMA SendsOn ==
  ASSUME NEW P, NEW A \in Pieces(P, P), NEW s \in Seq(P), NEW c, NEW ob \in Seq(P), NEW sn \in Seq(P),
         NEW ow, NEW ld, Sends(A, s, c, ob, sn, ow, ld), NEW k \in 1..Len(ob)
  PROVE  /\ Sends(A, s, c, Rest(ob, k), sn \o SubSeq(ob, 1, k), ow, ld)
         /\ Rest(ob, k) \in Seq(P) /\ sn \o SubSeq(ob, 1, k) \in Seq(P)
         /\ Len(sn) <= Len(sn \o SubSeq(ob, 1, k))
<1>0. k \in 0..Len(ob) /\ Len(ob) \in Nat /\ k \in Nat
  OBVIOUS
<1>1. PICK a \in Seq(P), b \in Seq(P) : a = SubSeq(ob, 1, k) /\ b = Rest(ob, k) /\ a \o b = ob
  <2>1. SubSeq(ob, 1, k) \in Seq(P)
    BY <1>0, Prefix
  <2>2. Rest(ob, k) \in Seq(P)
    BY <1>0, RestIs
  <2>3. SubSeq(ob, 1, k) \o Rest(ob, k) = ob
    BY <1>0, HeadAndRest
  <2>. QED
    BY <2>1, <2>2, <2>3
<1>2. (sn \o a) \o b = sn \o ob
  <2>1. (sn \o SubSeq(ob, 1, k)) \o Rest(ob, k) = sn \o ob
    BY <1>0, Moved DEF Rest
  <2>. QED
    BY <1>1, <2>1
<1>3. sn \o a \in Seq(P) /\ Len(sn \o a) = Len(sn) + Len(a) /\ Len(a) \in Nat /\ Len(sn) \in Nat
  BY Cat
<1>4. ob # <<>>
  BY <1>0
<1>5. Len(sn) <= Len(sn \o a)
  BY <1>3
<1>6. Sends(A, s, c, b, sn \o a, ow, ld)
  BY <1>1, <1>2, <1>4 DEF Sends
<1>. QED
  BY <1>1, <1>3, <1>5, <1>6

\* A batch of the requests from c + 1 to b follows when all before are written.
LEMMA SendsBatch ==
  ASSUME NEW P, NEW A \in Pieces(P, P), NEW s \in Seq(P), NEW c, NEW sn \in Seq(P),
         NEW ow, NEW ld, Sends(A, s, c, <<>>, sn, ow, ld), c < Len(s), NEW b \in (c + 1)..Len(s),
         NEW ld2, ld2 = 0 \/ ld2 = s[IF b < Len(s) THEN b + 1 ELSE Len(s)]
  PROVE  /\ Sends(A, s, b, Part(A, s, c, b), sn, ow, ld2)
         /\ Part(A, s, c, b) \in Seq(P)
<1>1. c \in Nat /\ Len(s) \in Nat /\ b \in 0..Len(s) /\ c \in 0..b
  BY DEF Sends
<1>2. sn = Part(A, s, 0, c) /\ ow
  <2>1. sn \o <<>> = sn
    OBVIOUS
  <2>. QED
    BY <1>1, <2>1 DEF Sends
<1>3. /\ Splits(Part(A, s, 0, b), Part(A, s, 0, c), Part(A, s, c, b))
      /\ Part(A, s, c, b) \in Seq(P)
  BY <1>1, PartCut
<1>. QED
  BY <1>1, <1>2, <1>3 DEF Sends, Splits

\* What was written is a beginning of the requests of the whole list.
LEMMA SentIs ==
  ASSUME NEW P, NEW A \in Pieces(P, P), NEW s \in Seq(P), NEW c, NEW ob \in Seq(P), NEW sn \in Seq(P),
         NEW ow, NEW ld, Sends(A, s, c, ob, sn, ow, ld)
  PROVE  /\ Chain(A, s) \in Seq(P)
         /\ Begins(sn \o ob, Chain(A, s)) /\ Begins(sn, Chain(A, s))
         /\ c = Len(s) => sn \o ob = Chain(A, s)
<1>1. c \in 0..Len(s) /\ Len(s) \in 0..Len(s)
  BY DEF Sends
<1>10. PICK l \in 0..Len(s) : l = Len(s) /\ Part(A, s, 0, l) = Chain(A, s)
  BY <1>1, PartWhole
<1>2. PICK x \in Seq(P), y \in Seq(P), z \in Seq(P) :
        /\ x = Chain(A, s) /\ y = Part(A, s, 0, c) /\ z = Part(A, s, c, l)
        /\ x = y \o z
  <2>1. /\ Splits(Part(A, s, 0, l), Part(A, s, 0, c), Part(A, s, c, l))
        /\ Part(A, s, 0, l) \in Seq(P) /\ Part(A, s, 0, c) \in Seq(P)
        /\ Part(A, s, c, l) \in Seq(P)
    <3>1. c \in 0..l
      BY <1>1, <1>10
    <3>. QED
      BY <3>1, PartCut
  <2>. QED
    BY <1>10, <2>1 DEF Splits
<1>3. sn \o ob = y
  BY <1>2 DEF Sends
<1>4. /\ Len(y \o z) = Len(y) + Len(z) /\ Len(y) \in Nat /\ Len(z) \in Nat
      /\ \A i \in 1..(Len(y) + Len(z)) : (y \o z)[i] = IF i <= Len(y) THEN y[i] ELSE z[i - Len(y)]
  BY Cat
<1>5. /\ Len(sn \o ob) = Len(sn) + Len(ob) /\ Len(sn) \in Nat /\ Len(ob) \in Nat
      /\ \A i \in 1..(Len(sn) + Len(ob)) : (sn \o ob)[i] = IF i <= Len(sn) THEN sn[i] ELSE ob[i - Len(sn)]
  BY Cat
<1>6. Len(y) <= Len(x) /\ Len(sn) <= Len(y)
  BY <1>2, <1>3, <1>4, <1>5
<1>7. ASSUME NEW i \in 1..Len(y) PROVE y[i] = x[i]
  <2>1. i \in 1..(Len(y) + Len(z)) /\ i <= Len(y)
    BY <1>4
  <2>. QED
    BY <1>2, <1>4, <2>1
<1>8. ASSUME NEW i \in 1..Len(sn) PROVE sn[i] = x[i]
  <2>1. i \in 1..(Len(sn) + Len(ob)) /\ i <= Len(sn) /\ i \in 1..Len(y)
    BY <1>3, <1>5, <1>6
  <2>2. y[i] = sn[i]
    BY <1>3, <1>5, <2>1
  <2>. QED
    BY <1>7, <2>1, <2>2
<1>9. c = Len(s) => y = x
  BY <1>10, <1>2
<1>11. Begins(y, x) /\ Begins(sn, x)
  <2>1. Len(sn) <= Len(x)
    BY <1>4, <1>5, <1>6
  <2>. QED
    BY <1>6, <1>7, <1>8, <2>1 DEF Begins
<1>. QED
  BY <1>2, <1>3, <1>9, <1>11

\* The units of a request all name it, and there is one at least.
Naming(A, P) == \A x \in P : Len(A[x]) \in Nat \ {0} /\ \A u \in 1..Len(A[x]) : A[x][u] = x

\* The unit behind the requests answered names the next request.
LEMMA NextRequest ==
  ASSUME NEW P, NEW A \in Pieces(P, P), Naming(A, P), NEW s \in Seq(P), NEW sn \in Seq(P),
         NEW m \in 0..Len(s), Begins(sn, Chain(A, s)),
         Len(Part(A, s, 0, m)) < Len(sn)
  PROVE  m < Len(s) /\ sn[Len(Part(A, s, 0, m)) + 1] = s[m + 1]
<1>0. m \in Nat /\ Len(s) \in Nat /\ Len(s) \in 0..Len(s)
  OBVIOUS
<1>1. PICK l \in 0..Len(s) : l = Len(s) /\ Part(A, s, 0, l) = Chain(A, s)
  BY <1>0, PartWhole
<1>10. l = Len(s) /\ m \in 0..l
  BY <1>1
<1>2. PICK x \in Seq(P), y \in Seq(P), z \in Seq(P) :
        /\ x = Chain(A, s) /\ y = Part(A, s, 0, m) /\ z = Part(A, s, m, l)
        /\ x = y \o z
  <2>1. /\ Splits(Part(A, s, 0, l), Part(A, s, 0, m), Part(A, s, m, l))
        /\ Part(A, s, 0, l) \in Seq(P) /\ Part(A, s, 0, m) \in Seq(P)
        /\ Part(A, s, m, l) \in Seq(P)
    BY <1>10, PartCut
  <2>. QED
    BY <1>1, <2>1 DEF Splits
<1>3. Len(x) \in Nat /\ Len(y) \in Nat /\ Len(z) \in Nat /\ Len(sn) \in Nat
  OBVIOUS
<1>4. m < Len(s)
  <2>0. Len(sn) <= Len(x)
    BY <1>2 DEF Begins
  <2>1. y # x
    BY <1>2, <1>3, <2>0
  <2>2. m # Len(s)
    BY <1>1, <1>2, <2>1
  <2>. QED
    BY <2>2
<1>5. PICK a \in Seq(P), w \in Seq(P) : a = A[s[m + 1]] /\ z = a \o w /\ s[m + 1] \in P
  <2>1. /\ s[m + 1] \in P /\ A[s[m + 1]] \in Seq(P)
        /\ Splits(Part(A, s, m, l), A[s[m + 1]], Part(A, s, m + 1, l))
        /\ Part(A, s, m + 1, l) \in Seq(P)
    <3>1. PICK k \in 1..l : k = m + 1
      BY <1>4, <1>10
    <3>2. k = m + 1 /\ m \in Nat
      BY <3>1
    <3>3. s[k] \in P /\ A[s[k]] \in Seq(P) /\ Splits(Part(A, s, m, l), A[s[k]], Part(A, s, k, l))
          /\ Part(A, s, k, l) \in Seq(P)
      BY <3>2, PartFirst
    <3>. QED
      BY <3>2, <3>3
  <2>. QED
    BY <1>2, <2>1 DEF Splits
<1>6. Len(a) \in Nat \ {0} /\ a[1] = s[m + 1] /\ Len(w) \in Nat
  BY <1>5, SMTT(30) DEF Naming
<1>7. z[1] = s[m + 1] /\ Len(z) > 0
  <2>1. /\ Len(a \o w) = Len(a) + Len(w)
        /\ \A i \in 1..(Len(a) + Len(w)) : (a \o w)[i] = IF i <= Len(a) THEN a[i] ELSE w[i - Len(a)]
    BY Cat
  <2>2. 1 \in 1..(Len(a) + Len(w)) /\ 1 <= Len(a)
    BY <1>6
  <2>. QED
    BY <1>5, <1>6, <2>1, <2>2
<1>8. x[Len(y) + 1] = z[1]
  <2>1. \A i \in 1..(Len(y) + Len(z)) : (y \o z)[i] = IF i <= Len(y) THEN y[i] ELSE z[i - Len(y)]
    BY Cat
  <2>2. Len(y) + 1 \in 1..(Len(y) + Len(z)) /\ ~(Len(y) + 1 <= Len(y)) /\ Len(y) + 1 - Len(y) = 1
    BY <1>3, <1>7
  <2>. QED
    BY <1>2, <2>1, <2>2
<1>9. Len(y) + 1 \in 1..Len(sn)
  BY <1>2, <1>3
<1>11. sn[Len(y) + 1] = x[Len(y) + 1]
  BY <1>2, <1>9 DEF Begins
<1>. QED
  BY <1>2, <1>4, <1>7, <1>8, <1>11

\* One reply more comes behind what is left of the others.
LEMMA LeftMore ==
  ASSUME NEW P, NEW T, NEW V \in Pieces(P, T), NEW s \in Seq(P), NEW m \in Nat, NEW k \in 1..Len(s), k = m + 1,
         NEW n \in 0..m, NEW p \in Nat, p <= Len(Part(V, s, n, m))
  PROVE  /\ Splits(Rest(Part(V, s, n, k), p), Rest(Part(V, s, n, m), p), V[s[k]])
         /\ p <= Len(Part(V, s, n, k))
<1>3. PICK v \in Seq(T), x \in Seq(T) :
        /\ v = V[s[k]] /\ x = Part(V, s, n, m) /\ Part(V, s, n, k) = x \o v
  <2>1. /\ V[s[k]] \in Seq(T)
        /\ Splits(Part(V, s, n, k), Part(V, s, n, m), V[s[k]])
        /\ Part(V, s, n, m) \in Seq(T)
    BY PartLast
  <2>. QED
    BY <2>1 DEF Splits
<1>5. p \in 0..Len(x) /\ p <= Len(x \o v)
  <2>1. Len(x \o v) = Len(x) + Len(v) /\ Len(x) \in Nat /\ Len(v) \in Nat
    BY Cat
  <2>2. p <= Len(x)
    BY <1>3
  <2>. QED
    BY <2>1, <2>2
<1>6. Rest(x \o v, p) = Rest(x, p) \o v
  BY <1>5, RestOfCat
<1>. QED
  BY <1>3, <1>5, <1>6 DEF Splits

\* The server answers one request more.
LEMMA AnsweredMore ==
  ASSUME NEW P, NEW T, NEW A \in Pieces(P, P), NEW V \in Pieces(P, T), NEW s \in Seq(P), NEW sn, NEW sv, NEW st,
         NEW n, NEW p \in Nat, NEW m \in Nat, NEW k \in 1..Len(s), k = m + 1,
         Answered(A, V, s, sn, sv, st, n, p, m),
         Len(sn) \in Nat, sv + Len(A[s[k]]) <= Len(sn)
  PROVE  Answered(A, V, s, sn, sv + Len(A[s[k]]), st \o V[s[k]], n, p, k)
<1>1. /\ n \in 0..m /\ n \in 0..k /\ 0 \in 0..m
      /\ sv = Len(Part(A, s, 0, m))
      /\ p <= Len(Part(V, s, n, m))
      /\ st = Rest(Part(V, s, n, m), p)
  BY DEF Answered
<1>0. n \in 0..m /\ 0 \in 0..m
  BY <1>1
<1>2. PICK a \in Seq(P), y \in Seq(P) :
        /\ a = A[s[k]] /\ y = Part(A, s, 0, m) /\ Part(A, s, 0, k) = y \o a
  <2>1. /\ A[s[k]] \in Seq(P)
        /\ Splits(Part(A, s, 0, k), Part(A, s, 0, m), A[s[k]])
        /\ Part(A, s, 0, m) \in Seq(P)
    BY <1>0, PartLast
  <2>. QED
    BY <2>1 DEF Splits
<1>4. Len(y \o a) = Len(y) + Len(a)
  BY Cat
<1>7. sv + Len(A[s[k]]) = Len(Part(A, s, 0, k))
  BY <1>1, <1>2, <1>4
<1>3. Splits(Rest(Part(V, s, n, k), p), Rest(Part(V, s, n, m), p), V[s[k]])
  BY <1>1, LeftMore
<1>8. st \o V[s[k]] = Rest(Part(V, s, n, k), p)
  BY <1>1, <1>3 DEF Splits
<1>9. p <= Len(Part(V, s, n, k))
  BY <1>1, LeftMore
<1>. QED
  BY <1>1, <1>7, <1>8, <1>9 DEF Answered

\* A unit on the stream is one of the reply being read.
LEMMA ReadsNext ==
  ASSUME NEW P, NEW T, NEW A, NEW V \in Pieces(P, T), NEW s \in Seq(P), NEW sn, NEW sv, NEW st,
         NEW n, NEW p \in Nat, NEW m \in 0..Len(s), Answered(A, V, s, sn, sv, st, n, p, m)
  PROVE  /\ n \in Nat /\ n = m => st = <<>>
         /\ st \in Seq(T)
         /\ st # <<>> => /\ n < m /\ n < Len(s) /\ s[n + 1] \in P
                         /\ p < Len(V[s[n + 1]]) => Head(st) = V[s[n + 1]][p + 1]
<1>1. /\ n \in 0..m /\ n \in Nat /\ m \in Nat /\ Len(s) \in Nat
      /\ p <= Len(Part(V, s, n, m))
      /\ st = Rest(Part(V, s, n, m), p)
  BY DEF Answered
<1>0. n \in Nat /\ m \in Nat /\ Len(s) \in Nat
  BY <1>1
<1>2. n \in 0..m
  BY <1>1
<1>3. Part(V, s, n, m) \in Seq(T)
  BY <1>2, PartType
<1>4. PICK x \in Seq(T) : x = Part(V, s, n, m)
  BY <1>3
<1>5. p \in 0..Len(x) /\ st = Rest(x, p) /\ Len(x) \in Nat
  BY <1>1, <1>4
<1>6. /\ Rest(x, p) \in Seq(T) /\ Len(Rest(x, p)) = Len(x) - p
      /\ \A i \in 1..(Len(x) - p) : Rest(x, p)[i] = x[i + p]
  BY <1>5, RestIs
<1>7. ASSUME n = m PROVE st = <<>>
  <2>1. Part(V, s, m, m) = <<>>
    BY PartEmpty
  <2>2. x = <<>>
    BY <1>4, <1>7, <2>1
  <2>3. Len(x) = 0
    BY <2>2
  <2>6. p \in 0..0
    BY <1>5, <2>3
  <2>5. Len(x) - p = 0
    <3>1. p = 0
      BY <2>6
    <3>. QED
      BY <2>3, <3>1
  <2>4. Len(st) = 0
    BY <1>5, <1>6, <2>5
  <2>. QED
    BY <1>5, <1>6, <2>4
<1>8. ASSUME st # <<>>
      PROVE  /\ n < m /\ n < Len(s) /\ s[n + 1] \in P
             /\ p < Len(V[s[n + 1]]) => Head(st) = V[s[n + 1]][p + 1]
  <2>1. n < m /\ n < Len(s)
    BY <1>1, <1>7, <1>8
  <2>2. /\ s[n + 1] \in P /\ V[s[n + 1]] \in Seq(T)
        /\ Splits(Part(V, s, n, m), V[s[n + 1]], Part(V, s, n + 1, m))
        /\ Part(V, s, n + 1, m) \in Seq(T)
    <3>1. PICK k \in 1..m : k = n + 1
      BY <1>0, <2>1
    <3>2. k = n + 1
      BY <3>1
    <3>3. /\ s[k] \in P /\ V[s[k]] \in Seq(T)
          /\ Splits(Part(V, s, n, m), V[s[k]], Part(V, s, k, m))
          /\ Part(V, s, k, m) \in Seq(T)
      BY <1>0, <3>2, PartFirst
    <3>. QED
      BY <3>2, <3>3
  <2>3. PICK v \in Seq(T), w \in Seq(T) : v = V[s[n + 1]] /\ x = v \o w
    BY <1>4, <2>2 DEF Splits
  <2>4. Len(st) > 0 /\ Head(st) = st[1]
    BY <1>5, <1>6, <1>8
  <2>5. st[1] = x[1 + p]
    BY <1>5, <1>6, <2>4
  <2>6. ASSUME p < Len(v) PROVE x[1 + p] = v[p + 1]
    <3>1. \A i \in 1..(Len(v) + Len(w)) : (v \o w)[i] = IF i <= Len(v) THEN v[i] ELSE w[i - Len(v)]
      BY Cat
    <3>2. 1 + p \in 1..(Len(v) + Len(w)) /\ 1 + p <= Len(v) /\ 1 + p = p + 1
      BY <2>6
    <3>. QED
      BY <2>3, <3>1, <3>2
  <2>. QED
    BY <2>1, <2>2, <2>3, <2>4, <2>5, <2>6
<1>. QED
  BY <1>1, <1>5, <1>6, <1>7, <1>8

\* k more units of the reply are read ...
LEMMA ReadsOn ==
  ASSUME NEW P, NEW T, NEW A, NEW V \in Pieces(P, T), NEW s \in Seq(P), NEW sn, NEW sv, NEW st,
         NEW n, NEW p \in Nat, NEW m \in 0..Len(s), Answered(A, V, s, sn, sv, st, n, p, m),
         NEW k \in 1..Len(st)
  PROVE  Answered(A, V, s, sn, sv, Rest(st, k), n, p + k, m)
<1>1. /\ n \in 0..m /\ n \in Nat /\ m \in Nat /\ Len(s) \in Nat
      /\ p <= Len(Part(V, s, n, m))
      /\ st = Rest(Part(V, s, n, m), p)
      /\ sv = Len(Part(A, s, 0, m)) /\ sv <= Len(sn)
  BY DEF Answered
<1>2. n \in 0..m
  BY <1>1
<1>3. Part(V, s, n, m) \in Seq(T)
  BY <1>2, PartType
<1>4. PICK x \in Seq(T) : x = Part(V, s, n, m)
  BY <1>3
<1>5. p \in 0..Len(x) /\ st = Rest(x, p) /\ Len(x) \in Nat
  BY <1>1, <1>4
<1>6. Len(Rest(x, p)) = Len(x) - p
  BY <1>5, RestIs
<1>7. k \in Nat /\ p + k <= Len(x)
  BY <1>5, <1>6
<1>8. Rest(Rest(x, p), k) = Rest(x, p + k)
  BY <1>7, RestOfRest
<1>9. Rest(st, k) = Rest(Part(V, s, n, m), p + k)
  BY <1>4, <1>5, <1>8
<1>. QED
  BY <1>1, <1>4, <1>7, <1>9 DEF Answered

\* ... and its last unit makes the next reply the first.
LEMMA ReadsAll ==
  ASSUME NEW P, NEW T, NEW A, NEW V \in Pieces(P, T), NEW s \in Seq(P), NEW sn, NEW sv, NEW st,
         NEW n \in Nat, NEW m \in 0..Len(s), NEW k \in 1..m, k = n + 1,
         Answered(A, V, s, sn, sv, st, n, Len(V[s[k]]), m)
  PROVE  Answered(A, V, s, sn, sv, st, k, 0, m)
<1>1. /\ k \in 0..m /\ m \in Nat /\ Len(s) \in Nat
      /\ st = Rest(Part(V, s, n, m), Len(V[s[k]]))
      /\ sv = Len(Part(A, s, 0, m)) /\ sv <= Len(sn)
  BY DEF Answered
<1>2. /\ s[k] \in P /\ V[s[k]] \in Seq(T)
      /\ Splits(Part(V, s, n, m), V[s[k]], Part(V, s, k, m))
      /\ Part(V, s, k, m) \in Seq(T)
  BY PartFirst
<1>3. PICK v \in Seq(T), w \in Seq(T) : v = V[s[k]] /\ w = Part(V, s, k, m)
  BY <1>2
<1>4. Rest(v \o w, Len(v)) = w
  BY RestOfHead
<1>5. Rest(w, 0) = w
  BY RestOfNone
<1>6. st = w
  BY <1>1, <1>2, <1>3, <1>4 DEF Splits
<1>8. w = Part(V, s, k, m)
  BY <1>3
<1>9. 0 <= Len(w)
  OBVIOUS
<1>. QED
  BY <1>1, <1>5, <1>6, <1>8, <1>9 DEF Answered

-----------------------------------------------------------------------------
(* Requests and replies of the model.                                      *)

LEMMA Filled ==
  ASSUME NEW S, NEW x \in S, NEW n \in Nat
  PROVE  /\ [u \in 1..n |-> x] \in Seq(S) /\ Len([u \in 1..n |-> x]) = n
         /\ \A u \in 1..n : [j \in 1..n |-> x][u] = x
OBVIOUS

LEMMA RequestTypes ==
  ASSUME InputsOK
  PROVE  /\ Asking \in Pieces(Positions, Positions) /\ Naming(Asking, Positions)
         /\ \A i \in Positions : Len(Asking[i]) = ReqLen(i) /\ ReqLen(i) \in Nat \ {0}
<1>1. ASSUME NEW i \in Positions PROVE ReqLen(i) \in Nat \ {0}
  <2>1. KeyLen[i] \in Nat \ {0}
    BY SizeAssumption
  <2>2. dataLen[i] \in Nat
    BY DEF InputsOK
  <2>. QED
    BY <2>1, <2>2 DEF ReqLen
<1>2. ASSUME NEW i \in Positions
      PROVE  /\ Asking[i] \in Seq(Positions) /\ Len(Asking[i]) = ReqLen(i)
             /\ \A u \in 1..ReqLen(i) : Asking[i][u] = i
  <2>1. PICK n \in Nat : n = ReqLen(i)
    BY <1>1
  <2>2. Asking[i] = [u \in 1..n |-> i]
    BY <2>1 DEF Asking
  <2>3. /\ [u \in 1..n |-> i] \in Seq(Positions) /\ Len([u \in 1..n |-> i]) = n
        /\ \A u \in 1..n : [j \in 1..n |-> i][u] = i
    BY Filled
  <2>. QED
    BY <2>1, <2>2, <2>3
<1>3. DOMAIN Asking = Positions /\ Asking = [i \in Positions |-> Asking[i]]
  BY DEF Asking
<1>4. Asking \in Pieces(Positions, Positions)
  BY <1>2, <1>3 DEF Pieces
<1>. QED
  BY <1>1, <1>2, <1>4 DEF Naming

\* Unit t of part q is one of the reply to request i.
Has(i, q, t) ==
  \/ q = "head" /\ t < PartLen
  \/ q = "error" /\ ~found[i] /\ t < PartLen
  \/ q = "fixed" /\ found[i] /\ kind # "delete" /\ t < PartLen
  \/ q = "data" /\ found[i] /\ kind = "get" /\ t < dataLen[i]

\* The last part of a reply, and how long it is.
LastPart(i, q, n) ==
  \/ q = "error" /\ ~found[i] /\ n = PartLen
  \/ q = "head" /\ found[i] /\ kind = "delete" /\ n = PartLen
  \/ q = "fixed" /\ found[i] /\ kind \in {"update", "expiration"} /\ n = PartLen
  \/ q = "data" /\ found[i] /\ kind = "get" /\ n = dataLen[i]

LEMMA TwoParts ==
  ASSUME NEW S, NEW x \in S, NEW y \in S, NEW a \in Nat, NEW b \in Nat, NEW r,
         r = [u \in 1..a |-> x] \o [u \in 1..b |-> y]
  PROVE  /\ r \in Seq(S) /\ Len(r) = a + b
         /\ \A u \in 1..a : r[u] = x
         /\ \A u \in 1..b : r[a + u] = y
<1>1. PICK f \in Seq(S) : f = [u \in 1..a |-> x] /\ Len(f) = a /\ \A u \in 1..a : f[u] = x
  BY Filled
<1>2. PICK g \in Seq(S) : g = [u \in 1..b |-> y] /\ Len(g) = b /\ \A u \in 1..b : g[u] = y
  BY Filled
<1>3. /\ f \o g \in Seq(S) /\ Len(f \o g) = Len(f) + Len(g)
      /\ \A i \in 1..(Len(f) + Len(g)) : (f \o g)[i] = IF i <= Len(f) THEN f[i] ELSE g[i - Len(f)]
  BY Cat
<1>4. r = f \o g
  BY <1>1, <1>2
<1>5. ASSUME NEW u \in 1..a PROVE r[u] = x
  <2>1. u \in 1..(Len(f) + Len(g)) /\ u <= Len(f)
    BY <1>1, <1>2
  <2>. QED
    BY <1>1, <1>3, <1>4, <2>1
<1>6. ASSUME NEW u \in 1..b PROVE r[a + u] = y
  <2>1. a + u \in 1..(Len(f) + Len(g)) /\ ~(a + u <= Len(f)) /\ a + u - Len(f) = u
    BY <1>1, <1>2
  <2>. QED
    BY <1>2, <1>3, <1>4, <2>1
<1>. QED
  BY <1>1, <1>2, <1>3, <1>4, <1>5, <1>6

LEMMA ThreeParts ==
  ASSUME NEW S, NEW x \in S, NEW y \in S, NEW z \in S, NEW a \in Nat, NEW b \in Nat, NEW r,
         r = [u \in 1..a |-> x] \o ([u \in 1..a |-> y] \o [u \in 1..b |-> z])
  PROVE  /\ r \in Seq(S) /\ Len(r) = a + (a + b)
         /\ \A u \in 1..a : r[u] = x
         /\ \A u \in 1..a : r[a + u] = y
         /\ \A u \in 1..b : r[a + (a + u)] = z
<1>1. PICK f \in Seq(S) : f = [u \in 1..a |-> x] /\ Len(f) = a /\ \A u \in 1..a : f[u] = x
  BY Filled
<1>2. PICK g : g = [u \in 1..a |-> y] \o [u \in 1..b |-> z]
  OBVIOUS
<1>3. /\ g \in Seq(S) /\ Len(g) = a + b /\ \A u \in 1..a : g[u] = y
      /\ \A u \in 1..b : g[a + u] = z
  BY <1>2, TwoParts
<1>4. r = f \o g
  BY <1>1, <1>2
<1>5. /\ f \o g \in Seq(S) /\ Len(f \o g) = Len(f) + Len(g)
      /\ \A i \in 1..(Len(f) + Len(g)) : (f \o g)[i] = IF i <= Len(f) THEN f[i] ELSE g[i - Len(f)]
  BY <1>3, Cat
<1>6. Len(f) = a /\ Len(g) = a + b
  BY <1>1, <1>3
<1>7. ASSUME NEW u \in 1..a PROVE r[u] = x
  <2>1. u \in 1..(Len(f) + Len(g)) /\ u <= Len(f)
    BY <1>6
  <2>. QED
    BY <1>1, <1>4, <1>5, <2>1
<1>8. ASSUME NEW u \in 1..(a + b) PROVE r[a + u] = g[u]
  <2>1. a + u \in 1..(Len(f) + Len(g)) /\ ~(a + u <= Len(f)) /\ a + u - Len(f) = u
    BY <1>6
  <2>. QED
    BY <1>4, <1>5, <2>1
<1>9. ASSUME NEW u \in 1..a PROVE r[a + u] = y
  <2>1. u \in 1..(a + b)
    OBVIOUS
  <2>. QED
    BY <1>3, <1>8, <2>1
<1>10. ASSUME NEW u \in 1..b PROVE r[a + (a + u)] = z
  <2>1. a + u \in 1..(a + b)
    OBVIOUS
  <2>. QED
    BY <1>3, <1>8, <2>1
<1>. QED
  BY <1>4, <1>5, <1>6, <1>7, <1>9, <1>10

\* What a reply is made of.
LEMMA ReplyIs ==
  ASSUME InputsOK, NEW i \in Positions
  PROVE  /\ Reply(i) \in Seq(Positions \X Parts)
         /\ \A q \in Parts, t \in Nat :
              /\ Has(i, q, t) => /\ Place(q, t) < Len(Reply(i)) /\ Reply(i)[Place(q, t) + 1] = <<i, q>>
              /\ LastPart(i, q, t) => Place(q, t) = Len(Reply(i))
<1> DEFINE S == Positions \X Parts
           L == PartLen
<1>0. /\ L \in Nat \ {0} /\ dataLen[i] \in Nat /\ found[i] \in BOOLEAN
      /\ kind \in {"get", "update", "delete", "expiration"}
  BY SizeAssumption DEF InputsOK
<1>1. <<i, "head">> \in S /\ <<i, "error">> \in S /\ <<i, "fixed">> \in S /\ <<i, "data">> \in S
  BY DEF Parts
<1> HIDE DEF S, L
<1>2. CASE ~found[i]
  <2>1. Reply(i) = [u \in 1..L |-> <<i, "head">>] \o [u \in 1..L |-> <<i, "error">>]
    BY <1>2 DEF Reply, L
  <2>2. PICK r \in Seq(S) : /\ r = Reply(i) /\ Len(r) = L + L
                            /\ \A u \in 1..L : r[u] = <<i, "head">>
                            /\ \A u \in 1..L : r[L + u] = <<i, "error">>
    <3>1. PICK x \in S, y \in S : x = <<i, "head">> /\ y = <<i, "error">>
      BY <1>1
    <3>2. PICK r : r = [u \in 1..L |-> x] \o [u \in 1..L |-> y]
      OBVIOUS
    <3>3. /\ r \in Seq(S) /\ Len(r) = L + L /\ \A u \in 1..L : r[u] = x
          /\ \A u \in 1..L : r[L + u] = y
      BY <1>0, <3>2, TwoParts
    <3>. QED
      BY <2>1, <3>1, <3>2, <3>3
  <2>3. ASSUME NEW q \in Parts, NEW t \in Nat, Has(i, q, t)
        PROVE  Place(q, t) < Len(r) /\ r[Place(q, t) + 1] = <<i, q>>
    <3>1. CASE q = "head" /\ t < L
      <4>1. Place(q, t) = t /\ t + 1 \in 1..L /\ t < L + L
        BY <1>0, <3>1 DEF Place
      <4>. QED
        BY <2>2, <3>1, <4>1
    <3>2. CASE q = "error" /\ t < L
      <4>1. Place(q, t) = t + L /\ t + 1 \in 1..L /\ t + L + 1 = L + (t + 1) /\ t + L < L + L
        BY <1>0, <3>2 DEF Place, L
      <4>. QED
        BY <2>2, <3>2, <4>1
    <3>. QED
      BY <1>2, <2>3, <3>1, <3>2 DEF Has, L
  <2>4. ASSUME NEW q \in Parts, NEW t \in Nat, LastPart(i, q, t) PROVE Place(q, t) = Len(r)
    <3>1. q = "error" /\ t = L
      BY <1>2, <2>4 DEF LastPart, L
    <3>. QED
      BY <1>0, <2>2, <3>1 DEF Place, L
  <2>. QED
    BY <2>2, <2>3, <2>4 DEF S
<1>3. CASE found[i] /\ kind = "delete"
  <2>1. Reply(i) = [u \in 1..L |-> <<i, "head">>]
    <3>1. PICK n \in Nat : n = L
      BY <1>0
    <3>2. PICK x \in S : x = <<i, "head">>
      BY <1>1
    <3>3. PICK h \in Seq(S) : h = [u \in 1..n |-> x]
      BY Filled
    <3>4. h \o <<>> = h
      OBVIOUS
    <3>5. Reply(i) = [u \in 1..L |-> <<i, "head">>] \o <<>>
      BY <1>3 DEF Reply, L
    <3>. QED
      BY <3>1, <3>2, <3>3, <3>4, <3>5
  <2>2. PICK r \in Seq(S) : /\ r = Reply(i) /\ Len(r) = L
                            /\ \A u \in 1..L : r[u] = <<i, "head">>
    <3>1. PICK x \in S : x = <<i, "head">>
      BY <1>1
    <3>2. /\ [u \in 1..L |-> x] \in Seq(S) /\ Len([u \in 1..L |-> x]) = L
          /\ \A u \in 1..L : [j \in 1..L |-> x][u] = x
      BY <1>0, Filled
    <3>. QED
      BY <2>1, <3>1, <3>2
  <2>3. ASSUME NEW q \in Parts, NEW t \in Nat, Has(i, q, t)
        PROVE  Place(q, t) < Len(r) /\ r[Place(q, t) + 1] = <<i, q>>
    <3>1. q = "head" /\ t < L
      BY <1>3, <2>3 DEF Has, L
    <3>2. Place(q, t) = t /\ t + 1 \in 1..L
      BY <1>0, <3>1 DEF Place
    <3>. QED
      BY <2>2, <3>1, <3>2
  <2>4. ASSUME NEW q \in Parts, NEW t \in Nat, LastPart(i, q, t) PROVE Place(q, t) = Len(r)
    <3>1. q = "head" /\ t = L
      BY <1>3, <2>4 DEF LastPart, L
    <3>. QED
      BY <1>0, <2>2, <3>1 DEF Place
  <2>. QED
    BY <2>2, <2>3, <2>4 DEF S
<1>4. CASE found[i] /\ kind \in {"update", "expiration"}
  <2>1. Reply(i) = [u \in 1..L |-> <<i, "head">>] \o [u \in 1..L |-> <<i, "fixed">>]
    BY <1>4 DEF Reply, L
  <2>2. PICK r \in Seq(S) : /\ r = Reply(i) /\ Len(r) = L + L
                            /\ \A u \in 1..L : r[u] = <<i, "head">>
                            /\ \A u \in 1..L : r[L + u] = <<i, "fixed">>
    <3>1. PICK x \in S, y \in S : x = <<i, "head">> /\ y = <<i, "fixed">>
      BY <1>1
    <3>2. PICK r : r = [u \in 1..L |-> x] \o [u \in 1..L |-> y]
      OBVIOUS
    <3>3. /\ r \in Seq(S) /\ Len(r) = L + L /\ \A u \in 1..L : r[u] = x
          /\ \A u \in 1..L : r[L + u] = y
      BY <1>0, <3>2, TwoParts
    <3>. QED
      BY <2>1, <3>1, <3>2, <3>3
  <2>3. ASSUME NEW q \in Parts, NEW t \in Nat, Has(i, q, t)
        PROVE  Place(q, t) < Len(r) /\ r[Place(q, t) + 1] = <<i, q>>
    <3>1. CASE q = "head" /\ t < L
      <4>1. Place(q, t) = t /\ t + 1 \in 1..L /\ t < L + L
        BY <1>0, <3>1 DEF Place
      <4>. QED
        BY <2>2, <3>1, <4>1
    <3>2. CASE q = "fixed" /\ t < L
      <4>1. Place(q, t) = t + L /\ t + 1 \in 1..L /\ t + L + 1 = L + (t + 1) /\ t + L < L + L
        BY <1>0, <3>2 DEF Place, L
      <4>. QED
        BY <2>2, <3>2, <4>1
    <3>. QED
      BY <1>4, <2>3, <3>1, <3>2 DEF Has, L
  <2>4. ASSUME NEW q \in Parts, NEW t \in Nat, LastPart(i, q, t) PROVE Place(q, t) = Len(r)
    <3>1. q = "fixed" /\ t = L
      BY <1>4, <2>4 DEF LastPart, L
    <3>. QED
      BY <1>0, <2>2, <3>1 DEF Place, L
  <2>. QED
    BY <2>2, <2>3, <2>4 DEF S
<1>5. CASE found[i] /\ kind = "get"
  <2> DEFINE D == dataLen[i]
  <2>0. D \in Nat
    BY <1>0
  <2>1. Reply(i) = [u \in 1..L |-> <<i, "head">>]
                     \o ([u \in 1..L |-> <<i, "fixed">>] \o [u \in 1..D |-> <<i, "data">>])
    BY <1>5 DEF Reply, L
  <2> HIDE DEF D
  <2>2. PICK r \in Seq(S) : /\ r = Reply(i) /\ Len(r) = L + (L + D)
                            /\ \A u \in 1..L : r[u] = <<i, "head">>
                            /\ \A u \in 1..L : r[L + u] = <<i, "fixed">>
                            /\ \A u \in 1..D : r[L + (L + u)] = <<i, "data">>
    <3>1. PICK x \in S, y \in S, z \in S : x = <<i, "head">> /\ y = <<i, "fixed">> /\ z = <<i, "data">>
      BY <1>1
    <3>2. PICK r : r = [u \in 1..L |-> x] \o ([u \in 1..L |-> y] \o [u \in 1..D |-> z])
      OBVIOUS
    <3>3. L \in Nat /\ D \in Nat
      BY <1>0, <2>0
    <3>4. /\ r \in Seq(S) /\ Len(r) = L + (L + D) /\ \A u \in 1..L : r[u] = x
          /\ \A u \in 1..L : r[L + u] = y
          /\ \A u \in 1..D : r[L + (L + u)] = z
      BY <3>2, <3>3, ThreeParts
    <3>. QED
      BY <2>1, <3>1, <3>2, <3>4
  <2>3. ASSUME NEW q \in Parts, NEW t \in Nat, Has(i, q, t)
        PROVE  Place(q, t) < Len(r) /\ r[Place(q, t) + 1] = <<i, q>>
    <3>1. CASE q = "head" /\ t < L
      <4>1. Place(q, t) = t /\ t + 1 \in 1..L /\ t < L + (L + D)
        BY <1>0, <2>0, <3>1 DEF Place
      <4>. QED
        BY <2>2, <3>1, <4>1
    <3>2. CASE q = "fixed" /\ t < L
      <4>1. Place(q, t) = t + L /\ t + 1 \in 1..L /\ t + L + 1 = L + (t + 1) /\ t + L < L + (L + D)
        BY <1>0, <2>0, <3>2 DEF Place, L
      <4>. QED
        BY <2>2, <3>2, <4>1
    <3>3. CASE q = "data" /\ t < D
      <4>1. /\ Place(q, t) = t + (L + L) /\ t + 1 \in 1..D
            /\ t + (L + L) + 1 = L + (L + (t + 1)) /\ t + (L + L) < L + (L + D)
        BY <1>0, <2>0, <3>3 DEF Place, L
      <4>. QED
        BY <2>2, <3>3, <4>1
    <3>. QED
      BY <1>5, <2>3, <3>1, <3>2, <3>3 DEF Has, L, D
  <2>4. ASSUME NEW q \in Parts, NEW t \in Nat, LastPart(i, q, t) PROVE Place(q, t) = Len(r)
    <3>1. q = "data" /\ t = D
      BY <1>5, <2>4 DEF LastPart, D
    <3>. QED
      BY <1>0, <2>0, <2>2, <3>1 DEF Place, L
  <2>. QED
    BY <2>2, <2>3, <2>4 DEF S
<1>. QED
  BY <1>0, <1>2, <1>3, <1>4, <1>5

LEMMA ReplyTypes ==
  ASSUME InputsOK
  PROVE  /\ Replying \in Pieces(Positions, Positions \X Parts)
         /\ \A i \in Positions : Replying[i] = Reply(i)
<1>1. \A i \in Positions : Reply(i) \in Seq(Positions \X Parts)
  BY ReplyIs
<1>. QED
  BY <1>1 DEF Replying, Pieces

\* Numbers up to a bound have a largest one.
LEMMA Largest ==
  ASSUME NEW n \in Nat, NEW T \in SUBSET (0..n), T # {}
  PROVE  Max(T) \in T
<1> DEFINE U == {n - x : x \in T}
<1>0. PICK v \in T : TRUE
  OBVIOUS
<1>1. U \in SUBSET Nat /\ U # {}
  <2>1. n - v \in U
    OBVIOUS
  <2>2. U \subseteq Nat
    OBVIOUS
  <2>. QED
    BY <2>1, <2>2
<1>2. PICK y \in U : \A z \in U : y <= z
  <2> HIDE DEF U
  <2>. QED
    BY <1>1, Least
<1>3. PICK x \in T : y = n - x
  OBVIOUS
<1>4. ASSUME NEW z \in T PROVE x >= z
  <2>1. n - z \in U /\ x \in 0..n /\ z \in 0..n
    OBVIOUS
  <2>2. n - x <= n - z
    BY <1>2, <1>3, <2>1
  <2>. QED
    BY <2>1, <2>2
<1>5. \E w \in T : \A z \in T : w >= z
  BY <1>4
<1>. QED
  BY <1>5 DEF Max

LEMMA FlatIs ==
  ASSUME NEW s
  PROVE  FlattenSeq(s) = Flat(s)
BY DEF FlattenSeq, Flat, Joins

LEMMA UnitsAre ==
  ASSUME NEW s \in Seq(Positions)
  PROVE  Units(s) = Chain(Asking, s)
<1>1. ASSUME NEW n \in 1..Len(s) PROVE [u \in 1..ReqLen(s[n]) |-> s[n]] = Asking[s[n]]
  <2>1. s[n] \in Positions
    OBVIOUS
  <2>. QED
    BY <2>1 DEF Asking
<1>2. [n \in 1..Len(s) |-> [u \in 1..ReqLen(s[n]) |-> s[n]]] = [n \in 1..Len(s) |-> Asking[s[n]]]
  BY <1>1
<1>. QED
  BY <1>2, FlatIs DEF Units, Chain

LEMMA FirstAndRest ==
  ASSUME NEW S, NEW s \in Seq(S), NEW c \in Nat, NEW b \in (c + 1)..Len(s)
  PROVE  <<s[c + 1]>> \o SubSeq(s, c + 2, b) = SubSeq(s, c + 1, b)
OBVIOUS

\* A batch is the requests from curr + 1 to some number.
LEMMA BatchIs ==
  ASSUME NEW h \in Hosts, NEW lim, NEW c \in Nat, c = curr[h], c < Len(Items[h])
  PROVE  \E b \in (c + 1)..Len(Items[h]) :
            /\ Batch(h, Items[h][c + 1], lim) = SubSeq(Items[h], c + 1, b)
            /\ Len(SubSeq(Items[h], c + 1, b)) = b - c
<1>1. PICK s \in Seq(Positions) : s = Items[h]
  BY ItemsAssumption
<1> DEFINE upTo(b) == <<s[c + 1]>> \o SubSeq(s, c + 2, b)
           fits == {b \in (c + 2)..Len(s) : Len(Units(upTo(b))) <= lim}
<1>2. Batch(h, s[c + 1], lim) = upTo(Max(fits \cup {c + 1}))
  BY <1>1 DEF Batch, Keys
<1>3. c + 1 \in 1..Len(s) /\ Len(s) \in Nat
  BY <1>1
<1>4. fits \cup {c + 1} \in SUBSET ((c + 1)..Len(s))
  BY <1>3
<1> HIDE DEF fits
<1>5. Max(fits \cup {c + 1}) \in (c + 1)..Len(s)
  <2>1. fits \cup {c + 1} \in SUBSET (0..Len(s)) /\ fits \cup {c + 1} # {}
    BY <1>3, <1>4
  <2>2. PICK T : T = fits \cup {c + 1}
    OBVIOUS
  <2>3. Max(T) \in T
    BY <1>3, <2>1, <2>2, Largest
  <2>. QED
    BY <1>4, <2>2, <2>3
<1>6. PICK b \in (c + 1)..Len(s) : b = Max(fits \cup {c + 1})
  BY <1>5
<1>7. upTo(b) = SubSeq(s, c + 1, b)
  <2>1. <<s[c + 1]>> \o SubSeq(s, c + 2, b) = SubSeq(s, c + 1, b)
    BY FirstAndRest
  <2>. QED
    BY <2>1
<1>8. Len(SubSeq(s, c + 1, b)) = b - c
  BY <1>3
<1>. QED
  BY <1>1, <1>2, <1>6, <1>7, <1>8

\* The request after the b-th, or the last one.
Following(s, b) == s[IF b < Len(s) THEN b + 1 ELSE Len(s)]

LEMMA PutBatchIs ==
  ASSUME InputsOK, RequestsOK, NEW h \in Hosts, curr[h] < Len(Items[h]), PutBatch(h, Items[h][curr[h] + 1])
  PROVE  \E b \in (curr[h] + 1)..Len(Items[h]) :
            /\ outBuffer' = [outBuffer EXCEPT ![h] = Part(Asking, Items[h], curr[h], b)]
            /\ curr' = [curr EXCEPT ![h] = b]
            /\ DOMAIN limit' = Hosts
<1>1. PICK c \in Nat : c = curr[h]
  BY DEF RequestsOK
<1>2. PICK s \in Seq(Positions) : s = Items[h]
  BY ItemsAssumption
<1>3. PICK b \in (c + 1)..Len(s) :
         /\ Batch(h, s[c + 1], limit[h]) = SubSeq(s, c + 1, b)
         /\ Len(SubSeq(s, c + 1, b)) = b - c
  BY <1>1, <1>2, BatchIs
<1>4. SubSeq(s, c + 1, b) \in Seq(Positions)
  BY <1>1, <1>2
<1>5. Units(SubSeq(s, c + 1, b)) = Part(Asking, s, c, b)
  BY <1>4, UnitsAre DEF Part
<1>6. c + (b - c) = b
  OBVIOUS
<1>7. outBuffer' = [outBuffer EXCEPT ![h] = Units(Batch(h, s[c + 1], limit[h]))]
  BY <1>1, <1>2 DEF PutBatch
<1>8. curr' = [curr EXCEPT ![h] = @ + Len(Batch(h, s[c + 1], limit[h]))]
  BY <1>1, <1>2 DEF PutBatch
<1>9. DOMAIN limit' = Hosts
  BY DEF PutBatch, RequestsOK
<1>10. curr' = [curr EXCEPT ![h] = b]
  BY <1>1, <1>3, <1>6, <1>8
<1>11. outBuffer' = [outBuffer EXCEPT ![h] = Part(Asking, s, c, b)]
  BY <1>3, <1>5, <1>7
<1>. QED
  BY <1>1, <1>2, <1>9, <1>10, <1>11

LEMMA EncodeIs ==
  ASSUME InputsOK, RequestsOK, NEW h \in Hosts, curr[h] < Len(Items[h]), encode(h)
  PROVE  \E b \in (curr[h] + 1)..Len(Items[h]) :
            /\ outBuffer' = [outBuffer EXCEPT ![h] = Part(Asking, Items[h], curr[h], b)]
            /\ curr' = [curr EXCEPT ![h] = b]
            /\ DOMAIN limit' = Hosts
            /\ DOMAIN loaded' = Hosts /\ \A g \in Hosts : g # h => loaded'[g] = loaded[g]
            /\ kind # "update" => loaded'[h] = 0
            /\ loaded'[h] \in {0, Following(Items[h], b)}
<1>1. CASE kind # "update"
  <2>1. PutBatch(h, Items[h][curr[h] + 1]) /\ UNCHANGED loaded
    BY <1>1 DEF encode, get_encode, delete_encode, expiration_encode, InputsOK
  <2>2. loaded[h] = 0 /\ DOMAIN loaded = Hosts
    BY <1>1 DEF RequestsOK
  <2>. QED
    BY <1>1, <2>1, <2>2, PutBatchIs
<1>2. CASE kind = "update"
  <2>0. update_encode(h)
    BY <1>2 DEF encode
  <2>1. /\ Sends(Asking, Items[h], curr[h], outBuffer[h], sent[h], opWrite[h], loaded[h])
        /\ DOMAIN loaded = Hosts /\ DOMAIN curr = Hosts /\ curr[h] \in Nat
    BY DEF RequestsOK
  <2>2. loaded[h] # 0 => loaded[h] = Items[h][curr[h] + 1]
    BY <2>1 DEF Sends
  <2>3. /\ PutBatch(h, Items[h][curr[h] + 1])
        /\ loaded' = [loaded EXCEPT ![h] = Items[h][Min({curr'[h] + 1, Keys(h)})]]
    BY <2>0, <2>2 DEF update_encode
  <2>4. PICK b \in (curr[h] + 1)..Len(Items[h]) :
            /\ outBuffer' = [outBuffer EXCEPT ![h] = Part(Asking, Items[h], curr[h], b)]
            /\ curr' = [curr EXCEPT ![h] = b]
            /\ DOMAIN limit' = Hosts
    BY <2>3, PutBatchIs
  <2>5. curr'[h] = b
    BY <2>1, <2>4
  <2>6. b \in Nat /\ Len(Items[h]) \in Nat /\ b <= Len(Items[h])
    <3>1. PICK s \in Seq(Positions) : s = Items[h]
      BY ItemsAssumption
    <3>. QED
      BY <2>1, <3>1
  <2>7. Min({b + 1, Len(Items[h])}) = IF b < Len(Items[h]) THEN b + 1 ELSE Len(Items[h])
    <3>1. PICK l \in Nat : l = Len(Items[h])
      BY <2>6
    <3>2. Min({b + 1, l}) = IF b < l THEN b + 1 ELSE l
      <4>1. CASE b < l
        <5>1. PICK x \in {b + 1, l} : x = b + 1 /\ \A y \in {b + 1, l} : x <= y
          BY <2>6, <4>1
        <5>2. {b + 1, l} \in SUBSET Nat
          BY <2>6
        <5>. QED
          BY <4>1, <5>1, <5>2, MinIs
      <4>2. CASE ~(b < l)
        <5>1. PICK x \in {b + 1, l} : x = l /\ \A y \in {b + 1, l} : x <= y
          BY <2>6, <4>2
        <5>2. {b + 1, l} \in SUBSET Nat
          BY <2>6
        <5>. QED
          BY <4>2, <5>1, <5>2, MinIs
      <4>. QED
        BY <4>1, <4>2
    <3>. QED
      BY <3>1, <3>2
  <2>8. loaded' = [loaded EXCEPT ![h] = Following(Items[h], b)]
    BY <2>3, <2>5, <2>7 DEF Following, Keys
  <2>. QED
    BY <1>2, <2>1, <2>4, <2>8
<1>. QED
  BY <1>1, <1>2

-----------------------------------------------------------------------------
(* The requests: RequestsOK is preserved.                                  *)

LEMMA SameInputs ==
  ASSUME InputsOK, UNCHANGED inputVars
  PROVE  InputsOK' /\ Asking' = Asking /\ Replying' = Replying
<1>1. kind' = kind /\ dataLen' = dataLen /\ found' = found
  BY DEF inputVars
<1>2. InputsOK'
  BY <1>1 DEF InputsOK
<1>3. Asking' = Asking
  BY <1>1 DEF Asking, ReqLen
<1>4. Replying' = Replying
  BY <1>1 DEF Replying, Reply
<1>. QED
  BY <1>2, <1>3, <1>4

\* Only host h's connection has changed.
LEMMA RequestsAt ==
  ASSUME InputsOK, RequestsOK, UNCHANGED inputVars, NEW h \in Hosts,
         curr' \in [Hosts -> Nat], outBuffer' \in [Hosts -> Seq(Positions)],
         sent' \in [Hosts -> Seq(Positions)], opWrite' \in [Hosts -> BOOLEAN],
         DOMAIN loaded' = Hosts, DOMAIN limit' = Hosts,
         \A g \in Hosts : g # h => /\ curr'[g] = curr[g] /\ outBuffer'[g] = outBuffer[g] /\ sent'[g] = sent[g]
                                   /\ opWrite'[g] = opWrite[g] /\ loaded'[g] = loaded[g],
         Sends(Asking, Items[h], curr'[h], outBuffer'[h], sent'[h], opWrite'[h], loaded'[h]),
         kind # "update" => loaded'[h] = 0
  PROVE  RequestsOK'
<1>1. Asking' = Asking /\ kind' = kind
  BY SameInputs DEF inputVars
<1>2. ASSUME NEW g \in Hosts
      PROVE  /\ Sends(Asking, Items[g], curr'[g], outBuffer'[g], sent'[g], opWrite'[g], loaded'[g])
             /\ kind # "update" => loaded'[g] = 0
  <2>1. CASE g = h
    BY <2>1
  <2>2. CASE g # h
    <3>1. /\ Sends(Asking, Items[g], curr[g], outBuffer[g], sent[g], opWrite[g], loaded[g])
          /\ kind # "update" => loaded[g] = 0
      BY DEF RequestsOK
    <3>. QED
      BY <2>2, <3>1
  <2>. QED
    BY <2>1, <2>2
<1>. QED
  BY <1>1, <1>2 DEF RequestsOK

LEMMA RequestsSame ==
  ASSUME InputsOK, RequestsOK, UNCHANGED <<inputVars, requestVars>>
  PROVE  RequestsOK'
<1>1. Asking' = Asking /\ kind' = kind
  BY SameInputs DEF inputVars
<1>2. /\ outBuffer' = outBuffer /\ limit' = limit /\ curr' = curr /\ loaded' = loaded /\ opWrite' = opWrite
      /\ sent' = sent
  BY DEF requestVars
<1>. QED
  BY <1>1, <1>2 DEF RequestsOK

LEMMA RequestsEncode ==
  ASSUME InputsOK, RequestsOK, UNCHANGED <<inputVars, opWrite, sent>>, NEW h \in Hosts,
         curr[h] < Len(Items[h]), outBuffer[h] = <<>>, encode(h)
  PROVE  RequestsOK' /\ \A g \in Hosts : g # h => curr'[g] = curr[g] /\ outBuffer'[g] = outBuffer[g]
<1>1. PICK b \in (curr[h] + 1)..Len(Items[h]) :
            /\ outBuffer' = [outBuffer EXCEPT ![h] = Part(Asking, Items[h], curr[h], b)]
            /\ curr' = [curr EXCEPT ![h] = b]
            /\ DOMAIN limit' = Hosts
            /\ DOMAIN loaded' = Hosts /\ \A g \in Hosts : g # h => loaded'[g] = loaded[g]
            /\ kind # "update" => loaded'[h] = 0
            /\ loaded'[h] \in {0, Following(Items[h], b)}
  BY EncodeIs
<1>2. /\ curr \in [Hosts -> Nat] /\ outBuffer \in [Hosts -> Seq(Positions)]
      /\ sent \in [Hosts -> Seq(Positions)] /\ opWrite \in [Hosts -> BOOLEAN]
      /\ Sends(Asking, Items[h], curr[h], outBuffer[h], sent[h], opWrite[h], loaded[h])
      /\ opWrite' = opWrite /\ sent' = sent
  BY DEF RequestsOK
<1>3. PICK s \in Seq(Positions) : s = Items[h]
  BY ItemsAssumption
<1>4. PICK A \in Pieces(Positions, Positions) : A = Asking
  BY RequestTypes
<1>5. PICK sn \in Seq(Positions) : sn = sent[h]
  BY <1>2
<1>6. PICK c \in Nat : c = curr[h]
  BY <1>2
<1>7. PICK ow, ld, ld2 : ow = opWrite[h] /\ ld = loaded[h] /\ ld2 = loaded'[h]
  OBVIOUS
<1>8. Sends(A, s, c, <<>>, sn, ow, ld) /\ c < Len(s)
  BY <1>2, <1>3, <1>4, <1>5, <1>6, <1>7
<1>9. b \in (c + 1)..Len(s) /\ b \in Nat
  BY <1>3, <1>6
<1>10. ld2 = 0 \/ ld2 = s[IF b < Len(s) THEN b + 1 ELSE Len(s)]
  BY <1>1, <1>3, <1>7 DEF Following
<1>11. /\ Sends(A, s, b, Part(A, s, c, b), sn, ow, ld2)
       /\ Part(A, s, c, b) \in Seq(Positions)
  BY <1>8, <1>9, <1>10, SendsBatch
<1>12. curr'[h] = b /\ outBuffer'[h] = Part(A, s, c, b)
  BY <1>1, <1>2, <1>3, <1>4, <1>6
<1>13. Sends(Asking, Items[h], curr'[h], outBuffer'[h], sent'[h], opWrite'[h], loaded'[h])
  BY <1>2, <1>3, <1>4, <1>5, <1>7, <1>11, <1>12
<1>14. /\ curr' \in [Hosts -> Nat] /\ outBuffer' \in [Hosts -> Seq(Positions)]
       /\ sent' \in [Hosts -> Seq(Positions)] /\ opWrite' \in [Hosts -> BOOLEAN]
  <2>1. curr' \in [Hosts -> Nat]
    BY <1>1, <1>2, <1>9
  <2>2. PICK x \in Seq(Positions) : outBuffer' = [outBuffer EXCEPT ![h] = x]
    BY <1>1, <1>3, <1>4, <1>6, <1>11
  <2>3. outBuffer' \in [Hosts -> Seq(Positions)]
    BY <1>2, <2>2
  <2>. QED
    BY <1>2, <2>1, <2>3
<1>15. \A g \in Hosts : g # h => /\ curr'[g] = curr[g] /\ outBuffer'[g] = outBuffer[g] /\ sent'[g] = sent[g]
                                   /\ opWrite'[g] = opWrite[g] /\ loaded'[g] = loaded[g]
  BY <1>1, <1>2
<1>16. RequestsOK'
  BY <1>1, <1>13, <1>14, <1>15, RequestsAt
<1>. QED
  BY <1>15, <1>16

LEMMA RequestsWrite ==
  ASSUME InputsOK, RequestsOK, NEW h \in Hosts, UNCHANGED <<inputVars, limit, curr, loaded, opWrite>>,
         NEW k \in 1..Len(outBuffer[h]), Write(h, k)
  PROVE  /\ RequestsOK' /\ \A g \in Hosts : g # h => outBuffer'[g] = outBuffer[g]
         /\ \A g \in Hosts : Len(sent[g]) <= Len(sent'[g])
<1>1. /\ curr \in [Hosts -> Nat] /\ outBuffer \in [Hosts -> Seq(Positions)]
      /\ sent \in [Hosts -> Seq(Positions)] /\ opWrite \in [Hosts -> BOOLEAN]
      /\ Sends(Asking, Items[h], curr[h], outBuffer[h], sent[h], opWrite[h], loaded[h])
      /\ DOMAIN loaded = Hosts /\ DOMAIN limit = Hosts
      /\ opWrite' = opWrite /\ curr' = curr /\ loaded' = loaded /\ limit' = limit
      /\ kind # "update" => loaded[h] = 0
  BY DEF RequestsOK
<1>2. PICK s \in Seq(Positions) : s = Items[h]
  BY ItemsAssumption
<1>3. PICK A \in Pieces(Positions, Positions) : A = Asking
  BY RequestTypes
<1>4. PICK sn \in Seq(Positions), ob \in Seq(Positions) : sn = sent[h] /\ ob = outBuffer[h]
  BY <1>1
<1>5. PICK c, ow, ld : c = curr[h] /\ ow = opWrite[h] /\ ld = loaded[h]
  OBVIOUS
<1>6. Sends(A, s, c, ob, sn, ow, ld) /\ k \in 1..Len(ob)
  BY <1>1, <1>2, <1>3, <1>4, <1>5
<1>7. /\ Sends(A, s, c, Rest(ob, k), sn \o SubSeq(ob, 1, k), ow, ld)
      /\ Rest(ob, k) \in Seq(Positions) /\ sn \o SubSeq(ob, 1, k) \in Seq(Positions)
      /\ Len(sn) <= Len(sn \o SubSeq(ob, 1, k))
  BY <1>6, SendsOn
<1>8. PICK x \in Seq(Positions), y \in Seq(Positions) : x = Rest(ob, k) /\ y = sn \o SubSeq(ob, 1, k)
  BY <1>7
<1>9. sent' = [sent EXCEPT ![h] = y] /\ outBuffer' = [outBuffer EXCEPT ![h] = x]
  BY <1>4, <1>8 DEF Write, Rest
<1>10. /\ sent'[h] = y /\ outBuffer'[h] = x
       /\ sent' \in [Hosts -> Seq(Positions)] /\ outBuffer' \in [Hosts -> Seq(Positions)]
       /\ \A g \in Hosts : g # h => sent'[g] = sent[g] /\ outBuffer'[g] = outBuffer[g]
  BY <1>1, <1>9
<1>11. Sends(Asking, Items[h], curr'[h], outBuffer'[h], sent'[h], opWrite'[h], loaded'[h])
  BY <1>1, <1>2, <1>3, <1>5, <1>7, <1>8, <1>10
<1>12. \A g \in Hosts : g # h => /\ curr'[g] = curr[g] /\ outBuffer'[g] = outBuffer[g] /\ sent'[g] = sent[g]
                                   /\ opWrite'[g] = opWrite[g] /\ loaded'[g] = loaded[g]
  BY <1>1, <1>10
<1>13. RequestsOK'
  BY <1>1, <1>10, <1>11, <1>12, RequestsAt
<1>14. ASSUME NEW g \in Hosts PROVE Len(sent[g]) <= Len(sent'[g])
  <2>1. CASE g = h
    BY <1>4, <1>7, <1>8, <1>10, <2>1
  <2>2. CASE g # h
    <3>1. PICK z \in Seq(Positions) : z = sent[g]
      BY <1>1
    <3>2. Len(z) <= Len(z)
      OBVIOUS
    <3>. QED
      BY <1>10, <2>2, <3>1, <3>2
  <2>. QED
    BY <2>1, <2>2
<1>. QED
  BY <1>12, <1>13, <1>14

LEMMA RequestsStop ==
  ASSUME InputsOK, RequestsOK, NEW h \in Hosts, UNCHANGED <<inputVars, limit, curr, loaded, outBuffer, sent>>,
         outBuffer[h] = <<>>, curr[h] >= Keys(h), opWrite' = [opWrite EXCEPT ![h] = FALSE]
  PROVE  RequestsOK'
<1>1. /\ curr \in [Hosts -> Nat] /\ outBuffer \in [Hosts -> Seq(Positions)]
      /\ sent \in [Hosts -> Seq(Positions)] /\ opWrite \in [Hosts -> BOOLEAN]
      /\ Sends(Asking, Items[h], curr[h], outBuffer[h], sent[h], opWrite[h], loaded[h])
      /\ DOMAIN loaded = Hosts /\ DOMAIN limit = Hosts
      /\ outBuffer' = outBuffer /\ sent' = sent /\ curr' = curr /\ loaded' = loaded /\ limit' = limit
      /\ kind # "update" => loaded[h] = 0
  BY DEF RequestsOK
<1>2. curr[h] = Len(Items[h])
  <2>1. Len(Items[h]) \in Nat
    BY ItemsAssumption
  <2>. QED
    BY <1>1, <2>1 DEF Sends, Keys
<1>3. /\ opWrite'[h] = FALSE /\ opWrite' \in [Hosts -> BOOLEAN]
      /\ \A g \in Hosts : g # h => opWrite'[g] = opWrite[g]
  BY <1>1
<1>4. Sends(Asking, Items[h], curr[h], outBuffer[h], sent[h], FALSE, loaded[h])
  BY <1>1, <1>2 DEF Sends
<1>5. Sends(Asking, Items[h], curr'[h], outBuffer'[h], sent'[h], opWrite'[h], loaded'[h])
  BY <1>1, <1>3, <1>4
<1>. QED
  BY <1>1, <1>3, <1>5, RequestsAt

-----------------------------------------------------------------------------
(* The replies: RepliesOK is preserved.                                    *)

RepliesTyped ==
  /\ served \in [Hosts -> Nat] /\ stream \in [Hosts -> Seq(Positions \X Parts)]
  /\ state \in [Hosts -> Parts] /\ taken \in [Hosts -> Nat] /\ processed \in [Hosts -> Nat]

RepliesFor(h) ==
  /\ Reads(Items[h], processed[h], state[h], taken[h])
  /\ \E m \in 0..Len(Items[h]) :
        Answered(Asking, Replying, Items[h], sent[h], served[h], stream[h],
                 processed[h], Place(state[h], taken[h]), m)

LEMMA RepliesParts == RepliesOK <=> RepliesTyped /\ \A h \in Hosts : RepliesFor(h)
BY DEF RepliesOK, RepliesTyped, RepliesFor

\* A connection of which nothing changed but that more was written.
LEMMA RepliesKept ==
  ASSUME InputsOK, RepliesOK, UNCHANGED inputVars, NEW g \in Hosts, sent[g] \in Seq(Positions),
         sent'[g] \in Seq(Positions), served[g] \in Nat,
         Len(sent[g]) <= Len(sent'[g]), served'[g] = served[g], stream'[g] = stream[g], state'[g] = state[g],
         taken'[g] = taken[g], processed'[g] = processed[g]
  PROVE  RepliesFor(g)'
<1>1. Asking' = Asking /\ Replying' = Replying /\ kind' = kind /\ found' = found /\ dataLen' = dataLen
  BY SameInputs DEF inputVars
<1>2. /\ Reads(Items[g], processed[g], state[g], taken[g])
      /\ \E m \in 0..Len(Items[g]) :
            Answered(Asking, Replying, Items[g], sent[g], served[g], stream[g],
                     processed[g], Place(state[g], taken[g]), m)
  BY DEF RepliesOK
<1>3. PICK m \in 0..Len(Items[g]) :
            Answered(Asking, Replying, Items[g], sent[g], served[g], stream[g],
                     processed[g], Place(state[g], taken[g]), m)
  BY <1>2
<1>4. PICK a \in Nat, b \in Nat : a = Len(sent[g]) /\ b = Len(sent'[g])
  OBVIOUS
<1>5. served[g] <= a
  BY <1>3, <1>4 DEF Answered
<1>6. served[g] <= b
  BY <1>4, <1>5
<1>7. Answered(Asking, Replying, Items[g], sent'[g], served[g], stream[g],
               processed[g], Place(state[g], taken[g]), m)
  BY <1>3, <1>4, <1>6 DEF Answered
<1>8. Reads(Items[g], processed[g], state[g], taken[g])'
  BY <1>1, <1>2 DEF Reads
<1>9. Place(state[g], taken[g])' = Place(state[g], taken[g])
  BY DEF Place
<1>. QED
  BY <1>1, <1>7, <1>8, <1>9 DEF RepliesFor

LEMMA RepliesSame ==
  ASSUME InputsOK, RequestsOK, RepliesOK, RequestsOK',
         UNCHANGED <<inputVars, served, stream, state, taken, processed>>,
         \A g \in Hosts : Len(sent[g]) <= Len(sent'[g])
  PROVE  RepliesOK'
<1>1. ASSUME NEW g \in Hosts PROVE RepliesFor(g)'
  <2>1. sent[g] \in Seq(Positions) /\ sent'[g] \in Seq(Positions) /\ served[g] \in Nat
    BY DEF RequestsOK, RepliesOK
  <2>2. UNCHANGED inputVars
    OBVIOUS
  <2>. QED
    BY <2>1, <2>2, RepliesKept
<1>2. RepliesTyped'
  BY DEF RepliesOK, RepliesTyped
<1>. QED
  BY <1>1, <1>2, RepliesParts DEF RepliesOK, RepliesTyped, RepliesFor

LEMMA RepliesAt ==
  ASSUME InputsOK, RequestsOK, RepliesOK, UNCHANGED inputVars, sent' = sent, NEW h \in Hosts,
         RepliesTyped', RepliesFor(h)',
         \A g \in Hosts : g # h => /\ served'[g] = served[g] /\ stream'[g] = stream[g] /\ state'[g] = state[g]
                                   /\ taken'[g] = taken[g] /\ processed'[g] = processed[g]
  PROVE  RepliesOK'
<1>1. ASSUME NEW g \in Hosts PROVE RepliesFor(g)'
  <2>1. CASE g = h
    BY <2>1
  <2>2. CASE g # h
    <3>1. sent[g] \in Seq(Positions) /\ sent'[g] \in Seq(Positions) /\ served[g] \in Nat
      BY DEF RequestsOK, RepliesOK
    <3>2. Len(sent[g]) <= Len(sent'[g])
      BY <3>1
    <3>. QED
      BY <2>2, <3>1, <3>2, RepliesKept
  <2>. QED
    BY <2>1, <2>2
<1>. QED
  BY <1>1 DEF RepliesOK, RepliesTyped, RepliesFor

LEMMA PlaceType ==
  ASSUME NEW q \in Parts, NEW t \in Nat
  PROVE  Place(q, t) \in Nat
BY SizeAssumption DEF Place, Parts

\* The unit behind what was answered begins the request that comes next.
LEMMA NextIs ==
  ASSUME InputsOK, RequestsOK, RepliesOK, NEW h \in Hosts, NEW m \in 0..Len(Items[h]),
         served[h] = Len(Part(Asking, Items[h], 0, m)), served[h] < Len(sent[h])
  PROVE  m < Len(Items[h]) /\ NextAsked(h) = Items[h][m + 1]
<1>1. PICK s \in Seq(Positions) : s = Items[h]
  BY ItemsAssumption
<1>2. PICK A \in Pieces(Positions, Positions) : A = Asking /\ Naming(A, Positions)
  BY RequestTypes
<1>3. PICK sn \in Seq(Positions), ob \in Seq(Positions) : sn = sent[h] /\ ob = outBuffer[h]
  BY DEF RequestsOK
<1>4. PICK c, ow, ld : c = curr[h] /\ ow = opWrite[h] /\ ld = loaded[h]
  OBVIOUS
<1>5. Sends(A, s, c, ob, sn, ow, ld)
  BY <1>1, <1>2, <1>3, <1>4 DEF RequestsOK
<1>6. Begins(sn, Chain(A, s))
  BY <1>5, SentIs
<1>8. m \in 0..Len(s) /\ Len(Part(A, s, 0, m)) < Len(sn) /\ served[h] = Len(Part(A, s, 0, m))
  BY <1>1, <1>2, <1>3
<1>9. m < Len(s) /\ sn[Len(Part(A, s, 0, m)) + 1] = s[m + 1]
  BY <1>2, <1>6, <1>8, NextRequest
<1>. QED
  BY <1>1, <1>3, <1>8, <1>9 DEF NextAsked

LEMMA RepliesServe ==
  ASSUME InputsOK, RequestsOK, RepliesOK, NEW h \in Hosts, Serve(h)
  PROVE  RepliesOK'
<1>0. /\ UNCHANGED inputVars /\ sent' = sent /\ state' = state /\ taken' = taken /\ processed' = processed
      /\ Asking' = Asking /\ Replying' = Replying
  BY SameInputs DEF Serve, requestVars, replyVars
<1>1. RepliesTyped /\ Reads(Items[h], processed[h], state[h], taken[h])
  BY DEF RepliesOK, RepliesTyped
<1>2. PICK m \in 0..Len(Items[h]) :
         Answered(Asking, Replying, Items[h], sent[h], served[h], stream[h],
                  processed[h], Place(state[h], taken[h]), m)
  BY DEF RepliesOK
<1>3. PICK s \in Seq(Positions) : s = Items[h]
  BY ItemsAssumption
<1>4. PICK A \in Pieces(Positions, Positions) :
         A = Asking /\ \A i \in Positions : Len(A[i]) = ReqLen(i) /\ ReqLen(i) \in Nat \ {0}
  BY RequestTypes
<1> DEFINE T == Positions \X Parts
<1>5. PICK V \in Pieces(Positions, T) : V = Replying /\ \A i \in Positions : V[i] = Reply(i)
  BY ReplyTypes
<1>6. PICK sn \in Seq(Positions), st \in Seq(T), sv \in Nat, n \in Nat :
         sn = sent[h] /\ st = stream[h] /\ sv = served[h] /\ n = processed[h]
  BY <1>1 DEF RequestsOK, RepliesTyped
<1> HIDE DEF T
<1>7. PICK p \in Nat : p = Place(state[h], taken[h])
  BY <1>1, PlaceType DEF RepliesTyped
<1>8. Answered(A, V, s, sn, sv, st, n, p, m)
  BY <1>2, <1>3, <1>4, <1>5, <1>6, <1>7
<1>9. served[h] = Len(Part(Asking, Items[h], 0, m)) /\ served[h] < Len(sent[h])
  BY <1>2 DEF Answered, Serve, Asked
<1>10. m < Len(s) /\ NextAsked(h) = s[m + 1]
  BY <1>3, <1>9, NextIs
<1>11. PICK k \in 1..Len(s) : k = m + 1 /\ m \in Nat
  BY <1>3, <1>10
<1>12. s[k] \in Positions /\ NextAsked(h) = s[k] /\ k = m + 1 /\ m \in Nat
  BY <1>10, <1>11
<1>13. ReqLen(NextAsked(h)) = Len(A[s[k]]) /\ Reply(NextAsked(h)) = V[s[k]] /\ Len(A[s[k]]) \in Nat
  BY <1>4, <1>5, <1>12
<1>14. Len(sn) \in Nat /\ sv + Len(A[s[k]]) <= Len(sn)
  BY <1>6, <1>13 DEF Serve, Asked
<1>15. Answered(A, V, s, sn, sv + Len(A[s[k]]), st \o V[s[k]], n, p, k)
  BY <1>8, <1>12, <1>14, AnsweredMore
<1>16. V[s[k]] \in Seq(T)
  BY <1>12 DEF Pieces
<1>17. st \o V[s[k]] \in Seq(T) /\ sv + Len(A[s[k]]) \in Nat
  BY <1>13, <1>16
<1>18. PICK x \in Seq(T), y \in Nat : x = st \o V[s[k]] /\ y = sv + Len(A[s[k]])
  BY <1>17
<1>19. stream' = [stream EXCEPT ![h] = x] /\ served' = [served EXCEPT ![h] = y]
  BY <1>6, <1>13, <1>18 DEF Serve
<1>20. served \in [Hosts -> Nat] /\ stream \in [Hosts -> Seq(T)]
  BY <1>1 DEF RepliesTyped, T
<1>21. /\ served' \in [Hosts -> Nat] /\ stream' \in [Hosts -> Seq(T)] /\ stream'[h] = x /\ served'[h] = y
       /\ \A g \in Hosts : g # h => served'[g] = served[g] /\ stream'[g] = stream[g]
  BY <1>19, <1>20
<1>22. RepliesTyped'
  BY <1>0, <1>1, <1>21 DEF RepliesTyped, T
<1>23. k \in 0..Len(Items[h])
  BY <1>3
<1>24. Answered(Asking, Replying, Items[h], sent[h], y, x, processed[h], Place(state[h], taken[h]), k)
  BY <1>3, <1>4, <1>5, <1>6, <1>7, <1>15, <1>18
<1>25. Reads(Items[h], processed[h], state[h], taken[h])'
  BY <1>0, <1>1 DEF Reads, inputVars
<1>26. Place(state[h], taken[h])' = Place(state[h], taken[h])
  BY <1>0 DEF Place
<1>27. RepliesFor(h)'
  BY <1>0, <1>21, <1>23, <1>24, <1>25, <1>26 DEF RepliesFor
<1>. QED
  BY <1>0, <1>21, <1>22, <1>27, RepliesAt

\* Part q of the reply to request i, and how long it is.
Stage(i, q, n) ==
  \/ q = "head" /\ n = PartLen
  \/ q = "error" /\ ~found[i] /\ n = PartLen
  \/ q = "fixed" /\ found[i] /\ kind # "delete" /\ n = PartLen
  \/ q = "data" /\ found[i] /\ kind = "get" /\ n = dataLen[i]

\* The part that follows part q.
NextPart(i, q, r) ==
  \/ q = "head" /\ r = "error" /\ ~found[i]
  \/ q = "head" /\ r = "fixed" /\ found[i] /\ kind # "delete"
  \/ q = "fixed" /\ r = "data" /\ found[i] /\ kind = "get"

\* What a reply may leave at its position of the list and in the local cache.
Outcome(i, o, d) ==
  \/ o = Answer(i) /\ found[i] /\ (kind \in {"update", "delete"} => d = TRUE)
  \/ o = Nothing /\ (kind \in {"update", "delete"} => d = FALSE)

\* k units of a part of n are read.
Taking(h, k, n) ==
  /\ k \in 1..Len(stream[h]) /\ taken[h] + k <= n
  /\ stream' = [stream EXCEPT ![h] = Rest(stream[h], k)]
  /\ taken' = [taken EXCEPT ![h] = IF taken[h] + k = n THEN 0 ELSE taken[h] + k]

\* A part is still not whole, is followed by another one, or was the last.
Responds(h, i, k, n) ==
  \/ taken[h] + k # n /\ Stay
  \/ taken[h] + k = n /\ \E r \in Parts : NextPart(i, state[h], r) /\ GoTo(h, r)
  \/ /\ taken[h] + k = n /\ LastPart(i, state[h], n)
     /\ \E o \in Entries, d \in BOOLEAN : Outcome(i, o, d) /\ Processed(h, o, d)

\* The unit that comes next on the stream is the one the client is about to read.
LEMMA NextUnit ==
  ASSUME InputsOK, RequestsOK, RepliesOK, NEW h \in Hosts, stream[h] # <<>>
  PROVE  /\ processed[h] < Len(Items[h]) /\ Items[h][processed[h] + 1] \in Positions
         /\ Has(Items[h][processed[h] + 1], state[h], taken[h])
              => Head(stream[h]) = <<Items[h][processed[h] + 1], state[h]>>
<1>1. RepliesTyped
  BY DEF RepliesOK, RepliesTyped
<1>2. PICK m \in 0..Len(Items[h]) :
         Answered(Asking, Replying, Items[h], sent[h], served[h], stream[h],
                  processed[h], Place(state[h], taken[h]), m)
  BY DEF RepliesOK
<1>3. PICK s \in Seq(Positions) : s = Items[h]
  BY ItemsAssumption
<1> DEFINE T == Positions \X Parts
<1>5. PICK V \in Pieces(Positions, T) : V = Replying /\ \A i \in Positions : V[i] = Reply(i)
  BY ReplyTypes
<1>6. PICK st \in Seq(T), n \in Nat, q \in Parts, t \in Nat :
         st = stream[h] /\ n = processed[h] /\ q = state[h] /\ t = taken[h]
  BY <1>1 DEF RepliesTyped
<1> HIDE DEF T
<1>7. PICK p \in Nat : p = Place(q, t)
  BY PlaceType
<1>8. PICK A, sn, sv : A = Asking /\ sn = sent[h] /\ sv = served[h]
  OBVIOUS
<1>9. Answered(A, V, s, sn, sv, st, n, p, m) /\ m \in 0..Len(s)
  BY <1>2, <1>3, <1>5, <1>6, <1>7, <1>8
<1>10. st # <<>> => /\ n < m /\ n < Len(s) /\ s[n + 1] \in Positions
                    /\ p < Len(V[s[n + 1]]) => Head(st) = V[s[n + 1]][p + 1]
  BY <1>9, ReadsNext
<1>11. /\ n < m /\ n < Len(s) /\ s[n + 1] \in Positions
       /\ p < Len(V[s[n + 1]]) => Head(st) = V[s[n + 1]][p + 1]
  BY <1>6, <1>10
<1>12. PICK i \in Positions : i = s[n + 1]
  BY <1>11
<1>13. ASSUME Has(i, q, t) PROVE Head(st) = <<i, q>>
  <2>1. Place(q, t) < Len(Reply(i)) /\ Reply(i)[Place(q, t) + 1] = <<i, q>>
    BY <1>13, ReplyIs
  <2>2. p < Len(V[i]) /\ V[i][p + 1] = <<i, q>>
    BY <1>5, <1>7, <2>1
  <2>. QED
    BY <1>11, <1>12, <2>2
<1>. QED
  BY <1>3, <1>6, <1>11, <1>12, <1>13

LEMMA ReadPartIs ==
  ASSUME InputsOK, RequestsOK, RepliesOK, NEW h \in Hosts, stream[h] # <<>>, NEW n \in Nat,
         NEW i, i = Items[h][processed[h] + 1], Stage(i, state[h], n), ReadPart(h, n)
  PROVE  /\ i \in Positions
         /\ \E k \in Nat : Taking(h, k, n) /\ (Whole(h) <=> taken[h] + k = n)
         /\ Head(stream[h]) = <<i, state[h]>>
<1>1. /\ stream \in [Hosts -> Seq(Positions \X Parts)] /\ taken \in [Hosts -> Nat]
      /\ Reads(Items[h], processed[h], state[h], taken[h])
  BY DEF RepliesOK
<1>2. PICK t \in Nat, l \in Nat : t = taken[h] /\ l = Len(stream[h])
  BY <1>1
<1>3. PICK k \in 1..Min({n - taken[h], Len(stream[h])}) :
    /\ stream' = [stream EXCEPT ![h] = SubSeq(@, k + 1, Len(@))]
    /\ taken' = [taken EXCEPT ![h] = IF @ + k = n THEN 0 ELSE @ + k]
  BY DEF ReadPart
<1>4. n - t \in Nat
  <2>1. state[h] = "head" => t < PartLen
    BY <1>1, <1>2 DEF Reads
  <2>2. state[h] = "error" => t < PartLen
    BY <1>1, <1>2 DEF Reads
  <2>3. state[h] = "fixed" => t < PartLen
    BY <1>1, <1>2 DEF Reads
  <2>4. state[h] = "data" => t < dataLen[i] \/ t = 0
    BY <1>1, <1>2 DEF Reads
  <2>5. t < n \/ t = 0
    BY <2>1, <2>2, <2>3, <2>4 DEF Stage
  <2>. QED
    BY <2>5
<1>5. Min({n - t, l}) \in {n - t, l} /\ Min({n - t, l}) <= n - t /\ Min({n - t, l}) <= l
  <2>1. PICK a \in Nat : a = n - t
    BY <1>4
  <2>2. Min({a, l}) \in {a, l} /\ Min({a, l}) <= a /\ Min({a, l}) <= l
    <3>1. CASE a <= l
      <4>1. PICK x \in {a, l} : x = a /\ \A y \in {a, l} : x <= y
        BY <3>1
      <4>2. {a, l} \in SUBSET Nat
        OBVIOUS
      <4>3. Min({a, l}) = a
        BY <4>1, <4>2, MinIs
      <4>. QED
        BY <3>1, <4>3
    <3>2. CASE l <= a
      <4>1. PICK x \in {a, l} : x = l /\ \A y \in {a, l} : x <= y
        BY <3>2
      <4>2. {a, l} \in SUBSET Nat
        OBVIOUS
      <4>3. Min({a, l}) = l
        BY <4>1, <4>2, MinIs
      <4>. QED
        BY <3>2, <4>3
    <3>. QED
      BY <3>1, <3>2
  <2>. QED
    BY <2>1, <2>2
<1>6. k \in 1..l /\ t + k <= n /\ k \in Nat /\ t < n
  <2>1. PICK z \in Nat : z = Min({n - t, l})
    BY <1>4, <1>5
  <2>2. k \in 1..z
    BY <1>2, <1>3, <2>1
  <2>3. z <= l /\ z <= n - t
    BY <1>5, <2>1
  <2>. QED
    BY <2>2, <2>3
<1>7. taken'[h] = IF t + k = n THEN 0 ELSE t + k
  BY <1>1, <1>2, <1>3
<1>8. Whole(h) <=> taken[h] + k = n
  BY <1>2, <1>6, <1>7 DEF Whole
<1>9. Taking(h, k, n)
  BY <1>2, <1>3, <1>6 DEF Taking, Rest
<1>10. Has(i, state[h], taken[h])
  BY <1>2, <1>6 DEF Stage, Has
<1>. QED
  BY <1>6, <1>8, <1>9, <1>10, NextUnit

LEMMA ResponseGet ==
  ASSUME InputsOK, RequestsOK, RepliesOK, NEW h \in Hosts, stream[h] # <<>>,
         NEW i \in Positions, i = Items[h][processed[h] + 1], kind = "get", get_processResponse(h)
  PROVE  \E k \in Nat, n \in Nat : Stage(i, state[h], n) /\ Taking(h, k, n) /\ Responds(h, i, k, n)
<1>0. /\ PartLen \in Nat /\ dataLen[i] \in Nat /\ found[i] \in BOOLEAN
      /\ Answer(i) \in Entries /\ Nothing \in Entries
      /\ Reads(Items[h], processed[h], state[h], taken[h])
  BY SizeAssumption DEF InputsOK, Entries, Answer, RepliesOK
<1>1. CASE /\ state[h] = "head" /\ ReadPart(h, PartLen)
           /\ IF Whole(h) THEN GoTo(h, IF IsError(h) THEN "error" ELSE "fixed") ELSE Stay
  <2>1. Stage(i, state[h], PartLen)
    BY <1>1 DEF Stage
  <2>2. PICK k \in Nat : Taking(h, k, PartLen) /\ (Whole(h) <=> taken[h] + k = PartLen)
    BY <1>0, <1>1, <2>1, ReadPartIs
  <2>3. IsError(h) <=> ~found[i]
    <3>1. Head(stream[h]) = <<i, state[h]>>
      BY <1>0, <1>1, <2>1, ReadPartIs
    <3>. QED
      BY <3>1 DEF IsError
  <2>4. Responds(h, i, k, PartLen)
    BY <1>1, <2>2, <2>3 DEF Responds, NextPart, Parts
  <2>. QED
    BY <1>0, <2>1, <2>2, <2>4
<1>2. CASE /\ state[h] = "fixed" /\ ReadPart(h, PartLen)
           /\ IF Whole(h) THEN GoTo(h, "data") ELSE Stay
  <2>1. Stage(i, state[h], PartLen)
    BY <1>0, <1>2 DEF Stage, Reads
  <2>2. PICK k \in Nat : Taking(h, k, PartLen) /\ (Whole(h) <=> taken[h] + k = PartLen)
    BY <1>0, <1>2, <2>1, ReadPartIs
  <2>3. found[i]
    BY <1>2, <2>1 DEF Stage
  <2>4. Responds(h, i, k, PartLen)
    BY <1>2, <2>2, <2>3 DEF Responds, NextPart, Parts
  <2>. QED
    BY <1>0, <2>1, <2>2, <2>4
<1>3. CASE /\ state[h] = "error" /\ ReadPart(h, PartLen)
           /\ IF Whole(h) THEN Processed(h, Nothing, FALSE) ELSE Stay
  <2>1. Stage(i, state[h], PartLen)
    BY <1>0, <1>3 DEF Stage, Reads
  <2>2. PICK k \in Nat : Taking(h, k, PartLen) /\ (Whole(h) <=> taken[h] + k = PartLen)
    BY <1>0, <1>3, <2>1, ReadPartIs
  <2>3. LastPart(i, state[h], PartLen) /\ Outcome(i, Nothing, FALSE)
    BY <1>3, <2>1 DEF Stage, LastPart, Outcome
  <2>4. Responds(h, i, k, PartLen)
    BY <1>0, <1>3, <2>2, <2>3 DEF Responds
  <2>. QED
    BY <1>0, <2>1, <2>2, <2>4
<1>4. CASE /\ state[h] = "data" /\ ReadPart(h, dataLen[i])
           /\ IF Whole(h) THEN Processed(h, Answer(Head(stream[h])[1]), FALSE) ELSE Stay
  <2>1. Stage(i, state[h], dataLen[i])
    BY <1>0, <1>4 DEF Stage, Reads
  <2>2. PICK k \in Nat : Taking(h, k, dataLen[i]) /\ (Whole(h) <=> taken[h] + k = dataLen[i])
    BY <1>0, <1>4, <2>1, ReadPartIs
  <2>3. Head(stream[h])[1] = i
    <3>1. Head(stream[h]) = <<i, state[h]>>
      BY <1>0, <1>4, <2>1, ReadPartIs
    <3>. QED
      BY <3>1
  <2>4. LastPart(i, state[h], dataLen[i]) /\ Outcome(i, Answer(i), FALSE)
    BY <1>4, <2>1 DEF Stage, LastPart, Outcome
  <2>5. Responds(h, i, k, dataLen[i])
    BY <1>0, <1>4, <2>2, <2>3, <2>4 DEF Responds
  <2>. QED
    BY <1>0, <2>1, <2>2, <2>5
<1>. QED
  BY <1>1, <1>2, <1>3, <1>4 DEF get_processResponse

\* Reading an answer or an error that is the rest of a reply.
LEMMA ResponseLast ==
  ASSUME InputsOK, RequestsOK, RepliesOK, NEW h \in Hosts, stream[h] # <<>>,
         NEW i \in Positions, i = Items[h][processed[h] + 1],
         Stage(i, state[h], PartLen), LastPart(i, state[h], PartLen), ReadPart(h, PartLen), NEW d \in BOOLEAN,
         kind \in {"update", "delete"} => d = found[i],
         IF Whole(h) THEN Processed(h, IF found[i] THEN Answer(Head(stream[h])[1]) ELSE Nothing, d) ELSE Stay
  PROVE  \E k \in Nat, n \in Nat : Stage(i, state[h], n) /\ Taking(h, k, n) /\ Responds(h, i, k, n)
<1>0. /\ PartLen \in Nat /\ found[i] \in BOOLEAN /\ Answer(i) \in Entries /\ Nothing \in Entries
  BY SizeAssumption DEF InputsOK, Entries, Answer
<1>1. PICK k \in Nat : Taking(h, k, PartLen) /\ (Whole(h) <=> taken[h] + k = PartLen)
  BY <1>0, ReadPartIs
<1>2. Head(stream[h])[1] = i
  <2>1. Head(stream[h]) = <<i, state[h]>>
    BY <1>0, ReadPartIs
  <2>. QED
    BY <2>1
<1>3. PICK o \in Entries : o = IF found[i] THEN Answer(i) ELSE Nothing
  BY <1>0
<1>4. Outcome(i, o, d)
  BY <1>0, <1>3 DEF Outcome
<1>5. Whole(h) => Processed(h, o, d)
  BY <1>2, <1>3
<1>6. Responds(h, i, k, PartLen)
  BY <1>1, <1>4, <1>5 DEF Responds
<1>. QED
  BY <1>0, <1>1, <1>6

\* Reading the head of a reply that goes on.
LEMMA ResponseHead ==
  ASSUME InputsOK, RequestsOK, RepliesOK, NEW h \in Hosts, stream[h] # <<>>,
         NEW i \in Positions, i = Items[h][processed[h] + 1],
         state[h] = "head", ReadPart(h, PartLen), ~found[i] \/ kind # "delete",
         IF Whole(h) THEN GoTo(h, IF ~found[i] THEN "error" ELSE "fixed") ELSE Stay
  PROVE  \E k \in Nat, n \in Nat : Stage(i, state[h], n) /\ Taking(h, k, n) /\ Responds(h, i, k, n)
<1>0. PartLen \in Nat /\ found[i] \in BOOLEAN
  BY SizeAssumption DEF InputsOK
<1>1. Stage(i, state[h], PartLen)
  BY DEF Stage
<1>2. PICK k \in Nat : Taking(h, k, PartLen) /\ (Whole(h) <=> taken[h] + k = PartLen)
  BY <1>0, <1>1, ReadPartIs
<1>3. Responds(h, i, k, PartLen)
  BY <1>0, <1>2 DEF Responds, NextPart, Parts
<1>. QED
  BY <1>0, <1>1, <1>2, <1>3

\* The category and type of a head are those of the reply it begins.
LEMMA HeadTells ==
  ASSUME InputsOK, RequestsOK, RepliesOK, NEW h \in Hosts, stream[h] # <<>>,
         NEW i \in Positions, i = Items[h][processed[h] + 1], state[h] = "head", ReadPart(h, PartLen)
  PROVE  IsError(h) <=> ~found[i]
<1>1. Stage(i, state[h], PartLen) /\ PartLen \in Nat
  BY SizeAssumption DEF Stage
<1>2. Head(stream[h]) = <<i, state[h]>>
  BY <1>1, ReadPartIs
<1>. QED
  BY <1>2 DEF IsError

LEMMA ResponseUpdate ==
  ASSUME InputsOK, RequestsOK, RepliesOK, NEW h \in Hosts, stream[h] # <<>>,
         NEW i \in Positions, i = Items[h][processed[h] + 1],
         \/ kind = "update" /\ update_processResponse(h)
         \/ kind = "expiration" /\ expiration_processResponse(h)
  PROVE  \E k \in Nat, n \in Nat : Stage(i, state[h], n) /\ Taking(h, k, n) /\ Responds(h, i, k, n)
<1>0. Reads(Items[h], processed[h], state[h], taken[h]) /\ found[i] \in BOOLEAN
  BY DEF RepliesOK, InputsOK
<1>1. CASE /\ state[h] = "head" /\ ReadPart(h, PartLen)
           /\ IF Whole(h) THEN GoTo(h, IF IsError(h) THEN "error" ELSE "fixed") ELSE Stay
  <2>1. IsError(h) <=> ~found[i]
    BY <1>1, HeadTells
  <2>2. kind # "delete"
    OBVIOUS
  <2>3. IF Whole(h) THEN GoTo(h, IF ~found[i] THEN "error" ELSE "fixed") ELSE Stay
    BY <1>1, <2>1
  <2>. QED
    BY <1>1, <2>2, <2>3, ResponseHead
<1>2. CASE /\ state[h] = "fixed" /\ ReadPart(h, PartLen)
           /\ IF Whole(h) THEN Processed(h, Answer(Head(stream[h])[1]), kind = "update") ELSE Stay
  <2>1. Stage(i, state[h], PartLen) /\ found[i]
    BY <1>0, <1>2 DEF Stage, Reads
  <2>2. LastPart(i, state[h], PartLen)
    BY <1>2, <2>1 DEF LastPart
  <2>3. PICK d \in BOOLEAN : d = (kind = "update")
    OBVIOUS
  <2>4. kind \in {"update", "delete"} => d = found[i]
    BY <1>0, <2>1, <2>3
  <2>5. IF Whole(h) THEN Processed(h, IF found[i] THEN Answer(Head(stream[h])[1]) ELSE Nothing, d) ELSE Stay
    BY <1>2, <2>1, <2>3
  <2>. QED
    BY <1>2, <2>1, <2>2, <2>4, <2>5, ResponseLast
<1>3. CASE /\ state[h] = "error" /\ ReadPart(h, PartLen)
           /\ IF Whole(h) THEN Processed(h, Nothing, kind = "expiration") ELSE Stay
  <2>1. Stage(i, state[h], PartLen) /\ ~found[i]
    BY <1>0, <1>3 DEF Stage, Reads
  <2>2. LastPart(i, state[h], PartLen)
    BY <1>3, <2>1 DEF LastPart
  <2>3. PICK d \in BOOLEAN : d = (kind = "expiration")
    OBVIOUS
  <2>4. kind \in {"update", "delete"} => d = found[i]
    BY <1>0, <2>1, <2>3
  <2>5. IF Whole(h) THEN Processed(h, IF found[i] THEN Answer(Head(stream[h])[1]) ELSE Nothing, d) ELSE Stay
    BY <1>3, <2>1, <2>3
  <2>. QED
    BY <1>3, <2>1, <2>2, <2>4, <2>5, ResponseLast
<1>4. CASE kind = "update" /\ update_processResponse(h)
  <2>1. (kind = "update") = TRUE /\ (kind = "expiration") = FALSE
    BY <1>4
  <2>. QED
    BY <1>1, <1>2, <1>3, <1>4, <2>1 DEF update_processResponse
<1>5. CASE kind = "expiration" /\ expiration_processResponse(h)
  <2>1. (kind = "update") = FALSE /\ (kind = "expiration") = TRUE
    BY <1>5
  <2>. QED
    BY <1>1, <1>2, <1>3, <1>5, <2>1 DEF expiration_processResponse
<1>. QED
  BY <1>4, <1>5

LEMMA ResponseDelete ==
  ASSUME InputsOK, RequestsOK, RepliesOK, NEW h \in Hosts, stream[h] # <<>>,
         NEW i \in Positions, i = Items[h][processed[h] + 1], kind = "delete", delete_processResponse(h)
  PROVE  \E k \in Nat, n \in Nat : Stage(i, state[h], n) /\ Taking(h, k, n) /\ Responds(h, i, k, n)
<1>0. Reads(Items[h], processed[h], state[h], taken[h]) /\ found[i] \in BOOLEAN
  BY DEF RepliesOK, InputsOK
<1>1. CASE /\ state[h] = "head" /\ ReadPart(h, PartLen)
           /\ CASE ~Whole(h) -> Stay
                [] Whole(h) /\ IsError(h) -> GoTo(h, "error")
                [] OTHER -> Processed(h, Answer(Head(stream[h])[1]), TRUE)
  <2>1. IsError(h) <=> ~found[i]
    BY <1>1, HeadTells
  <2>2. CASE ~found[i]
    <3>1. IF Whole(h) THEN GoTo(h, IF ~found[i] THEN "error" ELSE "fixed") ELSE Stay
      BY <1>1, <2>1, <2>2
    <3>. QED
      BY <1>1, <2>2, <3>1, ResponseHead
  <2>3. CASE found[i]
    <3>1. Stage(i, state[h], PartLen) /\ LastPart(i, state[h], PartLen)
      BY <1>1, <2>3 DEF Stage, LastPart
    <3>2. IF Whole(h) THEN Processed(h, IF found[i] THEN Answer(Head(stream[h])[1]) ELSE Nothing, TRUE) ELSE Stay
      BY <1>1, <2>1, <2>3
    <3>3. PICK d \in BOOLEAN : d = TRUE
      OBVIOUS
    <3>4. kind \in {"update", "delete"} => d = found[i]
      BY <1>0, <2>3, <3>3
    <3>. QED
      BY <1>1, <3>1, <3>2, <3>3, <3>4, ResponseLast
  <2>. QED
    BY <2>2, <2>3
<1>2. CASE /\ state[h] = "error" /\ ReadPart(h, PartLen)
           /\ IF Whole(h) THEN Processed(h, Nothing, FALSE) ELSE Stay
  <2>1. Stage(i, state[h], PartLen) /\ ~found[i]
    BY <1>0, <1>2 DEF Stage, Reads
  <2>2. LastPart(i, state[h], PartLen)
    BY <1>2, <2>1 DEF LastPart
  <2>3. PICK d \in BOOLEAN : d = FALSE
    OBVIOUS
  <2>4. kind \in {"update", "delete"} => d = found[i]
    BY <1>0, <2>1, <2>3
  <2>5. IF Whole(h) THEN Processed(h, IF found[i] THEN Answer(Head(stream[h])[1]) ELSE Nothing, d) ELSE Stay
    BY <1>2, <2>1, <2>3
  <2>. QED
    BY <1>2, <2>1, <2>2, <2>4, <2>5, ResponseLast
<1>. QED
  BY <1>1, <1>2 DEF delete_processResponse

\* Every handler does one of three things with the units it reads.
LEMMA ResponseIs ==
  ASSUME InputsOK, RequestsOK, RepliesOK, NEW h \in Hosts, processResponse(h)
  PROVE  \E i \in Positions, k \in Nat, n \in Nat :
            /\ i = Items[h][processed[h] + 1] /\ processed[h] < Len(Items[h])
            /\ Stage(i, state[h], n) /\ Taking(h, k, n) /\ Responds(h, i, k, n)
<1>1. stream[h] # <<>>
  BY DEF processResponse
<1>2. processed[h] < Len(Items[h]) /\ Items[h][processed[h] + 1] \in Positions
  BY <1>1, NextUnit
<1>3. PICK i \in Positions : i = Items[h][processed[h] + 1]
  BY <1>2
<1>4. \E k \in Nat, n \in Nat : Stage(i, state[h], n) /\ Taking(h, k, n) /\ Responds(h, i, k, n)
  <2>1. CASE kind = "get" /\ get_processResponse(h)
    BY <1>1, <1>3, <2>1, ResponseGet
  <2>2. CASE kind = "delete" /\ delete_processResponse(h)
    BY <1>1, <1>3, <2>2, ResponseDelete
  <2>3. CASE \/ kind = "update" /\ update_processResponse(h)
             \/ kind = "expiration" /\ expiration_processResponse(h)
    BY <1>1, <1>3, <2>3, ResponseUpdate
  <2>. QED
    BY <2>1, <2>2, <2>3 DEF processResponse
<1>. QED
  BY <1>2, <1>3, <1>4

LEMMA RepliesResponse ==
  ASSUME InputsOK, RequestsOK, RepliesOK, NEW h \in Hosts, UNCHANGED inputVars, sent' = sent, served' = served,
         NEW i \in Positions, NEW k \in Nat, NEW n \in Nat,
         i = Items[h][processed[h] + 1], processed[h] < Len(Items[h]),
         Stage(i, state[h], n), Taking(h, k, n), Responds(h, i, k, n)
  PROVE  RepliesOK'
<1>0. Asking' = Asking /\ Replying' = Replying /\ found' = found /\ kind' = kind /\ dataLen' = dataLen
  BY SameInputs DEF inputVars
<1>1. RepliesTyped
  BY DEF RepliesOK, RepliesTyped
<1>2. PICK m \in 0..Len(Items[h]) :
         Answered(Asking, Replying, Items[h], sent[h], served[h], stream[h],
                  processed[h], Place(state[h], taken[h]), m)
  BY DEF RepliesOK
<1>3. PICK s \in Seq(Positions) : s = Items[h]
  BY ItemsAssumption
<1> DEFINE T == Positions \X Parts
<1>4. PICK V \in Pieces(Positions, T) : V = Replying /\ \A j \in Positions : V[j] = Reply(j)
  BY ReplyTypes
<1>5. PICK st \in Seq(T), c \in Nat, q \in Parts, t \in Nat :
         st = stream[h] /\ c = processed[h] /\ q = state[h] /\ t = taken[h]
  BY <1>1 DEF RepliesTyped
<1> HIDE DEF T
<1>6. PICK p \in Nat : p = Place(q, t)
  BY PlaceType
<1>7. PICK A, sn, sv : A = Asking /\ sn = sent[h] /\ sv = served[h]
  OBVIOUS
<1>8. Answered(A, V, s, sn, sv, st, c, p, m) /\ m \in 0..Len(s)
  BY <1>2, <1>3, <1>4, <1>5, <1>6, <1>7
<1>9. k \in 1..Len(st) /\ t + k <= n
  BY <1>5 DEF Taking
<1>10. Answered(A, V, s, sn, sv, Rest(st, k), c, p + k, m)
  BY <1>8, <1>9, ReadsOn
<1>11. Rest(st, k) \in Seq(T)
  <2>1. k \in 0..Len(st)
    BY <1>9
  <2>. QED
    BY <2>1, RestIs
<1>12. PICK x \in Seq(T) : x = Rest(st, k)
  BY <1>11
<1>13. PICK u \in Nat : u = IF t + k = n THEN 0 ELSE t + k
  OBVIOUS
<1>14. stream' = [stream EXCEPT ![h] = x] /\ taken' = [taken EXCEPT ![h] = u]
  BY <1>5, <1>12, <1>13 DEF Taking
<1>15. /\ stream \in [Hosts -> Seq(T)] /\ taken \in [Hosts -> Nat] /\ state \in [Hosts -> Parts]
       /\ processed \in [Hosts -> Nat] /\ served \in [Hosts -> Nat]
  BY <1>1 DEF RepliesTyped, T
<1>16. /\ stream' \in [Hosts -> Seq(T)] /\ taken' \in [Hosts -> Nat] /\ stream'[h] = x /\ taken'[h] = u
       /\ \A g \in Hosts : g # h => stream'[g] = stream[g] /\ taken'[g] = taken[g]
  BY <1>14, <1>15
<1>17. PartLen \in Nat \ {0} /\ dataLen[i] \in Nat /\ found[i] \in BOOLEAN /\ i = s[c + 1] /\ c < Len(s)
  BY <1>3, <1>5, SizeAssumption DEF InputsOK
<1>18. p + k = Place(q, t + k)
  BY <1>6, <1>17 DEF Place, Parts
<1>19. CASE taken[h] + k # n /\ Stay
  <2>1. state' = state /\ processed' = processed /\ u = t + k /\ t + k < n
    BY <1>5, <1>9, <1>13, <1>19 DEF Stay
  <2>2. Reads(s, c, q, t + k)
    BY <1>5, <1>17, <2>1 DEF Stage, Reads
  <2>3. RepliesTyped'
    BY <1>15, <1>16, <2>1 DEF RepliesTyped, T
  <2>4. Reads(Items[h], processed[h], state[h], taken[h])'
    BY <1>0, <1>3, <1>5, <1>16, <2>1, <2>2 DEF Reads
  <2>5. Answered(A, V, s, sn, sv, x, c, Place(q, u), m)
    BY <1>10, <1>12, <1>18, <2>1
  <2>6. Place(state[h], taken[h])' = Place(q, u)
    BY <1>5, <1>16, <2>1 DEF Place
  <2>7. Answered(Asking, Replying, Items[h], sent'[h], served'[h], stream'[h],
                 processed'[h], Place(state[h], taken[h])', m)
    BY <1>3, <1>4, <1>5, <1>7, <1>16, <2>1, <2>5, <2>6
  <2>8. RepliesFor(h)'
    BY <1>0, <2>4, <2>7 DEF RepliesFor
  <2>. QED
    BY <1>16, <2>1, <2>3, <2>8, RepliesAt
<1>20. ASSUME NEW r \in Parts, taken[h] + k = n, NextPart(i, state[h], r), GoTo(h, r) PROVE RepliesOK'
  <2>1. state' = [state EXCEPT ![h] = r] /\ processed' = processed /\ u = 0 /\ t + k = n
    BY <1>5, <1>13, <1>20 DEF GoTo
  <2>0. /\ state'[h] = r /\ state' \in [Hosts -> Parts] /\ processed'[h] = c
        /\ \A g \in Hosts : g # h => state'[g] = state[g] /\ processed'[g] = processed[g]
    BY <1>5, <1>15, <2>1
  <2>2. Reads(s, c, r, 0)
    BY <1>5, <1>17, <1>20 DEF NextPart, Reads
  <2>3. RepliesTyped'
    BY <1>15, <1>16, <2>0, <2>1 DEF RepliesTyped, T
  <2>4. Reads(Items[h], processed[h], state[h], taken[h])'
    BY <1>0, <1>3, <1>16, <2>0, <2>1, <2>2 DEF Reads
  <2>9. p + k = Place(r, 0)
    <3>1. PICK f \in Nat : f = PartLen
      BY <1>17
    <3>2. CASE q = "head" /\ r \in {"error", "fixed"}
      <4>1. n = f
        BY <1>5, <3>1, <3>2 DEF Stage
      <4>2. Place(q, n) = n /\ Place(r, 0) = f
        BY <3>1, <3>2 DEF Place
      <4>. QED
        BY <1>18, <2>1, <4>1, <4>2
    <3>3. CASE q = "fixed" /\ r = "data"
      <4>1. n = f
        BY <1>5, <3>1, <3>3 DEF Stage
      <4>2. Place(q, n) = n + f /\ Place(r, 0) = f + f
        BY <3>1, <3>3 DEF Place
      <4>. QED
        BY <1>18, <2>1, <4>1, <4>2
    <3>. QED
      BY <1>5, <1>20, <3>2, <3>3 DEF NextPart
  <2>5. Answered(A, V, s, sn, sv, x, c, Place(r, u), m)
    BY <1>10, <1>12, <2>1, <2>9
  <2>6. Place(state[h], taken[h])' = Place(r, u)
    BY <1>16, <2>0 DEF Place
  <2>7. Answered(Asking, Replying, Items[h], sent'[h], served'[h], stream'[h],
                 processed'[h], Place(state[h], taken[h])', m)
    BY <1>3, <1>4, <1>7, <1>16, <2>0, <2>5, <2>6
  <2>8. RepliesFor(h)'
    BY <1>0, <2>4, <2>7 DEF RepliesFor
  <2>. QED
    BY <1>16, <2>0, <2>3, <2>8, RepliesAt
<1>21. ASSUME taken[h] + k = n, LastPart(i, state[h], n), NEW o, NEW d, Processed(h, o, d) PROVE RepliesOK'
  <2>1. /\ state' = [state EXCEPT ![h] = "head"] /\ processed' = [processed EXCEPT ![h] = c + 1]
        /\ u = 0 /\ t + k = n /\ c + 1 \in Nat
    BY <1>5, <1>13, <1>21 DEF Processed
  <2>0. /\ state'[h] = "head" /\ state' \in [Hosts -> Parts] /\ processed'[h] = c + 1
        /\ processed' \in [Hosts -> Nat]
        /\ \A g \in Hosts : g # h => state'[g] = state[g] /\ processed'[g] = processed[g]
    BY <1>15, <2>1 DEF Parts
  <2>3. RepliesTyped'
    BY <1>15, <1>16, <2>0 DEF RepliesTyped, T
  <2>4. Reads(Items[h], processed[h], state[h], taken[h])'
    BY <1>16, <1>17, <2>0, <2>1 DEF Reads
  <2>9. p + k = Len(V[s[c + 1]])
    <3>1. Place(q, n) = Len(Reply(i))
      BY <1>5, <1>21, ReplyIs
    <3>. QED
      BY <1>4, <1>17, <1>18, <2>1, <3>1
  <2>10. c < m
    <3>1. st # <<>>
      BY <1>9
    <3>. QED
      BY <1>8, <3>1, ReadsNext
  <2>11. PICK e \in 1..m : e = c + 1
    BY <1>17, <2>10
  <2>12. Answered(A, V, s, sn, sv, x, c, Len(V[s[e]]), m)
    BY <1>10, <1>12, <2>9, <2>11
  <2>13. Answered(A, V, s, sn, sv, x, e, 0, m)
    <3>1. e = c + 1 /\ m \in 0..Len(s)
      BY <1>8, <2>11
    <3>. QED
      BY <2>12, <3>1, ReadsAll
  <2>6. Place(state[h], taken[h])' = 0
    BY <1>16, <2>0, <2>1 DEF Place
  <2>7. Answered(Asking, Replying, Items[h], sent'[h], served'[h], stream'[h],
                 processed'[h], Place(state[h], taken[h])', m)
    BY <1>3, <1>4, <1>7, <1>16, <2>0, <2>6, <2>11, <2>13
  <2>8. RepliesFor(h)'
    BY <1>0, <2>4, <2>7 DEF RepliesFor
  <2>. QED
    BY <1>16, <2>0, <2>3, <2>8, RepliesAt
<1>. QED
  BY <1>19, <1>20, <1>21 DEF Responds

-----------------------------------------------------------------------------
(* Results, connections still waited for, and the end of a call.           *)

LEMMA ResultsSame ==
  ASSUME ResultsOK, UNCHANGED <<inputVars, processed, result, dropped>>
  PROVE  ResultsOK'
<1>1. kind' = kind /\ found' = found /\ processed' = processed /\ result' = result /\ dropped' = dropped
  BY DEF inputVars
<1>. QED
  BY <1>1 DEF ResultsOK

\* A key is asked for once.
LEMMA OnePosition ==
  ASSUME NEW h \in Hosts, NEW g \in Hosts, NEW a \in 1..Len(Items[h]), NEW b \in 1..Len(Items[g]),
         Items[h][a] = Items[g][b]
  PROVE  h = g /\ a = b
<1>0. Items[h] \in Seq(Positions) /\ Items[g] \in Seq(Positions)
  BY ItemsAssumption
<1>1. a \in DOMAIN Items[h] /\ b \in DOMAIN Items[g]
  BY <1>0
<1>2. h = g
  <2>1. Items[h][a] \in Range(Items[h]) /\ Items[g][b] \in Range(Items[g])
    BY <1>1 DEF Range
  <2>. QED
    BY <2>1, ItemsAssumption
<1>3. a = b
  <2>1. IsInjective(Items[h])
    BY ItemsAssumption
  <2>. QED
    BY <1>1, <1>2, <2>1 DEF IsInjective
<1>. QED
  BY <1>2, <1>3

LEMMA ResultsResponse ==
  ASSUME InputsOK, RepliesOK, ResultsOK, NEW h \in Hosts, UNCHANGED inputVars,
         NEW i \in Positions, NEW k, NEW n,
         i = Items[h][processed[h] + 1], processed[h] < Len(Items[h]), Responds(h, i, k, n)
  PROVE  ResultsOK'
<1>0. kind' = kind /\ found' = found /\ Answer(i) # Nothing
  BY DEF inputVars, Answer, Nothing
<1>1. CASE UNCHANGED <<processed, result, dropped>>
  BY <1>1, ResultsSame
<1>2. ASSUME NEW o \in Entries, NEW d \in BOOLEAN, Outcome(i, o, d), Processed(h, o, d) PROVE ResultsOK'
  <2>1. /\ processed' = [processed EXCEPT ![h] = @ + 1] /\ result' = [result EXCEPT ![i] = o]
        /\ dropped' = IF d THEN dropped \cup {i} ELSE dropped
    BY <1>2 DEF Processed
  <2>2. processed \in [Hosts -> Nat] /\ result \in [Positions -> Entries] /\ dropped \subseteq Positions
    BY DEF RepliesOK, ResultsOK
  <2>3. PICK c \in Nat, l \in Nat : c = processed[h] /\ l = Len(Items[h])
    <3>1. Items[h] \in Seq(Positions)
      BY ItemsAssumption
    <3>. QED
      BY <2>2, <3>1
  <2>4. c + 1 \in 1..l /\ c < c + 1
    BY <2>3
  <2>5. result[i] = Nothing
    BY <2>3, <2>4 DEF ResultsOK
  <2>6. result' \in [Positions -> Entries] /\ dropped' \subseteq Positions
    BY <2>1, <2>2
  <2>7. ASSUME NEW j \in Positions
        PROVE  /\ result'[j] # Nothing => result'[j] = Answer(j) /\ found[j]
               /\ kind \in {"update", "delete"} => (j \in dropped' <=> result'[j] # Nothing)
    <3>1. /\ result[j] # Nothing => result[j] = Answer(j) /\ found[j]
          /\ kind \in {"update", "delete"} => (j \in dropped <=> result[j] # Nothing)
      BY DEF ResultsOK
    <3>2. CASE j = i
      <4>1. result'[j] = o
        BY <2>1, <2>2, <3>2
      <4>2. CASE o = Answer(i) /\ found[i] /\ (kind \in {"update", "delete"} => d = TRUE)
        BY <1>0, <2>1, <3>2, <4>1, <4>2
      <4>3. CASE o = Nothing /\ (kind \in {"update", "delete"} => d = FALSE)
        BY <2>1, <2>5, <3>1, <3>2, <4>1, <4>3
      <4>. QED
        BY <1>2, <4>2, <4>3 DEF Outcome
    <3>3. CASE j # i
      <4>1. result'[j] = result[j] /\ (j \in dropped' <=> j \in dropped)
        BY <2>1, <2>2, <3>3
      <4>. QED
        BY <3>1, <4>1
    <3>. QED
      BY <3>2, <3>3
  <2>8. ASSUME NEW g \in Hosts, NEW e \in 1..Len(Items[g]), processed'[g] < e
        PROVE  result'[Items[g][e]] = Nothing
    <3>1. processed[g] < e /\ (g = h => c + 1 < e)
      BY <2>1, <2>2, <2>3, <2>8
    <3>2. result[Items[g][e]] = Nothing
      BY <3>1 DEF ResultsOK
    <3>3. Items[g][e] # i
      <4>1. ASSUME Items[g][e] = i PROVE FALSE
        <5>1. PICK a \in 1..Len(Items[h]) : a = c + 1 /\ Items[h][a] = Items[g][e]
          BY <2>3, <2>4, <4>1
        <5>2. h = g /\ a = e
          BY <5>1, OnePosition
        <5>. QED
          BY <2>4, <3>1, <5>1, <5>2
      <4>. QED
        BY <4>1
    <3>4. Items[g][e] \in Positions
      <4>1. Items[g] \in Seq(Positions)
        BY ItemsAssumption
      <4>. QED
        BY <4>1
    <3>. QED
      BY <2>1, <2>2, <3>2, <3>3, <3>4
  <2>. QED
    BY <1>0, <2>6, <2>7, <2>8 DEF ResultsOK
<1>. QED
  BY <1>1, <1>2 DEF Responds, Stay, GoTo

LEMMA CountResponse ==
  ASSUME RepliesOK, CountOK, NEW h \in Hosts, NEW i, NEW k, NEW n, phase' = phase,
         processed[h] < Len(Items[h]), Responds(h, i, k, n)
  PROVE  CountOK'
<1>1. CASE UNCHANGED <<processed, numConns>>
  BY <1>1 DEF CountOK
<1>2. ASSUME NEW o, NEW d, Processed(h, o, d) PROVE CountOK'
  <2>1. /\ processed' = [processed EXCEPT ![h] = @ + 1]
        /\ numConns' = IF processed[h] + 1 = Len(Items[h]) THEN numConns - 1 ELSE numConns
    BY <1>2 DEF Processed, Keys
  <2>2. processed \in [Hosts -> Nat]
    BY DEF RepliesOK
  <2> DEFINE W == {g \in Hosts : processed[g] # Len(Items[g])}
             X == {g \in Hosts : processed'[g] # Len(Items[g])}
  <2>3. IsFiniteSet(W) /\ h \in W
    <3>1. W \subseteq Hosts /\ IsFiniteSet(Hosts)
      BY ItemsAssumption
    <3>2. h \in W
      <4>1. Len(Items[h]) \in Nat
        BY ItemsAssumption
      <4>. QED
        BY <2>2, <4>1
    <3>. QED
      BY <3>1, <3>2, FS_Subset
  <2>4. CASE processed[h] + 1 = Len(Items[h])
    <3>1. X = W \ {h}
      BY <2>1, <2>2, <2>4
    <3> HIDE DEF W, X
    <3>2. Cardinality(X) = Cardinality(W) - 1
      BY <2>3, <3>1, FS_RemoveElement
    <3>3. phase = "loop" => numConns' = Cardinality(X)
      BY <2>1, <2>4, <3>2 DEF CountOK, W
    <3>. QED
      BY <3>3 DEF CountOK, X
  <2>5. CASE processed[h] + 1 # Len(Items[h])
    <3>1. X = W
      BY <2>1, <2>2, <2>3, <2>5
    <3>2. phase = "loop" => numConns' = Cardinality(X)
      BY <2>1, <2>5, <3>1 DEF CountOK
    <3>. QED
      BY <3>2 DEF CountOK
  <2>. QED
    BY <2>4, <2>5
<1>. QED
  BY <1>1, <1>2 DEF Responds, Stay, GoTo

\* A connection with nothing more to come, although replies are missing, stopped
\* before an empty value.
LEMMA Stalled ==
  ASSUME InputsOK, RequestsOK, RepliesOK, NEW h \in Hosts, processed[h] < Len(Items[h]),
         ~Asked(h), ~opWrite[h],
         stream[h] = <<>> \/ (state[h] = "data" /\ ~(dataLen[Items[h][processed[h] + 1]] > 0))
  PROVE  kind = "get" /\ \E i \in Range(Items[h]) : found[i] /\ dataLen[i] = 0
<1>1. RepliesTyped /\ Reads(Items[h], processed[h], state[h], taken[h])
  BY DEF RepliesOK, RepliesTyped
<1>2. PICK m \in 0..Len(Items[h]) :
         Answered(Asking, Replying, Items[h], sent[h], served[h], stream[h],
                  processed[h], Place(state[h], taken[h]), m)
  BY DEF RepliesOK
<1>3. PICK s \in Seq(Positions) : s = Items[h]
  BY ItemsAssumption
<1> DEFINE T == Positions \X Parts
<1>4. PICK V \in Pieces(Positions, T) : V = Replying /\ \A j \in Positions : V[j] = Reply(j)
  BY ReplyTypes
<1>5. PICK st \in Seq(T), c \in Nat, q \in Parts, t \in Nat, sv \in Nat :
         st = stream[h] /\ c = processed[h] /\ q = state[h] /\ t = taken[h] /\ sv = served[h]
  BY <1>1 DEF RepliesTyped
<1> HIDE DEF T
<1>6. PICK p \in Nat : p = Place(q, t)
  BY PlaceType
<1>7. PICK A \in Pieces(Positions, Positions) : 
         A = Asking /\ \A i \in Positions : Len(A[i]) = ReqLen(i) /\ ReqLen(i) \in Nat \ {0}
  BY RequestTypes
<1>8. PICK sn \in Seq(Positions) : sn = sent[h] /\ sn = Part(A, s, 0, Len(s))
  <2>1. sent[h] \in Seq(Positions) /\ outBuffer[h] = <<>> /\ curr[h] = Len(s)
    BY <1>3 DEF RequestsOK, Sends
  <2>2. sent[h] \o outBuffer[h] = Part(A, s, 0, curr[h])
    BY <1>3, <1>7 DEF RequestsOK, Sends
  <2>3. PICK x \in Seq(Positions) : x = sent[h]
    BY <2>1
  <2>4. x \o <<>> = x
    OBVIOUS
  <2>. QED
    BY <2>1, <2>2, <2>3, <2>4
<1>9. Answered(A, V, s, sn, sv, st, c, p, m) /\ m \in 0..Len(s)
  BY <1>2, <1>3, <1>4, <1>5, <1>6, <1>7, <1>8
<1>10. c < Len(s) /\ Len(s) \in Nat /\ m \in Nat
  BY <1>3, <1>5, <1>9
<1>11. PICK e \in 1..Len(s) : e = c + 1
  BY <1>10
<1>12. s[e] \in Positions /\ s[e] \in Range(Items[h])
  <2>1. e \in DOMAIN s
    OBVIOUS
  <2>. QED
    BY <1>3, <2>1 DEF Range
<1>13. PICK i \in Positions : i = s[e] /\ i = Items[h][processed[h] + 1] /\ i \in Range(Items[h])
  BY <1>3, <1>5, <1>11, <1>12
<1>14. m = Len(s)
  <2>1. ASSUME m # Len(s) PROVE FALSE
    <3>1. PICK l \in 0..Len(s) : l = Len(s)
      BY <1>10
    <3>2. m \in 0..l /\ m < l
      BY <1>9, <1>10, <2>1, <3>1
    <3>3. PICK k \in 1..l : k = m + 1
      BY <3>2
    <3>4. k = m + 1 /\ k \in 1..Len(s) /\ k \in 0..Len(s) /\ m \in 0..k /\ m \in Nat /\ 0 \in 0..m
      BY <1>10, <3>1, <3>3
    <3>5. PICK x \in Seq(Positions), y \in Seq(Positions), a \in Seq(Positions) :
            /\ x = Part(A, s, 0, k) /\ y = Part(A, s, 0, m) /\ a = A[s[k]] /\ x = y \o a /\ s[k] \in Positions
      <4>1. /\ s[k] \in Positions /\ A[s[k]] \in Seq(Positions)
            /\ Splits(Part(A, s, 0, k), Part(A, s, 0, m), A[s[k]])
            /\ Part(A, s, 0, m) \in Seq(Positions)
        BY <3>4, PartLast
      <4>2. 0 \in 0..k
        BY <3>4
      <4>3. Part(A, s, 0, k) \in Seq(Positions)
        BY <3>4, <4>2, PartType
      <4>. QED
        BY <4>1, <4>3 DEF Splits
    <3>6. Len(x) <= Len(sn)
      <4>1. k \in 0..l
        OBVIOUS
      <4>2. Len(Part(A, s, 0, k)) <= Len(Part(A, s, 0, l))
        BY <4>1, PartGrows
      <4>. QED
        BY <1>8, <3>1, <3>5, <4>2
    <3>7. Len(x) = Len(y) + Len(a) /\ Len(y) \in Nat /\ Len(a) \in Nat
      <4>1. Len(y \o a) = Len(y) + Len(a)
        BY Cat
      <4>. QED
        BY <3>5, <4>1
    <3>8. sv = Len(y)
      BY <1>9, <3>5 DEF Answered
    <3>9. Len(a) = ReqLen(s[k]) /\ Len(a) # 0
      BY <1>7, <3>5
    <3>10. sv < Len(sn) /\ sv + Len(a) <= Len(sn)
      BY <3>6, <3>7, <3>8, <3>9
    <3>11. NextAsked(h) = s[k]
      <4>1. served[h] = Len(Part(Asking, Items[h], 0, m)) /\ served[h] < Len(sent[h])
        BY <1>3, <1>5, <1>7, <1>8, <3>5, <3>8, <3>10
      <4>. QED
        BY <1>3, <3>3, <4>1, NextIs
    <3>. QED
      BY <1>5, <1>8, <3>9, <3>10, <3>11 DEF Asked
  <2>. QED
    BY <2>1
<1>15. PartLen \in Nat \ {0} /\ dataLen[i] \in Nat /\ found[i] \in BOOLEAN
  BY SizeAssumption DEF InputsOK
<1>16. CASE q = "data" /\ ~(dataLen[i] > 0)
  <2>1. found[i] /\ kind = "get"
    BY <1>1, <1>5, <1>13, <1>16 DEF Reads
  <2>2. dataLen[i] = 0
    BY <1>15, <1>16
  <2>. QED
    BY <1>13, <2>1, <2>2
<1>17. CASE st = <<>>
  <2>1. e \in 1..m /\ c \in Nat /\ e = c + 1 /\ m \in 0..Len(s)
    BY <1>10, <1>11, <1>14
  <2>2. /\ V[s[e]] \in Seq(T) /\ Splits(Part(V, s, c, m), V[s[e]], Part(V, s, e, m))
        /\ Part(V, s, e, m) \in Seq(T)
    BY <2>1, PartFirst
  <2>3. c \in 0..m
    BY <2>1
  <2>4. Part(V, s, c, m) \in Seq(T)
    BY <2>1, <2>3, PartType
  <2>5. PICK x \in Seq(T), v \in Seq(T), w \in Seq(T) :
           x = Part(V, s, c, m) /\ v = V[s[e]] /\ w = Part(V, s, e, m) /\ x = v \o w
    BY <2>2, <2>4 DEF Splits
  <2>6. Len(x) = Len(v) + Len(w) /\ Len(v) \in Nat /\ Len(w) \in Nat
    <3>1. Len(v \o w) = Len(v) + Len(w)
      BY Cat
    <3>. QED
      BY <2>5, <3>1
  <2>7. p <= Len(x) /\ st = Rest(x, p)
    BY <1>9, <2>5 DEF Answered
  <2>8. Len(Rest(x, p)) = Len(x) - p
    <3>1. p \in 0..Len(x)
      BY <2>7
    <3>. QED
      BY <3>1, RestIs
  <2>9. Len(st) = 0
    BY <1>17
  <2>10. ~(p < Len(v))
    BY <2>6, <2>7, <2>8, <2>9
  <2>11. ~Has(i, q, t)
    <3>1. Has(i, q, t) => Place(q, t) < Len(Reply(i))
      BY ReplyIs
    <3>2. v = Reply(i)
      BY <1>4, <1>13, <2>5
    <3>. QED
      BY <1>6, <2>10, <3>1, <3>2
  <2>12. q = "data" /\ found[i] /\ kind = "get" /\ t = 0 /\ ~(t < dataLen[i])
    BY <1>1, <1>5, <1>13, <2>11 DEF Reads, Has
  <2>13. dataLen[i] = 0
    BY <1>15, <2>12
  <2>. QED
    BY <1>13, <2>12, <2>13
<1>. QED
  BY <1>5, <1>13, <1>16, <1>17

-----------------------------------------------------------------------------
(* The invariant of a call.                                                *)

LEMMA MultiInitInv ==
  ASSUME MultiInit
  PROVE  MultiInv
<1>1. InputsOK
  <2>1. kind \in {"get", "update", "delete", "expiration"} /\ found \in [Positions -> BOOLEAN]
    BY SizeAssumption DEF MultiInit
  <2>2. dataLen \in [Positions -> Nat]
    <3>1. CASE kind \in {"get", "update"}
      BY <3>1, SizeAssumption DEF MultiInit
    <3>2. CASE ~(kind \in {"get", "update"})
      <4>1. dataLen = [i \in Positions |-> 0]
        BY <3>2 DEF MultiInit
      <4>. QED
        BY <4>1
    <3>. QED
      BY <3>1, <3>2
  <2>. QED
    BY <2>1, <2>2 DEF InputsOK
<1>2. ASSUME NEW h \in Hosts
      PROVE  /\ Items[h] \in Seq(Positions) /\ Len(Items[h]) \in Nat
             /\ Part(Asking, Items[h], 0, 0) = <<>> /\ Part(Replying, Items[h], 0, 0) = <<>>
  <2>1. PICK s \in Seq(Positions) : s = Items[h]
    BY ItemsAssumption
  <2>2. 0 \in 0..Len(s)
    OBVIOUS
  <2>3. Part(Asking, s, 0, 0) = <<>>
    BY <2>2, PartEmpty
  <2>4. Part(Replying, s, 0, 0) = <<>>
    BY <2>2, PartEmpty
  <2>. QED
    BY <2>1, <2>3, <2>4
<1>3. RequestsOK
  <2>1. ASSUME NEW h \in Hosts
        PROVE  Sends(Asking, Items[h], curr[h], outBuffer[h], sent[h], opWrite[h], loaded[h]) /\ loaded[h] = 0
    <3>1. curr[h] = 0 /\ outBuffer[h] = <<>> /\ sent[h] = <<>> /\ opWrite[h] = TRUE /\ loaded[h] = 0
      BY DEF MultiInit
    <3>2. <<>> \o <<>> = <<>> /\ 0 \in 0..Len(Items[h])
      BY <1>2
    <3>3. Sends(Asking, Items[h], 0, <<>>, <<>>, TRUE, 0)
      BY <1>2, <3>2 DEF Sends
    <3>. QED
      BY <3>1, <3>3
  <2>2. /\ curr \in [Hosts -> Nat] /\ outBuffer \in [Hosts -> Seq(Positions)]
        /\ sent \in [Hosts -> Seq(Positions)] /\ opWrite \in [Hosts -> BOOLEAN]
        /\ DOMAIN loaded = Hosts /\ DOMAIN limit = Hosts
    <3>1. <<>> \in Seq(Positions)
      OBVIOUS
    <3>2. outBuffer \in [Hosts -> Seq(Positions)] /\ sent \in [Hosts -> Seq(Positions)]
      BY <3>1 DEF MultiInit
    <3>3. curr \in [Hosts -> Nat] /\ opWrite \in [Hosts -> BOOLEAN]
      BY DEF MultiInit
    <3>. QED
      BY <3>2, <3>3 DEF MultiInit
  <2>. QED
    BY <2>1, <2>2 DEF RequestsOK
<1>4. RepliesOK
  <2>1. ASSUME NEW h \in Hosts PROVE RepliesFor(h)
    <3>1. /\ processed[h] = 0 /\ state[h] = "head" /\ taken[h] = 0 /\ sent[h] = <<>> /\ served[h] = 0
          /\ stream[h] = <<>>
      BY DEF MultiInit
    <3>2. Reads(Items[h], 0, "head", 0)
      BY SizeAssumption DEF Reads
    <3>3. Place("head", 0) = 0 /\ 0 \in 0..Len(Items[h])
      BY <1>2 DEF Place
    <3>4. Rest(<<>>, 0) = <<>> /\ Len(<<>>) = 0
      BY DEF Rest
    <3>5. Answered(Asking, Replying, Items[h], <<>>, 0, <<>>, 0, 0, 0)
      BY <1>2, <3>4 DEF Answered
    <3>. QED
      BY <3>1, <3>2, <3>3, <3>5 DEF RepliesFor
  <2>2. RepliesTyped
    <3>1. <<>> \in Seq(Positions \X Parts) /\ "head" \in Parts
      BY DEF Parts
    <3>2. stream \in [Hosts -> Seq(Positions \X Parts)] /\ state \in [Hosts -> Parts]
      BY <3>1 DEF MultiInit
    <3>3. served \in [Hosts -> Nat] /\ taken \in [Hosts -> Nat] /\ processed \in [Hosts -> Nat]
      BY DEF MultiInit
    <3>. QED
      BY <3>2, <3>3 DEF RepliesTyped
  <2>. QED
    BY <2>1, <2>2, RepliesParts
<1>5. ResultsOK
  <2>1. result \in [Positions -> Entries] /\ dropped = {} /\ \A i \in Positions : result[i] = Nothing
    BY DEF MultiInit, Entries
  <2>2. ASSUME NEW h \in Hosts, NEW n \in 1..Len(Items[h]) PROVE result[Items[h][n]] = Nothing
    <3>1. Items[h][n] \in Positions
      BY <1>2
    <3>. QED
      BY <2>1, <3>1
  <2>. QED
    BY <2>1, <2>2 DEF ResultsOK
<1>6. PhaseOK
  <2>1. ASSUME NEW h \in Hosts
        PROVE  curr[h] = 0 /\ outBuffer[h] = <<>> /\ socket[h] = "none" /\ processed[h] = 0 /\ h \in todo
    BY DEF MultiInit
  <2>2. /\ phase = "init" /\ todo = Hosts /\ DOMAIN socket = Hosts /\ DOMAIN peer = Hosts /\ ended = ""
        /\ selector = "open"
    BY DEF MultiInit
  <2>. QED
    BY <2>1, <2>2 DEF PhaseOK
<1>7. CountOK /\ StallsOnlyFor
  BY DEF MultiInit, CountOK, StallsOnlyFor
<1>. QED
  BY <1>1, <1>3, <1>4, <1>5, <1>6, <1>7 DEF MultiInv

\* What is said of requests, replies and results does not depend on the rest.
LEMMA DataSame ==
  ASSUME MultiInv, UNCHANGED <<inputVars, requestVars, served, stream, replyVars>>
  PROVE  InputsOK' /\ RequestsOK' /\ RepliesOK' /\ ResultsOK'
<1>1. InputsOK /\ RequestsOK /\ RepliesOK /\ ResultsOK
  BY DEF MultiInv
<1>2. InputsOK'
  BY <1>1, SameInputs
<1>3. RequestsOK'
  BY <1>1, RequestsSame
<1>4. ASSUME NEW g \in Hosts PROVE Len(sent[g]) <= Len(sent'[g])
  <2>1. PICK x \in Seq(Positions) : x = sent[g]
    BY <1>1 DEF RequestsOK
  <2>2. sent'[g] = x
    BY <2>1 DEF requestVars
  <2>3. Len(x) <= Len(x)
    OBVIOUS
  <2>. QED
    BY <2>1, <2>2, <2>3
<1>5. RepliesOK'
  BY <1>1, <1>3, <1>4, RepliesSame DEF replyVars
<1>6. ResultsOK'
  BY <1>1, ResultsSame DEF replyVars
<1>. QED
  BY <1>2, <1>3, <1>5, <1>6

LEMMA MultiNextInv ==
  ASSUME MultiInv, [MultiNext]_multiVars
  PROVE  MultiInv'
<1>0. InputsOK /\ RequestsOK /\ RepliesOK /\ ResultsOK /\ PhaseOK /\ CountOK /\ StallsOnlyFor
  BY DEF MultiInv
<1>1. ASSUME NEW h \in Hosts, init(h) PROVE MultiInv'
  <2>1. /\ phase = "init" /\ h \in todo /\ todo' = todo \ {h} /\ socket' = [socket EXCEPT ![h] = "nonblocking"]
        /\ encode(h) /\ UNCHANGED <<inputVars, opWrite, sent>>
        /\ UNCHANGED <<phase, numConns, ended, late, selector, peer>>
        /\ UNCHANGED <<served, stream, state, taken, processed, result, dropped>>
    BY <1>1 DEF init, serverVars, replyVars
  <2>2. curr[h] = 0 /\ outBuffer[h] = <<>> /\ DOMAIN socket = Hosts
    BY <1>0, <2>1 DEF PhaseOK
  <2>3. 0 < Len(Items[h])
    <3>1. Items[h] \in Seq(Positions) /\ Items[h] # <<>>
      BY ItemsAssumption
    <3>. QED
      BY <3>1
  <2>4. RequestsOK' /\ \A g \in Hosts : g # h => curr'[g] = curr[g] /\ outBuffer'[g] = outBuffer[g]
    BY <1>0, <2>1, <2>2, <2>3, RequestsEncode
  <2>5. InputsOK'
    BY <1>0, <2>1, SameInputs
  <2>6. RepliesOK'
    <3>1. ASSUME NEW g \in Hosts PROVE Len(sent[g]) <= Len(sent'[g])
      <4>1. PICK x \in Seq(Positions) : x = sent[g] /\ x = sent'[g]
        BY <1>0, <2>1 DEF RequestsOK
      <4>2. Len(x) <= Len(x)
        OBVIOUS
      <4>. QED
        BY <4>1, <4>2
    <3>. QED
      BY <1>0, <2>1, <2>4, <3>1, RepliesSame
  <2>7. ResultsOK'
    BY <1>0, <2>1, ResultsSame
  <2>8. PhaseOK'
    BY <1>0, <2>1, <2>2, <2>4 DEF PhaseOK
  <2>9. CountOK' /\ StallsOnlyFor'
    BY <1>0, <2>1 DEF PhaseOK, CountOK, StallsOnlyFor
  <2>. QED
    BY <2>4, <2>5, <2>6, <2>7, <2>8, <2>9 DEF MultiInv
<1>2. ASSUME NEW h \in Hosts, SkipHost(h) PROVE MultiInv'
  <2>1. /\ phase = "init" /\ h \in todo /\ todo' = todo \ {h} /\ socket' = [socket EXCEPT ![h] = "null"]
        /\ UNCHANGED <<inputVars, requestVars, served, stream, replyVars>>
        /\ UNCHANGED <<phase, numConns, ended, late, selector, peer>>
    BY <1>2 DEF SkipHost, serverVars
  <2>2. InputsOK' /\ RequestsOK' /\ RepliesOK' /\ ResultsOK'
    BY <2>1, DataSame
  <2>3. curr' = curr /\ outBuffer' = outBuffer /\ processed' = processed
    BY <2>1 DEF requestVars, replyVars
  <2>4. PhaseOK'
    BY <1>0, <2>1, <2>3 DEF PhaseOK
  <2>5. CountOK' /\ StallsOnlyFor'
    BY <1>0, <2>1 DEF PhaseOK, CountOK, StallsOnlyFor
  <2>. QED
    BY <2>2, <2>4, <2>5 DEF MultiInv
<1>3. ASSUME StartLoop PROVE MultiInv'
  <2>1. /\ phase = "init" /\ todo = {} /\ phase' = "loop" /\ numConns' = Cardinality(Hosts)
        /\ UNCHANGED <<inputVars, requestVars, served, stream, replyVars>>
        /\ UNCHANGED <<todo, ended, late, selector, socket, peer>>
    BY <1>3 DEF StartLoop, serverVars
  <2>2. InputsOK' /\ RequestsOK' /\ RepliesOK' /\ ResultsOK'
    BY <2>1, DataSame
  <2>3. curr' = curr /\ outBuffer' = outBuffer /\ processed' = processed
    BY <2>1 DEF requestVars, replyVars
  <2>4. PhaseOK'
    BY <1>0, <2>1, <2>3 DEF PhaseOK
  <2>5. StallsOnlyFor'
    BY <1>0, <2>1 DEF PhaseOK, StallsOnlyFor
  <2>6. CountOK'
    <3>1. ASSUME NEW g \in Hosts PROVE processed'[g] # Len(Items[g])
      <4>1. processed'[g] = 0
        BY <1>0, <2>1, <2>3 DEF PhaseOK
      <4>2. Items[g] \in Seq(Positions) /\ Items[g] # <<>>
        BY ItemsAssumption
      <4>3. Len(Items[g]) # 0
        BY <4>2
      <4>. QED
        BY <4>1, <4>3
    <3>2. {g \in Hosts : processed'[g] # Len(Items[g])} = Hosts
      BY <3>1
    <3>. QED
      BY <2>1, <3>2 DEF CountOK
  <2>. QED
    BY <2>2, <2>4, <2>5, <2>6 DEF MultiInv
<1>4. ASSUME NEW h \in Hosts, processRequest(h) PROVE MultiInv'
  <2>1. /\ phase = "loop" /\ UNCHANGED inputVars
        /\ UNCHANGED <<phase, todo, numConns, ended, late, selector, socket, peer>>
        /\ UNCHANGED <<served, stream, state, taken, processed, result, dropped>>
    BY <1>4 DEF processRequest, serverVars, replyVars
  <2>2. RequestsOK' /\ \A g \in Hosts : Len(sent[g]) <= Len(sent'[g])
    <3>0. ASSUME sent' = sent, NEW g \in Hosts PROVE Len(sent[g]) <= Len(sent'[g])
      <4>1. PICK x \in Seq(Positions) : x = sent[g] /\ x = sent'[g]
        BY <1>0, <3>0 DEF RequestsOK
      <4>2. Len(x) <= Len(x)
        OBVIOUS
      <4>. QED
        BY <4>1, <4>2
    <3>1. CASE (\E k \in 1..Len(outBuffer[h]) : Write(h, k)) /\ UNCHANGED <<limit, curr, loaded, opWrite>>
      <4>1. PICK k \in 1..Len(outBuffer[h]) : Write(h, k)
        BY <3>1
      <4>. QED
        BY <1>0, <2>1, <3>1, <4>1, RequestsWrite
    <3>2. CASE /\ outBuffer[h] = <<>> /\ curr[h] >= Keys(h)
               /\ opWrite' = [opWrite EXCEPT ![h] = FALSE]
               /\ UNCHANGED <<outBuffer, limit, curr, loaded, sent>>
      <4>1. RequestsOK'
        BY <1>0, <2>1, <3>2, RequestsStop
      <4>. QED
        BY <3>0, <3>2, <4>1
    <3>3. CASE outBuffer[h] = <<>> /\ curr[h] < Keys(h) /\ encode(h) /\ UNCHANGED <<opWrite, sent>>
      <4>1. RequestsOK'
        BY <1>0, <2>1, <3>3, RequestsEncode DEF Keys
      <4>. QED
        BY <3>0, <3>3, <4>1
    <3>. QED
      BY <1>4, <3>1, <3>2, <3>3 DEF processRequest
  <2>3. InputsOK'
    BY <1>0, <2>1, SameInputs
  <2>4. RepliesOK'
    BY <1>0, <2>1, <2>2, RepliesSame
  <2>5. ResultsOK'
    BY <1>0, <2>1, ResultsSame
  <2>6. PhaseOK'
    BY <1>0, <2>1 DEF PhaseOK
  <2>7. CountOK' /\ StallsOnlyFor'
    BY <1>0, <2>1 DEF PhaseOK, CountOK, StallsOnlyFor
  <2>. QED
    BY <2>2, <2>3, <2>4, <2>5, <2>6, <2>7 DEF MultiInv
<1>5. ASSUME NEW h \in Hosts, processResponse(h) PROVE MultiInv'
  <2>1. /\ phase = "loop" /\ UNCHANGED inputVars
        /\ UNCHANGED <<phase, todo, ended, late, selector, socket, peer>>
        /\ UNCHANGED <<inputVars, requestVars>> /\ sent' = sent /\ served' = served
        /\ curr' = curr /\ outBuffer' = outBuffer
    BY <1>5 DEF processResponse, serverVars, requestVars
  <2>2. PICK i \in Positions, k \in Nat, n \in Nat :
            /\ i = Items[h][processed[h] + 1] /\ processed[h] < Len(Items[h])
            /\ Stage(i, state[h], n) /\ Taking(h, k, n) /\ Responds(h, i, k, n)
    BY <1>0, <1>5, ResponseIs
  <2>3. InputsOK' /\ RequestsOK'
    BY <1>0, <2>1, SameInputs, RequestsSame
  <2>4. RepliesOK'
    BY <1>0, <2>1, <2>2, RepliesResponse
  <2>5. ResultsOK'
    BY <1>0, <2>1, <2>2, ResultsResponse
  <2>6. CountOK'
    BY <1>0, <2>1, <2>2, CountResponse
  <2>7. PhaseOK'
    BY <1>0, <2>1 DEF PhaseOK
  <2>8. StallsOnlyFor'
    BY <1>0, <2>1 DEF PhaseOK, StallsOnlyFor
  <2>. QED
    BY <2>3, <2>4, <2>5, <2>6, <2>7, <2>8 DEF MultiInv
<1>6. ASSUME NEW h \in Hosts, Exception(h) PROVE MultiInv'
  <2>1. /\ phase = "loop" /\ phase' = "finally" /\ ended' = "exception"
        /\ UNCHANGED <<inputVars, requestVars, served, stream, replyVars>>
        /\ UNCHANGED <<todo, numConns, late, selector, socket, peer>>
        /\ curr' = curr /\ outBuffer' = outBuffer /\ processed' = processed
    BY <1>6 DEF Exception, serverVars, requestVars, replyVars
  <2>2. InputsOK' /\ RequestsOK' /\ RepliesOK' /\ ResultsOK'
    BY <2>1, DataSame
  <2>3. PhaseOK'
    BY <1>0, <2>1 DEF PhaseOK
  <2>4. CountOK' /\ StallsOnlyFor'
    BY <2>1 DEF CountOK, StallsOnlyFor
  <2>. QED
    BY <2>2, <2>3, <2>4 DEF MultiInv
<1>7. ASSUME Complete PROVE MultiInv'
  <2>1. /\ phase = "loop" /\ phase' = "finally" /\ ended' = "complete"
        /\ UNCHANGED <<inputVars, requestVars, served, stream, replyVars>>
        /\ UNCHANGED <<todo, numConns, late, selector, socket, peer>>
        /\ curr' = curr /\ outBuffer' = outBuffer /\ processed' = processed
    BY <1>7 DEF Complete, serverVars, requestVars, replyVars
  <2>2. InputsOK' /\ RequestsOK' /\ RepliesOK' /\ ResultsOK'
    BY <2>1, DataSame
  <2>3. PhaseOK'
    BY <1>0, <2>1 DEF PhaseOK
  <2>4. CountOK' /\ StallsOnlyFor'
    BY <2>1 DEF CountOK, StallsOnlyFor
  <2>. QED
    BY <2>2, <2>3, <2>4 DEF MultiInv
<1>8. ASSUME TimeOut PROVE MultiInv'
  <2>1. /\ phase = "loop" /\ numConns > 0 /\ phase' = "finally" /\ ended' = "timeout" /\ late' = CanGoOn
        /\ UNCHANGED <<inputVars, requestVars, served, stream, replyVars>>
        /\ UNCHANGED <<todo, numConns, selector, socket, peer>>
        /\ curr' = curr /\ outBuffer' = outBuffer /\ processed' = processed
    BY <1>8 DEF TimeOut, serverVars, requestVars, replyVars
  <2>2. InputsOK' /\ RequestsOK' /\ RepliesOK' /\ ResultsOK'
    BY <2>1, DataSame
  <2>3. PhaseOK'
    BY <1>0, <2>1 DEF PhaseOK
  <2>4. CountOK'
    BY <2>1 DEF CountOK
  <2>5. StallsOnlyFor'
    <3>1. ASSUME ~CanGoOn
          PROVE  \E h \in Hosts :
                   \/ socket[h] = "null" \/ peer[h] # "up"
                   \/ kind = "get" /\ \E i \in Range(Items[h]) : found[i] /\ dataLen[i] = 0
      <4>1. PICK h \in Hosts : processed[h] # Len(Items[h])
        <5>1. numConns = Cardinality({h \in Hosts : processed[h] # Len(Items[h])})
          BY <1>0, <2>1 DEF CountOK
        <5>2. Cardinality({h \in Hosts : processed[h] # Len(Items[h])}) # 0
          BY <2>1, <5>1
        <5>3. {h \in Hosts : processed[h] # Len(Items[h])} # {}
          BY <5>2, FS_EmptySet
        <5>. QED
          BY <5>3
      <4>2. processed[h] < Len(Items[h])
        <5>1. PICK m \in 0..Len(Items[h]) : processed[h] \in 0..m
          BY <1>0 DEF RepliesOK, Answered
        <5>2. Len(Items[h]) \in Nat
          BY ItemsAssumption
        <5>. QED
          BY <4>1, <5>1, <5>2
      <4>3. CASE socket[h] = "null" \/ peer[h] # "up"
        BY <4>3
      <4>4. CASE socket[h] # "null" /\ peer[h] = "up"
        <5>1. socket[h] = "nonblocking"
          BY <1>0, <2>1, <4>4 DEF PhaseOK
        <5>2. Registered(h)
          BY <4>1, <5>1 DEF Registered, isDone, Keys
        <5>3. /\ ~Asked(h) /\ ~opWrite[h]
              /\ stream[h] = <<>> \/ (state[h] = "data" /\ ~(dataLen[Items[h][processed[h] + 1]] > 0))
          BY <3>1, <4>4, <5>2 DEF CanGoOn
        <5>4. kind = "get" /\ \E i \in Range(Items[h]) : found[i] /\ dataLen[i] = 0
          BY <1>0, <4>2, <5>3, Stalled
        <5>. QED
          BY <5>4
      <4>. QED
        BY <4>3, <4>4
    <3>2. socket' = socket /\ peer' = peer /\ kind' = kind /\ found' = found /\ dataLen' = dataLen
      BY <2>1 DEF inputVars
    <3>. QED
      BY <2>1, <3>1, <3>2 DEF StallsOnlyFor
  <2>. QED
    BY <2>2, <2>3, <2>4, <2>5 DEF MultiInv
<1>9. ASSUME Finally PROVE MultiInv'
  <2>1. /\ phase = "finally" /\ phase' = "done" /\ selectorClose /\ socket' = [h \in Hosts |-> close(h)]
        /\ UNCHANGED <<inputVars, requestVars, served, stream, replyVars>>
        /\ UNCHANGED <<todo, numConns, ended, late, peer>>
        /\ curr' = curr /\ outBuffer' = outBuffer /\ processed' = processed
    BY <1>9 DEF Finally, serverVars, requestVars, replyVars
  <2>2. InputsOK' /\ RequestsOK' /\ RepliesOK' /\ ResultsOK'
    BY <2>1, DataSame
  <2>3. ASSUME NEW h \in Hosts
        PROVE  /\ socket'[h] \in {"null", "pooled", "closed"}
               /\ socket'[h] = "pooled" => processed'[h] = Len(Items[h])
               /\ socket[h] = "null" => socket'[h] = "null"
               /\ ~Registered(h) => socket'[h] \in {"null", "pooled"}
    <3>1. socket[h] \in {"null", "nonblocking"}
      BY <1>0, <2>1 DEF PhaseOK
    <3>2. socket'[h] = close(h)
      BY <2>1
    <3>3. close(h) = IF socket[h] = "nonblocking" THEN IF isDone(h) THEN "pooled" ELSE "closed" ELSE "null"
      BY <3>1 DEF close
    <3>. QED
      BY <2>1, <3>1, <3>2, <3>3 DEF Registered, isDone, Keys
  <2>4. selector' = "pooled" => \A h \in Hosts : socket'[h] \in {"null", "pooled"}
    BY <2>1, <2>3 DEF selectorClose
  <2>5. PhaseOK'
    <3>1. DOMAIN socket' = Hosts /\ DOMAIN peer' = Hosts /\ todo' = {} /\ phase' = "done"
      BY <1>0, <2>1 DEF PhaseOK
    <3>. QED
      BY <2>3, <2>4, <3>1 DEF PhaseOK
  <2>6. CountOK'
    BY <2>1 DEF CountOK
  <2>7. StallsOnlyFor'
    <3>1. kind' = kind /\ found' = found /\ dataLen' = dataLen /\ peer' = peer /\ ended' = ended /\ late' = late
      BY <2>1 DEF inputVars
    <3>. QED
      BY <1>0, <2>3, <3>1 DEF StallsOnlyFor
  <2>. QED
    BY <2>2, <2>5, <2>6, <2>7 DEF MultiInv
<1>10. ASSUME NEW h \in Hosts, Serve(h) PROVE MultiInv'
  <2>1. /\ phase = "loop" /\ UNCHANGED inputVars /\ UNCHANGED <<inputVars, requestVars>>
        /\ UNCHANGED <<phase, todo, numConns, ended, late, selector, socket, peer>>
        /\ UNCHANGED <<inputVars, processed, result, dropped>>
        /\ curr' = curr /\ outBuffer' = outBuffer /\ processed' = processed
    BY <1>10 DEF Serve, requestVars, replyVars
  <2>2. InputsOK' /\ RequestsOK' /\ ResultsOK'
    BY <1>0, <2>1, SameInputs, RequestsSame, ResultsSame
  <2>3. RepliesOK'
    BY <1>0, <1>10, RepliesServe
  <2>4. PhaseOK'
    BY <1>0, <2>1 DEF PhaseOK
  <2>5. CountOK' /\ StallsOnlyFor'
    BY <1>0, <2>1 DEF PhaseOK, CountOK, StallsOnlyFor
  <2>. QED
    BY <2>2, <2>3, <2>4, <2>5 DEF MultiInv
<1>11. ASSUME NEW h \in Hosts, PeerFails(h) PROVE MultiInv'
  <2>1. /\ phase = "loop" /\ DOMAIN peer' = DOMAIN peer
        /\ UNCHANGED <<inputVars, requestVars, served, stream, replyVars>>
        /\ UNCHANGED <<phase, todo, numConns, ended, late, selector, socket>>
        /\ curr' = curr /\ outBuffer' = outBuffer /\ processed' = processed
    BY <1>11 DEF PeerFails, requestVars, replyVars
  <2>2. InputsOK' /\ RequestsOK' /\ RepliesOK' /\ ResultsOK'
    BY <2>1, DataSame
  <2>3. PhaseOK'
    BY <1>0, <2>1 DEF PhaseOK
  <2>4. CountOK' /\ StallsOnlyFor'
    BY <1>0, <2>1 DEF PhaseOK, CountOK, StallsOnlyFor
  <2>. QED
    BY <2>2, <2>3, <2>4 DEF MultiInv
<1>12. CASE UNCHANGED multiVars
  <2>1. /\ UNCHANGED <<inputVars, requestVars, served, stream, replyVars>>
        /\ UNCHANGED <<phase, todo, numConns, ended, late, selector, socket, peer>>
        /\ kind' = kind /\ found' = found /\ dataLen' = dataLen
        /\ curr' = curr /\ outBuffer' = outBuffer /\ processed' = processed
    BY <1>12 DEF multiVars, inputVars, serverVars, requestVars, replyVars
  <2>2. InputsOK' /\ RequestsOK' /\ RepliesOK' /\ ResultsOK'
    BY <2>1, DataSame
  <2>3. PhaseOK'
    BY <1>0, <2>1 DEF PhaseOK
  <2>4. CountOK' /\ StallsOnlyFor'
    BY <1>0, <2>1 DEF CountOK, StallsOnlyFor
  <2>. QED
    BY <2>2, <2>3, <2>4 DEF MultiInv
<1>. QED
  BY <1>1, <1>2, <1>3, <1>4, <1>5, <1>6, <1>7, <1>8, <1>9, <1>10, <1>11, <1>12
     DEF MultiNext, ClientStep, Returned

\* Every multi call keeps the invariant.
THEOREM MultiInvariant == MultiSpec => []MultiInv
<1>1. MultiInit => MultiInv
  BY MultiInitInv
<1>2. MultiInv /\ [MultiNext]_multiVars => MultiInv'
  BY MultiNextInv
<1>. QED
  BY <1>1, <1>2, PTL DEF MultiSpec

\* However encode() cuts, grows and resumes its batches, and however little a
\* write takes, what goes out on a connection is a beginning of its requests.
THEOREM RequestsGoOutInOrder == MultiSpec => []RequestsInOrder
<1>1. ASSUME MultiInv PROVE RequestsInOrder
  <2>0. InputsOK /\ RequestsOK
    BY <1>1 DEF MultiInv
  <2>1. ASSUME NEW h \in Hosts PROVE IsPrefix(sent[h] \o outBuffer[h], Units(Items[h]))
    <3>1. PICK s \in Seq(Positions) : s = Items[h]
      BY ItemsAssumption
    <3>2. PICK A \in Pieces(Positions, Positions) : A = Asking
      BY <2>0, RequestTypes
    <3>3. PICK sn \in Seq(Positions), ob \in Seq(Positions) : sn = sent[h] /\ ob = outBuffer[h]
      BY <2>0 DEF RequestsOK
    <3>4. PICK c, ow, ld : c = curr[h] /\ ow = opWrite[h] /\ ld = loaded[h]
      OBVIOUS
    <3>5. Sends(A, s, c, ob, sn, ow, ld)
      BY <2>0, <3>1, <3>2, <3>3, <3>4 DEF RequestsOK
    <3>6. Begins(sn \o ob, Chain(A, s)) /\ Chain(A, s) \in Seq(Positions)
      BY <3>5, SentIs
    <3>7. Units(Items[h]) = Chain(A, s)
      BY <3>1, <3>2, UnitsAre
    <3>8. PICK x \in Seq(Positions), y \in Seq(Positions) : x = sn \o ob /\ y = Chain(A, s)
      <4>1. sn \o ob \in Seq(Positions)
        BY Cat
      <4>. QED
        BY <3>6, <4>1
    <3>9. SubSeq(x, 1, Len(x)) = SubSeq(y, 1, Len(x)) /\ Len(x) <= Len(y)
      <4>1. Len(x) <= Len(y) /\ \A i \in 1..Len(x) : x[i] = y[i]
        BY <3>6, <3>8 DEF Begins
      <4>2. Len(x) \in 0..Len(x) /\ Len(x) \in 0..Len(y)
        BY <4>1
      <4>3. PICK a \in Seq(Positions) : /\ a = SubSeq(x, 1, Len(x)) /\ Len(a) = Len(x)
                                        /\ \A i \in 1..Len(x) : a[i] = x[i]
        BY <4>2, Prefix
      <4>4. PICK b \in Seq(Positions) : /\ b = SubSeq(y, 1, Len(x)) /\ Len(b) = Len(x)
                                        /\ \A i \in 1..Len(x) : b[i] = y[i]
        BY <4>2, Prefix
      <4>5. a = b
        BY <4>1, <4>3, <4>4
      <4>. QED
        BY <4>1, <4>3, <4>4, <4>5
    <3>. QED
      BY <3>3, <3>7, <3>8, <3>9 DEF IsPrefix
  <2>. QED
    BY <2>1 DEF RequestsInOrder
<1>. QED
  BY <1>1, MultiInvariant, PTL

\* The client never loses its place in the replies, and a position of the list
\* only gets the answer to its own request.
THEOREM RepliesReachTheirPositions == MultiSpec => []RepliesMatched
<1>1. ASSUME MultiInv PROVE RepliesMatched
  <2>0. InputsOK /\ RequestsOK /\ RepliesOK /\ ResultsOK
    BY <1>1 DEF MultiInv
  <2>1. ASSUME NEW h \in Hosts, stream[h] # <<>>, NEW i, i = Items[h][processed[h] + 1],
               ~(state[h] = "data" /\ dataLen[i] = 0)
        PROVE  Head(stream[h]) = <<i, state[h]>>
    <3>1. i \in Positions /\ (Has(i, state[h], taken[h]) => Head(stream[h]) = <<i, state[h]>>)
      BY <2>0, <2>1, NextUnit
    <3>2. Reads(Items[h], processed[h], state[h], taken[h]) /\ dataLen[i] \in Nat
      BY <2>0, <3>1 DEF RepliesOK, InputsOK
    <3>3. Has(i, state[h], taken[h])
      <4>1. CASE state[h] = "data"
        <5>1. found[i] /\ kind = "get" /\ (taken[h] < dataLen[i] \/ taken[h] = 0)
          BY <2>1, <3>2, <4>1 DEF Reads
        <5>2. taken[h] < dataLen[i]
          BY <2>1, <3>2, <4>1, <5>1
        <5>. QED
          BY <4>1, <5>1, <5>2 DEF Has
      <4>2. CASE state[h] # "data"
        BY <2>1, <3>2, <4>2 DEF Has, Reads
      <4>. QED
        BY <4>1, <4>2
    <3>. QED
      BY <3>1, <3>3
  <2>2. \A i \in Positions :
          /\ result[i] # Nothing => result[i] = Answer(i) /\ found[i]
          /\ kind \in {"update", "delete"} => (i \in dropped <=> result[i] # Nothing)
    BY <2>0 DEF ResultsOK
  <2>. QED
    BY <2>1, <2>2 DEF RepliesMatched
<1>. QED
  BY <1>1, MultiInvariant, PTL

\* Only a socket on which nothing is under way goes back to the pool, and the
\* selector is kept only with none registered.
THEOREM PooledSocketsAreClean == MultiSpec => []PooledClean
<1>1. ASSUME MultiInv PROVE PooledClean
  <2>0. InputsOK /\ RequestsOK /\ RepliesOK /\ PhaseOK
    BY <1>1 DEF MultiInv
  <2>1. ASSUME NEW h \in Hosts, socket[h] = "pooled"
        PROVE  /\ sent[h] = Units(Items[h]) /\ outBuffer[h] = <<>>
               /\ served[h] = Len(sent[h]) /\ stream[h] = <<>>
    <3>1. PICK s \in Seq(Positions) : s = Items[h]
      BY ItemsAssumption
    <3>2. PICK A \in Pieces(Positions, Positions) : A = Asking
      BY <2>0, RequestTypes
    <3>3. PICK sn \in Seq(Positions), ob \in Seq(Positions) : sn = sent[h] /\ ob = outBuffer[h]
      BY <2>0 DEF RequestsOK
    <3>4. PICK c, ow, ld : c = curr[h] /\ ow = opWrite[h] /\ ld = loaded[h]
      OBVIOUS
    <3>5. Sends(A, s, c, ob, sn, ow, ld)
      BY <2>0, <3>1, <3>2, <3>3, <3>4 DEF RequestsOK
    <3>6. Begins(sn \o ob, Chain(A, s)) /\ Begins(sn, Chain(A, s)) /\ Chain(A, s) \in Seq(Positions)
      BY <3>5, SentIs
    <3>7. Units(Items[h]) = Chain(A, s)
      BY <3>1, <3>2, UnitsAre
    <3>8. PICK y \in Seq(Positions) : y = Chain(A, s)
      BY <3>6
    <3>9. processed[h] = Len(s)
      BY <2>0, <2>1, <3>1 DEF PhaseOK
    <3>10. PICK m \in 0..Len(Items[h]) :
             Answered(Asking, Replying, Items[h], sent[h], served[h], stream[h],
                      processed[h], Place(state[h], taken[h]), m)
      BY <2>0 DEF RepliesOK
    <3>11. m = Len(s)
      <4>1. Len(s) \in 0..m /\ m \in 0..Len(s)
        BY <3>1, <3>9, <3>10 DEF Answered
      <4>. QED
        BY <4>1
    <3>12. Part(A, s, 0, m) = y
      BY <3>8, <3>11, PartWhole
    <3>13. served[h] = Len(y) /\ Len(y) <= Len(sn)
      BY <3>1, <3>2, <3>3, <3>10, <3>12 DEF Answered
    <3>14. /\ Len(sn) <= Len(y) /\ Len(sn \o ob) <= Len(y)
           /\ \A i \in 1..Len(sn) : sn[i] = y[i]
      BY <3>6, <3>8 DEF Begins
    <3>15. Len(sn) = Len(y)
      BY <3>13, <3>14
    <3>16. sn = y
      BY <3>14, <3>15
    <3>17. ob = <<>>
      <4>1. Len(sn \o ob) = Len(sn) + Len(ob) /\ Len(sn) \in Nat /\ Len(ob) \in Nat
        BY Cat
      <4>2. Len(ob) = 0
        BY <3>14, <3>15, <4>1
      <4>. QED
        BY <4>2
    <3>18. stream[h] = <<>>
      <4>1. stream[h] # <<>> => processed[h] < Len(Items[h])
        BY <2>0, NextUnit
      <4>. QED
        BY <3>1, <3>9, <4>1
    <3>. QED
      BY <3>3, <3>7, <3>8, <3>13, <3>15, <3>16, <3>17, <3>18
  <2>2. selector = "pooled" => \A h \in Hosts : socket[h] \in {"null", "pooled"}
    BY <2>0 DEF PhaseOK
  <2>. QED
    BY <2>1, <2>2 DEF PooledClean
<1>. QED
  BY <1>1, MultiInvariant, PTL

\* With no server that owes an answer to a whole request, for slowness or for
\* the wait behind a long key, a call runs into its limit only for a host without
\* a socket, a closed connection or, in a multiGet, an empty value.
THEOREM StallsAreExplained == MultiSpec => []StallsOnlyFor
<1>1. MultiInv => StallsOnlyFor
  BY DEF MultiInv
<1>. QED
  BY <1>1, MultiInvariant, PTL
=============================================================================
