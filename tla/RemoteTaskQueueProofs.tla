----------------------- MODULE RemoteTaskQueueProofs -----------------------
(***************************************************************************)
(* RemoteTaskQueue keeps its shape and implements TaskQueue, for every set *)
(* of queues, tasks, enqueuers and workers and every bound on the messages *)
(* of a queue. The steps that take a message out of a list are the hard    *)
(* ones: what they drop has to be finished, waived, or somewhere else      *)
(* still. The invariant says where a task is that was accepted again while *)
(* a consumer was running it (OvertakenIsKept).                            *)
(***************************************************************************)
EXTENDS RemoteTaskQueue, SequenceTheorems, FiniteSetTheorems, WellFoundedInduction,
        NaturalsInduction, TLAPS

USE AmqpWorkerAssumption, NoTaskAssumption, NoQueueAssumption

-----------------------------------------------------------------------------
(* What the commands leave in a list. *)

(* A message is added at either end. *)
LEMMA AddedIsIn ==
  ASSUME NEW s \in Seq(Tasks), NEW t \in Tasks
  PROVE  /\ Append(s, t) \in Seq(Tasks) /\ <<t>> \o s \in Seq(Tasks)
         /\ \A u : Contains(Append(s, t), u) <=> u = t \/ Contains(s, u)
         /\ \A u : Contains(<<t>> \o s, u) <=> u = t \/ Contains(s, u)
<1>1. Len(s) \in Nat /\ <<t>> \in Seq(Tasks) /\ Len(<<t>>) = 1 /\ <<t>>[1] = t
  OBVIOUS
<1> DEFINE a == Append(s, t)
           c == <<t>> \o s
<1>2. /\ a \in Seq(Tasks) /\ Len(a) = Len(s) + 1 /\ a[Len(s) + 1] = t
      /\ \A i \in 1..Len(s) : a[i] = s[i]
  BY AppendProperties
<1>3. /\ c \in Seq(Tasks) /\ Len(c) = Len(s) + 1 /\ c[1] = t
      /\ \A i \in 1..Len(s) : c[i + 1] = s[i]
  BY <1>1, ConcatProperties
<1> HIDE DEF a, c
<1>4. ASSUME NEW u PROVE Contains(a, u) <=> u = t \/ Contains(s, u)
  BY <1>1, <1>2 DEF Contains
<1>5. ASSUME NEW u PROVE Contains(c, u) <=> u = t \/ Contains(s, u)
  <2>1. ASSUME Contains(c, u) PROVE u = t \/ Contains(s, u)
    <3>1. PICK i \in 1..Len(c) : c[i] = u
      BY <2>1 DEF Contains
    <3>2. i = 1 \/ (i - 1 \in 1..Len(s) /\ i = (i - 1) + 1)
      BY <1>1, <1>3
    <3>3. QED
      BY <1>3, <3>1, <3>2 DEF Contains
  <2>2. ASSUME NEW i \in 1..Len(s), s[i] = u PROVE Contains(c, u)
    BY <1>1, <1>3, <2>2 DEF Contains
  <2>3. u = t => Contains(c, u)
    BY <1>1, <1>3 DEF Contains
  <2>4. QED
    BY <2>1, <2>2, <2>3 DEF Contains
<1>6. QED
  BY <1>2, <1>3, <1>4, <1>5 DEF a, c

(* The first message is taken, or the last. *)
LEMMA TakenWasIn ==
  ASSUME NEW s \in Seq(Tasks), s # <<>>
  PROVE  /\ Head(s) \in Tasks /\ Tail(s) \in Seq(Tasks)
         /\ \A u : Contains(s, u) <=> u = Head(s) \/ Contains(Tail(s), u)
         /\ Last(s) \in Tasks /\ Front(s) \in Seq(Tasks)
         /\ \A u : Contains(s, u) <=> u = Last(s) \/ Contains(Front(s), u)
<1> DEFINE a == Tail(s)
           c == Front(s)
<1>1. Len(s) \in Nat \ {0}
  BY EmptySeq
<1>2. /\ Head(s) \in Tasks /\ a \in Seq(Tasks) /\ Len(a) = Len(s) - 1 /\ Head(s) = s[1]
      /\ \A i \in 1..Len(a) : a[i] = s[i + 1]
  BY HeadTailProperties
<1>3. /\ Last(s) \in Tasks /\ c \in Seq(Tasks) /\ Len(c) = Len(s) - 1 /\ Last(s) = s[Len(s)]
      /\ \A i \in 1..Len(c) : c[i] = s[i]
  <2>1. \A i \in 1..(Len(s) - 1) : s[i] \in Tasks
    BY <1>1, ElementOfSeq
  <2>2. Last(s) \in Tasks
    BY <1>1, ElementOfSeq DEF Last
  <2>3. PICK n \in Nat : n = Len(s) - 1
    BY <1>1
  <2>4. /\ SubSeq(s, 1, n) \in Seq(Tasks)
        /\ Len(SubSeq(s, 1, n)) = n
        /\ \A i \in 1..n : SubSeq(s, 1, n)[i] = s[i]
    BY <2>1, <2>3, SubSeqProperties
  <2>5. c = SubSeq(s, 1, n)
    BY <2>3 DEF Front
  <2> HIDE DEF c
  <2>6. QED
    BY <2>2, <2>3, <2>4, <2>5 DEF Last
<1> HIDE DEF a, c
<1>4. ASSUME NEW u PROVE Contains(s, u) <=> u = Head(s) \/ Contains(a, u)
  <2>1. ASSUME NEW i \in 1..Len(s), s[i] = u PROVE u = Head(s) \/ Contains(a, u)
    <3>1. i = 1 \/ (i - 1 \in 1..Len(a) /\ i = (i - 1) + 1)
      BY <1>1, <1>2
    <3>2. QED
      BY <1>2, <2>1, <3>1 DEF Contains
  <2>2. ASSUME NEW i \in 1..Len(a), a[i] = u PROVE Contains(s, u)
    BY <1>1, <1>2, <2>2 DEF Contains
  <2>3. u = Head(s) => Contains(s, u)
    BY <1>1, <1>2 DEF Contains
  <2>4. QED
    BY <2>1, <2>2, <2>3 DEF Contains
<1>5. ASSUME NEW u PROVE Contains(s, u) <=> u = Last(s) \/ Contains(c, u)
  <2>1. ASSUME NEW i \in 1..Len(s), s[i] = u PROVE u = Last(s) \/ Contains(c, u)
    BY <1>1, <1>3, <2>1 DEF Contains
  <2>2. ASSUME NEW i \in 1..Len(c), c[i] = u PROVE Contains(s, u)
    BY <1>1, <1>3, <2>2 DEF Contains
  <2>3. u = Last(s) => Contains(s, u)
    BY <1>1, <1>3 DEF Contains
  <2>4. QED
    BY <2>1, <2>2, <2>3 DEF Contains
<1>6. QED
  BY <1>2, <1>3, <1>4, <1>5 DEF a, c

(* A broker puts the deliveries back in front of the messages. *)
LEMMA RedeliveredIsIn ==
  ASSUME NEW s \in Seq(Tasks), NEW d \in Seq(Tasks)
  PROVE  /\ Reverse(d) \o s \in Seq(Tasks)
         /\ \A u : Contains(s, u) \/ Contains(d, u) => Contains(Reverse(d) \o s, u)
<1> DEFINE b == Reverse(d)
           c == b \o s
<1>1. Len(s) \in Nat /\ Len(d) \in Nat
  BY LenProperties
<1>2. b \in Seq(Tasks) /\ Len(b) = Len(d) /\ \A i \in 1..Len(d) : b[i] = d[Len(d) - i + 1]
  <2>1. \A i \in 1..Len(d) : d[Len(d) - i + 1] \in Tasks
    BY <1>1, ElementOfSeq
  <2>2. b = [i \in 1..Len(d) |-> d[Len(d) - i + 1]]
    BY DEF Reverse
  <2> HIDE DEF b
  <2>3. b \in [1..Len(d) -> Tasks]
    BY <2>1, <2>2
  <2>4. b \in Seq(Tasks) /\ Len(b) = Len(d)
    BY <1>1, <2>3, SeqDef
  <2>5. QED
    BY <2>2, <2>4
<1> HIDE DEF b
<1>3. /\ c \in Seq(Tasks) /\ Len(c) = Len(b) + Len(s)
      /\ \A i \in 1..(Len(b) + Len(s)) : c[i] = IF i <= Len(b) THEN b[i] ELSE s[i - Len(b)]
  BY <1>2, ConcatProperties
<1> HIDE DEF c
<1>n. PICK n, k \in Nat : n = Len(d) /\ n = Len(b) /\ k = Len(s)
  BY <1>1, <1>2
<1>4. ASSUME NEW i \in 1..Len(s) PROVE Contains(c, s[i])
  <2>1. PICK j \in 1..(n + k) : j = n + i /\ ~(j <= n) /\ j - n = i
    BY <1>n
  <2>2. j \in 1..Len(c) /\ c[j] = s[i]
    BY <1>3, <1>n, <2>1
  <2>3. QED
    BY <2>2 DEF Contains
<1>5. ASSUME NEW i \in 1..Len(d) PROVE Contains(c, d[i])
  <2>1. PICK j \in 1..n : i = n - j + 1
    <3>1. n - i + 1 \in 1..n /\ i = n - (n - i + 1) + 1
      BY <1>n
    <3>2. QED
      BY <3>1
  <2>2. b[j] = d[i]
    BY <1>2, <1>n, <2>1
  <2>3. j \in 1..Len(c) /\ c[j] = b[j]
    BY <1>3, <1>n, <2>1
  <2>4. QED
    BY <2>2, <2>3 DEF Contains
<1>6. QED
  BY <1>3, <1>4, <1>5 DEF Contains, b, c

(* Of numbers there is a smallest. *)
LEMMA MinIsIn ==
  ASSUME NEW I \in SUBSET Nat, I # {}
  PROVE  \E m \in I : \A i \in I : m <= i
<1> DEFINE R == OpToRel(<, Nat)
<1>1. IsWellFoundedOn(R, Nat)
  BY NatLessThanWellFounded, Zenon
<1>2. \A i, j \in Nat : i < j => <<i, j>> \in R
  BY Zenon DEF OpToRel
<1> HIDE DEF R
<1>3. PICK m \in I : \A i \in I : <<i, m>> \notin R
  BY <1>1, WFMin
<1>4. \A i \in I : ~(i < m)
  BY <1>2, <1>3
<1>5. QED
  BY <1>4

(* The acknowledgement of one message leaves every other. *)
LEMMA RemoveFirstLeaves ==
  ASSUME NEW s \in Seq(Tasks), NEW t
  PROVE  /\ RemoveFirst(s, t) \in Seq(Tasks)
         /\ \A u : Contains(RemoveFirst(s, t), u) => Contains(s, u)
         /\ \A u : Contains(s, u) /\ u # t => Contains(RemoveFirst(s, t), u)
<1>0. Len(s) \in Nat
  BY LenProperties
<1>1. CASE ~\E i \in 1..Len(s) : s[i] = t
  BY <1>1 DEF RemoveFirst
<1>2. CASE \E i \in 1..Len(s) : s[i] = t
  <2> DEFINE I == {i \in 1..Len(s) : s[i] = t}
             k == SelectInSeq(s, LAMBDA v : v = t)
  <2>1. k \in I
    <3>1. I \in SUBSET Nat /\ I # {}
      BY <1>2
    <3>2. \E m \in I : \A i \in I : m <= i
      BY <3>1, MinIsIn
    <3>3. Min(I) \in I
      BY <3>2 DEF Min
    <3>4. QED
      BY <3>1, <3>3 DEF SelectInSeq
  <2> HIDE DEF k
  <2>2. k \in 1..Len(s) /\ s[k] = t /\ k \in Nat \ {0}
    BY <1>0, <2>1
  <2> DEFINE a == SubSeq(s, 1, k - 1)
             b == SubSeq(s, k + 1, Len(s))
             c == a \o b
  <2>3. RemoveFirst(s, t) = c
    BY <1>2 DEF RemoveFirst, RemoveAt, k
  <2>4. a \in Seq(Tasks) /\ Len(a) = k - 1 /\ \A i \in 1..(k - 1) : a[i] = s[i]
    <3>1. \A i \in 1..(k - 1) : s[i] \in Tasks
      BY <1>0, <2>2, ElementOfSeq
    <3>2. PICK n \in Nat : n = k - 1
      BY <2>2
    <3>3. /\ SubSeq(s, 1, n) \in Seq(Tasks) /\ Len(SubSeq(s, 1, n)) = n
          /\ \A i \in 1..n : SubSeq(s, 1, n)[i] = s[i]
      BY <3>1, <3>2, SubSeqProperties
    <3>4. QED
      BY <3>2, <3>3
  <2>5. b \in Seq(Tasks) /\ Len(b) = Len(s) - k /\ \A i \in 1..(Len(s) - k) : b[i] = s[k + i]
    <3>1. PICK m \in Nat : m = k + 1
      BY <2>2
    <3>2. \A i \in m..Len(s) : s[i] \in Tasks
      <4>1. \A i \in 1..Len(s) : s[i] \in Tasks
        BY ElementOfSeq
      <4>2. QED
        BY <1>0, <2>2, <3>1, <4>1
    <3>3. /\ SubSeq(s, m, Len(s)) \in Seq(Tasks)
          /\ Len(SubSeq(s, m, Len(s))) = IF m <= Len(s) THEN Len(s) - m + 1 ELSE 0
          /\ \A i \in 1..(Len(s) - m + 1) : SubSeq(s, m, Len(s))[i] = s[m + i - 1]
      BY <1>0, <3>1, <3>2, SubSeqProperties
    <3>4. b = SubSeq(s, m, Len(s))
      BY <3>1
    <3> HIDE DEF b
    <3>5. Len(b) = Len(s) - k
      BY <1>0, <2>2, <3>1, <3>3, <3>4
    <3>6. \A i \in 1..(Len(s) - k) : b[i] = s[k + i]
      BY <1>0, <2>2, <3>1, <3>3, <3>4
    <3>7. QED
      BY <3>3, <3>4, <3>5, <3>6
  <2> HIDE DEF a, b
  <2>6. /\ c \in Seq(Tasks) /\ Len(c) = Len(s) - 1
        /\ \A i \in 1..(Len(s) - 1) : c[i] = IF i <= k - 1 THEN s[i] ELSE s[i + 1]
    <3>1. /\ c \in Seq(Tasks) /\ Len(c) = Len(a) + Len(b)
          /\ \A i \in 1..(Len(a) + Len(b)) : c[i] = IF i <= Len(a) THEN a[i] ELSE b[i - Len(a)]
      BY <2>4, <2>5, ConcatProperties
    <3> HIDE DEF c
    <3>a. Len(a) = k - 1 /\ Len(b) = Len(s) - k /\ Len(c) = Len(a) + Len(b)
      BY <2>4, <2>5, <3>1
    <3>2. Len(c) = Len(s) - 1
      BY <1>0, <2>2, <3>a
    <3>b. 1..(Len(a) + Len(b)) = 1..(Len(s) - 1)
      BY <3>2, <3>a
    <3>3. ASSUME NEW i \in 1..(Len(s) - 1), i <= k - 1 PROVE c[i] = s[i]
      <4>1. c[i] = a[i]
        BY <3>1, <3>3, <3>a, <3>b
      <4>2. i \in 1..(k - 1)
        BY <1>0, <2>2, <3>3
      <4>3. QED
        BY <2>4, <4>1, <4>2
    <3>4. ASSUME NEW i \in 1..(Len(s) - 1), ~(i <= k - 1) PROVE c[i] = s[i + 1]
      <4>1. PICK j \in 1..(Len(s) - k) : j = i - Len(a) /\ k + j = i + 1
        <5>1. i - (k - 1) \in 1..(Len(s) - k) /\ k + (i - (k - 1)) = i + 1
          BY <1>0, <2>2, <3>4
        <5>2. QED
          BY <3>a, <5>1
      <4>2. c[i] = b[j]
        BY <3>1, <3>4, <3>a, <3>b, <4>1
      <4>3. QED
        BY <2>5, <4>1, <4>2
    <3>5. QED
      BY <3>1, <3>2, <3>3, <3>4
  <2> HIDE DEF c
  <2>7. ASSUME NEW u, Contains(c, u) PROVE Contains(s, u)
    <3>1. PICK i \in 1..(Len(s) - 1) : c[i] = u
      BY <2>6, <2>7 DEF Contains
    <3>2. i \in 1..Len(s) /\ i + 1 \in 1..Len(s)
      BY <1>0
    <3>3. QED
      BY <2>6, <3>1, <3>2 DEF Contains
  <2>8. ASSUME NEW u, Contains(s, u), u # t PROVE Contains(c, u)
    <3>1. PICK i \in 1..Len(s) : s[i] = u
      BY <2>8 DEF Contains
    <3>2. i # k
      BY <2>2, <2>8, <3>1
    <3>3. CASE i < k
      <4>1. i \in 1..(Len(s) - 1) /\ c[i] = u
        BY <1>0, <2>2, <2>6, <3>1, <3>3
      <4>2. QED
        BY <2>6, <4>1 DEF Contains
    <3>4. CASE i > k
      <4>1. PICK j \in 1..(Len(s) - 1) : i = j + 1 /\ ~(j <= k - 1)
        BY <1>0, <2>2, <3>4
      <4>2. c[j] = u
        BY <2>6, <3>1, <4>1
      <4>3. QED
        BY <2>6, <4>1, <4>2 DEF Contains
    <3>5. QED
      BY <1>0, <2>2, <3>2, <3>3, <3>4
  <2>9. QED
    BY <2>3, <2>6, <2>7, <2>8
<1>3. QED
  BY <1>1, <1>2

(* LRem leaves every other message, and none that is equal to t. *)
LEMMA WithoutLeaves ==
  ASSUME NEW s \in Seq(Tasks), NEW t
  PROVE  /\ Without(s, t) \in Seq(Tasks)
         /\ \A u : Contains(Without(s, t), u) <=> Contains(s, u) /\ u # t
<1> DEFINE stay    == {i \in DOMAIN s : s[i] # t}
           upto(i) == {j \in stay : j <= i}
           rank(i) == Cardinality(upto(i))
           pos(n)  == CHOOSE i \in stay : rank(i) = n
           r       == Without(s, t)
<1> PICK N : N = Cardinality(stay)
  OBVIOUS
<1>1. /\ IsFiniteSet(stay) /\ N \in Nat
      /\ \A i : i \in stay <=> i \in 1..Len(s) /\ s[i] # t
  <2>1. PICK k \in Nat : k = Len(s) /\ DOMAIN s = 1..k
    BY LenProperties
  <2>2. IsFiniteSet(1..k)
    BY FS_Interval
  <2>3. stay \in SUBSET (1..k)
    BY <2>1
  <2>4. \A i : i \in stay <=> i \in 1..k /\ s[i] # t
    BY <2>1
  <2> HIDE DEF stay
  <2>5. IsFiniteSet(stay)
    BY <2>2, <2>3, FS_Subset
  <2>6. N \in Nat
    BY <2>5, FS_CardinalityType
  <2>7. QED
    BY <2>1, <2>4, <2>5, <2>6
<1>2. r = [n \in 1..N |-> s[pos(n)]]
  BY DEF Without
<1> HIDE DEF stay, r
<1>3. stay \subseteq Nat
  BY <1>1
<1>4. ASSUME NEW i \in stay PROVE IsFiniteSet(upto(i)) /\ rank(i) \in 1..N
  <2>1. upto(i) \in SUBSET stay /\ i \in upto(i)
    BY <1>3
  <2> HIDE DEF upto
  <2>2. IsFiniteSet(upto(i)) /\ Cardinality(upto(i)) <= N
    BY <1>1, <2>1, FS_Subset
  <2>3. Cardinality(upto(i)) \in Nat /\ Cardinality(upto(i)) # 0
    BY <2>1, <2>2, FS_CardinalityType, FS_EmptySet
  <2>4. QED
    BY <1>1, <2>2, <2>3
<1>5. ASSUME NEW i \in stay, NEW j \in stay, i < j PROVE rank(i) # rank(j)
  <2>a. i \in Nat /\ j \in Nat
    BY <1>3
  <2>b. (\A k \in stay : k <= i => k <= j) /\ j <= j /\ ~(j <= i)
    BY <1>3, <1>5, <2>a
  <2>1. upto(i) \in SUBSET upto(j) /\ j \in upto(j) /\ j \notin upto(i)
    BY <2>b, Zenon
  <2>2. IsFiniteSet(upto(j))
    BY <1>4
  <2> HIDE DEF upto
  <2>3. QED
    BY <2>1, <2>2, FS_Subset
<1>6. \A i, j \in stay : i # j => rank(i) # rank(j)
  <2> HIDE DEF rank
  <2>1. QED
    BY <1>3, <1>5
<1>7. ASSUME NEW n \in 1..N PROVE \E i \in stay : rank(i) = n
  <2> DEFINE f == [i \in stay |-> rank(i)]
             S == (1..N) \ {n}
  <2>1. SUFFICES ASSUME ~\E i \in stay : rank(i) = n PROVE FALSE
    OBVIOUS
  <2> HIDE DEF rank
  <2>2. f \in [stay -> S]
    BY <1>4, <2>1
  <2>3. IsFiniteSet(S) /\ Cardinality(S) < N
    <3>1. IsFiniteSet(1..N) /\ Cardinality(1..N) = N
      BY <1>1, FS_Interval
    <3>2. IsFiniteSet(S) /\ Cardinality(S) = N - 1
      BY <3>1, FS_RemoveElement
    <3> HIDE DEF S
    <3>3. QED
      BY <1>1, <3>2
  <2>4. PICK i, j \in stay : i # j /\ f[i] = f[j]
    <3> HIDE DEF f, S
    <3>1. QED
      BY <1>1, <2>2, <2>3, FS_PigeonHole
  <2>5. QED
    BY <1>6, <2>4
<1> HIDE DEF rank
<1>8. \A n \in 1..N : pos(n) \in stay /\ rank(pos(n)) = n
  BY <1>7
<1> HIDE DEF pos
<1>9. \A i \in stay : pos(rank(i)) = i
  BY <1>4, <1>6, <1>8
<1>10. r \in Seq(Tasks) /\ Len(r) = N
  <2>1. \A n \in 1..N : s[pos(n)] \in Tasks
    BY <1>1, <1>8, ElementOfSeq
  <2>2. r \in [1..N -> Tasks]
    BY <1>2, <2>1
  <2>3. QED
    BY <1>1, <2>2, SeqDef
<1>11. ASSUME NEW u, Contains(r, u) PROVE Contains(s, u) /\ u # t
  <2>1. PICK n \in 1..N : r[n] = u
    BY <1>10, <1>11 DEF Contains
  <2>2. pos(n) \in 1..Len(s) /\ s[pos(n)] = u /\ s[pos(n)] # t
    BY <1>1, <1>2, <1>8, <2>1
  <2>3. QED
    BY <2>2 DEF Contains
<1>12. ASSUME NEW u, Contains(s, u), u # t PROVE Contains(r, u)
  <2>1. PICK i \in 1..Len(s) : s[i] = u
    BY <1>12 DEF Contains
  <2>2. i \in stay
    BY <1>1, <1>12, <2>1
  <2>3. rank(i) \in 1..N /\ r[rank(i)] = u
    BY <1>2, <1>4, <1>9, <2>1, <2>2
  <2>4. QED
    BY <1>10, <2>3 DEF Contains
<1>13. QED
  BY <1>10, <1>11, <1>12 DEF r

-----------------------------------------------------------------------------
(* What a step does to a list of the broker, and to one consumer. *)

LEMMA ListChanges ==
  ASSUME NEW f \in [Queues -> Seq(Tasks)], NEW q \in Queues, NEW s \in Seq(Tasks),
         NEW g, g = [f EXCEPT ![q] = s]
  PROVE  /\ g \in [Queues -> Seq(Tasks)] /\ g[q] = s
         /\ \A r \in Queues \ {q} : g[r] = f[r]
  OBVIOUS

Becomes(q, w, v) ==
  /\ worker' \in [Queues -> [Workers -> Consumers]]
  /\ worker'[q][w] = v
  /\ \A r \in Queues, x \in Workers : r # q \/ x # w => worker'[r][x] = worker[r][x]

LEMMA WorkerChanges ==
  ASSUME TypeOK, NEW q \in Queues, NEW w \in Workers, NEW v \in Consumers,
         worker' = [worker EXCEPT ![q][w] = v]
  PROVE  Becomes(q, w, v)
<1>1. worker \in [Queues -> [Workers -> Consumers]]
  BY DEF TypeOK
<1> HIDE DEF Consumers
<1>2. QED
  BY <1>1 DEF Becomes

LEMMA WorkerFields ==
  ASSUME TypeOK, NEW q \in Queues, NEW w \in Workers
  PROVE  /\ worker[q][w] \in Consumers
         /\ worker[q][w].pc \in {"wait", "run", "done", "failed", "push"}
         /\ worker[q][w].pc = "wait" <=> worker[q][w] = Waiting
         /\ worker[q][w].pc # "wait" => worker[q][w].task \in Tasks
         /\ worker[q][w].begun \in BOOLEAN
<1>1. worker[q][w] \in Consumers
  BY DEF TypeOK
<1>2. PICK v \in Consumers : v = worker[q][w]
  BY <1>1
<1>3. CASE v = Waiting
  BY <1>1, <1>2, <1>3 DEF Waiting
<1>4. CASE v \in [pc : {"run", "done", "failed", "push"}, task : Tasks,
                  begun : BOOLEAN, live : BOOLEAN]
  <2>1. v.pc \in {"run", "done", "failed", "push"} /\ v.task \in Tasks /\ v.begun \in BOOLEAN
    BY <1>4
  <2>2. QED
    BY <1>1, <1>2, <2>1 DEF Waiting
<1>5. QED
  BY <1>3, <1>4 DEF Consumers

(* A consumer goes on with the task it has. *)
LEMMA WorkerMoves ==
  ASSUME TypeOK, NEW q \in Queues, NEW w \in Workers, worker[q][w].pc # "wait",
         NEW p \in {"done", "failed", "push"}, worker' = [worker EXCEPT ![q][w].pc = p]
  PROVE  /\ worker' \in [Queues -> [Workers -> Consumers]]
         /\ worker'[q][w].pc = p /\ worker'[q][w].task = worker[q][w].task
         /\ worker'[q][w].begun = worker[q][w].begun
         /\ \A r \in Queues, x \in Workers : r # q \/ x # w => worker'[r][x] = worker[r][x]
<1>1. worker \in [Queues -> [Workers -> Consumers]]
  BY DEF TypeOK
<1>2. worker[q][w] \in [pc : {"run", "done", "failed", "push"}, task : Tasks,
                        begun : BOOLEAN, live : BOOLEAN]
  BY WorkerFields DEF Consumers
<1>3. PICK v : v = [worker[q][w] EXCEPT !.pc = p]
  OBVIOUS
<1>4. /\ v \in [pc : {"run", "done", "failed", "push"}, task : Tasks,
                begun : BOOLEAN, live : BOOLEAN]
      /\ v.pc = p /\ v.task = worker[q][w].task
  BY <1>2, <1>3
<1>5. v.begun = worker[q][w].begun
  BY <1>2, <1>3
<1>6. worker' = [worker EXCEPT ![q][w] = v]
  BY <1>1, <1>3
<1>7. v \in Consumers
  BY <1>4 DEF Consumers
<1>8. Becomes(q, w, v)
  BY <1>6, <1>7, WorkerChanges
<1>9. QED
  BY <1>4, <1>5, <1>8 DEF Becomes

LEMMA CallFields ==
  ASSUME TypeOK, NEW c \in Enqueuers, call[c].pc # "idle"
  PROVE  /\ call[c].queue \in Queues /\ call[c].task \in Tasks
         /\ \A p \in {"channel", "push"} : [call EXCEPT ![c].pc = p] \in [Enqueuers -> Calls]
<1>1. call \in [Enqueuers -> Calls]
  BY DEF TypeOK
<1>2. call[c] \in [pc : {"connect", "channel", "push"}, queue : Queues, task : Tasks]
  BY <1>1 DEF Calls, NoCall
<1>3. ASSUME NEW p \in {"channel", "push"} PROVE [call[c] EXCEPT !.pc = p] \in Calls
  BY <1>2 DEF Calls
<1>4. QED
  BY <1>1, <1>2, <1>3

LEMMA ReturnTypeOK ==
  ASSUME TypeOK, NEW c \in Enqueuers, Return(c)
  PROVE  call' \in [Enqueuers -> Calls]
  BY DEF TypeOK, Return, Calls

(* What is accepted takes its claim from the consumers of an equal body.     *)
LEMMA OvertakenChanges ==
  ASSUME TypeOK, NEW q \in Queues, NEW t \in Tasks, worker' = Overtaken(q, t)
  PROVE  /\ worker' \in [Queues -> [Workers -> Consumers]]
         /\ \A r \in Queues, w \in Workers :
              /\ worker'[r][w].pc = worker[r][w].pc
              /\ worker'[r][w].task = worker[r][w].task
              /\ worker[r][w] = Waiting => worker'[r][w] = Waiting
              /\ r # q \/ worker[r][w].task # t => worker'[r][w] = worker[r][w]
<1> DEFINE new(w) == IF worker[q][w].task = t THEN [worker[q][w] EXCEPT !.begun = FALSE]
                                              ELSE worker[q][w]
           row    == [w \in Workers |-> new(w)]
<1>1. worker \in [Queues -> [Workers -> Consumers]]
  BY DEF TypeOK
<1>2. worker' = [worker EXCEPT ![q] = row]
  BY DEF Overtaken
<1>3. ASSUME NEW w \in Workers
      PROVE  /\ new(w) \in Consumers
             /\ new(w).pc = worker[q][w].pc /\ new(w).task = worker[q][w].task
             /\ worker[q][w].task # t => new(w) = worker[q][w]
             /\ worker[q][w] = Waiting => new(w) = Waiting
  <2>1. CASE worker[q][w].task = t
    <3>1. worker[q][w] # Waiting /\ worker[q][w] \in Consumers
      BY <2>1, WorkerFields DEF Waiting
    <3>2. worker[q][w] \in [pc : {"run", "done", "failed", "push"}, task : Tasks,
                            begun : BOOLEAN, live : BOOLEAN]
      BY <3>1 DEF Consumers
    <3>3. PICK v : v = [worker[q][w] EXCEPT !.begun = FALSE]
      OBVIOUS
    <3>4. /\ v \in [pc : {"run", "done", "failed", "push"}, task : Tasks,
                    begun : BOOLEAN, live : BOOLEAN]
          /\ v.pc = worker[q][w].pc /\ v.task = worker[q][w].task
      BY <3>2, <3>3
    <3>5. new(w) = v
      BY <2>1, <3>3
    <3> HIDE DEF new
    <3>6. QED
      BY <2>1, <3>1, <3>4, <3>5 DEF Consumers
  <2>2. CASE worker[q][w].task # t
    <3>1. new(w) = worker[q][w]
      BY <2>2
    <3> HIDE DEF new
    <3>2. QED
      BY <2>2, <3>1, WorkerFields
  <2>3. QED
    BY <2>1, <2>2
<1> HIDE DEF new
<1>4. row \in [Workers -> Consumers] /\ \A w \in Workers : row[w] = new(w)
  BY <1>3
<1> HIDE DEF row
<1>5. /\ worker' \in [Queues -> [Workers -> Consumers]]
      /\ worker'[q] = row /\ \A r \in Queues \ {q} : worker'[r] = worker[r]
  <2> HIDE DEF Consumers
  <2>1. QED
    BY <1>1, <1>2, <1>4
<1>6. QED
  BY <1>3, <1>4, <1>5

LEMMA PushedIsIn ==
  ASSUME TypeOK, NEW q \in Queues, NEW t \in Tasks, list' = [list EXCEPT ![q] = Pushed(q, t)]
  PROVE  /\ list' \in [Queues -> Seq(Tasks)]
         /\ \A u : Contains(list'[q], u) <=> u = t \/ Contains(list[q], u)
         /\ \A r \in Queues \ {q} : list'[r] = list[r]
<1>1. list \in [Queues -> Seq(Tasks)] /\ list[q] \in Seq(Tasks)
  BY DEF TypeOK
<1>2. PICK s : s = Pushed(q, t)
  OBVIOUS
<1>3. PICK l \in Seq(Tasks) : l = list[q]
  BY <1>1
<1>4. s \in Seq(Tasks) /\ \A u : Contains(s, u) <=> u = t \/ Contains(list[q], u)
  <2>1. s = <<t>> \o l \/ s = Append(l, t)
    BY <1>2, <1>3 DEF Pushed
  <2>2. CASE s = <<t>> \o l
    BY <1>3, <2>2, AddedIsIn, Zenon
  <2>3. CASE s = Append(l, t)
    BY <1>3, <2>3, AddedIsIn, Zenon
  <2>4. QED
    BY <2>1, <2>2, <2>3
<1>5. list' = [list EXCEPT ![q] = s]
  BY <1>2
<1>6. list' \in [Queues -> Seq(Tasks)] /\ list'[q] = s /\ \A r \in Queues \ {q} : list'[r] = list[r]
  <2>1. s \in Seq(Tasks)
    BY <1>4
  <2>2. QED
    BY <1>1, <1>5, <2>1, ListChanges
<1>7. QED
  BY <1>4, <1>6

(* A list of the broker is set. *)
LEMMA ListSet ==
  ASSUME TypeOK, NEW q \in Queues, NEW s \in Seq(Tasks)
  PROVE  /\ list' = [list EXCEPT ![q] = s] =>
              /\ list' \in [Queues -> Seq(Tasks)] /\ list'[q] = s
              /\ \A r \in Queues \ {q} : list'[r] = list[r]
         /\ processing' = [processing EXCEPT ![q] = s] =>
              /\ processing' \in [Queues -> Seq(Tasks)] /\ processing'[q] = s
              /\ \A r \in Queues \ {q} : processing'[r] = processing[r]
<1>1. list \in [Queues -> Seq(Tasks)] /\ processing \in [Queues -> Seq(Tasks)]
  BY DEF TypeOK
<1>2. ASSUME list' = [list EXCEPT ![q] = s]
      PROVE  /\ list' \in [Queues -> Seq(Tasks)] /\ list'[q] = s
             /\ \A r \in Queues \ {q} : list'[r] = list[r]
  BY <1>1, <1>2, ListChanges
<1>3. ASSUME processing' = [processing EXCEPT ![q] = s]
      PROVE  /\ processing' \in [Queues -> Seq(Tasks)] /\ processing'[q] = s
             /\ \A r \in Queues \ {q} : processing'[r] = processing[r]
  BY <1>1, <1>3, ListChanges
<1>4. QED
  BY <1>2, <1>3

(* Every delivery goes back in front of the messages of its queue. *)
LEMMA RedeliveredChanges ==
  ASSUME TypeOK, list' = Redelivered
  PROVE  /\ list' \in [Queues -> Seq(Tasks)]
         /\ \A q \in Queues : \A u :
              Contains(list[q], u) \/ Contains(processing[q], u) => Contains(list'[q], u)
<1>1. ASSUME NEW q \in Queues PROVE list[q] \in Seq(Tasks) /\ processing[q] \in Seq(Tasks)
  BY DEF TypeOK
<1>2. \A q \in Queues : list'[q] = Reverse(processing[q]) \o list[q]
  BY DEF Redelivered
<1>3. list' = [q \in Queues |-> list'[q]]
  BY DEF Redelivered
<1>4. ASSUME NEW q \in Queues
      PROVE  /\ list'[q] \in Seq(Tasks)
             /\ \A u : Contains(list[q], u) \/ Contains(processing[q], u) => Contains(list'[q], u)
  <2>1. PICK s, d \in Seq(Tasks) : s = list[q] /\ d = processing[q]
    BY <1>1
  <2>2. QED
    BY <1>2, <2>1, RedeliveredIsIn
<1>5. QED
  BY <1>3, <1>4

-----------------------------------------------------------------------------
(* Type correctness, with what each step does to the lists of its queue. *)

LEMMA InitTypeOK == Init => TypeOK
<1> SUFFICES ASSUME Init PROVE TypeOK
  OBVIOUS
<1>1. /\ list \in [Queues -> Seq(Tasks)] /\ processing \in [Queues -> Seq(Tasks)]
      /\ call \in [Enqueuers -> Calls] /\ worker \in [Queues -> [Workers -> Consumers]]
  BY DEF Init, Calls, Consumers
<1>2. link \in [connection : BOOLEAN, channel : BOOLEAN]
  BY DEF Init, Fresh
<1>3. QED
  BY <1>1, <1>2 DEF Init, TypeOK

(* Most steps leave the process as it was set up. *)
LEMMA Frame ==
  ASSUME TypeOK, UNCHANGED <<setup, consuming>>,
         link' \in [connection : BOOLEAN, channel : BOOLEAN],
         list' \in [Queues -> Seq(Tasks)], processing' \in [Queues -> Seq(Tasks)],
         call' \in [Enqueuers -> Calls], worker' \in [Queues -> [Workers -> Consumers]],
         owed' \subseteq Queues \X Tasks, waived' \subseteq Queues \X Tasks
  PROVE  TypeOK'
  BY DEF TypeOK, setup

LEMMA PushEffect ==
  ASSUME TypeOK, NEW c \in Enqueuers, Push(c)
  PROVE  \E q \in Queues, t \in Tasks :
           /\ TypeOK'
           /\ worker' = Overtaken(q, t) /\ list' = [list EXCEPT ![q] = Pushed(q, t)]
           /\ UNCHANGED <<queueType, processing, waived>> /\ owed' = owed \cup {<<q, t>>}
<1>1. PICK q \in Queues, t \in Tasks : q = call[c].queue /\ t = call[c].task
  BY CallFields DEF Push
<1>2. /\ worker' = Overtaken(q, t) /\ list' = [list EXCEPT ![q] = Pushed(q, t)]
      /\ UNCHANGED <<setup, processing, consuming, link, waived>>
      /\ owed' = owed \cup {<<q, t>>} /\ Return(c)
  BY <1>1 DEF Push
<1>3. /\ list' \in [Queues -> Seq(Tasks)] /\ worker' \in [Queues -> [Workers -> Consumers]]
      /\ call' \in [Enqueuers -> Calls]
  BY <1>2, PushedIsIn, OvertakenChanges, ReturnTypeOK
<1>4. /\ processing' \in [Queues -> Seq(Tasks)] /\ owed' \subseteq Queues \X Tasks
      /\ waived' \subseteq Queues \X Tasks /\ link' \in [connection : BOOLEAN, channel : BOOLEAN]
  BY <1>2 DEF TypeOK
<1>5. TypeOK'
  BY <1>2, <1>3, <1>4, Frame
<1>6. queueType' = queueType
  BY <1>2 DEF setup
<1>7. QED
  BY <1>2, <1>5, <1>6

(* The other steps of a call may add a message that is not accepted. *)
LEMMA CallEffect ==
  ASSUME TypeOK, NEW c \in Enqueuers, CallStep(c), ~Push(c)
  PROVE  /\ TypeOK' /\ UNCHANGED <<queueType, processing, worker, owed, waived>>
         /\ \A r \in Queues : \A u : Contains(list[r], u) => Contains(list'[r], u)
<1>1. CASE AlreadyConnected(c)
  <2>1. call' \in [Enqueuers -> Calls]
    BY <1>1, CallFields DEF AlreadyConnected
  <2>2. UNCHANGED <<setup, list, processing, consuming, link, worker, owed, waived>>
    BY <1>1 DEF AlreadyConnected, broker, watch
  <2>3. TypeOK'
    BY <2>1, <2>2, Frame DEF TypeOK
  <2>4. QED
    BY <2>2, <2>3 DEF setup
<1>2. CASE Dial(c) \/ OpenChannel(c)
  <2>1. call' \in [Enqueuers -> Calls]
    BY <1>2, CallFields, ReturnTypeOK DEF Dial, OpenChannel
  <2>2. UNCHANGED <<setup, list, processing, consuming, worker, owed, waived>>
    BY <1>2 DEF Dial, OpenChannel, broker, watch
  <2>3. link' \in [connection : BOOLEAN, channel : BOOLEAN]
    BY <1>2 DEF Dial, OpenChannel, TypeOK
  <2>4. TypeOK'
    BY <2>1, <2>2, <2>3, Frame DEF TypeOK
  <2>5. QED
    BY <2>2, <2>4 DEF setup
<1>3. CASE PushFails(c)
  <2>1. PICK q \in Queues, t \in Tasks : q = call[c].queue /\ t = call[c].task
    BY <1>3, CallFields DEF PushFails
  <2>2. /\ list' = list \/ list' = [list EXCEPT ![q] = Pushed(q, t)]
        /\ UNCHANGED <<setup, processing, consuming, link, worker, owed, waived>> /\ Return(c)
    BY <1>3, <2>1 DEF PushFails, watch
  <2>3. /\ list' \in [Queues -> Seq(Tasks)]
        /\ \A r \in Queues : \A u : Contains(list[r], u) => Contains(list'[r], u)
    <3>1. CASE list' = list
      BY <3>1 DEF TypeOK
    <3>2. CASE list' = [list EXCEPT ![q] = Pushed(q, t)]
      BY <3>2, PushedIsIn
    <3>3. QED
      BY <2>2, <3>1, <3>2
  <2>4. call' \in [Enqueuers -> Calls]
    BY <2>2, ReturnTypeOK
  <2>5. TypeOK'
    BY <2>2, <2>3, <2>4, Frame DEF TypeOK
  <2>6. QED
    BY <2>2, <2>3, <2>5 DEF setup
<1>4. QED
  BY <1>1, <1>2, <1>3 DEF CallStep

(* Task t goes from the list to the consumer w and to the processing list. *)
Received(q, w, t) ==
  /\ UNCHANGED <<queueType, owed, waived>>
  /\ worker[q][w] = Waiting /\ (queueType = "amqp" => w = AmqpWorker)
  /\ Becomes(q, w, [pc |-> "run", task |-> t, begun |-> TRUE, live |-> TRUE])
  /\ \A u : Contains(list[q], u) <=> u = t \/ Contains(list'[q], u)
  /\ \A u : Contains(processing'[q], u) <=> u = t \/ Contains(processing[q], u)
  /\ \A r \in Queues \ {q} : list'[r] = list[r] /\ processing'[r] = processing[r]

LEMMA ReceiveEffect ==
  ASSUME TypeOK, NEW q \in Queues, NEW w \in Workers, Receive(q, w)
  PROVE  TypeOK' /\ \E t \in Tasks : Received(q, w, t)
<1>1. PICK l, p \in Seq(Tasks) : l = list[q] /\ p = processing[q] /\ l # <<>>
  BY DEF Receive, TypeOK
<1>2. PICK t, s, d : t = Head(l) /\ s = Tail(l) /\ d = <<t>> \o p
  OBVIOUS
<1>3. t \in Tasks /\ s \in Seq(Tasks) /\ \A u : Contains(l, u) <=> u = t \/ Contains(s, u)
  BY <1>1, <1>2, TakenWasIn, Zenon
<1>4. d \in Seq(Tasks) /\ \A u : Contains(d, u) <=> u = t \/ Contains(p, u)
  BY <1>1, <1>2, <1>3, AddedIsIn, Zenon
<1>5. /\ list' = [list EXCEPT ![q] = s] /\ processing' = [processing EXCEPT ![q] = d]
      /\ worker' = [worker EXCEPT ![q][w] =
                      [pc |-> "run", task |-> t, begun |-> TRUE, live |-> TRUE]]
      /\ UNCHANGED <<setup, consuming, link, call, owed, waived>>
      /\ worker[q][w] = Waiting /\ (queueType = "amqp" => w = AmqpWorker)
  BY <1>1, <1>2 DEF Receive, watch
<1>6. /\ list' \in [Queues -> Seq(Tasks)] /\ list'[q] = s
      /\ \A r \in Queues \ {q} : list'[r] = list[r]
  <2>1. s \in Seq(Tasks)
    BY <1>3
  <2>2. QED
    BY <1>5, <2>1, ListSet
<1>7. /\ processing' \in [Queues -> Seq(Tasks)] /\ processing'[q] = d
      /\ \A r \in Queues \ {q} : processing'[r] = processing[r]
  <2>1. d \in Seq(Tasks)
    BY <1>4
  <2>2. QED
    BY <1>5, <2>1, ListSet
<1>8. Becomes(q, w, [pc |-> "run", task |-> t, begun |-> TRUE, live |-> TRUE])
  <2>1. PICK v \in Consumers : v = [pc |-> "run", task |-> t, begun |-> TRUE, live |-> TRUE]
    BY <1>3 DEF Consumers
  <2>2. worker' = [worker EXCEPT ![q][w] = v]
    BY <1>5, <2>1
  <2>3. Becomes(q, w, v)
    BY <2>2, WorkerChanges
  <2>4. QED
    BY <2>1, <2>3
<1>9. TypeOK'
  <2>1. worker' \in [Queues -> [Workers -> Consumers]]
    BY <1>8 DEF Becomes
  <2>2. QED
    BY <1>5, <1>6, <1>7, <2>1, Frame DEF TypeOK
<1>10. queueType' = queueType
  BY <1>5 DEF setup
<1>11. Received(q, w, t)
  BY <1>1, <1>3, <1>4, <1>5, <1>6, <1>7, <1>8, <1>10, Zenon DEF Received
<1>12. QED
  BY <1>3, <1>9, <1>11

LEMMA RunEffect ==
  ASSUME TypeOK, NEW q \in Queues, NEW w \in Workers, RunSucceeds(q, w) \/ RunFails(q, w)
  PROVE  /\ TypeOK' /\ UNCHANGED <<queueType, list, processing, owed, waived>>
         /\ worker[q][w].pc = "run" /\ worker'[q][w].pc \in {"done", "failed"}
         /\ worker'[q][w].task = worker[q][w].task
         /\ worker'[q][w].begun = worker[q][w].begun
         /\ \A r \in Queues, x \in Workers : r # q \/ x # w => worker'[r][x] = worker[r][x]
<1>1. PICK p \in {"done", "failed"} : Run(q, w, p)
  BY DEF RunSucceeds, RunFails
<1>2. /\ worker[q][w].pc = "run" /\ worker' = [worker EXCEPT ![q][w].pc = p]
      /\ UNCHANGED <<setup, list, processing, consuming, link, call, owed, waived>>
  BY <1>1 DEF Run, broker, watch
<1>3. /\ worker' \in [Queues -> [Workers -> Consumers]]
      /\ worker'[q][w].pc = p /\ worker'[q][w].task = worker[q][w].task
      /\ worker'[q][w].begun = worker[q][w].begun
      /\ \A r \in Queues, x \in Workers : r # q \/ x # w => worker'[r][x] = worker[r][x]
  BY <1>2, WorkerMoves
<1>4. TypeOK'
  BY <1>2, <1>3, Frame DEF TypeOK
<1>5. queueType' = queueType
  BY <1>2 DEF setup
<1>6. QED
  BY <1>2, <1>3, <1>4, <1>5

(* The tasks that Finished names. *)
LEMMA FinishedIs ==
  ASSUME TypeOK, NEW q \in Queues, NEW w \in Workers, worker[q][w].pc # "wait"
  PROVE  /\ Finished(q, w) \subseteq {<<q, worker[q][w].task>>}
         /\ Finished(q, w) \subseteq Queues \X Tasks
         /\ worker[q][w].pc = "done" /\ worker[q][w].begun
              => Finished(q, w) = {<<q, worker[q][w].task>>}
         /\ ~(worker[q][w].pc = "done" /\ worker[q][w].begun) => Finished(q, w) = {}
<1>1. worker[q][w].task \in Tasks
  BY WorkerFields
<1>2. QED
  BY <1>1 DEF Finished

(* LRem: the body is gone, or the command failed. *)
LEMMA RemoveEffect ==
  ASSUME TypeOK, NEW q \in Queues, NEW w \in Workers, RemoveFromProcessing(q, w)
  PROVE  /\ TypeOK' /\ UNCHANGED <<queueType, list>> /\ owed' = owed \ Finished(q, w)
         /\ waived \subseteq waived' /\ waived' \subseteq waived \cup {<<q, worker[q][w].task>>}
         /\ worker[q][w].pc \in {"done", "failed"} /\ queueType = "redis"
         /\ worker[q][w].pc = "done" => worker'[q][w] = Waiting
         /\ worker[q][w].pc = "failed" => /\ worker'[q][w].pc = "push"
                                          /\ worker'[q][w].task = worker[q][w].task
         /\ \A r \in Queues, x \in Workers : r # q \/ x # w => worker'[r][x] = worker[r][x]
         /\ \A u : Contains(processing'[q], u) => Contains(processing[q], u)
         /\ \A u : Contains(processing[q], u) /\ u # worker[q][w].task
                     => Contains(processing'[q], u)
         /\ \A r \in Queues \ {q} : processing'[r] = processing[r]
         /\ UNCHANGED processing
              \/ (RunElsewhere(q, w, worker[q][w].task)
                    => {<<q, worker[q][w].task>>} \cap owed' \subseteq waived')
<1>1. PICK t \in Tasks : t = worker[q][w].task
  BY WorkerFields DEF RemoveFromProcessing
<1>2. PICK p, s \in Seq(Tasks) :
         p = processing[q] /\ s = Without(p, t)
  <2>1. PICK p \in Seq(Tasks) : p = processing[q]
    BY DEF TypeOK
  <2>2. Without(p, t) \in Seq(Tasks)
    BY WithoutLeaves
  <2>3. QED
    BY <2>1, <2>2
<1>3. \A u : Contains(s, u) <=> Contains(p, u) /\ u # t
  BY <1>2, WithoutLeaves
<1>4. /\ queueType = "redis" /\ worker[q][w].pc \in {"done", "failed"}
      /\ owed' = owed \ Finished(q, w)
      /\ worker' = IF worker[q][w].pc = "done" THEN [worker EXCEPT ![q][w] = Waiting]
                                               ELSE [worker EXCEPT ![q][w].pc = "push"]
      /\ UNCHANGED <<setup, list, consuming, link, call>>
  BY DEF RemoveFromProcessing
<1>5. \/ UNCHANGED <<processing, waived>>
      \/ /\ processing' = [processing EXCEPT ![q] = s]
         /\ waived' = waived \cup (IF RunElsewhere(q, w, t) THEN {<<q, t>>} \cap owed' ELSE {})
  BY <1>1, <1>2 DEF RemoveFromProcessing
<1>6. /\ waived \subseteq waived' /\ waived' \subseteq waived \cup {<<q, t>>}
      /\ UNCHANGED processing
           \/ (RunElsewhere(q, w, t) => {<<q, t>>} \cap owed' \subseteq waived')
  BY <1>5
<1>7. /\ processing' \in [Queues -> Seq(Tasks)]
      /\ \A u : Contains(processing'[q], u) => Contains(processing[q], u)
      /\ \A u : Contains(processing[q], u) /\ u # t => Contains(processing'[q], u)
      /\ \A r \in Queues \ {q} : processing'[r] = processing[r]
  <2>1. CASE processing' = [processing EXCEPT ![q] = s]
    <3>1. /\ processing' \in [Queues -> Seq(Tasks)] /\ processing'[q] = s
          /\ \A r \in Queues \ {q} : processing'[r] = processing[r]
      BY <2>1, ListSet
    <3>2. QED
      BY <1>2, <1>3, <3>1
  <2>2. CASE processing' = processing
    BY <2>2 DEF TypeOK
  <2>3. QED
    BY <1>5, <2>1, <2>2
<1>8. /\ worker' \in [Queues -> [Workers -> Consumers]]
      /\ worker[q][w].pc = "done" => worker'[q][w] = Waiting
      /\ worker[q][w].pc = "failed" => worker'[q][w].pc = "push" /\ worker'[q][w].task = t
      /\ \A r \in Queues, x \in Workers : r # q \/ x # w => worker'[r][x] = worker[r][x]
  <2>1. CASE worker[q][w].pc = "done"
    <3>1. worker' = [worker EXCEPT ![q][w] = Waiting] /\ Waiting \in Consumers
      BY <1>4, <2>1 DEF Consumers
    <3>2. Becomes(q, w, Waiting)
      BY <3>1, WorkerChanges
    <3>3. QED
      BY <2>1, <3>2 DEF Becomes
  <2>2. CASE worker[q][w].pc = "failed"
    <3>1. worker' = [worker EXCEPT ![q][w].pc = "push"]
      BY <1>4, <2>2
    <3>2. QED
      BY <1>1, <2>2, <3>1, WorkerMoves
  <2>3. QED
    BY <1>4, <2>1, <2>2
<1>9. TypeOK'
  <2>1. owed' \subseteq Queues \X Tasks
    BY <1>4 DEF TypeOK
  <2>2. waived' \subseteq Queues \X Tasks
    BY <1>6 DEF TypeOK
  <2>3. QED
    BY <1>4, <1>7, <1>8, <2>1, <2>2, Frame DEF TypeOK
<1>10. queueType' = queueType
  BY <1>4 DEF setup
<1>11. QED
  BY <1>1, <1>4, <1>6, <1>7, <1>8, <1>9, <1>10, Zenon

(* A failed task is pushed back, or its consumer gave up. *)
LEMMA PushBackEffect ==
  ASSUME TypeOK, NEW q \in Queues, NEW w \in Workers, PushBack(q, w) \/ PushBackFails(q, w)
  PROVE  \E t \in Tasks :
           /\ TypeOK' /\ UNCHANGED <<queueType, processing, owed>>
           /\ worker[q][w].pc = "push" /\ t = worker[q][w].task /\ worker'[q][w] = Waiting
           /\ \A r \in Queues, x \in Workers : r # q \/ x # w => worker'[r][x] = worker[r][x]
           /\ waived \subseteq waived' /\ (Contains(list'[q], t) \/ <<q, t>> \in waived')
           /\ \A r \in Queues : \A u : Contains(list[r], u) => Contains(list'[r], u)
<1>1. PICK t \in Tasks : t = worker[q][w].task
  BY WorkerFields DEF PushBack, PushBackFails
<1>2. /\ worker[q][w].pc = "push" /\ worker' = [worker EXCEPT ![q][w] = Waiting]
      /\ UNCHANGED <<setup, processing, consuming, link, call, owed>>
  BY DEF PushBack, PushBackFails, broker, watch
<1>3. \/ UNCHANGED waived /\ list' = [list EXCEPT ![q] = Append(@, t)]
      \/ UNCHANGED list /\ waived' = waived \cup {<<q, t>>}
  BY <1>1 DEF PushBack, PushBackFails, broker, watch
<1>4. Becomes(q, w, Waiting)
  <2>1. Waiting \in Consumers
    BY DEF Consumers
  <2>2. QED
    BY <1>2, <2>1, WorkerChanges
<1>5. /\ list' \in [Queues -> Seq(Tasks)]
      /\ Contains(list'[q], t) \/ <<q, t>> \in waived'
      /\ \A r \in Queues : \A u : Contains(list[r], u) => Contains(list'[r], u)
  <2>1. CASE list' = [list EXCEPT ![q] = Append(@, t)]
    <3>1. PICK l \in Seq(Tasks) : l = list[q]
      BY DEF TypeOK
    <3>2. PICK s : s = Append(l, t)
      OBVIOUS
    <3>3. s \in Seq(Tasks) /\ \A u : Contains(s, u) <=> u = t \/ Contains(l, u)
      BY <3>2, AddedIsIn, Zenon
    <3>4. list' = [list EXCEPT ![q] = s]
      BY <2>1, <3>1, <3>2
    <3>5. /\ list' \in [Queues -> Seq(Tasks)] /\ list'[q] = s
          /\ \A r \in Queues \ {q} : list'[r] = list[r]
      <4>1. s \in Seq(Tasks)
        BY <3>3
      <4>2. QED
        BY <3>4, <4>1, ListSet
    <3>6. QED
      BY <3>1, <3>3, <3>5
  <2>2. CASE list' = list /\ waived' = waived \cup {<<q, t>>}
    BY <2>2 DEF TypeOK
  <2>3. QED
    BY <1>3, <2>1, <2>2
<1>6. TypeOK'
  <2>1. waived' \subseteq Queues \X Tasks
    BY <1>3 DEF TypeOK
  <2>2. worker' \in [Queues -> [Workers -> Consumers]]
    BY <1>4 DEF Becomes
  <2>3. QED
    BY <1>2, <1>5, <2>1, <2>2, Frame DEF TypeOK
<1>7. queueType' = queueType /\ waived \subseteq waived'
  BY <1>2, <1>3 DEF setup
<1>8. QED
  BY <1>1, <1>2, <1>4, <1>5, <1>6, <1>7 DEF Becomes

(* An acknowledgement, or the broker's redelivery of a failed task. *)
LEMMA AcknowledgeEffect ==
  ASSUME TypeOK, NEW q \in Queues, NEW w \in Workers, Acknowledge(q, w)
  PROVE  /\ TypeOK' /\ UNCHANGED <<queueType, waived>> /\ owed' = owed \ Finished(q, w)
         /\ queueType = "amqp" /\ worker[q][w].pc \in {"done", "failed"}
         /\ worker'[q][w] = Waiting
         /\ \A r \in Queues, x \in Workers : r # q \/ x # w => worker'[r][x] = worker[r][x]
         /\ \A r \in Queues : \A u : Contains(list[r], u) => Contains(list'[r], u)
         /\ \A u : Contains(list'[q], u) \/ Contains(processing'[q], u)
                     => Contains(list[q], u) \/ Contains(processing[q], u)
                        \/ worker[q][w].pc = "failed"
         /\ \A u : Contains(processing[q], u)
                     => \/ Contains(processing'[q], u)
                        \/ u = worker[q][w].task
                           /\ (worker[q][w].pc = "failed" => Contains(list'[q], u))
         /\ \A r \in Queues \ {q} : list'[r] = list[r] /\ processing'[r] = processing[r]
<1>1. PICK t \in Tasks : t = worker[q][w].task
  BY WorkerFields DEF Acknowledge
<1>2. /\ queueType = "amqp" /\ worker[q][w].pc \in {"done", "failed"}
      /\ owed' = owed \ Finished(q, w) /\ worker' = [worker EXCEPT ![q][w] = Waiting]
      /\ UNCHANGED <<setup, consuming, link, call, waived>>
  BY DEF Acknowledge
<1>3. PICK l, p \in Seq(Tasks) : l = list[q] /\ p = processing[q]
  BY DEF TypeOK
<1>4. PICK m, s : m = <<t>> \o l /\ s = RemoveFirst(p, t)
  OBVIOUS
<1>5. m \in Seq(Tasks) /\ \A u : Contains(m, u) <=> u = t \/ Contains(l, u)
  BY <1>4, AddedIsIn, Zenon
<1>6. /\ s \in Seq(Tasks) /\ \A u : Contains(s, u) => Contains(p, u)
      /\ \A u : Contains(p, u) /\ u # t => Contains(s, u)
  BY <1>4, RemoveFirstLeaves, Zenon
<1>7. \/ UNCHANGED <<list, processing>>
      \/ /\ processing' = [processing EXCEPT ![q] = s]
         /\ worker[q][w].pc = "failed" => list' = [list EXCEPT ![q] = m]
         /\ worker[q][w].pc # "failed" => list' = list
  BY <1>1, <1>3, <1>4 DEF Acknowledge, broker
<1>8. /\ list' \in [Queues -> Seq(Tasks)] /\ processing' \in [Queues -> Seq(Tasks)]
      /\ \/ list'[q] = l /\ processing'[q] = p
         \/ list'[q] = m /\ processing'[q] = s /\ worker[q][w].pc = "failed"
         \/ list'[q] = l /\ processing'[q] = s /\ worker[q][w].pc = "done"
      /\ \A r \in Queues \ {q} : list'[r] = list[r] /\ processing'[r] = processing[r]
  <2>1. CASE UNCHANGED <<list, processing>>
    BY <1>3, <2>1 DEF TypeOK
  <2>2. CASE ~UNCHANGED <<list, processing>>
    <3>1. /\ processing' \in [Queues -> Seq(Tasks)] /\ processing'[q] = s
          /\ \A r \in Queues \ {q} : processing'[r] = processing[r]
      <4>1. s \in Seq(Tasks) /\ processing' = [processing EXCEPT ![q] = s]
        BY <1>6, <1>7, <2>2
      <4>2. QED
        BY <4>1, ListSet
    <3>2. CASE worker[q][w].pc = "failed"
      <4>1. m \in Seq(Tasks) /\ list' = [list EXCEPT ![q] = m]
        BY <1>5, <1>7, <2>2, <3>2
      <4>2. /\ list' \in [Queues -> Seq(Tasks)] /\ list'[q] = m
            /\ \A r \in Queues \ {q} : list'[r] = list[r]
        BY <4>1, ListSet
      <4>3. QED
        BY <3>1, <3>2, <4>2
    <3>3. CASE worker[q][w].pc = "done"
      <4>1. list' = list
        BY <1>7, <2>2, <3>3
      <4>2. QED
        BY <1>3, <3>1, <3>3, <4>1 DEF TypeOK
    <3>4. QED
      BY <1>2, <3>2, <3>3
  <2>3. QED
    BY <2>1, <2>2
<1>9. Becomes(q, w, Waiting)
  <2>1. Waiting \in Consumers
    BY DEF Consumers
  <2>2. QED
    BY <1>2, <2>1, WorkerChanges
<1>10. TypeOK'
  <2>1. owed' \subseteq Queues \X Tasks
    BY <1>2 DEF TypeOK
  <2>2. worker' \in [Queues -> [Workers -> Consumers]]
    BY <1>9 DEF Becomes
  <2>3. QED
    BY <1>2, <1>8, <2>1, <2>2, Frame DEF TypeOK
<1>11. /\ \A r \in Queues : \A u : Contains(list[r], u) => Contains(list'[r], u)
       /\ \A u : Contains(list'[q], u) \/ Contains(processing'[q], u)
                     => Contains(list[q], u) \/ Contains(processing[q], u)
                        \/ worker[q][w].pc = "failed"
       /\ \A u : Contains(processing[q], u)
                   => \/ Contains(processing'[q], u)
                      \/ u = t /\ (worker[q][w].pc = "failed" => Contains(list'[q], u))
  BY <1>3, <1>5, <1>6, <1>8
<1>12. queueType' = queueType
  BY <1>2 DEF setup
<1>13. QED
  BY <1>1, <1>2, <1>8, <1>9, <1>10, <1>11, <1>12 DEF Becomes

(* The sweep moves the oldest task that is being processed. *)
LEMMA SweepEffect ==
  ASSUME TypeOK, NEW q \in Queues, SweepMove(q)
  PROVE  /\ TypeOK' /\ UNCHANGED <<queueType, worker, owed, waived>>
         /\ \A r \in Queues : \A u :
              /\ Contains(list[r], u) => Contains(list'[r], u)
              /\ Contains(processing[r], u) => Contains(list'[r], u) \/ Contains(processing'[r], u)
<1>1. PICK l, p \in Seq(Tasks) : l = list[q] /\ p = processing[q] /\ p # <<>>
  BY DEF SweepMove, TypeOK
<1>2. PICK t, s, m : t = Last(p) /\ s = Front(p) /\ m = Append(l, t)
  OBVIOUS
<1>3. t \in Tasks /\ s \in Seq(Tasks) /\ \A u : Contains(p, u) <=> u = t \/ Contains(s, u)
  BY <1>1, <1>2, TakenWasIn, Zenon
<1>4. m \in Seq(Tasks) /\ \A u : Contains(m, u) <=> u = t \/ Contains(l, u)
  BY <1>1, <1>2, <1>3, AddedIsIn, Zenon
<1>5. /\ list' = [list EXCEPT ![q] = m] /\ processing' = [processing EXCEPT ![q] = s]
      /\ UNCHANGED <<setup, consuming, link, call, worker, owed, waived>>
  BY <1>1, <1>2 DEF SweepMove, watch
<1>6. /\ list' \in [Queues -> Seq(Tasks)] /\ list'[q] = m
      /\ \A r \in Queues \ {q} : list'[r] = list[r]
  <2>1. m \in Seq(Tasks)
    BY <1>4
  <2>2. QED
    BY <1>5, <2>1, ListSet
<1>7. /\ processing' \in [Queues -> Seq(Tasks)] /\ processing'[q] = s
      /\ \A r \in Queues \ {q} : processing'[r] = processing[r]
  <2>1. s \in Seq(Tasks)
    BY <1>3
  <2>2. QED
    BY <1>5, <2>1, ListSet
<1>8. TypeOK'
  BY <1>5, <1>6, <1>7, Frame DEF TypeOK
<1>9. \A r \in Queues : \A u :
        /\ Contains(list[r], u) => Contains(list'[r], u)
        /\ Contains(processing[r], u) => Contains(list'[r], u) \/ Contains(processing'[r], u)
  BY <1>1, <1>3, <1>4, <1>6, <1>7
<1>10. queueType' = queueType
  BY <1>5 DEF setup
<1>11. QED
  BY <1>5, <1>8, <1>9, <1>10

(* The process is set up, or a call begins. *)
LEMMA SetupEffect ==
  ASSUME TypeOK,
         \/ \E q \in Queues : RegisterFunction(q)
         \/ StartConsumers
         \/ \E c \in Enqueuers, q \in Queues : EnqueueUnregistered(c, q)
         \/ \E c \in Enqueuers, q \in Queues, t \in Tasks : BeginEnqueue(c, q, t)
  PROVE  TypeOK' /\ UNCHANGED <<queueType, list, processing, worker, owed, waived>>
<1>1. ASSUME NEW q \in Queues, RegisterFunction(q)
      PROVE  TypeOK' /\ UNCHANGED <<queueType, list, processing, worker, owed, waived>>
  <2>1. link' \in [connection : BOOLEAN, channel : BOOLEAN]
    BY <1>1 DEF RegisterFunction, TypeOK
  <2>2. /\ registered' \subseteq Queues /\ consuming' \subseteq registered'
        /\ UNCHANGED <<queueType, list, processing, started, leaked, purge, call, worker, owed,
                       waived>>
    BY <1>1 DEF RegisterFunction, TypeOK, broker, watch
  <2>3. QED
    BY <2>1, <2>2 DEF TypeOK
<1>2. ASSUME StartConsumers
      PROVE  TypeOK' /\ UNCHANGED <<queueType, list, processing, worker, owed, waived>>
  BY <1>2 DEF StartConsumers, TypeOK, broker, watch
<1>3. ASSUME NEW c \in Enqueuers, NEW q \in Queues, EnqueueUnregistered(c, q)
      PROVE  TypeOK' /\ UNCHANGED <<queueType, list, processing, worker, owed, waived>>
  BY <1>3 DEF EnqueueUnregistered, TypeOK, broker, watch
<1>4. ASSUME NEW c \in Enqueuers, NEW q \in Queues, NEW t \in Tasks, BeginEnqueue(c, q, t)
      PROVE  TypeOK' /\ UNCHANGED <<queueType, list, processing, worker, owed, waived>>
  <2>1. UNCHANGED <<setup, list, processing, consuming, link, worker, owed, waived>>
    BY <1>4 DEF BeginEnqueue, broker, watch
  <2>2. call' \in [Enqueuers -> Calls]
    BY <1>4 DEF BeginEnqueue, TypeOK, Calls
  <2>3. TypeOK'
    BY <2>1, <2>2, Frame DEF TypeOK
  <2>4. QED
    BY <2>1, <2>3 DEF setup
<1>5. QED
  BY <1>1, <1>2, <1>3, <1>4

(* What a purge takes out of the lists is owed no more. *)
LEMMA PurgeEffect ==
  ASSUME TypeOK, PurgeProcessing \/ \E q \in Queues : PurgeList(q)
  PROVE  \E I \in SUBSET (Queues \X Tasks) :
           /\ TypeOK' /\ UNCHANGED <<queueType, worker, waived>> /\ owed' = owed \ I
           /\ \A r \in Queues, u \in Tasks :
                /\ Contains(list'[r], u) => Contains(list[r], u)
                /\ Contains(processing'[r], u) => Contains(processing[r], u)
                /\ <<r, u>> \notin I /\ Contains(list[r], u) => Contains(list'[r], u)
                /\ <<r, u>> \notin I /\ Contains(processing[r], u) => Contains(processing'[r], u)
<1>1. /\ <<>> \in Seq(Tasks) /\ \A u : ~Contains(<<>>, u)
      /\ \A s \in Seq(Tasks) : \A u : u \in ToSet(s) <=> Contains(s, u)
      /\ \A s \in Seq(Tasks) : ToSet(s) \subseteq Tasks
  <2>1. ASSUME NEW s \in Seq(Tasks)
        PROVE  ToSet(s) \subseteq Tasks /\ \A u : u \in ToSet(s) <=> Contains(s, u)
    <3>1. DOMAIN s = 1..Len(s) /\ \A i \in 1..Len(s) : s[i] \in Tasks
      BY ElementOfSeq
    <3>2. QED
      BY <3>1 DEF ToSet, Contains
  <2>2. QED
    BY <2>1 DEF Contains
<1>2. /\ list \in [Queues -> Seq(Tasks)] /\ processing \in [Queues -> Seq(Tasks)]
      /\ owed \subseteq Queues \X Tasks
  BY DEF TypeOK
<1>3. ASSUME NEW q \in Queues, PurgeList(q)
      PROVE  \E I \in SUBSET (Queues \X Tasks) :
               /\ TypeOK' /\ UNCHANGED <<queueType, worker, waived>> /\ owed' = owed \ I
               /\ \A r \in Queues, u \in Tasks :
                    /\ Contains(list'[r], u) => Contains(list[r], u)
                    /\ Contains(processing'[r], u) => Contains(processing[r], u)
                    /\ <<r, u>> \notin I /\ Contains(list[r], u) => Contains(list'[r], u)
                    /\ <<r, u>> \notin I /\ Contains(processing[r], u) => Contains(processing'[r], u)
  <2>1. PICK I : I = {q} \X ToSet(list[q])
    OBVIOUS
  <2>2. /\ list' = [list EXCEPT ![q] = <<>>] /\ owed' = owed \ I
        /\ purge' \in Queues \cup {NoQueue}
        /\ UNCHANGED <<queueType, registered, started, leaked, processing, consuming, link, call,
                       worker, waived>>
    BY <1>3, <2>1 DEF PurgeList
  <2>3. /\ list' \in [Queues -> Seq(Tasks)] /\ list'[q] = <<>>
        /\ \A r \in Queues \ {q} : list'[r] = list[r]
    BY <1>1, <2>2, ListSet
  <2>4. I \in SUBSET (Queues \X Tasks) /\ \A u : <<q, u>> \in I <=> Contains(list[q], u)
    BY <1>1, <1>2, <2>1
  <2>5. owed' \subseteq Queues \X Tasks
    BY <1>2, <2>2
  <2>6. TypeOK'
    BY <2>2, <2>3, <2>5 DEF TypeOK
  <2>7. ASSUME NEW r \in Queues, NEW u \in Tasks
        PROVE  /\ Contains(list'[r], u) => Contains(list[r], u)
               /\ <<r, u>> \notin I /\ Contains(list[r], u) => Contains(list'[r], u)
    BY <1>1, <2>3, <2>4, Zenon
  <2>8. QED
    BY <2>2, <2>4, <2>6, <2>7, Zenon
<1>4. ASSUME PurgeProcessing
      PROVE  \E I \in SUBSET (Queues \X Tasks) :
               /\ TypeOK' /\ UNCHANGED <<queueType, worker, waived>> /\ owed' = owed \ I
               /\ \A r \in Queues, u \in Tasks :
                    /\ Contains(list'[r], u) => Contains(list[r], u)
                    /\ Contains(processing'[r], u) => Contains(processing[r], u)
                    /\ <<r, u>> \notin I /\ Contains(list[r], u) => Contains(list'[r], u)
                    /\ <<r, u>> \notin I /\ Contains(processing[r], u) => Contains(processing'[r], u)
  <2>1. PICK q \in Queues : q = purge
    BY <1>4 DEF PurgeProcessing, TypeOK
  <2>2. /\ purge' = NoQueue
        /\ UNCHANGED <<queueType, registered, started, leaked, list, consuming, link, call,
                       worker, waived>>
    BY <1>4 DEF PurgeProcessing
  <2>3. CASE UNCHANGED <<processing, owed>>
    <3>1. TypeOK'
      BY <2>2, <2>3 DEF TypeOK
    <3>2. owed' = owed \ {} /\ {} \in SUBSET (Queues \X Tasks)
      BY <2>3
    <3>3. QED
      BY <2>2, <2>3, <3>1, <3>2, Zenon
  <2>4. CASE /\ processing' = [processing EXCEPT ![q] = <<>>]
             /\ owed' = owed \ ({q} \X ToSet(processing[q]))
    <3>1. PICK I : I = {q} \X ToSet(processing[q])
      OBVIOUS
    <3>2. /\ processing' \in [Queues -> Seq(Tasks)] /\ processing'[q] = <<>>
          /\ \A r \in Queues \ {q} : processing'[r] = processing[r]
      BY <1>1, <2>4, ListSet
    <3>3. I \in SUBSET (Queues \X Tasks) /\ \A u : <<q, u>> \in I <=> Contains(processing[q], u)
      BY <1>1, <1>2, <3>1
    <3>4. owed' = owed \ I /\ owed' \subseteq Queues \X Tasks
      BY <1>2, <2>4, <3>1
    <3>5. TypeOK'
      BY <2>2, <3>2, <3>4 DEF TypeOK
    <3>6. ASSUME NEW r \in Queues, NEW u \in Tasks
          PROVE  /\ Contains(processing'[r], u) => Contains(processing[r], u)
                 /\ <<r, u>> \notin I /\ Contains(processing[r], u) => Contains(processing'[r], u)
      BY <1>1, <3>2, <3>3, Zenon
    <3>7. QED
      BY <2>2, <3>3, <3>4, <3>5, <3>6, Zenon
  <2>5. QED
    BY <1>4, <2>1, <2>3, <2>4 DEF PurgeProcessing
<1>5. QED
  BY <1>3, <1>4

LEMMA ConnectionLostEffect ==
  ASSUME TypeOK, ConnectionLost
  PROVE  /\ TypeOK' /\ UNCHANGED <<queueType, owed, waived>>
         /\ \A q \in Queues : \A u :
              Contains(list[q], u) \/ Contains(processing[q], u) => Contains(list'[q], u)
         /\ \A q \in Queues, w \in Workers :
              /\ worker'[q][w].pc = worker[q][w].pc /\ worker'[q][w].task = worker[q][w].task
              /\ worker'[q][w].begun = worker[q][w].begun
              /\ worker[q][w] = Waiting => worker'[q][w] = Waiting
<1>1. /\ list' = Redelivered /\ processing' = [q \in Queues |-> <<>>] /\ consuming' = {}
      /\ link' \in {Fresh, [link EXCEPT !.channel = FALSE]}
      /\ worker' = [q \in Queues |-> [w \in Workers |-> [worker[q][w] EXCEPT !.live = FALSE]]]
      /\ UNCHANGED <<setup, call, owed, waived>>
  BY DEF ConnectionLost, watch
<1>2. ASSUME NEW q \in Queues, NEW w \in Workers
      PROVE  /\ worker'[q][w] \in Consumers
             /\ worker'[q][w].pc = worker[q][w].pc /\ worker'[q][w].task = worker[q][w].task
             /\ worker'[q][w].begun = worker[q][w].begun
             /\ worker[q][w] = Waiting => worker'[q][w] = Waiting
  <2>1. worker'[q][w] = [worker[q][w] EXCEPT !.live = FALSE]
    BY <1>1
  <2>2. CASE worker[q][w] = Waiting
    <3>a. [Waiting EXCEPT !.live = FALSE] = Waiting
      <4>1. /\ Waiting \in [pc : {"wait"}, task : {NoTask}, begun : BOOLEAN, live : BOOLEAN]
            /\ Waiting.live = FALSE
        BY DEF Waiting
      <4>2. QED
        BY <4>1
    <3>1. worker'[q][w] = Waiting
      BY <2>1, <2>2, <3>a
    <3>2. QED
      BY <2>2, <3>1 DEF Consumers
  <2>3. CASE worker[q][w] # Waiting
    <3>1. worker[q][w] \in [pc : {"run", "done", "failed", "push"}, task : Tasks,
                            begun : BOOLEAN, live : BOOLEAN]
      BY <2>3, WorkerFields DEF Consumers
    <3>2. PICK v, z : v = worker[q][w] /\ z = [v EXCEPT !.live = FALSE]
      OBVIOUS
    <3>3. /\ z \in [pc : {"run", "done", "failed", "push"}, task : Tasks,
                    begun : BOOLEAN, live : BOOLEAN]
          /\ z.pc = v.pc /\ z.task = v.task
      BY <3>1, <3>2
    <3>4. z.begun = v.begun
      BY <3>1, <3>2
    <3>5. QED
      BY <2>1, <2>3, <3>2, <3>3, <3>4 DEF Consumers
  <2>4. QED
    BY <2>2, <2>3
<1>3. worker' \in [Queues -> [Workers -> Consumers]]
  <2> HIDE DEF Consumers
  <2>1. QED
    BY <1>1, <1>2
<1>4. /\ list' \in [Queues -> Seq(Tasks)]
      /\ \A q \in Queues : \A u :
           Contains(list[q], u) \/ Contains(processing[q], u) => Contains(list'[q], u)
  BY <1>1, RedeliveredChanges
<1>5. processing' \in [Queues -> Seq(Tasks)]
  BY <1>1
<1>6. link' \in [connection : BOOLEAN, channel : BOOLEAN]
  <2>1. link \in [connection : BOOLEAN, channel : BOOLEAN]
    BY DEF TypeOK
  <2>2. [link EXCEPT !.channel = FALSE] \in [connection : BOOLEAN, channel : BOOLEAN]
    BY <2>1
  <2>3. Fresh \in [connection : BOOLEAN, channel : BOOLEAN]
    BY DEF Fresh
  <2>4. QED
    BY <1>1, <2>2, <2>3, Zenon
<1>7. TypeOK'
  BY <1>1, <1>3, <1>4, <1>5, <1>6 DEF TypeOK, setup
<1>8. queueType' = queueType
  BY <1>1 DEF setup
<1>9. QED
  BY <1>1, <1>2, <1>4, <1>7, <1>8

LEMMA CrashEffect ==
  ASSUME TypeOK, Crash
  PROVE  /\ TypeOK' /\ UNCHANGED <<queueType, owed>> /\ waived \subseteq waived'
         /\ \A q \in Queues, w \in Workers : worker'[q][w] = Waiting
         /\ \A q \in Queues, u \in Tasks :
              /\ Held(q, u) => <<q, u>> \in waived'
              /\ Contains(list[q], u) \/ Contains(processing[q], u)
                   => Contains(list'[q], u) \/ Contains(processing'[q], u)
<1>1. /\ registered' = {} /\ started' = FALSE /\ consuming' = {} /\ link' = Fresh
      /\ leaked' = FALSE /\ call' = [c \in Enqueuers |-> NoCall]
      /\ worker' = [q \in Queues |-> [w \in Workers |-> Waiting]]
      /\ UNCHANGED <<queueType, purge, owed>>
  BY DEF Crash
<1>2. waived' = waived \cup {p \in Queues \X Tasks : Held(p[1], p[2])}
  BY DEF Crash
<1>3. \/ list' = Redelivered /\ processing' = [q \in Queues |-> <<>>]
      \/ UNCHANGED <<list, processing>>
  BY DEF Crash, broker
<1>4. /\ list' \in [Queues -> Seq(Tasks)] /\ processing' \in [Queues -> Seq(Tasks)]
      /\ \A q \in Queues, u \in Tasks :
           Contains(list[q], u) \/ Contains(processing[q], u)
             => Contains(list'[q], u) \/ Contains(processing'[q], u)
  <2>1. CASE list' = Redelivered /\ processing' = [q \in Queues |-> <<>>]
    BY <2>1, RedeliveredChanges
  <2>2. CASE UNCHANGED <<list, processing>>
    BY <2>2 DEF TypeOK
  <2>3. QED
    BY <1>3, <2>1, <2>2
<1>5. \A q \in Queues, u \in Tasks : Held(q, u) => <<q, u>> \in waived'
  BY <1>2
<1>6. waived \subseteq waived' /\ waived' \subseteq Queues \X Tasks
  BY <1>2 DEF TypeOK
<1>7. /\ worker' \in [Queues -> [Workers -> Consumers]]
      /\ call' \in [Enqueuers -> Calls] /\ link' \in [connection : BOOLEAN, channel : BOOLEAN]
      /\ \A q \in Queues, w \in Workers : worker'[q][w] = Waiting
  BY <1>1 DEF Consumers, Calls, Fresh
<1>8. TypeOK'
  BY <1>1, <1>4, <1>6, <1>7 DEF TypeOK
<1>9. QED
  BY <1>1, <1>4, <1>5, <1>6, <1>7, <1>8

(* A step that leaves alone what the invariant and the refinement look at. *)
Quiet == UNCHANGED <<queueType, list, processing, worker, owed, waived>>

LEMMA NextTypeOK == TypeOK /\ [Next]_vars => TypeOK'
<1> SUFFICES ASSUME TypeOK, [Next]_vars PROVE TypeOK'
  OBVIOUS
<1>1. CASE UNCHANGED vars
  BY <1>1 DEF vars, TypeOK
<1>2. ASSUME NEW c \in Enqueuers, CallStep(c) PROVE TypeOK'
  BY <1>2, PushEffect, CallEffect
<1>3. ASSUME NEW q \in Queues, NEW w \in Workers, WorkerStep(q, w) PROVE TypeOK'
  BY <1>3, ReceiveEffect, RunEffect, RemoveEffect, PushBackEffect, AcknowledgeEffect
     DEF WorkerStep
<1>4. ASSUME NEW q \in Queues, SweepMove(q) PROVE TypeOK'
  BY <1>4, SweepEffect
<1>5. ASSUME PurgeProcessing \/ \E q \in Queues : PurgeList(q) PROVE TypeOK'
  BY <1>5, PurgeEffect
<1>6. ASSUME Trouble PROVE TypeOK'
  BY <1>6, ConnectionLostEffect, CrashEffect DEF Trouble
<1>7. QED
  BY <1>1, <1>2, <1>3, <1>4, <1>5, <1>6, SetupEffect DEF Next, Step

(* In every reachable state the variables are well formed: a consumer that   *)
(* is not waiting has a task of its queue, and only tasks are in the lists,  *)
(* whatever Redis, the broker and the consumers do.                          *)
THEOREM TypeCorrect == Spec => []TypeOK
  BY InitTypeOK, NextTypeOK, PTL DEF Spec

-----------------------------------------------------------------------------
(* The invariant. A task that is accepted again while a consumer runs it is  *)
(* not finished by that run (begun is FALSE), and yet the run's success takes *)
(* the body out of the processing list. It is found again all the same: the  *)
(* new message waits in the list, is about to be pushed back, or is run by   *)
(* another consumer, which is a window. A broker has no such window, for it  *)
(* serves one consumer of a queue.                                           *)

Running(q, w, t) == worker[q][w].pc \in {"run", "done", "failed"} /\ worker[q][w].task = t

BrokerServesOne ==
  queueType = "amqp" =>
    \A q \in Queues, w \in Workers :
      worker[q][w].pc # "push" /\ (w # AmqpWorker => worker[q][w] = Waiting)

FoundAgain(q, t) == \/ Contains(list[q], t) \/ Held(q, t)
                    \/ \E v \in Workers : Running(q, v, t) /\ worker[q][v].begun

OvertakenIsKept ==
  \A q \in Queues, w \in Workers, t \in Tasks :
    Running(q, w, t) /\ ~worker[q][w].begun /\ <<q, t>> \in owed \ waived => FoundAgain(q, t)

IInv == TypeOK /\ BrokerServesOne /\ OvertakenIsKept

LEMMA InitIInv == Init => IInv
<1> SUFFICES ASSUME Init PROVE IInv
  OBVIOUS
<1>1. \A q \in Queues, w \in Workers : worker[q][w] = Waiting
  BY DEF Init
<1>a. Waiting.pc = "wait"
  BY DEF Waiting
<1>2. BrokerServesOne
  BY <1>1, <1>a DEF BrokerServesOne
<1>3. OvertakenIsKept
  BY <1>1, <1>a DEF OvertakenIsKept, Running
<1>4. QED
  BY <1>2, <1>3, InitTypeOK DEF IInv

(* A step of one consumer, under either kind of queue. *)
LEMMA ServesOneStep ==
  ASSUME TypeOK, BrokerServesOne, NEW q \in Queues, NEW w \in Workers, queueType' = queueType,
         queueType = "amqp" => w = AmqpWorker /\ worker'[q][w].pc # "push",
         \A r \in Queues, x \in Workers : r # q \/ x # w => worker'[r][x] = worker[r][x]
  PROVE  BrokerServesOne'
  BY DEF BrokerServesOne

LEMMA NextServesOne ==
  ASSUME TypeOK, BrokerServesOne, [Next]_vars
  PROVE  BrokerServesOne'
<1>1. ASSUME UNCHANGED <<queueType, worker>> PROVE BrokerServesOne'
  BY <1>1 DEF BrokerServesOne
<1>2. CASE UNCHANGED vars
  BY <1>1, <1>2 DEF vars
<1>3. ASSUME NEW c \in Enqueuers, CallStep(c) PROVE BrokerServesOne'
  <2>1. CASE Push(c)
    <3>1. PICK q \in Queues, t \in Tasks : worker' = Overtaken(q, t) /\ queueType' = queueType
      BY <2>1, PushEffect
    <3>2. QED
      BY <3>1, OvertakenChanges DEF BrokerServesOne
  <2>2. CASE ~Push(c)
    BY <1>1, <1>3, <2>2, CallEffect
  <2>3. QED
    BY <2>1, <2>2
<1>4. ASSUME NEW q \in Queues, NEW w \in Workers, WorkerStep(q, w) PROVE BrokerServesOne'
  <2>1. CASE Receive(q, w)
    <3>1. PICK t \in Tasks : Received(q, w, t)
      BY <2>1, ReceiveEffect
    <3>2. /\ worker'[q][w].pc = "run"
          /\ \A r \in Queues, x \in Workers : r # q \/ x # w => worker'[r][x] = worker[r][x]
          /\ queueType' = queueType /\ (queueType = "amqp" => w = AmqpWorker)
      BY <3>1 DEF Received, Becomes
    <3>3. QED
      BY <3>2, ServesOneStep
  <2>2. CASE RunSucceeds(q, w) \/ RunFails(q, w)
    <3>1. /\ queueType' = queueType /\ worker'[q][w].pc \in {"done", "failed"}
          /\ worker[q][w].pc = "run"
          /\ \A r \in Queues, x \in Workers : r # q \/ x # w => worker'[r][x] = worker[r][x]
      BY <2>2, RunEffect
    <3>2. queueType = "amqp" => w = AmqpWorker
      BY <3>1 DEF BrokerServesOne, Waiting
    <3>3. QED
      BY <3>1, <3>2, ServesOneStep
  <2>3. CASE RemoveFromProcessing(q, w)
    BY <2>3, RemoveEffect DEF BrokerServesOne
  <2>4. CASE PushBack(q, w) \/ PushBackFails(q, w)
    <3>1. queueType' = queueType /\ worker[q][w].pc = "push"
      BY <2>4, PushBackEffect
    <3>2. QED
      BY <3>1 DEF BrokerServesOne
  <2>5. CASE Acknowledge(q, w)
    <3>1. /\ queueType' = queueType /\ worker[q][w].pc # "wait" /\ worker'[q][w].pc = "wait"
          /\ \A r \in Queues, x \in Workers : r # q \/ x # w => worker'[r][x] = worker[r][x]
      BY <2>5, AcknowledgeEffect DEF Waiting
    <3>2. queueType = "amqp" => w = AmqpWorker
      BY <3>1 DEF BrokerServesOne, Waiting
    <3>3. QED
      BY <3>1, <3>2, ServesOneStep
  <2>6. QED
    BY <1>4, <2>1, <2>2, <2>3, <2>4, <2>5 DEF WorkerStep
<1>5. ASSUME NEW q \in Queues, SweepMove(q) PROVE BrokerServesOne'
  BY <1>1, <1>5, SweepEffect
<1>6. ASSUME PurgeProcessing \/ \E q \in Queues : PurgeList(q) PROVE BrokerServesOne'
  BY <1>1, <1>6, PurgeEffect
<1>7. CASE ConnectionLost
  BY <1>7, ConnectionLostEffect DEF BrokerServesOne
<1>8. CASE Crash
  <2>1. Waiting.pc = "wait"
    BY DEF Waiting
  <2>2. QED
    BY <1>8, <2>1, CrashEffect DEF BrokerServesOne
<1>9. QED
  BY <1>1, <1>2, <1>3, <1>4, <1>5, <1>6, <1>7, <1>8, SetupEffect DEF Next, Step, Trouble

(* Where no consumer moves and no message goes, nothing is lost. *)
LEMMA NobodyMoves ==
  ASSUME OvertakenIsKept, owed' \subseteq owed, waived \subseteq waived',
         \A r \in Queues, u \in Tasks :
           <<r, u>> \in owed' /\ Contains(list[r], u) => Contains(list'[r], u),
         \A r \in Queues, x \in Workers :
           /\ worker'[r][x].pc = worker[r][x].pc /\ worker'[r][x].task = worker[r][x].task
           /\ worker'[r][x].begun = worker[r][x].begun
  PROVE  OvertakenIsKept'
<1> SUFFICES ASSUME NEW q \in Queues, NEW w \in Workers, NEW t \in Tasks,
                    Running(q, w, t)', ~worker'[q][w].begun, <<q, t>> \in owed' \ waived'
             PROVE  FoundAgain(q, t)'
  BY DEF OvertakenIsKept
<1>1. /\ \A x \in Workers : Running(q, x, t)' <=> Running(q, x, t)
      /\ Held(q, t)' <=> Held(q, t)
      /\ Contains(list[q], t) => Contains(list'[q], t)
  BY DEF Running, Held
<1>2. \A x \in Workers : worker'[q][x].begun = worker[q][x].begun
  OBVIOUS
<1>3. FoundAgain(q, t)
  BY <1>1, <1>2 DEF OvertakenIsKept
<1>4. QED
  BY <1>1, <1>2, <1>3 DEF FoundAgain

LEMMA PushKeeps ==
  ASSUME TypeOK, OvertakenIsKept, NEW c \in Enqueuers, Push(c)
  PROVE  OvertakenIsKept'
<1>1. PICK p \in Queues, v \in Tasks :
        /\ worker' = Overtaken(p, v) /\ list' = [list EXCEPT ![p] = Pushed(p, v)]
        /\ waived' = waived /\ owed' = owed \cup {<<p, v>>}
  BY PushEffect
<1>2. \A r \in Queues, x \in Workers :
        /\ worker'[r][x].pc = worker[r][x].pc /\ worker'[r][x].task = worker[r][x].task
        /\ r # p \/ worker[r][x].task # v => worker'[r][x] = worker[r][x]
  BY <1>1, OvertakenChanges
<1>3. /\ \A u : Contains(list'[p], u) <=> u = v \/ Contains(list[p], u)
      /\ \A r \in Queues \ {p} : list'[r] = list[r]
  BY <1>1, PushedIsIn
<1> SUFFICES ASSUME NEW q \in Queues, NEW w \in Workers, NEW t \in Tasks,
                    Running(q, w, t)', ~worker'[q][w].begun, <<q, t>> \in owed' \ waived'
             PROVE  FoundAgain(q, t)'
  BY DEF OvertakenIsKept
<1>4. CASE q = p /\ t = v
  BY <1>3, <1>4 DEF FoundAgain
<1>5. CASE ~(q = p /\ t = v)
  <2>1. /\ \A x \in Workers : Running(q, x, t)' <=> Running(q, x, t)
        /\ Held(q, t)' <=> Held(q, t)
        /\ Contains(list[q], t) => Contains(list'[q], t)
    BY <1>2, <1>3 DEF Running, Held
  <2>2. \A x \in Workers : Running(q, x, t) => worker'[q][x] = worker[q][x]
    BY <1>2, <1>5 DEF Running
  <2>3. <<q, t>> \in owed \ waived
    BY <1>1, <1>5
  <2>4. FoundAgain(q, t)
    BY <2>1, <2>2, <2>3 DEF OvertakenIsKept
  <2>5. QED
    BY <2>1, <2>2, <2>4 DEF FoundAgain
<1>6. QED
  BY <1>4, <1>5

(* One consumer moves. *)
LEMMA OneMoves ==
  ASSUME OvertakenIsKept, owed' \subseteq owed, waived \subseteq waived',
         NEW q \in Queues, NEW w \in Workers,
         \A r \in Queues, x \in Workers : r # q \/ x # w => worker'[r][x] = worker[r][x],
         \A t \in Tasks : Running(q, w, t)' => worker'[q][w].begun
                            \/ (Running(q, w, t) /\ ~worker[q][w].begun),
         \A t \in Tasks : worker[q][w].pc = "push" /\ worker[q][w].task = t
                            => Contains(list'[q], t) \/ <<q, t>> \in waived',
         \A t \in Tasks : Running(q, w, t) /\ worker[q][w].begun
                            => \/ Running(q, w, t)' /\ worker'[q][w].begun
                               \/ worker'[q][w].pc = "push" /\ worker'[q][w].task = t
                               \/ <<q, t>> \notin owed',
         \A r \in Queues, t \in Tasks : Contains(list[r], t) =>
            Contains(list'[r], t) \/ (r = q /\ Running(q, w, t)' /\ worker'[q][w].begun)
  PROVE  OvertakenIsKept'
<1> SUFFICES ASSUME NEW r \in Queues, NEW x \in Workers, NEW t \in Tasks,
                    Running(r, x, t)', ~worker'[r][x].begun, <<r, t>> \in owed' \ waived'
             PROVE  FoundAgain(r, t)'
  BY DEF OvertakenIsKept
<1>1. Running(r, x, t) /\ ~worker[r][x].begun
  <2>1. CASE r = q /\ x = w
    BY <2>1
  <2>2. CASE ~(r = q /\ x = w)
    BY <2>2 DEF Running
  <2>3. QED
    BY <2>1, <2>2
<1>2. FoundAgain(r, t)
  BY <1>1 DEF OvertakenIsKept
<1>3. CASE Contains(list[r], t)
  BY <1>3 DEF FoundAgain
<1>4. CASE Held(r, t)
  <2>1. PICK y \in Workers : worker[r][y].pc = "push" /\ worker[r][y].task = t
    BY <1>4 DEF Held
  <2>2. CASE r = q /\ y = w
    BY <2>1, <2>2 DEF FoundAgain
  <2>3. CASE ~(r = q /\ y = w)
    BY <2>1, <2>3 DEF FoundAgain, Held
  <2>4. QED
    BY <2>2, <2>3
<1>5. ASSUME NEW y \in Workers, Running(r, y, t), worker[r][y].begun PROVE FoundAgain(r, t)'
  <2>1. CASE r = q /\ y = w
    BY <1>5, <2>1 DEF FoundAgain, Held
  <2>2. CASE ~(r = q /\ y = w)
    <3>1. Running(r, y, t)' /\ worker'[r][y].begun
      BY <1>5, <2>2 DEF Running
    <3>2. QED
      BY <3>1 DEF FoundAgain
  <2>3. QED
    BY <2>1, <2>2
<1>6. QED
  BY <1>2, <1>3, <1>4, <1>5 DEF FoundAgain

LEMMA AcknowledgeKeeps ==
  ASSUME TypeOK, BrokerServesOne, OvertakenIsKept, NEW q \in Queues, NEW w \in Workers,
         Acknowledge(q, w)
  PROVE  OvertakenIsKept'
<1>1. /\ owed' = owed \ Finished(q, w) /\ waived' = waived /\ queueType = "amqp"
      /\ worker'[q][w].pc = "wait" /\ worker[q][w].pc # "wait"
      /\ \A r \in Queues, x \in Workers : r # q \/ x # w => worker'[r][x] = worker[r][x]
      /\ \A r \in Queues \ {q} : list'[r] = list[r]
  BY AcknowledgeEffect DEF Waiting
<1>2. w = AmqpWorker /\ \A x \in Workers \ {w} : worker[q][x].pc = "wait"
  BY <1>1 DEF BrokerServesOne, Waiting
<1>3. \A x \in Workers, t \in Tasks : ~Running(q, x, t)'
  BY <1>1, <1>2 DEF Running
<1> SUFFICES ASSUME NEW r \in Queues, NEW x \in Workers, NEW t \in Tasks,
                    Running(r, x, t)', ~worker'[r][x].begun, <<r, t>> \in owed' \ waived'
             PROVE  FoundAgain(r, t)'
  BY DEF OvertakenIsKept
<1>4. r # q
  BY <1>3
<1>5. list'[r] = list[r] /\ \A y \in Workers : worker'[r][y] = worker[r][y]
  BY <1>1, <1>4
<1>6. FoundAgain(r, t)
  BY <1>1, <1>5 DEF OvertakenIsKept, Running
<1>7. QED
  BY <1>5, <1>6 DEF FoundAgain, Held, Running

LEMMA WorkerKeeps ==
  ASSUME IInv, NEW q \in Queues, NEW w \in Workers, WorkerStep(q, w)
  PROVE  OvertakenIsKept'
<1>0. TypeOK /\ BrokerServesOne /\ OvertakenIsKept
  BY DEF IInv
<1>1. CASE Receive(q, w)
  <2>0. PICK t \in Tasks : Received(q, w, t)
    BY <1>0, <1>1, ReceiveEffect
  <2>1. /\ UNCHANGED <<owed, waived>> /\ worker[q][w] = Waiting
        /\ Becomes(q, w, [pc |-> "run", task |-> t, begun |-> TRUE, live |-> TRUE])
        /\ \A u : Contains(list[q], u) <=> u = t \/ Contains(list'[q], u)
        /\ \A r \in Queues \ {q} : list'[r] = list[r]
    BY <2>0 DEF Received
  <2>a. PICK v : v = [pc |-> "run", task |-> t, begun |-> TRUE, live |-> TRUE]
    OBVIOUS
  <2>b. worker'[q][w] = v
    BY <2>1, <2>a DEF Becomes
  <2>2. worker'[q][w].pc = "run" /\ worker'[q][w].task = t
    BY <2>a, <2>b
  <2>3. worker'[q][w].begun
    BY <2>a, <2>b
  <2>4. worker[q][w].pc = "wait"
    BY <2>1 DEF Waiting
  <2>5. \A r \in Queues, x \in Workers : r # q \/ x # w => worker'[r][x] = worker[r][x]
    BY <2>1 DEF Becomes
  <2>6. \A u : ~Running(q, w, u) /\ worker[q][w].pc # "push"
    BY <2>4 DEF Running
  <2>7. Running(q, w, t)'
    BY <2>2 DEF Running
  <2>8. \A r \in Queues, u \in Tasks : Contains(list[r], u) =>
          Contains(list'[r], u) \/ (r = q /\ Running(q, w, u)' /\ worker'[q][w].begun)
    BY <2>1, <2>3, <2>7, Zenon
  <2>9. owed' \subseteq owed /\ waived \subseteq waived'
    BY <2>1
  <2>10. QED
    BY <1>0, <2>3, <2>5, <2>6, <2>8, <2>9, OneMoves
<1>2. CASE RunSucceeds(q, w) \/ RunFails(q, w)
  <2>1. /\ UNCHANGED <<list, owed, waived>> /\ worker[q][w].pc = "run"
        /\ worker'[q][w].pc \in {"done", "failed"} /\ worker'[q][w].task = worker[q][w].task
        /\ \A r \in Queues, x \in Workers : r # q \/ x # w => worker'[r][x] = worker[r][x]
    BY <1>0, <1>2, RunEffect
  <2>2. worker'[q][w].begun = worker[q][w].begun
    BY <1>0, <1>2, RunEffect
  <2>3. \A u : Running(q, w, u)' <=> Running(q, w, u)
    BY <2>1 DEF Running
  <2>4. QED
    BY <1>0, <2>1, <2>2, <2>3, OneMoves
<1>3. CASE RemoveFromProcessing(q, w)
  <2>1. /\ list' = list /\ owed' = owed \ Finished(q, w) /\ waived \subseteq waived'
        /\ worker[q][w].pc \in {"done", "failed"}
        /\ worker[q][w].pc = "done" => worker'[q][w] = Waiting
        /\ worker[q][w].pc = "failed" => /\ worker'[q][w].pc = "push"
                                         /\ worker'[q][w].task = worker[q][w].task
        /\ \A r \in Queues, x \in Workers : r # q \/ x # w => worker'[r][x] = worker[r][x]
    BY <1>0, <1>3, RemoveEffect
  <2>2. worker'[q][w].pc \in {"wait", "push"}
    BY <2>1 DEF Waiting
  <2>3. \A u : ~Running(q, w, u)' /\ worker[q][w].pc # "push"
    BY <2>1, <2>2 DEF Running
  <2>4. ASSUME NEW u \in Tasks, Running(q, w, u), worker[q][w].begun
        PROVE  \/ worker'[q][w].pc = "push" /\ worker'[q][w].task = u
               \/ <<q, u>> \notin owed'
    <3>1. worker[q][w].task = u
      BY <2>4 DEF Running
    <3>2. CASE worker[q][w].pc = "done"
      <4>1. Finished(q, w) = {<<q, u>>}
        BY <1>0, <2>4, <3>1, <3>2, FinishedIs
      <4>2. QED
        BY <2>1, <4>1
    <3>3. CASE worker[q][w].pc = "failed"
      BY <2>1, <3>1, <3>3
    <3>4. QED
      BY <2>1, <3>2, <3>3
  <2>5. owed' \subseteq owed
    BY <2>1
  <2>6. QED
    BY <1>0, <2>1, <2>3, <2>4, <2>5, OneMoves
<1>4. CASE PushBack(q, w) \/ PushBackFails(q, w)
  <2>1. PICK t \in Tasks :
          /\ owed' = owed /\ worker[q][w].pc = "push" /\ t = worker[q][w].task
          /\ worker'[q][w] = Waiting
          /\ \A r \in Queues, x \in Workers : r # q \/ x # w => worker'[r][x] = worker[r][x]
          /\ waived \subseteq waived' /\ (Contains(list'[q], t) \/ <<q, t>> \in waived')
          /\ \A r \in Queues : \A u : Contains(list[r], u) => Contains(list'[r], u)
    BY <1>0, <1>4, PushBackEffect
  <2>2. worker'[q][w].pc = "wait"
    BY <2>1 DEF Waiting
  <2>3. \A u : ~Running(q, w, u)' /\ ~Running(q, w, u)
    BY <2>1, <2>2 DEF Running
  <2>4. \A u \in Tasks : worker[q][w].pc = "push" /\ worker[q][w].task = u
                          => Contains(list'[q], u) \/ <<q, u>> \in waived'
    BY <2>1
  <2>5. /\ \A r \in Queues, u \in Tasks : Contains(list[r], u) => Contains(list'[r], u)
        /\ \A r \in Queues, x \in Workers : r # q \/ x # w => worker'[r][x] = worker[r][x]
        /\ owed' \subseteq owed /\ waived \subseteq waived'
    BY <2>1
  <2>6. QED
    BY <1>0, <2>3, <2>4, <2>5, OneMoves
<1>5. CASE Acknowledge(q, w)
  BY <1>0, <1>5, AcknowledgeKeeps
<1>6. QED
  BY <1>1, <1>2, <1>3, <1>4, <1>5 DEF WorkerStep

LEMMA NextIInv == IInv /\ [Next]_vars => IInv'
<1> SUFFICES ASSUME IInv, [Next]_vars PROVE IInv'
  OBVIOUS
<1>0. TypeOK /\ BrokerServesOne /\ OvertakenIsKept /\ TypeOK' /\ BrokerServesOne'
  BY NextTypeOK, NextServesOne DEF IInv
<1>1. ASSUME Quiet PROVE OvertakenIsKept'
  <2>1. /\ owed' \subseteq owed /\ waived \subseteq waived'
        /\ \A r \in Queues, u \in Tasks : Contains(list[r], u) => Contains(list'[r], u)
        /\ \A r \in Queues, x \in Workers :
             /\ worker'[r][x].pc = worker[r][x].pc /\ worker'[r][x].task = worker[r][x].task
             /\ worker'[r][x].begun = worker[r][x].begun
    BY <1>1, Zenon DEF Quiet
  <2>2. QED
    BY <1>0, <2>1, NobodyMoves
<1>2. ASSUME UNCHANGED vars PROVE OvertakenIsKept'
  BY <1>1, <1>2 DEF vars, Quiet
<1>3. ASSUME NEW c \in Enqueuers, CallStep(c) PROVE OvertakenIsKept'
  <2>1. CASE Push(c)
    BY <1>0, <2>1, PushKeeps
  <2>2. CASE ~Push(c)
    BY <1>0, <1>3, <2>2, CallEffect, NobodyMoves
  <2>3. QED
    BY <2>1, <2>2
<1>4. ASSUME NEW q \in Queues, NEW w \in Workers, WorkerStep(q, w) PROVE OvertakenIsKept'
  BY <1>4, WorkerKeeps
<1>5. ASSUME NEW q \in Queues, SweepMove(q) PROVE OvertakenIsKept'
  BY <1>0, <1>5, SweepEffect, NobodyMoves
<1>6. ASSUME PurgeProcessing \/ \E q \in Queues : PurgeList(q) PROVE OvertakenIsKept'
  <2>1. PICK I \in SUBSET (Queues \X Tasks) :
          /\ UNCHANGED <<worker, waived>> /\ owed' = owed \ I
          /\ \A r \in Queues, u \in Tasks :
               <<r, u>> \notin I /\ Contains(list[r], u) => Contains(list'[r], u)
    BY <1>0, <1>6, PurgeEffect
  <2>2. owed' \subseteq owed /\ \A p \in owed' : p \notin I
    BY <2>1
  <2>3. \A r \in Queues, u \in Tasks :
          <<r, u>> \in owed' /\ Contains(list[r], u) => Contains(list'[r], u)
    BY <2>1, <2>2
  <2>4. QED
    BY <1>0, <2>1, <2>2, <2>3, NobodyMoves
<1>7. ASSUME ConnectionLost PROVE OvertakenIsKept'
  <2>1. /\ owed' \subseteq owed /\ waived \subseteq waived'
        /\ \A r \in Queues, u \in Tasks : Contains(list[r], u) => Contains(list'[r], u)
        /\ \A r \in Queues, x \in Workers :
             /\ worker'[r][x].pc = worker[r][x].pc /\ worker'[r][x].task = worker[r][x].task
             /\ worker'[r][x].begun = worker[r][x].begun
    BY <1>0, <1>7, ConnectionLostEffect
  <2>2. QED
    BY <1>0, <2>1, NobodyMoves
<1>8. ASSUME Crash PROVE OvertakenIsKept'
  <2>1. Waiting.pc = "wait"
    BY DEF Waiting
  <2>2. \A q \in Queues, w \in Workers : worker'[q][w].pc = "wait"
    BY <1>0, <1>8, <2>1, CrashEffect
  <2>3. QED
    BY <2>2 DEF OvertakenIsKept, Running
<1>9. ASSUME \/ \E q \in Queues : RegisterFunction(q)
             \/ StartConsumers
             \/ \E c \in Enqueuers, q \in Queues : EnqueueUnregistered(c, q)
             \/ \E c \in Enqueuers, q \in Queues, t \in Tasks : BeginEnqueue(c, q, t)
      PROVE  OvertakenIsKept'
  BY <1>0, <1>1, <1>9, SetupEffect DEF Quiet
<1>10. OvertakenIsKept'
  BY <1>2, <1>3, <1>4, <1>5, <1>6, <1>7, <1>8, <1>9 DEF Next, Step, Trouble
<1>11. QED
  BY <1>0, <1>10 DEF IInv

-----------------------------------------------------------------------------
(* The remote queue implements TaskQueue: what is not waived stays stored    *)
(* through every step that is not the end of it.                             *)

LEMMA HeldAfter ==
  ASSUME NEW q \in Queues, NEW w \in Workers,
         \A r \in Queues, x \in Workers : r # q \/ x # w => worker'[r][x] = worker[r][x]
  PROVE  \A r \in Queues : \A u :
           /\ worker[q][w].pc # "push" => (Held(r, u) => Held(r, u)')
           /\ worker'[q][w].pc # "push" => (Held(r, u)' => Held(r, u))
<1> SUFFICES ASSUME NEW r \in Queues, NEW u
             PROVE  /\ worker[q][w].pc # "push" => (Held(r, u) => Held(r, u)')
                    /\ worker'[q][w].pc # "push" => (Held(r, u)' => Held(r, u))
  OBVIOUS
<1>1. ASSUME worker[q][w].pc # "push", NEW x \in Workers,
             worker[r][x].pc = "push" /\ worker[r][x].task = u
      PROVE  Held(r, u)'
  <2>1. worker'[r][x] = worker[r][x]
    BY <1>1
  <2>2. QED
    BY <1>1, <2>1 DEF Held
<1>2. ASSUME worker'[q][w].pc # "push", NEW x \in Workers,
             worker'[r][x].pc = "push" /\ worker'[r][x].task = u
      PROVE  Held(r, u)
  <2>1. worker'[r][x] = worker[r][x]
    BY <1>2
  <2>2. QED
    BY <1>2, <2>1 DEF Held
<1>3. QED
  BY <1>1, <1>2 DEF Held

(* A step that loses nothing but what is waived. *)
LEMMA StoreStep ==
  ASSUME TypeOK', waived \subseteq waived', owed' = owed,
         \A q \in Queues, t \in Tasks :
           <<q, t>> \notin waived' /\ Stored(q, t) => Stored(q, t)'
  PROVE  TQ!Next
<1> DEFINE I == waived' \ waived
<1>1. I \in SUBSET (Queues \X Tasks) /\ waived' = waived \cup I
  BY DEF TypeOK
<1>2. Kept \ Kept' \subseteq waived' /\ Kept' \subseteq Queues \X Tasks
  BY DEF Kept
<1>3. TQ!Store(I)
  BY <1>1, <1>2 DEF TQ!Store
<1>4. QED
  BY <1>1, <1>3 DEF TQ!Next

(* A step that ends the items I. *)
LEMMA FinishStep ==
  ASSUME NEW I \in SUBSET (Queues \X Tasks),
         owed' = owed \ I, waived \subseteq waived', waived' \subseteq waived \cup I,
         \A q \in Queues, t \in Tasks :
           /\ Stored(q, t)' => Stored(q, t)
           /\ <<q, t>> \notin I => (Stored(q, t) => Stored(q, t)')
  PROVE  TQ!Next
<1>1. Kept' \subseteq Kept /\ Kept \ Kept' \subseteq I
  BY DEF Kept
<1>2. TQ!Finish(I)
  BY <1>1 DEF TQ!Finish
<1>3. QED
  BY <1>2 DEF TQ!Next

LEMMA PushAccepts ==
  ASSUME TypeOK, NEW c \in Enqueuers, Push(c)
  PROVE  TQ!Next
<1>1. PICK q \in Queues, t \in Tasks :
        /\ worker' = Overtaken(q, t) /\ list' = [list EXCEPT ![q] = Pushed(q, t)]
        /\ UNCHANGED <<processing, waived>> /\ owed' = owed \cup {<<q, t>>}
  BY PushEffect
<1>2. /\ \A u : Contains(list'[q], u) <=> u = t \/ Contains(list[q], u)
      /\ \A r \in Queues \ {q} : list'[r] = list[r]
  BY <1>1, PushedIsIn
<1>3. \A r \in Queues, x \in Workers :
        worker'[r][x].pc = worker[r][x].pc /\ worker'[r][x].task = worker[r][x].task
  BY <1>1, OvertakenChanges
<1>4. \A r \in Queues : \A u : Held(r, u)' <=> Held(r, u)
  BY <1>3 DEF Held
<1>5. ASSUME NEW r \in Queues, NEW u \in Tasks
      PROVE  Stored(r, u)' <=> Stored(r, u) \/ (r = q /\ u = t)
  BY <1>1, <1>2, <1>4 DEF Stored
<1>6. Kept' = Kept \cup {<<q, t>>}
  BY <1>5 DEF Kept
<1>7. TQ!Accept(<<q, t>>)
  BY <1>1, <1>6 DEF TQ!Accept
<1>8. QED
  BY <1>7 DEF TQ!Next

(* A run ends in success. What was accepted before it began is finished; and *)
(* what was accepted since is owed still, and found again.                   *)
LEMMA DoneImplements ==
  ASSUME IInv, TypeOK', NEW q \in Queues, NEW w \in Workers, worker[q][w].pc = "done",
         NEW t \in Tasks, t = worker[q][w].task, owed' = owed \ Finished(q, w),
         waived \subseteq waived', waived' \subseteq waived \cup {<<q, t>>},
         \A r \in Queues, u \in Tasks :
           /\ Stored(r, u)' => Stored(r, u)
           /\ ~(r = q /\ u = t) => (Stored(r, u) => Stored(r, u)'),
         FoundAgain(q, t) /\ ~worker[q][w].begun /\ Stored(q, t) /\ <<q, t>> \in owed'
           => Stored(q, t)' \/ <<q, t>> \in waived'
  PROVE  TQ!Next
<1>1. TypeOK /\ OvertakenIsKept
  BY DEF IInv
<1>2. PICK I : I = {<<q, t>>}
  OBVIOUS
<1>3. /\ I \in SUBSET (Queues \X Tasks) /\ waived' \subseteq waived \cup I
      /\ \A r \in Queues, u \in Tasks : <<r, u>> \notin I => ~(r = q /\ u = t)
  BY <1>2
<1>4. CASE worker[q][w].begun \/ <<q, t>> \notin owed
  <2>1. owed' = owed \ I
    <3>1. CASE worker[q][w].begun
      <4>1. Finished(q, w) = {<<q, t>>}
        BY <1>1, <3>1, FinishedIs
      <4>2. QED
        BY <1>2, <4>1
    <3>2. CASE <<q, t>> \notin owed
      <4>1. Finished(q, w) \subseteq {<<q, t>>}
        BY <1>1, FinishedIs
      <4>2. QED
        BY <1>2, <3>2, <4>1
    <3>3. QED
      BY <1>4, <3>1, <3>2
  <2>2. QED
    BY <1>3, <2>1, FinishStep
<1>5. CASE ~worker[q][w].begun /\ <<q, t>> \in owed
  <2>1. owed' = owed
    <3>1. Finished(q, w) = {}
      BY <1>1, <1>5, FinishedIs
    <3>2. QED
      BY <3>1
  <2>2. ASSUME <<q, t>> \notin waived', Stored(q, t) PROVE Stored(q, t)'
    <3>1. Running(q, w, t)
      BY DEF Running
    <3>2. FoundAgain(q, t)
      BY <1>1, <1>5, <2>2, <3>1 DEF OvertakenIsKept
    <3>3. QED
      BY <1>5, <2>1, <2>2, <3>2
  <2>3. \A r \in Queues, u \in Tasks : <<r, u>> \notin waived' /\ Stored(r, u) => Stored(r, u)'
    BY <2>2
  <2>4. QED
    BY <2>1, <2>3, StoreStep
<1>6. QED
  BY <1>4, <1>5

LEMMA RemoveImplements ==
  ASSUME IInv, TypeOK', NEW q \in Queues, NEW w \in Workers, RemoveFromProcessing(q, w)
  PROVE  TQ!Next
<1>1. TypeOK
  BY DEF IInv
<1>2. PICK t \in Tasks : t = worker[q][w].task
  BY <1>1, WorkerFields DEF RemoveFromProcessing
<1>3. /\ list' = list /\ owed' = owed \ Finished(q, w)
      /\ waived \subseteq waived' /\ waived' \subseteq waived \cup {<<q, t>>}
      /\ worker[q][w].pc \in {"done", "failed"}
      /\ worker[q][w].pc = "done" => worker'[q][w] = Waiting
      /\ worker[q][w].pc = "failed" => worker'[q][w].pc = "push" /\ worker'[q][w].task = t
      /\ \A r \in Queues, x \in Workers : r # q \/ x # w => worker'[r][x] = worker[r][x]
  BY <1>1, <1>2, RemoveEffect
<1>4. /\ \A u : Contains(processing'[q], u) => Contains(processing[q], u)
      /\ \A u : Contains(processing[q], u) /\ u # t => Contains(processing'[q], u)
      /\ \A r \in Queues \ {q} : processing'[r] = processing[r]
      /\ UNCHANGED processing
           \/ (RunElsewhere(q, w, t) => {<<q, t>>} \cap owed' \subseteq waived')
  BY <1>1, <1>2, RemoveEffect
<1>5. \A r \in Queues : \A u :
        /\ Held(r, u) => Held(r, u)'
        /\ worker'[q][w].pc # "push" => (Held(r, u)' => Held(r, u))
  BY <1>3, HeldAfter
<1>6. ASSUME NEW r \in Queues, NEW u \in Tasks, ~(r = q /\ u = t), Stored(r, u)
      PROVE  Stored(r, u)'
  BY <1>3, <1>4, <1>5, <1>6 DEF Stored
<1>7. CASE worker[q][w].pc = "done"
  <2>1. worker'[q][w].pc # "push"
    BY <1>3, <1>7 DEF Waiting
  <2>2. \A r \in Queues, u \in Tasks : Stored(r, u)' => Stored(r, u)
    BY <1>3, <1>4, <1>5, <2>1 DEF Stored
  <2>3. ASSUME FoundAgain(q, t), ~worker[q][w].begun, Stored(q, t), <<q, t>> \in owed'
        PROVE  Stored(q, t)' \/ <<q, t>> \in waived'
    <3>1. CASE Contains(list[q], t) \/ Held(q, t)
      BY <1>3, <1>5, <3>1 DEF Stored
    <3>2. ASSUME NEW v \in Workers, Running(q, v, t), worker[q][v].begun
          PROVE  Stored(q, t)' \/ <<q, t>> \in waived'
      <4>1. v \in Workers \ {w}
        BY <2>3, <3>2
      <4>2. RunElsewhere(q, w, t)
        BY <3>2, <4>1 DEF RunElsewhere, Running
      <4>3. CASE UNCHANGED processing
        BY <1>3, <1>5, <2>3, <4>3 DEF Stored
      <4>4. CASE {<<q, t>>} \cap owed' \subseteq waived'
        BY <2>3, <4>4
      <4>5. QED
        BY <1>4, <4>2, <4>3, <4>4
    <3>3. QED
      BY <2>3, <3>1, <3>2 DEF FoundAgain
  <2>4. QED
    BY <1>2, <1>3, <1>6, <1>7, <2>2, <2>3, DoneImplements
<1>8. CASE worker[q][w].pc = "failed"
  <2>1. owed' = owed
    <3>1. Finished(q, w) = {}
      BY <1>1, <1>8, FinishedIs
    <3>2. QED
      BY <1>3, <3>1
  <2>2. Stored(q, t)'
    BY <1>3, <1>8 DEF Stored, Held
  <2>3. \A r \in Queues, u \in Tasks : <<r, u>> \notin waived' /\ Stored(r, u) => Stored(r, u)'
    BY <1>6, <2>2
  <2>4. QED
    BY <1>3, <2>1, <2>3, StoreStep
<1>9. QED
  BY <1>3, <1>7, <1>8

LEMMA AcknowledgeImplements ==
  ASSUME IInv, TypeOK', NEW q \in Queues, NEW w \in Workers, Acknowledge(q, w)
  PROVE  TQ!Next
<1>1. TypeOK /\ BrokerServesOne
  BY DEF IInv
<1>2. PICK t \in Tasks : t = worker[q][w].task
  BY <1>1, WorkerFields DEF Acknowledge
<1>3. /\ waived' = waived /\ owed' = owed \ Finished(q, w)
      /\ queueType = "amqp" /\ worker[q][w].pc \in {"done", "failed"}
      /\ worker'[q][w] = Waiting
      /\ \A r \in Queues, x \in Workers : r # q \/ x # w => worker'[r][x] = worker[r][x]
  BY <1>1, AcknowledgeEffect
<1>4. /\ \A r \in Queues : \A u : Contains(list[r], u) => Contains(list'[r], u)
      /\ \A u : Contains(list'[q], u) \/ Contains(processing'[q], u)
                  => Contains(list[q], u) \/ Contains(processing[q], u)
                     \/ worker[q][w].pc = "failed"
      /\ \A u : Contains(processing[q], u)
                  => \/ Contains(processing'[q], u)
                     \/ u = t /\ (worker[q][w].pc = "failed" => Contains(list'[q], u))
      /\ \A r \in Queues \ {q} : list'[r] = list[r] /\ processing'[r] = processing[r]
  BY <1>1, <1>2, AcknowledgeEffect
<1>5. \A r \in Queues : \A u : Held(r, u)' <=> Held(r, u)
  <2>1. worker[q][w].pc # "push" /\ worker'[q][w].pc # "push"
    BY <1>3 DEF Waiting
  <2>2. QED
    BY <1>3, <2>1, HeldAfter
<1>6. ASSUME NEW r \in Queues, NEW u \in Tasks, ~(r = q /\ u = t), Stored(r, u)
      PROVE  Stored(r, u)'
  BY <1>4, <1>5, <1>6 DEF Stored
<1>7. CASE worker[q][w].pc = "done"
  <2>1. \A r \in Queues, u \in Tasks : Stored(r, u)' => Stored(r, u)
    BY <1>4, <1>5, <1>7 DEF Stored
  <2>2. ASSUME FoundAgain(q, t), ~worker[q][w].begun PROVE Stored(q, t)'
    <3>1. \A v \in Workers : v # w => worker[q][v].pc = "wait"
      <4>1. Waiting.pc = "wait"
        BY DEF Waiting
      <4>2. w = AmqpWorker
        BY <1>1, <1>3, <4>1 DEF BrokerServesOne
      <4>3. QED
        BY <1>1, <1>3, <4>1, <4>2 DEF BrokerServesOne
    <3>2. ~\E v \in Workers : Running(q, v, t) /\ worker[q][v].begun
      BY <2>2, <3>1 DEF Running
    <3>3. Contains(list[q], t) \/ Held(q, t)
      BY <2>2, <3>2 DEF FoundAgain
    <3>4. QED
      BY <1>4, <1>5, <3>3 DEF Stored
  <2>3. waived \subseteq waived' /\ waived' \subseteq waived \cup {<<q, t>>}
    BY <1>3
  <2>4. QED
    BY <1>2, <1>3, <1>6, <1>7, <2>1, <2>2, <2>3, DoneImplements
<1>8. CASE worker[q][w].pc = "failed"
  <2>1. owed' = owed
    <3>1. Finished(q, w) = {}
      BY <1>1, <1>8, FinishedIs
    <3>2. QED
      BY <1>3, <3>1
  <2>2. Stored(q, t) => Stored(q, t)'
    BY <1>4, <1>5, <1>8 DEF Stored
  <2>3. \A r \in Queues, u \in Tasks : Stored(r, u) => Stored(r, u)'
    BY <1>6, <2>2
  <2>4. QED
    BY <1>3, <2>1, <2>3, StoreStep
<1>9. QED
  BY <1>3, <1>7, <1>8

LEMMA WorkerImplements ==
  ASSUME IInv, TypeOK', NEW q \in Queues, NEW w \in Workers, WorkerStep(q, w)
  PROVE  TQ!Next
<1>0. TypeOK
  BY DEF IInv
<1>1. CASE Receive(q, w)
  <2>1. PICK t \in Tasks : Received(q, w, t)
    BY <1>0, <1>1, ReceiveEffect
  <2>2. /\ worker[q][w].pc # "push"
        /\ \A r \in Queues, x \in Workers : r # q \/ x # w => worker'[r][x] = worker[r][x]
    BY <2>1 DEF Received, Waiting, Becomes
  <2>3. \A r \in Queues : \A u : Held(r, u) => Held(r, u)'
    BY <2>2, HeldAfter
  <2>4. \A r \in Queues : \A u : Contains(list[r], u) \/ Contains(processing[r], u)
                                   => Contains(list'[r], u) \/ Contains(processing'[r], u)
    BY <2>1 DEF Received
  <2>5. \A r \in Queues, u \in Tasks : Stored(r, u) => Stored(r, u)'
    BY <2>3, <2>4 DEF Stored
  <2>6. owed' = owed /\ waived \subseteq waived'
    BY <2>1 DEF Received
  <2>7. QED
    BY <2>5, <2>6, StoreStep
<1>2. CASE RunSucceeds(q, w) \/ RunFails(q, w)
  <2>1. /\ UNCHANGED <<list, processing, owed, waived>> /\ worker[q][w].pc = "run"
        /\ \A r \in Queues, x \in Workers : r # q \/ x # w => worker'[r][x] = worker[r][x]
    BY <1>0, <1>2, RunEffect
  <2>2. \A r \in Queues : \A u : Held(r, u) => Held(r, u)'
    BY <2>1, HeldAfter
  <2>3. \A r \in Queues, u \in Tasks : Stored(r, u) => Stored(r, u)'
    BY <2>1, <2>2 DEF Stored
  <2>4. QED
    BY <2>1, <2>3, StoreStep
<1>3. CASE PushBack(q, w) \/ PushBackFails(q, w)
  <2>1. PICK t \in Tasks :
          /\ UNCHANGED <<processing, owed>>
          /\ worker[q][w].pc = "push" /\ t = worker[q][w].task
          /\ \A r \in Queues, x \in Workers : r # q \/ x # w => worker'[r][x] = worker[r][x]
          /\ waived \subseteq waived' /\ (Contains(list'[q], t) \/ <<q, t>> \in waived')
          /\ \A r \in Queues : \A u : Contains(list[r], u) => Contains(list'[r], u)
    BY <1>0, <1>3, PushBackEffect
  <2>2. ASSUME NEW r \in Queues, NEW u \in Tasks, <<r, u>> \notin waived', Stored(r, u)
        PROVE  Stored(r, u)'
    <3>1. CASE r = q /\ u = t
      BY <2>1, <2>2, <3>1 DEF Stored
    <3>2. CASE ~(r = q /\ u = t)
      <4>1. Held(r, u) => Held(r, u)'
        BY <2>1, <3>2 DEF Held
      <4>2. QED
        BY <2>1, <2>2, <4>1 DEF Stored
    <3>3. QED
      BY <3>1, <3>2
  <2>3. QED
    BY <2>1, <2>2, StoreStep
<1>4. QED
  BY <1>1, <1>2, <1>3, RemoveImplements, AcknowledgeImplements DEF WorkerStep

LEMMA StepImplements == IInv /\ [Next]_vars => [TQ!Next]_(TQ!vars)
<1> SUFFICES ASSUME IInv, [Next]_vars PROVE [TQ!Next]_(TQ!vars)
  OBVIOUS
<1>0. TypeOK /\ TypeOK'
  BY NextTypeOK DEF IInv
<1>1. ASSUME UNCHANGED <<list, processing, worker, owed, waived>>
      PROVE  UNCHANGED TQ!vars
  <2>1. Kept' = Kept
    BY <1>1 DEF Kept, Stored, Held
  <2>2. QED
    BY <1>1, <2>1 DEF TQ!vars
<1>2. ASSUME NEW c \in Enqueuers, CallStep(c), ~Push(c) PROVE TQ!Next
  <2>1. /\ UNCHANGED <<processing, worker, owed, waived>>
        /\ \A r \in Queues : \A u : Contains(list[r], u) => Contains(list'[r], u)
    BY <1>0, <1>2, CallEffect
  <2>2. \A r \in Queues, u \in Tasks : Stored(r, u) => Stored(r, u)'
    BY <2>1 DEF Stored, Held
  <2>3. QED
    BY <1>0, <2>1, <2>2, StoreStep
<1>3. ASSUME NEW q \in Queues, SweepMove(q) PROVE TQ!Next
  <2>1. /\ UNCHANGED <<worker, owed, waived>>
        /\ \A r \in Queues : \A u :
             /\ Contains(list[r], u) => Contains(list'[r], u)
             /\ Contains(processing[r], u) => Contains(list'[r], u) \/ Contains(processing'[r], u)
    BY <1>0, <1>3, SweepEffect
  <2>2. \A r \in Queues, u \in Tasks : Stored(r, u) => Stored(r, u)'
    BY <2>1 DEF Stored, Held
  <2>3. QED
    BY <1>0, <2>1, <2>2, StoreStep
<1>4. ASSUME PurgeProcessing \/ \E q \in Queues : PurgeList(q) PROVE TQ!Next
  <2>1. PICK I \in SUBSET (Queues \X Tasks) :
          /\ UNCHANGED <<worker, waived>> /\ owed' = owed \ I
          /\ \A r \in Queues, u \in Tasks :
               /\ Contains(list'[r], u) => Contains(list[r], u)
               /\ Contains(processing'[r], u) => Contains(processing[r], u)
               /\ <<r, u>> \notin I /\ Contains(list[r], u) => Contains(list'[r], u)
               /\ <<r, u>> \notin I /\ Contains(processing[r], u) => Contains(processing'[r], u)
    BY <1>0, <1>4, PurgeEffect, Zenon
  <2>2. \A r \in Queues, u \in Tasks :
          /\ Stored(r, u)' => Stored(r, u)
          /\ <<r, u>> \notin I => (Stored(r, u) => Stored(r, u)')
    BY <2>1 DEF Stored, Held
  <2>3. waived \subseteq waived' /\ waived' \subseteq waived \cup I
    BY <2>1
  <2>4. QED
    BY <2>1, <2>2, <2>3, FinishStep
<1>5. ASSUME ConnectionLost PROVE TQ!Next
  <2>1. /\ UNCHANGED <<owed, waived>>
        /\ \A q \in Queues : \A u :
             Contains(list[q], u) \/ Contains(processing[q], u) => Contains(list'[q], u)
        /\ \A q \in Queues, w \in Workers :
             worker'[q][w].pc = worker[q][w].pc /\ worker'[q][w].task = worker[q][w].task
    BY <1>0, <1>5, ConnectionLostEffect
  <2>2. \A r \in Queues, u \in Tasks : Stored(r, u) => Stored(r, u)'
    BY <2>1 DEF Stored, Held
  <2>3. QED
    BY <1>0, <2>1, <2>2, StoreStep
<1>6. ASSUME Crash PROVE TQ!Next
  <2>1. /\ owed' = owed /\ waived \subseteq waived'
        /\ \A q \in Queues, u \in Tasks :
             /\ Held(q, u) => <<q, u>> \in waived'
             /\ Contains(list[q], u) \/ Contains(processing[q], u)
                  => Contains(list'[q], u) \/ Contains(processing'[q], u)
    BY <1>0, <1>6, CrashEffect
  <2>2. \A r \in Queues, u \in Tasks : <<r, u>> \notin waived' /\ Stored(r, u) => Stored(r, u)'
    BY <2>1 DEF Stored
  <2>3. QED
    BY <1>0, <2>1, <2>2, StoreStep
<1>7. ASSUME \/ \E q \in Queues : RegisterFunction(q)
             \/ StartConsumers
             \/ \E c \in Enqueuers, q \in Queues : EnqueueUnregistered(c, q)
             \/ \E c \in Enqueuers, q \in Queues, t \in Tasks : BeginEnqueue(c, q, t)
      PROVE  UNCHANGED TQ!vars
  BY <1>0, <1>1, <1>7, SetupEffect
<1>8. ASSUME NEW c \in Enqueuers, CallStep(c) PROVE TQ!Next
  BY <1>0, <1>2, <1>8, PushAccepts
<1>9. ASSUME UNCHANGED vars PROVE UNCHANGED TQ!vars
  BY <1>1, <1>9 DEF vars
<1>10. ASSUME NEW q \in Queues, NEW w \in Workers, WorkerStep(q, w) PROVE TQ!Next
  BY <1>0, <1>10, WorkerImplements
<1>11. QED
  BY <1>3, <1>4, <1>5, <1>6, <1>7, <1>8, <1>9, <1>10 DEF Next, Step, Trouble

(* The remote queue implements the abstract task queue, with the lists of    *)
(* Redis or of the broker and the tasks that consumers are about to push     *)
(* back as its store: however enqueuers, consumers, sweeps, lost connections, *)
(* crashes and purges interleave, a task that EnqueueTask accepted is found  *)
(* again until a run that began after it succeeds, or it meets one of the    *)
(* windows that waived records.                                              *)
THEOREM Implements == Spec => ImplementsTaskQueue
<1>1. Init => TQ!Init
  <2> SUFFICES ASSUME Init PROVE TQ!Init
    OBVIOUS
  <2>1. ASSUME NEW q \in Queues, NEW t \in Tasks PROVE ~Stored(q, t)
    <3>1. list[q] = <<>> /\ processing[q] = <<>> /\ \A w \in Workers : worker[q][w] = Waiting
      BY DEF Init
    <3>2. ~Contains(<<>>, t) /\ Waiting.pc # "push"
      BY DEF Contains, Waiting
    <3>3. QED
      BY <3>1, <3>2 DEF Stored, Held
  <2>2. QED
    BY <2>1 DEF Init, Kept, TQ!Init
<1>2. QED
  BY <1>1, InitIInv, NextIInv, StepImplements, PTL DEF Spec, ImplementsTaskQueue, TQ!Spec

(* What the abstract steps add up to. *)
LEMMA PromiseKept == TQ!Promise /\ [TQ!Next]_(TQ!vars) => TQ!Promise'
<1> SUFFICES ASSUME TQ!Promise, [TQ!Next]_(TQ!vars) PROVE TQ!Promise'
  OBVIOUS
<1>1. PICK k, l : k = Kept /\ l = Kept'
  OBVIOUS
<1>2. owed \ waived \subseteq k
  BY <1>1 DEF TQ!Promise
<1>3. ASSUME NEW i \in Queues \X Tasks, TQ!Accept(i) PROVE owed' \ waived' \subseteq l
  BY <1>1, <1>2, <1>3 DEF TQ!Accept
<1>4. ASSUME NEW I \in SUBSET (Queues \X Tasks), TQ!Store(I) PROVE owed' \ waived' \subseteq l
  BY <1>1, <1>2, <1>4 DEF TQ!Store
<1>5. ASSUME NEW I \in SUBSET (Queues \X Tasks), TQ!Finish(I) PROVE owed' \ waived' \subseteq l
  BY <1>1, <1>2, <1>5 DEF TQ!Finish
<1>6. CASE UNCHANGED TQ!vars
  BY <1>1, <1>2, <1>6 DEF TQ!vars, TQ!Promise
<1>7. owed' \ waived' \subseteq l => TQ!Promise'
  BY <1>1 DEF TQ!Promise
<1>8. QED
  BY <1>3, <1>4, <1>5, <1>6, <1>7 DEF TQ!Next

(* What EnqueueTask accepted, and no run or purge has ended, is in a list of *)
(* Redis or of the broker, or in the hands of a consumer that pushes it      *)
(* back, in every reachable state, unless it met a window.                   *)
THEOREM AcceptedIsKept == Spec => []TQ!Promise
<1>1. TQ!Init => TQ!Promise
  BY DEF TQ!Init, TQ!Promise
<1>2. QED
  BY <1>1, PromiseKept, Implements, PTL DEF ImplementsTaskQueue, TQ!Spec
=============================================================================
