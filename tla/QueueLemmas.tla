----------------------------- MODULE QueueLemmas ------------------------------
(* What the deques of the lease arbiter and the FIFOs of locks do to a queue   *)
(* without duplicates, in terms of the set of its elements.                    *)
EXTENDS Queues, SequencesExt, SequenceTheorems, FiniteSetTheorems, WellFoundedInduction,
        TLAPS

\* A queue of elements of S in which nobody waits twice.
IsQueueOf(q, S) == q \in Seq(S) /\ IsInjective(q)

\* The elements after append() and popleft(), by their places.
LEMMA AppendIndex ==
    ASSUME NEW S, NEW q \in Seq(S), NEW e \in S
    PROVE  /\ Append(q, e) \in Seq(S)
           /\ Len(Append(q, e)) = Len(q) + 1
           /\ \A i \in 1..Len(q) : Append(q, e)[i] = q[i]
           /\ Append(q, e)[Len(q) + 1] = e
OBVIOUS

LEMMA TailIndex ==
    ASSUME NEW S, NEW q \in Seq(S), q # <<>>
    PROVE  /\ Len(q) \in Nat \ {0}
           /\ Head(q) = q[1] /\ Head(q) \in S
           /\ Tail(q) \in Seq(S)
           /\ Len(Tail(q)) = Len(q) - 1
           /\ \A i \in 1..(Len(q) - 1) : Tail(q)[i] = q[i + 1]
           /\ Len(q) > 1 => Tail(q)[Len(q) - 1] = q[Len(q)]
<1>1. Len(q) \in Nat \ {0}
  BY LenProperties, EmptySeq
<1>2. /\ Head(q) = q[1] /\ Head(q) \in S
      /\ Tail(q) \in Seq(S)
      /\ Len(Tail(q)) = Len(q) - 1
      /\ \A i \in 1..(Len(q) - 1) : Tail(q)[i] = q[i + 1]
  BY <1>1, HeadTailProperties, LenProperties
<1>3. Len(q) > 1 => Tail(q)[Len(q) - 1] = q[Len(q)]
  BY <1>1, <1>2
<1> QED BY <1>1, <1>2, <1>3

\* popleft(): the head leaves, everybody else stays.
LEMMA TailOfQueue ==
    ASSUME NEW S, NEW q, IsQueueOf(q, S), q # <<>>
    PROVE  /\ IsQueueOf(Tail(q), S)
           /\ Head(q) \in ToSet(q)
           /\ ToSet(Tail(q)) = ToSet(q) \ {Head(q)}
<1>1. /\ q \in Seq(S)
      /\ \A i, j \in 1..Len(q) : q[i] = q[j] => i = j
  BY LenProperties DEF IsQueueOf, IsInjective
<1>2. /\ Len(q) \in Nat \ {0}
      /\ DOMAIN q = 1..Len(q)
      /\ Head(q) = q[1]
  BY <1>1, EmptySeq, LenProperties, HeadTailProperties
<1>3. /\ Tail(q) \in Seq(S)
      /\ DOMAIN Tail(q) = 1..(Len(q) - 1)
      /\ \A i \in 1..(Len(q) - 1) : Tail(q)[i] = q[i + 1]
  BY <1>1, HeadTailProperties, LenProperties
<1>4. IsInjective(Tail(q))
  <2> SUFFICES ASSUME NEW i \in 1..(Len(q) - 1), NEW j \in 1..(Len(q) - 1),
                      Tail(q)[i] = Tail(q)[j]
               PROVE  i = j
    BY <1>3 DEF IsInjective
  <2>1. i + 1 \in 1..Len(q) /\ j + 1 \in 1..Len(q) /\ q[i + 1] = q[j + 1]
    BY <1>2, <1>3
  <2>2. QED BY <2>1, <1>1
<1>5. ASSUME NEW x \in ToSet(Tail(q)) PROVE x \in ToSet(q) \ {Head(q)}
  <2>1. PICK i \in 1..(Len(q) - 1) : x = q[i + 1]
    BY <1>3 DEF ToSet
  <2>2. i + 1 \in 1..Len(q) /\ 1 \in 1..Len(q) /\ i + 1 # 1
    BY <1>2
  <2>3. QED BY <2>1, <2>2, <1>1, <1>2 DEF ToSet
<1>6. ASSUME NEW x \in ToSet(q) \ {Head(q)} PROVE x \in ToSet(Tail(q))
  <2>1. PICK i \in 1..Len(q) : x = q[i] /\ i # 1
    BY <1>2 DEF ToSet
  <2>2. i - 1 \in 1..(Len(q) - 1) /\ (i - 1) + 1 = i
    BY <2>1, <1>2
  <2>3. Tail(q)[i - 1] = q[i]
    BY <2>2, <1>3
  <2>4. QED BY <2>1, <2>2, <2>3, <1>3 DEF ToSet
<1>7. Head(q) \in ToSet(q)
  BY <1>2 DEF ToSet
<1>8. QED BY <1>3, <1>4, <1>5, <1>6, <1>7 DEF IsQueueOf

\* append(): one more element at the end.
LEMMA AppendToQueue ==
    ASSUME NEW S, NEW q, IsQueueOf(q, S), NEW e \in S, e \notin ToSet(q)
    PROVE  /\ IsQueueOf(Append(q, e), S)
           /\ ToSet(Append(q, e)) = ToSet(q) \cup {e}
<1> DEFINE r == Append(q, e)
<1>1. /\ q \in Seq(S)
      /\ DOMAIN q = 1..Len(q)
      /\ Len(q) \in Nat
      /\ \A i, j \in 1..Len(q) : q[i] = q[j] => i = j
      /\ \A i \in 1..Len(q) : q[i] # e
  BY LenProperties DEF IsQueueOf, IsInjective, ToSet
<1>2. /\ r \in Seq(S)
      /\ DOMAIN r = 1..(Len(q) + 1)
      /\ \A i \in 1..Len(q) : r[i] = q[i]
      /\ r[Len(q) + 1] = e
  BY <1>1, AppendProperties, LenProperties
<1> HIDE DEF r
<1>3. \A i \in 1..(Len(q) + 1) : i \in 1..Len(q) \/ i = Len(q) + 1
  BY <1>1
<1>4. IsInjective(r)
  BY <1>1, <1>2, <1>3 DEF IsInjective
<1>5. ToSet(r) = ToSet(q) \cup {e}
  <2>1. \A i \in 1..Len(q) : i \in 1..(Len(q) + 1)
    BY <1>1
  <2>2. Len(q) + 1 \in 1..(Len(q) + 1)
    BY <1>1
  <2>3. QED BY <1>1, <1>2, <1>3, <2>1, <2>2 DEF ToSet
<1>6. QED BY <1>2, <1>4, <1>5 DEF IsQueueOf, r

\* The elements of a sequence after the one at k was removed.
LEMMA RemoveAtIndices ==
    ASSUME NEW S, NEW q \in Seq(S), NEW k \in 1..Len(q)
    PROVE  LET r == RemoveAt(q, k)
           IN  /\ r \in Seq(S)
               /\ DOMAIN r = 1..(Len(q) - 1)
               /\ \A i \in 1..(Len(q) - 1) : r[i] = IF i < k THEN q[i] ELSE q[i + 1]
<1> DEFINE r == RemoveAt(q, k)
           n == Len(q)
<1>1. /\ q \in Seq(S)
      /\ DOMAIN q = 1..n
      /\ n \in Nat
  BY LenProperties
<1>2. k \in 1..n
  OBVIOUS
<1> HIDE DEF n
<1> DEFINE front == SubSeq(q, 1, k - 1)
           back == SubSeq(q, k + 1, n)
<1>3. \A i \in 1..n : q[i] \in S
  BY <1>1, ElementOfSeq DEF n
<1>4. /\ front \in Seq(S) /\ Len(front) = k - 1
      /\ \A i \in 1..(k - 1) : front[i] = q[i]
  <2>1. /\ 1 \in Int /\ k - 1 \in Int
        /\ \A i \in 1..(k - 1) : q[i] \in S
    BY <1>1, <1>2, <1>3
  <2>2. /\ front \in Seq(S)
        /\ Len(front) = IF 1 <= k - 1 THEN k - 1 - 1 + 1 ELSE 0
        /\ \A i \in 1..(k - 1 - 1 + 1) : front[i] = q[1 + i - 1]
    BY <2>1, SubSeqProperties
  <2> HIDE DEF front
  <2>3. QED BY <2>2, <1>2, <1>1
<1>5. /\ back \in Seq(S) /\ Len(back) = n - k
      /\ \A i \in 1..(n - k) : back[i] = q[k + i]
  <2>1. /\ k + 1 \in Int /\ n \in Int
        /\ \A i \in (k + 1)..n : q[i] \in S
    BY <1>1, <1>2, <1>3
  <2>2. /\ back \in Seq(S)
        /\ Len(back) = IF k + 1 <= n THEN n - (k + 1) + 1 ELSE 0
        /\ \A i \in 1..(n - (k + 1) + 1) : back[i] = q[k + 1 + i - 1]
    BY <2>1, SubSeqProperties
  <2> HIDE DEF back
  <2>3. /\ n - (k + 1) + 1 = n - k
        /\ (IF k + 1 <= n THEN n - (k + 1) + 1 ELSE 0) = n - k
        /\ \A i \in 1..(n - k) : k + 1 + i - 1 = k + i
    BY <1>1, <1>2
  <2>4. QED BY <2>2, <2>3
<1>6. r = front \o back
  BY DEF RemoveAt, n
<1> HIDE DEF front, back, r
<1>7. /\ r \in Seq(S) /\ Len(r) = n - 1
      /\ \A i \in 1..(n - 1) :
           r[i] = IF i <= k - 1 THEN front[i] ELSE back[i - (k - 1)]
  <2>1. /\ front \o back \in Seq(S)
        /\ Len(front \o back) = Len(front) + Len(back)
        /\ \A i \in 1..(Len(front) + Len(back)) : (front \o back)[i] =
             IF i <= Len(front) THEN front[i] ELSE back[i - Len(front)]
    BY <1>4, <1>5, ConcatProperties
  <2>2. Len(front) + Len(back) = n - 1
    BY <1>4, <1>5, <1>1, <1>2
  <2>3. QED BY <2>1, <2>2, <1>4, <1>6
<1>8. DOMAIN r = 1..(n - 1)
  BY <1>7, LenProperties
<1>9. ASSUME NEW i \in 1..(n - 1)
      PROVE  r[i] = IF i < k THEN q[i] ELSE q[i + 1]
  <2>1. CASE i < k
    <3>1. i \in 1..(k - 1) /\ i <= k - 1
      BY <2>1, <1>1, <1>2
    <3>2. QED BY <3>1, <2>1, <1>4, <1>7
  <2>2. CASE ~(i < k)
    <3>1. /\ i - (k - 1) \in 1..(n - k)
          /\ ~(i <= k - 1)
          /\ k + (i - (k - 1)) = i + 1
      BY <2>2, <1>1, <1>2
    <3>2. QED BY <3>1, <2>2, <1>5, <1>7
  <2>3. QED BY <2>1, <2>2
<1>10. QED BY <1>7, <1>8, <1>9 DEF r, n

\* remove(e): the only occurrence of e leaves.
LEMMA RemoveFromQueue ==
    ASSUME NEW S, NEW q, IsQueueOf(q, S), NEW e \in ToSet(q)
    PROVE  LET r == RemoveAt(q, CHOOSE i \in DOMAIN q : q[i] = e)
           IN  IsQueueOf(r, S) /\ ToSet(r) = ToSet(q) \ {e}
<1> DEFINE k == CHOOSE i \in DOMAIN q : q[i] = e
           r == RemoveAt(q, k)
           n == Len(q)
<1>1. /\ q \in Seq(S)
      /\ DOMAIN q = 1..n
      /\ n \in Nat
      /\ \A i, j \in 1..n : q[i] = q[j] => i = j
  BY LenProperties DEF IsQueueOf, IsInjective
<1>2. k \in 1..n /\ q[k] = e
  BY <1>1 DEF ToSet
<1> HIDE DEF k, n
<1>3. /\ r \in Seq(S)
      /\ DOMAIN r = 1..(n - 1)
      /\ \A i \in 1..(n - 1) : r[i] = IF i < k THEN q[i] ELSE q[i + 1]
  BY <1>1, <1>2, RemoveAtIndices DEF n
<1> HIDE DEF r
<1>4. IsInjective(r)
  <2> SUFFICES ASSUME NEW i \in 1..(n - 1), NEW j \in 1..(n - 1), r[i] = r[j]
               PROVE  i = j
    BY <1>3 DEF IsInjective
  <2>1. i \in 1..n /\ i + 1 \in 1..n /\ j \in 1..n /\ j + 1 \in 1..n
    BY <1>1
  <2>2. QED BY <2>1, <1>1, <1>2, <1>3
<1>5. ASSUME NEW x \in ToSet(r) PROVE x \in ToSet(q) \ {e}
  <2>1. PICK i \in 1..(n - 1) : x = r[i]
    BY <1>3 DEF ToSet
  <2>2. i \in 1..n /\ i + 1 \in 1..n
    BY <1>1
  <2>3. PICK j \in 1..n : x = q[j] /\ j # k
    BY <2>1, <2>2, <1>2, <1>3
  <2>4. QED BY <2>3, <1>1, <1>2 DEF ToSet
<1>6. ASSUME NEW x \in ToSet(q) \ {e} PROVE x \in ToSet(r)
  <2>1. PICK j \in 1..n : x = q[j] /\ j # k
    BY <1>1, <1>2 DEF ToSet
  <2>2. CASE j < k
    <3>1. j \in 1..(n - 1) /\ r[j] = x
      BY <2>1, <2>2, <1>1, <1>2, <1>3
    <3>2. QED BY <3>1, <1>3 DEF ToSet
  <2>3. CASE j > k
    <3>1. j - 1 \in 1..(n - 1) /\ r[j - 1] = x
      BY <2>1, <2>3, <1>1, <1>2, <1>3
    <3>2. QED BY <3>1, <1>3 DEF ToSet
  <2>4. QED BY <2>1, <2>2, <2>3, <1>1, <1>2
<1>7. IsQueueOf(r, S) /\ ToSet(r) = ToSet(q) \ {e}
  BY <1>3, <1>4, <1>5, <1>6 DEF IsQueueOf
<1>8. QED BY <1>7 DEF r, k

------------------------------------------------------------------------------
\* Places in a queue

PlaceIn(q, e) == CHOOSE i \in DOMAIN q : q[i] = e

\* Who is in a queue has one place in it.
LEMMA PlaceInQueue ==
    ASSUME NEW S, NEW q, IsQueueOf(q, S), NEW e \in ToSet(q)
    PROVE  /\ Len(q) \in Nat
           /\ PlaceIn(q, e) \in 1..Len(q)
           /\ q[PlaceIn(q, e)] = e
           /\ \A i \in 1..Len(q) : q[i] = e => PlaceIn(q, e) = i
<1>1. /\ q \in Seq(S)
      /\ DOMAIN q = 1..Len(q)
      /\ Len(q) \in Nat
      /\ \A i, j \in 1..Len(q) : q[i] = q[j] => i = j
  BY LenProperties DEF IsQueueOf, IsInjective
<1>2. PlaceIn(q, e) \in DOMAIN q /\ q[PlaceIn(q, e)] = e
  BY DEF PlaceIn, ToSet
<1> QED BY <1>1, <1>2

\* popleft() moves everybody up by one.
LEMMA PlaceAfterTail ==
    ASSUME NEW S, NEW q, IsQueueOf(q, S), q # <<>>, NEW e \in ToSet(Tail(q))
    PROVE  /\ e \in ToSet(q)
           /\ PlaceIn(q, e) \in Nat
           /\ PlaceIn(Tail(q), e) = PlaceIn(q, e) - 1
<1>1. /\ q \in Seq(S) /\ Len(q) \in Nat \ {0}
      /\ Len(Tail(q)) = Len(q) - 1
      /\ \A i \in 1..(Len(q) - 1) : Tail(q)[i] = q[i + 1]
  BY EmptySeq, LenProperties, HeadTailProperties DEF IsQueueOf
<1>2. IsQueueOf(Tail(q), S) /\ e \in ToSet(q)
  BY TailOfQueue
<1> DEFINE k == PlaceIn(Tail(q), e)
<1>3. k \in 1..(Len(q) - 1) /\ Tail(q)[k] = e
  BY <1>1, <1>2, PlaceInQueue
<1> HIDE DEF k
<1>4. k + 1 \in 1..Len(q) /\ q[k + 1] = e
  BY <1>1, <1>3
<1>5. PlaceIn(q, e) = k + 1
  BY <1>2, <1>4, PlaceInQueue
<1> QED BY <1>2, <1>3, <1>5 DEF k

\* append() leaves everybody in place and gives the new one the last place.
LEMMA PlaceAfterAppend ==
    ASSUME NEW S, NEW q, IsQueueOf(q, S), NEW x \in S, x \notin ToSet(q)
    PROVE  /\ PlaceIn(Append(q, x), x) = Len(q) + 1
           /\ \A e \in ToSet(q) : PlaceIn(Append(q, x), e) = PlaceIn(q, e)
<1>1. /\ q \in Seq(S) /\ Len(q) \in Nat
      /\ Len(Append(q, x)) = Len(q) + 1
      /\ \A i \in 1..Len(q) : Append(q, x)[i] = q[i]
      /\ Append(q, x)[Len(q) + 1] = x
  BY AppendProperties, LenProperties DEF IsQueueOf
<1>2. IsQueueOf(Append(q, x), S) /\ ToSet(Append(q, x)) = ToSet(q) \cup {x}
  BY AppendToQueue
<1>3. Len(q) + 1 \in 1..Len(Append(q, x))
  BY <1>1
<1>4. PlaceIn(Append(q, x), x) = Len(q) + 1
  BY <1>1, <1>2, <1>3, PlaceInQueue
<1>5. ASSUME NEW e \in ToSet(q) PROVE PlaceIn(Append(q, x), e) = PlaceIn(q, e)
  <2>1. PlaceIn(q, e) \in 1..Len(q) /\ q[PlaceIn(q, e)] = e
    BY PlaceInQueue
  <2>2. /\ PlaceIn(q, e) \in 1..Len(Append(q, x))
        /\ Append(q, x)[PlaceIn(q, e)] = e
    BY <2>1, <1>1
  <2>3. e \in ToSet(Append(q, x))
    BY <1>2
  <2> QED BY <2>2, <2>3, <1>2, PlaceInQueue
<1> QED BY <1>4, <1>5

\* remove(x) moves nobody back.
LEMMA PlaceAfterRemove ==
    ASSUME NEW S, NEW q, IsQueueOf(q, S), NEW x \in ToSet(q),
           NEW e \in ToSet(q), e # x
    PROVE  PlaceIn(RemoveAt(q, PlaceIn(q, x)), e) <= PlaceIn(q, e)
<1> DEFINE k == PlaceIn(q, x)
           r == RemoveAt(q, k)
           j == PlaceIn(r, e)
           n == Len(q)
<1>1. q \in Seq(S) /\ n \in Nat
  BY LenProperties DEF IsQueueOf
<1>2. k \in 1..n /\ q[k] = x
  BY PlaceInQueue
<1>3. IsQueueOf(r, S) /\ e \in ToSet(r)
  BY RemoveFromQueue DEF PlaceIn
<1>4. /\ DOMAIN r = 1..(n - 1)
      /\ \A i \in 1..(n - 1) : r[i] = IF i < k THEN q[i] ELSE q[i + 1]
  BY <1>1, <1>2, RemoveAtIndices
<1>5. j \in DOMAIN r /\ r[j] = e
  BY <1>3 DEF PlaceIn, ToSet
<1> HIDE DEF k, r, j
<1>6. CASE j < k
  <2>1. j \in 1..n /\ q[j] = e
    BY <1>1, <1>2, <1>4, <1>5, <1>6
  <2>2. PlaceIn(q, e) = j
    BY <2>1, PlaceInQueue
  <2> QED BY <2>1, <2>2, <1>1 DEF j, r, k
<1>7. CASE ~(j < k)
  <2>1. j + 1 \in 1..n /\ q[j + 1] = e /\ j \in Nat
    BY <1>1, <1>2, <1>4, <1>5, <1>7
  <2>2. PlaceIn(q, e) = j + 1
    BY <2>1, PlaceInQueue
  <2>3. j <= PlaceIn(q, e)
    BY <2>1, <2>2
  <2> QED BY <2>3 DEF j, r, k
<1> QED BY <1>6, <1>7

\* A queue without duplicates is as long as the set of its elements is large.
LEMMA QueueCardinality ==
    ASSUME NEW S, NEW q, IsQueueOf(q, S)
    PROVE  Cardinality(ToSet(q)) = Len(q)
<1>1. /\ q \in Seq(S) /\ Len(q) \in Nat /\ DOMAIN q = 1..Len(q)
      /\ \A i, j \in 1..Len(q) : q[i] = q[j] => i = j
  BY LenProperties DEF IsQueueOf, IsInjective
<1>2. q \in [1..Len(q) -> ToSet(q)]
  BY <1>1 DEF ToSet
<1>3. q \in Bijection(1..Len(q), ToSet(q))
  BY <1>1, <1>2 DEF Bijection, Injection, Surjection, IsInjective, ToSet
<1>4. ExistsBijection(1..Len(q), ToSet(q))
  BY <1>3 DEF ExistsBijection
<1> QED BY <1>1, <1>4, FS_CountingElements

------------------------------------------------------------------------------
\* What remains of a queue that some leave

\* A set of naturals has a least element.
LEMMA LeastExists ==
    ASSUME NEW T \in SUBSET Nat, T # {}
    PROVE  \E x \in T : \A y \in T : x <= y
<1>1. PICK x \in T : \A y \in T : ~ (<<y, x>> \in OpToRel(<, Nat))
    BY NatLessThanWellFounded, WFMin
<1>2. \A y \in T : ~ (y < x)
  <2>1. TAKE y \in T
  <2>2. <<y, x>> \in Nat \X Nat
    OBVIOUS
  <2>3. ~ (<<y, x>> \in {ss \in Nat \X Nat : ss[1] < ss[2]})
    BY <1>1 DEF OpToRel
  <2> QED BY <2>2, <2>3
<1>3. \A y \in T : y \in Nat
  OBVIOUS
<1> QED BY ONLY <1>2, <1>3, x \in T

\* A set of numbers that has 0, and with every number below n the next one,
\* has every number up to n.
LEMMA UpTo ==
    ASSUME NEW n \in Nat, NEW T, 0 \in T, \A i \in 1..n : i - 1 \in T => i \in T
    PROVE  0..n \subseteq T
<1> SUFFICES ASSUME (0..n) \ T # {} PROVE FALSE
  OBVIOUS
<1>1. (0..n) \ T \in SUBSET Nat
  OBVIOUS
<1>2. PICK x \in (0..n) \ T : \A y \in (0..n) \ T : x <= y
  BY <1>1, LeastExists
<1>3. x \in 1..n
  BY <1>2
<1>4. x - 1 \in 0..n /\ ~(x <= x - 1)
  BY <1>3
<1> QED BY <1>2, <1>3, <1>4

\* The elements of a queue that are not in T, in their order.
LEMMA RemainingQueue ==
    ASSUME NEW S, NEW q, IsQueueOf(q, S), NEW T
    PROVE  /\ IsQueueOf(Remaining(q, T), S)
           /\ ToSet(Remaining(q, T)) = ToSet(q) \ T
           /\ q # <<>> /\ Head(q) \notin T =>
                Remaining(q, T) # <<>> /\ Head(Remaining(q, T)) = Head(q)
<1> DEFINE n == Len(q)
           Step(k, i) == IF q[i] \in T THEN k ELSE Append(k, q[i])
           Kept(g, m) == g = [i \in 0..m |-> IF i = 0 THEN <<>> ELSE Step(g[i - 1], i)]
           kept == CHOOSE g : Kept(g, n)
<1>1. /\ q \in Seq(S) /\ n \in Nat /\ DOMAIN q = 1..n
      /\ \A i \in 1..n : q[i] \in S
      /\ \A i, j \in 1..n : q[i] = q[j] => i = j
  BY LenProperties, ElementOfSeq DEF IsQueueOf, IsInjective
<1>2. Remaining(q, T) = kept[n]
  BY DEF Remaining
<1> HIDE DEF n
<1>3. Kept(kept, n)
  <2> HIDE DEF Step
  <2> DEFINE Good == {m \in 0..n : \E g : Kept(g, m)}
  <2>1. 0 \in Good
    <3>1. 0 \in 0..n
      BY <1>1
    <3>2. Kept([i \in 0..0 |-> <<>>], 0)
      OBVIOUS
    <3> QED BY <3>1, <3>2
  <2>2. ASSUME NEW m \in 1..n, m - 1 \in Good PROVE m \in Good
    <3>1. PICK g : Kept(g, m - 1)
      BY <2>2
    <3> DEFINE h == [i \in 0..m |-> IF i = m THEN Step(g[m - 1], m) ELSE g[i]]
    <3>2. ASSUME NEW i \in 0..m
          PROVE  h[i] = IF i = 0 THEN <<>> ELSE Step(h[i - 1], i)
      <4>1. CASE i = m
        <5>1. h[i - 1] = g[m - 1] /\ i # 0 /\ h[i] = Step(g[m - 1], m)
          BY <4>1
        <5> QED BY <5>1, <4>1
      <4>2. CASE i # m /\ i # 0
        <5>1. i \in 0..(m - 1) /\ i - 1 \in 0..m /\ i - 1 # m
          BY <4>2
        <5>2. h[i] = g[i] /\ h[i - 1] = g[i - 1] /\ g[i] = Step(g[i - 1], i)
          BY <5>1, <4>2, <3>1
        <5> QED BY <5>2, <4>2
      <4>3. CASE i # m /\ i = 0
        <5>1. i \in 0..(m - 1)
          BY <4>3
        <5>2. h[i] = g[i] /\ g[i] = <<>>
          BY <5>1, <4>3, <3>1
        <5> QED BY <5>2, <4>3
      <4> QED BY <4>1, <4>2, <4>3
    <3>3. Kept(h, m)
      <4> DEFINE k == [i \in 0..m |-> IF i = 0 THEN <<>> ELSE Step(h[i - 1], i)]
      <4>1. \A i \in 0..m : h[i] = k[i]
        BY <3>2
      <4>2. h = [i \in 0..m |-> h[i]] /\ k = [i \in 0..m |-> k[i]]
        OBVIOUS
      <4> QED BY <4>1, <4>2
    <3> HIDE DEF h
    <3> QED BY <3>3
  <2>3. 0..n \subseteq Good
    <3> HIDE DEF Good
    <3> QED BY <2>1, <2>2, <1>1, UpTo
  <2>4. \E g : Kept(g, n)
    BY <2>3, <1>1
  <2> QED BY <2>4
<1> HIDE DEF kept
<1>4. kept[0] = <<>> /\ \A i \in 1..n : kept[i] = Step(kept[i - 1], i)
  <2> HIDE DEF Step
  <2>1. \A i \in 0..n : kept[i] = IF i = 0 THEN <<>> ELSE Step(kept[i - 1], i)
    BY <1>3
  <2>2. 0 \in 0..n /\ \A i \in 1..n : i \in 0..n /\ i # 0
    BY <1>1
  <2> QED BY <2>1, <2>2
<1> DEFINE First(i) == {q[j] : j \in 1..i}
           Fine(i) == /\ IsQueueOf(kept[i], S)
                      /\ ToSet(kept[i]) = First(i) \ T
                      /\ i # 0 /\ q[1] \notin T =>
                           kept[i] # <<>> /\ Head(kept[i]) = q[1]
           Proper == {i \in 0..n : Fine(i)}
<1>5. 0 \in Proper
  <2>1. /\ <<>> \in Seq(S) /\ DOMAIN <<>> = {}
    OBVIOUS
  <2>2. IsQueueOf(<<>>, S) /\ ToSet(<<>>) = {}
    BY <2>1 DEF IsQueueOf, IsInjective, ToSet
  <2>3. First(0) = {}
    OBVIOUS
  <2> QED BY <2>2, <2>3, <1>4, <1>1
<1>6. ASSUME NEW i \in 1..n, i - 1 \in Proper PROVE i \in Proper
  <2>1. /\ IsQueueOf(kept[i - 1], S)
        /\ ToSet(kept[i - 1]) = First(i - 1) \ T
        /\ i # 1 /\ q[1] \notin T => kept[i - 1] # <<>> /\ Head(kept[i - 1]) = q[1]
    BY <1>6
  <2>2. First(i) = First(i - 1) \cup {q[i]}
    <3>1. \A j \in 1..i : j \in 1..(i - 1) \/ j = i
      BY <1>1
    <3>2. \A j \in 1..(i - 1) : j \in 1..i
      BY <1>1
    <3>3. i \in 1..i
      BY <1>1
    <3> QED BY <3>1, <3>2, <3>3
  <2>3. q[i] \notin First(i - 1)
    BY <1>1
  <2>4. i = 1 => First(i - 1) = {}
    OBVIOUS
  <2> HIDE DEF First
  <2>5. CASE q[i] \in T
    <3>1. kept[i] = kept[i - 1]
      BY <2>5, <1>4
    <3>2. i = 1 => q[1] \in T
      BY <2>5
    <3> QED BY <2>1, <2>2, <2>5, <3>1, <3>2, <1>1
  <2>6. CASE q[i] \notin T
    <3>1. kept[i] = Append(kept[i - 1], q[i])
      BY <2>6, <1>4
    <3>2. q[i] \in S /\ q[i] \notin ToSet(kept[i - 1])
      BY <2>1, <2>3, <1>1
    <3>3. /\ IsQueueOf(kept[i], S)
          /\ ToSet(kept[i]) = First(i) \ T
      BY <3>1, <3>2, <2>1, <2>2, <2>6, AppendToQueue
    <3>4. kept[i - 1] \in Seq(S)
      BY <2>1 DEF IsQueueOf
    <3>5. kept[i] # <<>>
      BY <3>1, <3>2, <3>4, AppendProperties
    <3>6. CASE i = 1
      <4>1. ToSet(kept[i - 1]) = {}
        BY <2>1, <2>4, <3>6
      <4>2. kept[i - 1] = <<>>
        BY <3>6, <1>4
      <4>3. Head(kept[i]) = q[1]
        BY <4>2, <3>1, <3>6
      <4> QED BY <4>3, <3>3, <3>5, <1>1
    <3>7. CASE i # 1
      <4>1. q[1] \notin T => Head(kept[i]) = q[1]
        BY <3>7, <2>1, <3>1, <3>2, <3>4, HeadTailAppend
      <4> QED BY <4>1, <3>3, <3>5, <1>1
    <3> QED BY <3>6, <3>7
  <2> QED BY <2>5, <2>6
<1>7. n \in Proper
  <2> HIDE DEF Proper
  <2> QED BY <1>5, <1>6, <1>1, UpTo
<1>8. First(n) = ToSet(q)
  BY <1>1 DEF ToSet
<1>9. q # <<>> => n # 0 /\ Head(q) = q[1]
  BY <1>1, EmptySeq, HeadTailProperties DEF n
<1> QED BY <1>2, <1>7, <1>8, <1>9

===============================================================================
