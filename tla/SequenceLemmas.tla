--------------------------- MODULE SequenceLemmas ---------------------------
(* Facts about sequences without duplicates, for the proofs about queues:  *)
(* what the elements are, and that there are still no duplicates, after an *)
(* element is added at either end, the head is taken, or one is removed.   *)
EXTENDS Integers, Sequences, SequencesExt, SequenceTheorems, WellFoundedInduction, TLAPS

\* The head and the tail of a sequence that is not empty.
LEMMA HeadTail ==
    ASSUME NEW S, NEW s \in Seq(S), s # <<>>
    PROVE  Head(s) \in S /\ Tail(s) \in Seq(S)
BY HeadTailProperties

\* The elements of a sequence over S are in S.
LEMMA ElementsType ==
    ASSUME NEW S, NEW s \in Seq(S) PROVE ToSet(s) \subseteq S
BY DEF ToSet

\* A new element at the back (QueueService.add without a position).
LEMMA AppendDistinct ==
    ASSUME NEW S, NEW s \in Seq(S), NEW x \in S, IsInjective(s), x \notin ToSet(s)
    PROVE  IsInjective(Append(s, x)) /\ ToSet(Append(s, x)) = ToSet(s) \cup {x}
<1>1. /\ Len(Append(s, x)) = Len(s) + 1
      /\ \A k \in 1..Len(s) : Append(s, x)[k] = s[k]
      /\ Append(s, x)[Len(s) + 1] = x
      /\ DOMAIN Append(s, x) = 1..(Len(s) + 1)
  BY AppendProperties
<1>2. DOMAIN s = 1..Len(s) /\ Len(s) \in Nat
  OBVIOUS
<1>3. IsInjective(Append(s, x))
  BY <1>1, <1>2 DEF IsInjective, ToSet
<1>4. ToSet(Append(s, x)) = ToSet(s) \cup {x}
  BY <1>1, <1>2 DEF ToSet
<1> QED BY <1>3, <1>4

\* A new element at the front (QueueService.push_front).
LEMMA PrependDistinct ==
    ASSUME NEW S, NEW s \in Seq(S), NEW x \in S, IsInjective(s), x \notin ToSet(s)
    PROVE  IsInjective(<<x>> \o s) /\ ToSet(<<x>> \o s) = ToSet(s) \cup {x}
<1>1. DOMAIN s = 1..Len(s) /\ Len(s) \in Nat
  OBVIOUS
<1>2. /\ DOMAIN (<<x>> \o s) = 1..(Len(s) + 1)
      /\ (<<x>> \o s)[1] = x
      /\ \A k \in 1..Len(s) : (<<x>> \o s)[k + 1] = s[k]
      /\ \A k \in 2..(Len(s) + 1) : (<<x>> \o s)[k] = s[k - 1]
  BY <1>1
<1>3. IsInjective(<<x>> \o s)
  <2> SUFFICES ASSUME NEW a \in 1..(Len(s) + 1), NEW b \in 1..(Len(s) + 1),
                      (<<x>> \o s)[a] = (<<x>> \o s)[b]
               PROVE  a = b
    BY <1>2 DEF IsInjective
  <2>1. \A k \in 2..(Len(s) + 1) : (<<x>> \o s)[k] \in ToSet(s)
    BY <1>1, <1>2 DEF ToSet
  <2>2. CASE a = 1 \/ b = 1
    BY <1>1, <1>2, <2>1, <2>2
  <2>3. CASE a # 1 /\ b # 1
    BY <1>1, <1>2, <2>3 DEF IsInjective
  <2> QED BY <2>2, <2>3
<1>4. ToSet(<<x>> \o s) = ToSet(s) \cup {x}
  <2>1. ToSet(<<x>> \o s) \subseteq ToSet(s) \cup {x}
    BY <1>1, <1>2 DEF ToSet
  <2>2. x \in ToSet(<<x>> \o s)
    BY <1>1, <1>2 DEF ToSet
  <2>3. ASSUME NEW k \in 1..Len(s) PROVE s[k] \in ToSet(<<x>> \o s)
    <3>1. k + 1 \in DOMAIN (<<x>> \o s) /\ (<<x>> \o s)[k + 1] = s[k]
      BY <1>1, <1>2
    <3> QED BY <3>1 DEF ToSet
  <2> QED BY <1>1, <2>1, <2>2, <2>3 DEF ToSet
<1> QED BY <1>3, <1>4

\* What is left when the head is taken (pop_front).
LEMMA TailDistinct ==
    ASSUME NEW S, NEW s \in Seq(S), IsInjective(s), s # <<>>
    PROVE  /\ IsInjective(Tail(s))
           /\ Head(s) \notin ToSet(Tail(s))
           /\ ToSet(s) = ToSet(Tail(s)) \cup {Head(s)}
<1>1. /\ DOMAIN s = 1..Len(s) /\ Len(s) \in Nat \ {0}
      /\ DOMAIN Tail(s) = 1..(Len(s) - 1)
      /\ \A k \in 1..(Len(s) - 1) : Tail(s)[k] = s[k + 1]
      /\ Head(s) = s[1]
  BY HeadTailProperties
<1>2. IsInjective(Tail(s))
  BY <1>1 DEF IsInjective
<1>3. Head(s) \notin ToSet(Tail(s))
  BY <1>1 DEF IsInjective, ToSet
<1>4. ToSet(Tail(s)) \cup {Head(s)} \subseteq ToSet(s)
  BY <1>1 DEF ToSet
<1>5. ASSUME NEW k \in 1..Len(s) PROVE s[k] \in ToSet(Tail(s)) \cup {Head(s)}
  <2>1. CASE k = 1
    BY <1>1, <2>1
  <2>2. CASE k # 1
    <3>1. k - 1 \in 1..(Len(s) - 1) /\ Tail(s)[k - 1] = s[k]
      BY <1>1, <2>2
    <3> QED BY <1>1, <3>1 DEF ToSet
  <2> QED BY <2>1, <2>2
<1> QED BY <1>1, <1>2, <1>3, <1>4, <1>5 DEF ToSet

\* The elements behind the removed one move up by one place.
LEMMA RemoveAtType ==
    ASSUME NEW S, NEW s \in Seq(S), NEW k \in 1..Len(s)
    PROVE  /\ RemoveAt(s, k) \in Seq(S)
           /\ Len(RemoveAt(s, k)) = Len(s) - 1
           /\ \A j \in 1..(Len(s) - 1) :
                 RemoveAt(s, k)[j] = IF j < k THEN s[j] ELSE s[j + 1]
<1> DEFINE front == SubSeq(s, 1, k - 1)
           back  == SubSeq(s, k + 1, Len(s))
<1>1. /\ front \in Seq(S) /\ Len(front) = k - 1
      /\ \A j \in 1..(k - 1) : front[j] = s[j]
  OBVIOUS
<1>2. /\ back \in Seq(S) /\ Len(back) = Len(s) - k
      /\ \A j \in 1..(Len(s) - k) : back[j] = s[k + j]
  OBVIOUS
<1>3. RemoveAt(s, k) = front \o back
  BY DEF RemoveAt
<1> HIDE DEF front, back
<1>4. /\ front \o back \in Seq(S)
      /\ Len(front \o back) = Len(s) - 1
      /\ \A j \in 1..(Len(s) - 1) : (front \o back)[j] =
            IF j <= k - 1 THEN front[j] ELSE back[j - (k - 1)]
  <2>1. /\ front \o back \in Seq(S)
        /\ Len(front \o back) = Len(front) + Len(back)
        /\ \A i \in 1..(Len(front) + Len(back)) : (front \o back)[i] =
              IF i <= Len(front) THEN front[i] ELSE back[i - Len(front)]
    BY <1>1, <1>2, ConcatProperties
  <2> QED BY <1>1, <1>2, <2>1
<1>5. ASSUME NEW j \in 1..(Len(s) - 1)
      PROVE  (front \o back)[j] = IF j < k THEN s[j] ELSE s[j + 1]
  <2>1. CASE j < k
    BY <1>1, <1>4, <2>1
  <2>2. CASE ~(j < k)
    <3>1. j - (k - 1) \in 1..(Len(s) - k) /\ k + (j - (k - 1)) = j + 1
      BY <2>2
    <3> QED BY <1>2, <1>4, <2>2, <3>1
  <2> QED BY <2>1, <2>2
<1> QED BY <1>3, <1>4, <1>5

\* What is left when one element is removed.
LEMMA RemoveAtDistinct ==
    ASSUME NEW S, NEW s \in Seq(S), NEW k \in 1..Len(s), IsInjective(s)
    PROVE  /\ IsInjective(RemoveAt(s, k))
           /\ ToSet(RemoveAt(s, k)) = ToSet(s) \ {s[k]}
<1> DEFINE r == RemoveAt(s, k)
<1>1. /\ DOMAIN s = 1..Len(s) /\ Len(s) \in Nat \ {0}
      /\ DOMAIN r = 1..(Len(s) - 1)
      /\ \A j \in 1..(Len(s) - 1) : r[j] = IF j < k THEN s[j] ELSE s[j + 1]
  BY RemoveAtType
<1> HIDE DEF r
<1>2. IsInjective(r)
  BY <1>1 DEF IsInjective
<1>3. ToSet(r) \subseteq ToSet(s) \ {s[k]}
  <2> SUFFICES ASSUME NEW j \in 1..(Len(s) - 1) PROVE r[j] \in ToSet(s) \ {s[k]}
    BY <1>1 DEF ToSet
  <2>1. CASE j < k
    BY <1>1, <2>1 DEF IsInjective, ToSet
  <2>2. CASE ~(j < k)
    BY <1>1, <2>2 DEF IsInjective, ToSet
  <2> QED BY <2>1, <2>2
<1>4. ToSet(s) \ {s[k]} \subseteq ToSet(r)
  <2> SUFFICES ASSUME NEW j \in 1..Len(s), s[j] # s[k] PROVE s[j] \in ToSet(r)
    BY <1>1 DEF ToSet
  <2>1. CASE j < k
    <3>1. j \in DOMAIN r /\ r[j] = s[j]
      BY <1>1, <2>1
    <3> QED BY <3>1 DEF ToSet
  <2>2. CASE j > k
    <3>1. j - 1 \in DOMAIN r /\ r[j - 1] = s[j]
      BY <1>1, <2>2
    <3> QED BY <3>1 DEF ToSet
  <2> QED BY <1>1, <2>1, <2>2
<1> QED BY <1>2, <1>3, <1>4 DEF r

\* The elements from the place of the new one on move back by one place.
LEMMA InsertAtType ==
    ASSUME NEW S, NEW s \in Seq(S), NEW x \in S, NEW k \in 1..(Len(s) + 1)
    PROVE  /\ InsertAt(s, k, x) \in Seq(S)
           /\ Len(InsertAt(s, k, x)) = Len(s) + 1
           /\ \A j \in 1..(Len(s) + 1) :
                 InsertAt(s, k, x)[j] =
                    IF j < k THEN s[j] ELSE IF j = k THEN x ELSE s[j - 1]
<1> DEFINE front == SubSeq(s, 1, k - 1)
           back  == SubSeq(s, k, Len(s))
           start == front \o <<x>>
<1>0. Len(s) \in Nat /\ k \in Int
  OBVIOUS
<1>1. /\ front \in Seq(S) /\ Len(front) = k - 1
      /\ \A j \in 1..(k - 1) : front[j] = s[j]
  OBVIOUS
<1>2. /\ back \in Seq(S) /\ Len(back) = Len(s) - k + 1
      /\ \A j \in 1..(Len(s) - k + 1) : back[j] = s[k + j - 1]
  OBVIOUS
<1>3. InsertAt(s, k, x) = start \o back
  BY DEF InsertAt
<1>4. <<x>> \in Seq(S) /\ Len(<<x>>) = 1 /\ <<x>>[1] = x
  OBVIOUS
<1> HIDE DEF front, back
<1>5. /\ start \in Seq(S) /\ Len(start) = k
      /\ \A j \in 1..k : start[j] = IF j < k THEN s[j] ELSE x
  <2>1. /\ start \in Seq(S)
        /\ Len(start) = Len(front) + Len(<<x>>)
        /\ \A j \in 1..(Len(front) + Len(<<x>>)) : start[j] =
              IF j <= Len(front) THEN front[j] ELSE <<x>>[j - Len(front)]
    BY <1>1, <1>4, ConcatProperties
  <2>2. Len(start) = k
    BY <1>1, <1>4, <2>1
  <2>3. ASSUME NEW j \in 1..k PROVE start[j] = IF j < k THEN s[j] ELSE x
    <3>1. CASE j < k
      <4>1. start[j] = front[j] /\ j \in 1..(k - 1)
        BY <1>1, <1>4, <2>1, <3>1
      <4> QED BY <1>1, <3>1, <4>1
    <3>2. CASE j = k
      <4>1. start[j] = <<x>>[1]
        BY <1>1, <1>4, <2>1, <3>2
      <4>2. ~(j < k)
        BY <1>0, <3>2
      <4> QED BY <1>4, <4>1, <4>2
    <3>3. j < k \/ j = k
      BY <1>0
    <3> QED BY <3>1, <3>2, <3>3
  <2> QED BY <2>1, <2>2, <2>3
<1> HIDE DEF start
<1>6. /\ start \o back \in Seq(S)
      /\ Len(start \o back) = Len(s) + 1
      /\ \A j \in 1..(Len(s) + 1) : (start \o back)[j] =
            IF j <= k THEN start[j] ELSE back[j - k]
  <2>1. /\ start \o back \in Seq(S)
        /\ Len(start \o back) = Len(start) + Len(back)
        /\ \A j \in 1..(Len(start) + Len(back)) : (start \o back)[j] =
              IF j <= Len(start) THEN start[j] ELSE back[j - Len(start)]
    BY <1>2, <1>5, ConcatProperties
  <2> QED BY <1>2, <1>5, <2>1
<1>7. ASSUME NEW j \in 1..(Len(s) + 1)
      PROVE  (start \o back)[j] = IF j < k THEN s[j] ELSE IF j = k THEN x ELSE s[j - 1]
  <2>1. CASE j <= k
    <3>1. (start \o back)[j] = start[j] /\ j \in 1..k
      BY <1>6, <2>1
    <3> QED BY <1>5, <2>1, <3>1
  <2>2. CASE j > k
    <3>1. j - k \in 1..(Len(s) - k + 1) /\ k + (j - k) - 1 = j - 1
      BY <2>2
    <3>2. (start \o back)[j] = back[j - k]
      BY <1>6, <2>2
    <3> QED BY <1>2, <2>2, <3>1, <3>2
  <2>3. j <= k \/ j > k
    BY <1>0
  <2> QED BY <2>1, <2>2, <2>3
<1> QED BY <1>3, <1>6, <1>7

\* The last element of a longer sequence is the one that was appended.
LEMMA BackOfAppend ==
    ASSUME NEW S, NEW s \in Seq(S), NEW x \in S
    PROVE  /\ Append(s, x) \in Seq(S) /\ Append(s, x) # <<>>
           /\ Append(s, x)[Len(Append(s, x))] = x
BY AppendProperties

\* The last element of what is left without the first is the last, or there is only one.
LEMMA BackOfTail ==
    ASSUME NEW S, NEW s \in Seq(S), s # <<>>
    PROVE  /\ Head(s) \in S /\ Tail(s) \in Seq(S)
           /\ Tail(s) = <<>> => s[Len(s)] = Head(s)
           /\ Tail(s) # <<>> => Tail(s)[Len(Tail(s))] = s[Len(s)]
<1>1. /\ Head(s) \in S /\ Head(s) = s[1] /\ Tail(s) \in Seq(S) /\ Len(Tail(s)) = Len(s) - 1
      /\ \A i \in 1..Len(Tail(s)) : Tail(s)[i] = s[i + 1]
      /\ Len(s) \in Nat \ {0}
  BY HeadTailProperties
<1>2. Tail(s) = <<>> => Len(s) = 1
  BY <1>1
<1>3. ASSUME Tail(s) # <<>> PROVE Tail(s)[Len(Tail(s))] = s[Len(s)]
  <2>1. Len(Tail(s)) \in 1..Len(Tail(s))
    BY <1>1, <1>3
  <2> QED
    BY <1>1, <2>1
<1> QED
  BY <1>1, <1>2, <1>3

\* A set of numbers that has 0, and with a number the next, has every number: induction,
\* as a first-order fact.
LEMMA SetInduction ==
    ASSUME NEW T, 0 \in T, \A n \in T \cap Nat : n + 1 \in T
    PROVE  Nat \subseteq T
<1> DEFINE R == OpToRel(<, Nat)
<1>1. IsWellFoundedOn(R, Nat)
  BY NatLessThanWellFounded DEF OpToRel
<1> SUFFICES ASSUME Nat \ T # {} PROVE FALSE
  OBVIOUS
<1> HIDE DEF R
<1>2. PICK m \in Nat \ T : \A y \in Nat \ T : ~(<<y, m>> \in R)
  <2> DEFINE U == Nat \ T
  <2>1. U \subseteq Nat /\ U # {}
    OBVIOUS
  <2> HIDE DEF U
  <2>2. \E x \in U : \A y \in U : ~(<<y, x>> \in R)
    BY <1>1, <2>1, WFMin
  <2> QED BY <2>2 DEF U
<1>3. m # 0 /\ m - 1 \in Nat /\ m - 1 \notin T
  <2>1. m # 0 /\ m - 1 \in Nat
    OBVIOUS
  <2>2. (m - 1) + 1 = m
    OBVIOUS
  <2> QED BY <2>1, <2>2
<1>4. <<m - 1, m>> \in R
  BY <1>3 DEF R, OpToRel
<1> QED
  BY <1>2, <1>3, <1>4

\* The same for the turns of a loop.
LEMMA TurnByTurn ==
    ASSUME NEW L \in Nat, NEW T, 0 \in T, \A n \in T \cap (0..(L - 1)) : n + 1 \in T
    PROVE  0..L \subseteq T
<1> DEFINE U == {n \in Nat : n <= L => n \in T}
<1>1. 0 \in U /\ \A n \in U \cap Nat : n + 1 \in U
  OBVIOUS
<1> HIDE DEF U
<1>2. Nat \subseteq U
  BY <1>1, SetInduction
<1> QED
  BY <1>2 DEF U

\* The steps of a loop of L turns over values of S, and a run of such a loop.
StepsOn(S, L) == [S \X (1..L) -> S]
IsRun(f, L, s, step) == f[0] = s /\ \A n \in 1..L : f[n] = step[<<f[n - 1], n>>]

\* A loop that keeps a set has a run: the recursion that defines it is of something.
LEMMA LoopRuns ==
    ASSUME NEW S, NEW L \in Nat, NEW s \in S, NEW step \in StepsOn(S, L)
    PROVE  \E f \in [0..L -> S] : IsRun(f, L, s, step)
<1> USE DEF StepsOn, IsRun
<1> DEFINE RunsTo(n, f) == IsRun(f, n, s, step)
           T == {n \in 0..L : \E f \in [0..n -> S] : RunsTo(n, f)}
<1>1. 0 \in T
  <2> DEFINE g == [i \in 0..0 |-> s]
  <2>1. g \in [0..0 -> S] /\ RunsTo(0, g)
    OBVIOUS
  <2> HIDE DEF g
  <2>2. 0 \in 0..L
    OBVIOUS
  <2> QED BY <2>1, <2>2
<1>2. ASSUME NEW n \in T \cap (0..(L - 1)) PROVE n + 1 \in T
  <2>1. PICK f \in [0..n -> S] : RunsTo(n, f)
    OBVIOUS
  <2> DEFINE g == [i \in 0..(n + 1) |-> IF i <= n THEN f[i] ELSE step[<<f[n], n + 1>>]]
  <2>2. n \in 0..n /\ n + 1 \in 1..L /\ n + 1 \in 0..(n + 1) /\ ~(n + 1 <= n) /\ (n + 1) - 1 = n
    OBVIOUS
  <2>3. f[n] \in S
    BY <2>1, <2>2
  <2>4. step[<<f[n], n + 1>>] \in S
    BY <2>2, <2>3
  <2>5. g \in [0..(n + 1) -> S]
    BY <2>1, <2>4
  <2>6. g[0] = s
    BY <2>1
  <2>7. ASSUME NEW i \in 1..(n + 1) PROVE g[i] = step[<<g[i - 1], i>>]
    <3>1. CASE i \in 1..n
      <4>1. g[i] = f[i] /\ g[i - 1] = f[i - 1]
        BY <3>1
      <4> QED BY <2>1, <3>1, <4>1
    <3>2. CASE i = n + 1
      <4>1. g[i] = step[<<f[n], n + 1>>] /\ g[n] = f[n]
        BY <2>2, <3>2
      <4> QED BY <2>2, <3>2, <4>1
    <3> QED BY <3>1, <3>2
  <2> HIDE DEF g
  <2>8. n + 1 \in 0..L
    OBVIOUS
  <2> QED BY <2>5, <2>6, <2>7, <2>8
<1> HIDE DEF T
<1>3. 0..L \subseteq T
  BY <1>1, <1>2, TurnByTurn
<1>4. L \in T
  BY <1>3
<1> QED
  BY <1>4 DEF T
=============================================================================
