---------------------------- MODULE Timers_proof ----------------------------
(***************************************************************************)
(* The two containers of timers.  The links of sort_timer_lst are those of *)
(* one list, and the list implements the sorted sequence that the idle-    *)
(* connection server counts on, for any timers and times.  The timer wheel *)
(* is right for any number of slots, interval, timers and timeouts: the    *)
(* lists stay in order, and every timer goes off on its tick.              *)
(***************************************************************************)
EXTENDS TimerList, TimerWheel, FiniteSetTheorems, WellFoundedInduction, TLAPS

Once(s) == \A i, j \in 1..Len(s) : s[i] = s[j] => i = j

-----------------------------------------------------------------------------
(* Sequences.                                                              *)

\* r is s with e behind its first k elements.
Inserted(s, k, e, r) ==
    /\ Len(r) = Len(s) + 1
    /\ \A i \in 1..(Len(s) + 1) : /\ i <= k => r[i] = s[i]
                                  /\ i = k + 1 => r[i] = e
                                  /\ i > k + 1 => r[i] = s[i - 1]

\* r is s without its k-th element.
Removed(s, k, r) ==
    /\ Len(r) = Len(s) - 1
    /\ \A i \in 1..(Len(s) - 1) : r[i] = IF i < k THEN s[i] ELSE s[i + 1]

LEMMA InsertAtIs ==
    ASSUME NEW S, NEW s \in Seq(S), NEW e \in S, NEW k \in 0..Len(s)
    PROVE  \E r \in Seq(S) : r = InsertAt(s, k + 1, e) /\ Inserted(s, k, e, r)
  <1>1. Len(s) \in Nat /\ k \in Nat /\ k <= Len(s) /\ (k + 1) - 1 = k
    OBVIOUS
  <1>2. PICK a : a = SubSeq(s, 1, k)
    OBVIOUS
  <1>3. PICK b : b = SubSeq(s, k + 1, Len(s))
    OBVIOUS
  <1>4. a \in Seq(S) /\ Len(a) = k /\ \A i \in 1..k : a[i] = s[i]
    BY <1>2
  <1>5. b \in Seq(S) /\ Len(b) = Len(s) - k /\ \A i \in 1..(Len(s) - k) : b[i] = s[k + i]
    BY <1>3
  <1>6. PICK c : c = a \o <<e>>
    OBVIOUS
  <1>7. c \in Seq(S) /\ Len(c) = k + 1
        /\ \A i \in 1..(k + 1) : c[i] = IF i <= k THEN s[i] ELSE e
    BY <1>1, <1>4, <1>6
  <1>8. PICK r : r = c \o b
    OBVIOUS
  <1>9. r \in Seq(S) /\ Len(r) = Len(s) + 1
    <2>1. c \in Seq(S) /\ b \in Seq(S)
      BY <1>5, <1>7
    <2>2. r \in Seq(S) /\ Len(r) = Len(c) + Len(b)
      BY <1>8, <2>1
    <2>3. Len(c) = k + 1 /\ Len(b) = Len(s) - k
      BY <1>5, <1>7
    <2>4. QED
      BY <1>1, <2>2, <2>3
  <1>10. ASSUME NEW i \in 1..(Len(s) + 1)
         PROVE  /\ i <= k => r[i] = s[i]
                /\ i = k + 1 => r[i] = e
                /\ i > k + 1 => r[i] = s[i - 1]
    <2>1. CASE i <= k + 1
      <3>1. r[i] = c[i] /\ i \in 1..(k + 1)
        BY <1>1, <1>5, <1>7, <1>8, <2>1
      <3>2. QED
        BY <1>1, <1>7, <3>1
    <2>2. CASE i > k + 1
      <3>1. i - (k + 1) \in 1..(Len(s) - k) /\ k + (i - (k + 1)) = i - 1
            /\ ~(i <= k) /\ i # k + 1
        BY <1>1, <2>2
      <3>2. r[i] = b[i - (k + 1)]
        BY <1>1, <1>5, <1>7, <1>8, <2>2
      <3>3. b[i - (k + 1)] = s[i - 1]
        BY <1>5, <3>1
      <3>4. QED
        BY <3>1, <3>2, <3>3
    <2>3. QED
      BY <1>1, <2>1, <2>2
  <1>11. r = InsertAt(s, k + 1, e)
    BY <1>1, <1>2, <1>3, <1>6, <1>8 DEF InsertAt
  <1>12. QED
    BY <1>9, <1>10, <1>11 DEF Inserted

LEMMA RemoveAtIs ==
    ASSUME NEW S, NEW s \in Seq(S), NEW k \in 1..Len(s)
    PROVE  \E r \in Seq(S) : r = RemoveAt(s, k) /\ Removed(s, k, r)
  <1>1. Len(s) \in Nat /\ k \in Nat /\ k >= 1 /\ k <= Len(s)
    OBVIOUS
  <1>2. PICK a : a = SubSeq(s, 1, k - 1)
    OBVIOUS
  <1>3. PICK b : b = SubSeq(s, k + 1, Len(s))
    OBVIOUS
  <1>4. a \in Seq(S) /\ Len(a) = k - 1 /\ \A i \in 1..(k - 1) : a[i] = s[i]
    BY <1>2
  <1>5. b \in Seq(S) /\ Len(b) = Len(s) - k /\ \A i \in 1..(Len(s) - k) : b[i] = s[k + i]
    BY <1>3
  <1>6. PICK r : r = a \o b
    OBVIOUS
  <1>7. r \in Seq(S) /\ Len(r) = Len(s) - 1
    <2>1. a \in Seq(S) /\ b \in Seq(S)
      BY <1>4, <1>5
    <2>2. r \in Seq(S) /\ Len(r) = Len(a) + Len(b)
      BY <1>6, <2>1
    <2>3. Len(a) = k - 1 /\ Len(b) = Len(s) - k
      BY <1>4, <1>5
    <2>4. QED
      BY <1>1, <2>2, <2>3
  <1>8. ASSUME NEW i \in 1..(Len(s) - 1)
        PROVE  r[i] = IF i < k THEN s[i] ELSE s[i + 1]
    <2>1. CASE i < k
      <3>1. r[i] = a[i] /\ i \in 1..(k - 1)
        BY <1>1, <1>4, <1>5, <1>6, <2>1
      <3>2. QED
        BY <1>4, <2>1, <3>1
    <2>2. CASE i >= k
      <3>1. i - (k - 1) \in 1..(Len(s) - k) /\ k + (i - (k - 1)) = i + 1 /\ ~(i < k)
        BY <1>1, <2>2
      <3>2. r[i] = b[i - (k - 1)]
        BY <1>1, <1>4, <1>5, <1>6, <2>2
      <3>3. b[i - (k - 1)] = s[i + 1]
        BY <1>5, <3>1
      <3>4. QED
        BY <3>1, <3>2, <3>3
    <2>3. QED
      BY <1>1, <2>1, <2>2
  <1>9. r = RemoveAt(s, k)
    BY <1>2, <1>3, <1>6 DEF RemoveAt
  <1>10. QED
    BY <1>7, <1>8, <1>9 DEF Removed

LEMMA InsertKeeps ==
    ASSUME NEW S, NEW s \in Seq(S), Once(s), NEW e \in S, e \notin ToSet(s),
           NEW k \in 0..Len(s)
    PROVE  \E r \in Seq(S) :
               r = InsertAt(s, k + 1, e) /\ Once(r) /\ ToSet(r) = ToSet(s) \cup {e}
  <1>1. PICK r \in Seq(S) : r = InsertAt(s, k + 1, e) /\ Inserted(s, k, e, r)
    BY InsertAtIs
  <1>2. /\ r = InsertAt(s, k + 1, e)
        /\ Len(r) = Len(s) + 1
        /\ \A i \in 1..(Len(s) + 1) :
               /\ i <= k => r[i] = s[i]
               /\ i = k + 1 => r[i] = e
               /\ i > k + 1 => r[i] = s[i - 1]
    BY <1>1 DEF Inserted
  <1>3. r \in Seq(S) /\ Len(r) = Len(s) + 1 /\ Len(s) \in Nat /\ k \in Nat /\ k <= Len(s)
        /\ DOMAIN r = 1..(Len(s) + 1) /\ DOMAIN s = 1..Len(s)
    BY <1>2
  <1>4. \A i \in 1..(Len(s) + 1) :
            /\ i <= k => r[i] = s[i]
            /\ i = k + 1 => r[i] = e
            /\ i > k + 1 => r[i] = s[i - 1]
    BY <1>2
  <1>5. \A i \in 1..Len(s) : s[i] # e
    BY <1>3 DEF ToSet
  <1>6. ASSUME NEW i \in 1..(Len(s) + 1), NEW j \in 1..(Len(s) + 1), r[i] = r[j]
        PROVE  i = j
    <2>1. CASE i <= k
      <3>1. r[i] = s[i] /\ i \in 1..Len(s)
        BY <1>3, <1>4, <2>1
      <3>2. CASE j <= k
        <4>1. r[j] = s[j] /\ j \in 1..Len(s)
          BY <1>3, <1>4, <3>2
        <4>2. QED
          BY <1>6, <3>1, <4>1 DEF Once
      <3>3. CASE j = k + 1
        <4>1. r[j] = e
          BY <1>3, <1>4, <3>3
        <4>2. QED
          BY <1>5, <1>6, <3>1, <4>1
      <3>4. CASE j > k + 1
        <4>1. r[j] = s[j - 1] /\ j - 1 \in 1..Len(s)
          BY <1>3, <1>4, <3>4
        <4>2. i = j - 1
          BY <1>6, <3>1, <4>1 DEF Once
        <4>3. QED
          BY <1>3, <2>1, <3>4, <4>2
      <3>5. QED
        BY <1>3, <3>2, <3>3, <3>4
    <2>2. CASE i = k + 1
      <3>1. r[i] = e
        BY <1>3, <1>4, <2>2
      <3>2. CASE j <= k
        <4>1. r[j] = s[j] /\ j \in 1..Len(s)
          BY <1>3, <1>4, <3>2
        <4>2. QED
          BY <1>5, <1>6, <3>1, <4>1
      <3>3. CASE j > k + 1
        <4>1. r[j] = s[j - 1] /\ j - 1 \in 1..Len(s)
          BY <1>3, <1>4, <3>3
        <4>2. QED
          BY <1>5, <1>6, <3>1, <4>1
      <3>4. QED
        BY <1>3, <2>2, <3>2, <3>3
    <2>3. CASE i > k + 1
      <3>1. r[i] = s[i - 1] /\ i - 1 \in 1..Len(s)
        BY <1>3, <1>4, <2>3
      <3>2. CASE j <= k
        <4>1. r[j] = s[j] /\ j \in 1..Len(s)
          BY <1>3, <1>4, <3>2
        <4>2. i - 1 = j
          BY <1>6, <3>1, <4>1 DEF Once
        <4>3. QED
          BY <1>3, <2>3, <3>2, <4>2
      <3>3. CASE j = k + 1
        <4>1. r[j] = e
          BY <1>3, <1>4, <3>3
        <4>2. QED
          BY <1>5, <1>6, <3>1, <4>1
      <3>4. CASE j > k + 1
        <4>1. r[j] = s[j - 1] /\ j - 1 \in 1..Len(s)
          BY <1>3, <1>4, <3>4
        <4>2. i - 1 = j - 1
          BY <1>6, <3>1, <4>1 DEF Once
        <4>3. QED
          BY <1>3, <4>2
      <3>5. QED
        BY <1>3, <3>2, <3>3, <3>4
    <2>4. QED
      BY <1>3, <2>1, <2>2, <2>3
  <1>7. ToSet(r) \subseteq ToSet(s) \cup {e}
    <2>1. SUFFICES ASSUME NEW i \in 1..(Len(s) + 1)
                   PROVE  r[i] \in ToSet(s) \cup {e}
      BY <1>3 DEF ToSet
    <2>2. CASE i <= k
      BY <1>3, <1>4, <2>2 DEF ToSet
    <2>3. CASE i > k + 1
      <3>1. r[i] = s[i - 1] /\ i - 1 \in 1..Len(s)
        BY <1>3, <1>4, <2>3
      <3>2. QED
        BY <1>3, <3>1 DEF ToSet
    <2>4. QED
      BY <1>3, <1>4, <2>2, <2>3
  <1>8. ToSet(s) \cup {e} \subseteq ToSet(r)
    <2>1. e \in ToSet(r)
      <3>1. k + 1 \in 1..(Len(s) + 1) /\ r[k + 1] = e
        BY <1>3, <1>4
      <3>2. QED
        BY <1>3, <3>1 DEF ToSet
    <2>2. ASSUME NEW i \in 1..Len(s)
          PROVE  s[i] \in ToSet(r)
      <3>1. CASE i <= k
        <4>1. i \in 1..(Len(s) + 1) /\ r[i] = s[i]
          BY <1>3, <1>4, <3>1
        <4>2. QED
          BY <1>3, <4>1 DEF ToSet
      <3>2. CASE i > k
        <4>1. i + 1 \in 1..(Len(s) + 1) /\ r[i + 1] = s[i]
          BY <1>3, <1>4, <3>2
        <4>2. QED
          BY <1>3, <4>1 DEF ToSet
      <3>3. QED
        BY <1>3, <3>1, <3>2
    <2>3. QED
      BY <1>3, <2>1, <2>2 DEF ToSet
  <1>9. QED
    BY <1>2, <1>3, <1>6, <1>7, <1>8 DEF Once

LEMMA RemoveKeeps ==
    ASSUME NEW S, NEW s \in Seq(S), Once(s), NEW k \in 1..Len(s)
    PROVE  \E r \in Seq(S) :
               r = RemoveAt(s, k) /\ Once(r) /\ ToSet(r) = ToSet(s) \ {s[k]}
  <1>1. PICK r \in Seq(S) : r = RemoveAt(s, k) /\ Removed(s, k, r)
    BY RemoveAtIs
  <1>2. /\ r = RemoveAt(s, k)
        /\ Len(r) = Len(s) - 1
        /\ \A i \in 1..(Len(s) - 1) : r[i] = IF i < k THEN s[i] ELSE s[i + 1]
    BY <1>1 DEF Removed
  <1>3. r \in Seq(S) /\ Len(r) = Len(s) - 1 /\ Len(s) \in Nat
        /\ k \in Nat /\ 1 <= k /\ k <= Len(s)
        /\ DOMAIN r = 1..(Len(s) - 1) /\ DOMAIN s = 1..Len(s)
    BY <1>2
  <1>4. \A i \in 1..(Len(s) - 1) : r[i] = IF i < k THEN s[i] ELSE s[i + 1]
    BY <1>2
  <1> DEFINE from(i) == IF i < k THEN i ELSE i + 1
  <1>5. \A i \in 1..(Len(s) - 1) :
            r[i] = s[from(i)] /\ from(i) \in 1..Len(s) /\ from(i) # k
    BY <1>3, <1>4
  <1>6. \A i, j \in 1..(Len(s) - 1) : from(i) = from(j) => i = j
    BY <1>3
  <1>7. \A i \in 1..Len(s) : i # k => \E j \in 1..(Len(s) - 1) : from(j) = i
    <2>1. SUFFICES ASSUME NEW i \in 1..Len(s), i # k
                   PROVE  \E j \in 1..(Len(s) - 1) : from(j) = i
      OBVIOUS
    <2>2. CASE i < k
      <3>1. i \in 1..(Len(s) - 1) /\ from(i) = i
        BY <1>3, <2>2
      <3>2. QED
        BY <3>1
    <2>3. CASE i > k
      <3>1. i - 1 \in 1..(Len(s) - 1) /\ from(i - 1) = i
        BY <1>3, <2>3
      <3>2. QED
        BY <3>1
    <2>4. QED
      BY <1>3, <2>1, <2>2, <2>3
  <1> HIDE DEF from
  <1>8. Once(r)
    BY <1>3, <1>5, <1>6 DEF Once
  <1>9. ToSet(r) \subseteq ToSet(s) \ {s[k]}
    BY <1>3, <1>5 DEF Once, ToSet
  <1>10. ToSet(s) \ {s[k]} \subseteq ToSet(r)
    <2>1. SUFFICES ASSUME NEW i \in 1..Len(s), s[i] # s[k]
                   PROVE  s[i] \in ToSet(r)
      BY <1>3 DEF ToSet
    <2>2. PICK j \in 1..(Len(s) - 1) : from(j) = i
      BY <1>7, <2>1
    <2>3. r[j] = s[i]
      BY <1>5, <2>2
    <2>4. QED
      BY <1>3, <2>3 DEF ToSet
  <1>11. QED
    BY <1>2, <1>3, <1>8, <1>9, <1>10

LEMMA CutKeeps ==
    ASSUME NEW S, NEW s \in Seq(S), Once(s), NEW k \in 0..Len(s)
    PROVE  \E a, b \in Seq(S) :
               /\ a = SubSeq(s, 1, k) /\ b = SubSeq(s, k + 1, Len(s))
               /\ Once(b)
               /\ ToSet(a) = {s[i] : i \in 1..k}
               /\ ToSet(b) = {s[i] : i \in (k + 1)..Len(s)}
  <1>1. Len(s) \in Nat /\ k \in Nat /\ k <= Len(s)
    OBVIOUS
  <1>2. PICK a : a = SubSeq(s, 1, k)
    OBVIOUS
  <1>3. PICK b : b = SubSeq(s, k + 1, Len(s))
    OBVIOUS
  <1>4. a \in Seq(S) /\ Len(a) = k /\ DOMAIN a = 1..k /\ \A i \in 1..k : a[i] = s[i]
    BY <1>2
  <1>5. b \in Seq(S) /\ Len(b) = Len(s) - k /\ DOMAIN b = 1..(Len(s) - k)
        /\ \A i \in 1..(Len(s) - k) : b[i] = s[k + i]
    BY <1>3
  <1>6. ToSet(a) = {s[i] : i \in 1..k}
    BY <1>4 DEF ToSet
  <1>7. Once(b)
    <2>1. \A i \in 1..(Len(s) - k) : k + i \in 1..Len(s)
      BY <1>1
    <2>2. \A i, j \in 1..(Len(s) - k) : k + i = k + j => i = j
      BY <1>1
    <2>3. QED
      BY <1>5, <2>1, <2>2 DEF Once
  <1>8. ToSet(b) = {s[i] : i \in (k + 1)..Len(s)}
    <2>1. \A i \in 1..(Len(s) - k) : k + i \in (k + 1)..Len(s)
      BY <1>1
    <2>2. \A i \in (k + 1)..Len(s) : i - k \in 1..(Len(s) - k) /\ k + (i - k) = i
      BY <1>1
    <2>3. \A i \in (k + 1)..Len(s) : b[i - k] = s[i]
      BY <1>5, <2>2
    <2>4. QED
      BY <1>5, <2>1, <2>2, <2>3 DEF ToSet
  <1>9. QED
    BY <1>2, <1>3, <1>4, <1>5, <1>6, <1>7, <1>8

-----------------------------------------------------------------------------
(* Numbers.  A walk along the links is a recursive function: that it does  *)
(* what is said of it is shown at the smallest number where it would not.  *)

LEMMA SmallestNat ==
    ASSUME NEW T, T \subseteq Nat, T # {}
    PROVE  \E x \in T : \A y \in T : x <= y
  <1>1. PICK x \in T : \A y \in T : <<y, x>> \notin OpToRel(<, Nat)
    BY WFMin, NatLessThanWellFounded
  <1>2. \A y \in T : ~(y < x)
    BY <1>1, Zenon DEF OpToRel
  <1>3. QED
    BY <1>2

LEMMA LargestNat ==
    ASSUME NEW n \in Nat, NEW T, T \subseteq 0..n, T # {}
    PROVE  \E x \in T : \A y \in T : y <= x
  <1>1. PICK S : S = {n - x : x \in T}
    OBVIOUS
  <1>2. S \subseteq Nat /\ S # {}
    <2>1. \A x \in T : n - x \in Nat
      OBVIOUS
    <2>2. QED
      BY <1>1, <2>1
  <1>3. PICK m \in S : \A y \in S : m <= y
    BY <1>2, SmallestNat
  <1>4. PICK x \in T : m = n - x
    BY <1>1
  <1>5. \A y \in T : n - x <= n - y
    BY <1>1, <1>3, <1>4
  <1>6. QED
    BY <1>4, <1>5

LEMMA IntervalSize ==
    ASSUME NEW n \in Nat
    PROVE  Cardinality(1..n) = n /\ Cardinality(0..(n - 1)) = n
  <1>1. Cardinality(1..n) = IF 1 > n THEN 0 ELSE n - 1 + 1
    BY FS_Interval
  <1>2. n - 1 \in Int
    OBVIOUS
  <1>3. Cardinality(0..(n - 1)) = IF 0 > n - 1 THEN 0 ELSE (n - 1) - 0 + 1
    BY <1>2, FS_Interval
  <1>4. QED
    BY <1>1, <1>3

\* The i-th timer of s, or no timer.
At(s, i) == IF i \in 1..Len(s) THEN s[i] ELSE NULL

LEMMA OnceFits ==
    ASSUME NEW s \in Seq(Timers), Once(s)
    PROVE  Len(s) \in Nat /\ Cardinality(Timers) \in Nat /\ Len(s) <= Cardinality(Timers)
  <1>1. s \in Injection(1..Len(s), Timers)
    BY DEF Once, Injection, IsInjective
  <1>2. Cardinality(1..Len(s)) <= Cardinality(Timers)
    BY <1>1, TimerListAssumption, FS_Injection
  <1>3. Len(s) \in Nat /\ Cardinality(Timers) \in Nat
    BY TimerListAssumption, FS_CardinalityType
  <1>4. Cardinality(1..Len(s)) = Len(s)
    BY <1>3, IntervalSize
  <1>5. QED
    BY <1>2, <1>3, <1>4

LEMMA WalkIs ==
    ASSUME NEW s \in Seq(Timers), Once(s), NEW link, NEW n, n = At(s, 1),
           \A i \in 1..Len(s) : link[s[i]] = At(s, i + 1)
    PROVE  Walk(link, n) = s
  <1> DEFINE size == Cardinality(Timers)
             Body(f, i) == IF i = 0 THEN n
                           ELSE IF f[i - 1] = NULL THEN NULL ELSE link[f[i - 1]]
             node == CHOOSE f : f = [i \in 0..size |-> Body(f, i)]
             h == [i \in 0..size |-> At(s, i + 1)]
  <1>1. Len(s) \in Nat /\ size \in Nat /\ Len(s) <= size
    BY OnceFits
  <1>2. \A i \in 1..Len(s) : s[i] # NULL
    BY TimerListAssumption
  <1>3. h = [i \in 0..size |-> Body(h, i)]
    <2>1. ASSUME NEW i \in 0..size
          PROVE  At(s, i + 1) = Body(h, i)
      <3>1. CASE i = 0
        BY <3>1
      <3>2. CASE i # 0
        <4>1. i - 1 \in 0..size /\ h[i - 1] = At(s, i)
          BY <1>1, <3>2
        <4>2. CASE i <= Len(s)
          BY <1>1, <1>2, <3>2, <4>1, <4>2 DEF At
        <4>3. CASE i > Len(s)
          BY <1>1, <3>2, <4>1, <4>3 DEF At
        <4>4. QED
          BY <1>1, <4>2, <4>3
      <3>3. QED
        BY <3>1, <3>2
    <2>2. QED
      BY <2>1
  <1>4. node = [i \in 0..size |-> Body(node, i)]
    BY <1>3
  <1> HIDE DEF node, h
  <1>5. \A i \in 0..size : node[i] = h[i]
    <2> DEFINE T == {i \in 0..size : node[i] # h[i]}
    <2>1. SUFFICES ASSUME T # {} PROVE FALSE
      OBVIOUS
    <2>2. PICK i \in T : \A j \in T : i <= j
      <3>1. T \subseteq Nat
        BY <1>1
      <3>2. QED
        BY <2>1, <3>1, SmallestNat
    <2>3. node[i] = Body(node, i) /\ h[i] = Body(h, i)
      BY <1>3, <1>4
    <2>4. CASE i = 0
      BY <2>2, <2>3, <2>4
    <2>5. CASE i # 0
      <3>1. i - 1 \in 0..size /\ ~(i <= i - 1)
        BY <1>1, <2>5
      <3>2. node[i - 1] = h[i - 1]
        BY <2>2, <3>1
      <3>3. QED
        BY <2>3, <2>5, <3>2
    <2>6. QED
      BY <2>4, <2>5
  <1>6. \A i \in 0..size : node[i] = At(s, i + 1)
    BY <1>5 DEF h
  <1>7. {i \in 0..size : node[i] # NULL} = 0..(Len(s) - 1)
    BY <1>1, <1>2, <1>6 DEF At
  <1>8. Cardinality({i \in 0..size : node[i] # NULL}) = Len(s)
    <2>1. Cardinality(0..(Len(s) - 1)) = Len(s)
      BY <1>1, IntervalSize
    <2>2. QED
      BY <1>7, <2>1
  <1>9. [i \in 1..Len(s) |-> node[i - 1]] = s
    <2>1. \A i \in 1..Len(s) : i - 1 \in 0..size /\ (i - 1) + 1 = i
      BY <1>1
    <2>2. \A i \in 1..Len(s) : node[i - 1] = s[i]
      BY <1>6, <2>1 DEF At
    <2>3. QED
      BY <2>2
  <1>10. Walk(link, n) =
             [i \in 1..Cardinality({i \in 0..size : node[i] # NULL}) |-> node[i - 1]]
    BY DEF Walk, Cardinality, Cardinality, node
  <1>11. QED
    BY <1>8, <1>9, <1>10

\* The links of the timers of s are those of a list.
Linked(s, nx, pv) ==
    \A i \in 1..Len(s) : nx[s[i]] = At(s, i + 1) /\ pv[s[i]] = At(s, i - 1)

Sorted(s, at) == \A i, j \in 1..Len(s) : i <= j => at[s[i]] <= at[s[j]]

\* The first k timers of s, and only they, expire at cur or before.
DueAre(s, at, cur, k) == \A i \in 1..Len(s) : at[s[i]] <= cur <=> i <= k

LEMMA NoTimer == \A t \in Timers : t # NULL
  BY TimerListAssumption

LEMMA AtIs ==
    ASSUME NEW s \in Seq(Timers), NEW i \in Int
    PROVE  /\ i >= 1 /\ i <= Len(s) => At(s, i) = s[i] /\ At(s, i) \in Timers
           /\ i < 1 \/ i > Len(s) => At(s, i) = NULL
           /\ At(s, i) \in Timers \cup {NULL}
  BY DEF At

\* Where the timers other than t are linked past t, the list is that without t.
LEMMA UnlinkIs ==
    ASSUME NEW s \in Seq(Timers), Once(s), NEW i \in 1..Len(s), NEW nx, NEW pv,
           Linked(s, nx, pv), NEW nx2, NEW pv2,
           \A u \in ToSet(s) \ {s[i]} :
               /\ nx2[u] = IF nx[u] = s[i] THEN nx[s[i]] ELSE nx[u]
               /\ pv2[u] = IF pv[u] = s[i] THEN pv[s[i]] ELSE pv[u]
    PROVE  Linked(RemoveAt(s, i), nx2, pv2)
  <1>1. PICK r \in Seq(Timers) : r = RemoveAt(s, i) /\ Removed(s, i, r)
    BY RemoveAtIs
  <1>2. /\ r = RemoveAt(s, i)
        /\ Len(r) = Len(s) - 1
        /\ \A j \in 1..(Len(s) - 1) : r[j] = IF j < i THEN s[j] ELSE s[j + 1]
    BY <1>1 DEF Removed
  <1>3. Len(s) \in Nat /\ i \in Nat /\ 1 <= i /\ i <= Len(s)
    OBVIOUS
  <1>4. \A j \in 0..(i - 1) : At(r, j) = At(s, j)
    BY <1>2, <1>3 DEF At
  <1>5. \A j \in i..Len(s) : At(r, j) = At(s, j + 1)
    BY <1>2, <1>3 DEF At
  <1>6. \A j, k \in 1..Len(s) : j # k => s[j] # s[k]
    BY DEF Once
  <1>7. \A j \in 1..Len(s) : At(s, j) = s[j]
    BY DEF At
  <1>8. \A j \in 1..Len(s) : s[j] \in ToSet(s)
    BY DEF ToSet
  <1>9. ASSUME NEW j \in 1..(Len(s) - 1)
        PROVE  nx2[r[j]] = At(r, j + 1) /\ pv2[r[j]] = At(r, j - 1)
    <2>1. CASE j < i - 1
      <3>1. r[j] = s[j] /\ s[j] \in ToSet(s) \ {s[i]} /\ j \in 1..Len(s)
            /\ j + 1 \in 1..Len(s) /\ j + 1 # i /\ j - 1 # i /\ j - 1 \in 0..Len(s)
        BY <1>2, <1>3, <1>6, <1>8, <2>1
      <3>2. nx[s[j]] = At(s, j + 1) /\ pv[s[j]] = At(s, j - 1)
        BY <3>1 DEF Linked
      <3>3. At(s, j + 1) # s[i]
        BY <1>3, <1>6, <1>7, <3>1
      <3>4. At(s, j - 1) # s[i]
        BY <1>3, <1>6, <3>1, NoTimer DEF At
      <3>5. nx2[s[j]] = At(s, j + 1) /\ pv2[s[j]] = At(s, j - 1)
        BY <3>1, <3>2, <3>3, <3>4
      <3>6. At(r, j + 1) = At(s, j + 1) /\ At(r, j - 1) = At(s, j - 1)
        BY <1>3, <1>4, <2>1
      <3>7. QED
        BY <3>1, <3>5, <3>6
    <2>2. CASE j = i - 1
      <3>1. r[j] = s[j] /\ s[j] \in ToSet(s) \ {s[i]} /\ j \in 1..Len(s)
            /\ j + 1 = i /\ j - 1 # i /\ j - 1 \in 0..Len(s)
        BY <1>2, <1>3, <1>6, <1>8, <2>2
      <3>2. nx[s[j]] = s[i] /\ pv[s[j]] = At(s, j - 1) /\ nx[s[i]] = At(s, i + 1)
        BY <1>7, <3>1 DEF Linked
      <3>3. At(s, j - 1) # s[i]
        BY <1>3, <1>6, <3>1, NoTimer DEF At
      <3>4. nx2[s[j]] = At(s, i + 1) /\ pv2[s[j]] = At(s, j - 1)
        BY <3>1, <3>2, <3>3
      <3>5. At(r, j + 1) = At(s, i + 1) /\ At(r, j - 1) = At(s, j - 1)
        BY <1>3, <1>4, <1>5, <2>2
      <3>6. QED
        BY <3>1, <3>4, <3>5
    <2>3. CASE j = i
      <3>1. r[j] = s[j + 1] /\ s[j + 1] \in ToSet(s) \ {s[i]} /\ j + 1 \in 1..Len(s)
            /\ (j + 1) - 1 = i /\ (j + 1) + 1 = i + 2
        BY <1>2, <1>3, <1>6, <1>8, <2>3
      <3>2. nx[s[j + 1]] = At(s, i + 2) /\ pv[s[j + 1]] = s[i] /\ pv[s[i]] = At(s, i - 1)
        BY <1>7, <3>1 DEF Linked
      <3>3. At(s, i + 2) # s[i]
        BY <1>3, <1>6, NoTimer DEF At
      <3>4. nx2[s[j + 1]] = At(s, i + 2) /\ pv2[s[j + 1]] = At(s, i - 1)
        BY <3>1, <3>2, <3>3
      <3>5. At(r, j + 1) = At(s, i + 2) /\ At(r, j - 1) = At(s, i - 1)
        <4>1. i + 1 \in i..Len(s) /\ (i + 1) + 1 = i + 2 /\ i - 1 \in 0..(i - 1)
          BY <1>3, <2>3
        <4>2. QED
          BY <1>4, <1>5, <2>3, <4>1
      <3>6. QED
        BY <3>1, <3>4, <3>5
    <2>4. CASE j > i
      <3>1. r[j] = s[j + 1] /\ s[j + 1] \in ToSet(s) \ {s[i]} /\ j + 1 \in 1..Len(s)
            /\ (j + 1) - 1 = j /\ (j + 1) + 1 = j + 2 /\ j \in 1..Len(s) /\ j # i
        BY <1>2, <1>3, <1>6, <1>8, <2>4
      <3>2. nx[s[j + 1]] = At(s, j + 2) /\ pv[s[j + 1]] = s[j]
        BY <1>7, <3>1 DEF Linked
      <3>3. At(s, j + 2) # s[i]
        BY <1>3, <1>6, <2>4, NoTimer DEF At
      <3>4. s[j] # s[i]
        BY <1>6, <3>1
      <3>5. nx2[s[j + 1]] = At(s, j + 2) /\ pv2[s[j + 1]] = s[j]
        BY <3>1, <3>2, <3>3, <3>4
      <3>6. At(r, j + 1) = At(s, j + 2) /\ At(r, j - 1) = At(s, j)
        <4>1. j + 1 \in i..Len(s) /\ (j + 1) + 1 = j + 2
              /\ j - 1 \in i..Len(s) /\ (j - 1) + 1 = j
          BY <1>3, <2>4
        <4>2. QED
          BY <1>5, <4>1
      <3>7. QED
        BY <1>7, <3>1, <3>5, <3>6
    <2>5. QED
      BY <1>3, <2>1, <2>2, <2>3, <2>4
  <1>10. QED
    BY <1>2, <1>9 DEF Linked

\* t linked in behind the first k timers of s.
LEMMA LinkIs ==
    ASSUME NEW s \in Seq(Timers), NEW t \in Timers, NEW k \in 0..Len(s), NEW nx, NEW pv,
           Linked(s, nx, pv), NEW nx2, NEW pv2,
           nx2[t] = At(s, k + 1), pv2[t] = At(s, k),
           \A i \in 1..Len(s) :
               /\ nx2[s[i]] = IF i = k THEN t ELSE nx[s[i]]
               /\ pv2[s[i]] = IF i = k + 1 THEN t ELSE pv[s[i]]
    PROVE  Linked(InsertAt(s, k + 1, t), nx2, pv2)
  <1>1. PICK r \in Seq(Timers) : r = InsertAt(s, k + 1, t) /\ Inserted(s, k, t, r)
    BY InsertAtIs
  <1>2. /\ r = InsertAt(s, k + 1, t)
        /\ Len(r) = Len(s) + 1
        /\ \A i \in 1..(Len(s) + 1) :
               /\ i <= k => r[i] = s[i]
               /\ i = k + 1 => r[i] = t
               /\ i > k + 1 => r[i] = s[i - 1]
    BY <1>1 DEF Inserted
  <1>3. Len(s) \in Nat /\ k \in Nat /\ k <= Len(s)
    OBVIOUS
  <1>4. \A i \in 0..k : At(r, i) = At(s, i)
    BY <1>2, <1>3 DEF At
  <1>5. At(r, k + 1) = t
    BY <1>2, <1>3 DEF At
  <1>6. \A i \in (k + 2)..(Len(s) + 2) : At(r, i) = At(s, i - 1)
    BY <1>2, <1>3 DEF At
  <1>7. ASSUME NEW i \in 1..(Len(s) + 1)
        PROVE  nx2[r[i]] = At(r, i + 1) /\ pv2[r[i]] = At(r, i - 1)
    <2>1. CASE i < k
      <3>1. r[i] = s[i] /\ i \in 1..Len(s) /\ i # k /\ i # k + 1
            /\ i + 1 \in 0..k /\ i - 1 \in 0..k
        BY <1>2, <1>3, <2>1
      <3>2. nx2[s[i]] = At(s, i + 1) /\ pv2[s[i]] = At(s, i - 1)
        BY <3>1 DEF Linked
      <3>3. QED
        BY <1>4, <3>1, <3>2
    <2>2. CASE i = k
      <3>1. r[i] = s[i] /\ i \in 1..Len(s) /\ i # k + 1 /\ i - 1 \in 0..k
        BY <1>2, <1>3, <2>2
      <3>2. nx2[s[i]] = t /\ pv2[s[i]] = At(s, i - 1)
        BY <2>2, <3>1 DEF Linked
      <3>3. QED
        BY <1>4, <1>5, <2>2, <3>1, <3>2
    <2>3. CASE i = k + 1
      <3>1. r[i] = t /\ i - 1 = k /\ k \in 0..k /\ i + 1 = k + 2
            /\ k + 2 \in (k + 2)..(Len(s) + 2) /\ (k + 2) - 1 = k + 1
        BY <1>2, <1>3, <2>3
      <3>2. At(r, i + 1) = At(s, k + 1) /\ At(r, i - 1) = At(s, k)
        BY <1>4, <1>6, <3>1
      <3>3. QED
        BY <3>1, <3>2
    <2>4. CASE i = k + 2
      <3>1. r[i] = s[k + 1] /\ k + 1 \in 1..Len(s) /\ k + 1 # k /\ i - 1 = k + 1
            /\ i + 1 \in (k + 2)..(Len(s) + 2) /\ (i + 1) - 1 = (k + 1) + 1
        BY <1>2, <1>3, <2>4
      <3>2. nx2[s[k + 1]] = At(s, (k + 1) + 1) /\ pv2[s[k + 1]] = t
        BY <3>1 DEF Linked
      <3>3. At(r, i + 1) = At(s, (k + 1) + 1) /\ At(r, i - 1) = t
        BY <1>5, <1>6, <3>1
      <3>4. QED
        BY <3>1, <3>2, <3>3
    <2>5. CASE i > k + 2
      <3>1. r[i] = s[i - 1] /\ i - 1 \in 1..Len(s) /\ i - 1 # k /\ i - 1 # k + 1
            /\ i + 1 \in (k + 2)..(Len(s) + 2) /\ (i + 1) - 1 = (i - 1) + 1
            /\ i - 1 \in (k + 2)..(Len(s) + 2)
        BY <1>2, <1>3, <2>5
      <3>2. nx2[s[i - 1]] = At(s, (i - 1) + 1) /\ pv2[s[i - 1]] = At(s, (i - 1) - 1)
        BY <3>1 DEF Linked
      <3>3. At(r, i + 1) = At(s, (i - 1) + 1) /\ At(r, i - 1) = At(s, (i - 1) - 1)
        BY <1>6, <3>1
      <3>4. QED
        BY <3>1, <3>2, <3>3
    <2>6. QED
      BY <1>3, <2>1, <2>2, <2>3, <2>4, <2>5
  <1>8. QED
    BY <1>2, <1>7 DEF Linked

\* A timer inserted behind those that expire no later than it leaves a sorted list.
LEMMA InsertSorted ==
    ASSUME NEW s \in Seq(Timers), NEW t \in Timers, NEW k \in 0..Len(s),
           NEW at
    PROVE  /\ \A i \in 1..Len(s) : at[s[i]] \in Nat
           /\ at[t] \in Nat
           /\ Sorted(s, at) /\ DueAre(s, at, at[t], k)
           => Sorted(InsertAt(s, k + 1, t), at)
  <1>1. SUFFICES ASSUME /\ \A i \in 1..Len(s) : at[s[i]] \in Nat
                        /\ at[t] \in Nat
                        /\ Sorted(s, at) /\ DueAre(s, at, at[t], k)
                 PROVE  Sorted(InsertAt(s, k + 1, t), at)
    OBVIOUS
  <1>2. PICK r \in Seq(Timers) : r = InsertAt(s, k + 1, t) /\ Inserted(s, k, t, r)
    BY InsertAtIs
  <1>3. /\ r = InsertAt(s, k + 1, t)
        /\ Len(r) = Len(s) + 1
        /\ \A i \in 1..(Len(s) + 1) :
               /\ i <= k => r[i] = s[i]
               /\ i = k + 1 => r[i] = t
               /\ i > k + 1 => r[i] = s[i - 1]
    BY <1>2 DEF Inserted
  <1>4. Len(s) \in Nat /\ k \in Nat /\ k <= Len(s)
    OBVIOUS
  <1>5. \A i \in 1..k : i \in 1..Len(s) /\ r[i] = s[i] /\ at[r[i]] <= at[t]
    BY <1>1, <1>3, <1>4 DEF DueAre
  <1>6. \A i \in (k + 2)..(Len(s) + 1) :
            i - 1 \in 1..Len(s) /\ r[i] = s[i - 1] /\ at[t] <= at[r[i]]
    <2>1. SUFFICES ASSUME NEW i \in (k + 2)..(Len(s) + 1)
                   PROVE  i - 1 \in 1..Len(s) /\ r[i] = s[i - 1] /\ at[t] <= at[r[i]]
      OBVIOUS
    <2>2. i - 1 \in 1..Len(s) /\ ~(i - 1 <= k) /\ r[i] = s[i - 1]
      BY <1>3, <1>4
    <2>3. ~(at[s[i - 1]] <= at[t]) /\ at[s[i - 1]] \in Nat
      BY <1>1, <2>2 DEF DueAre
    <2>4. at[t] \in Nat
      BY <1>1
    <2>5. QED
      BY <2>2, <2>3, <2>4
  <1>7. r[k + 1] = t
    BY <1>3, <1>4
  <1>8. ASSUME NEW i \in 1..(Len(s) + 1), NEW j \in 1..(Len(s) + 1), i <= j
        PROVE  at[r[i]] <= at[r[j]]
    <2>1. at[r[i]] \in Nat /\ at[r[j]] \in Nat
      <3>1. \A x \in 1..(Len(s) + 1) : at[r[x]] \in Nat
        <4>1. SUFFICES ASSUME NEW x \in 1..(Len(s) + 1) PROVE at[r[x]] \in Nat
          OBVIOUS
        <4>2. x \in 1..k \/ x = k + 1 \/ x \in (k + 2)..(Len(s) + 1)
          BY <1>4
        <4>3. QED
          BY <1>1, <1>5, <1>6, <1>7, <4>2
      <3>2. QED
        BY <3>1
    <2>2. CASE i <= k /\ j <= k
      BY <1>1, <1>4, <1>5, <1>8, <2>2 DEF Sorted
    <2>3. CASE i <= k /\ j = k + 1
      BY <1>4, <1>5, <1>7, <2>3
    <2>4. CASE i <= k /\ j > k + 1
      <3>1. at[r[i]] <= at[t] /\ at[t] <= at[r[j]]
        BY <1>4, <1>5, <1>6, <2>4
      <3>2. at[t] \in Nat
        BY <1>1
      <3>3. QED
        BY <2>1, <3>1, <3>2
    <2>5. CASE i = k + 1 /\ j = k + 1
      BY <1>7, <2>1, <2>5
    <2>6. CASE i = k + 1 /\ j > k + 1
      BY <1>4, <1>6, <1>7, <2>6
    <2>7. CASE i > k + 1 /\ j > k + 1
      <3>1. i \in (k + 2)..(Len(s) + 1) /\ j \in (k + 2)..(Len(s) + 1)
            /\ i - 1 <= j - 1
        BY <1>4, <1>8, <2>7
      <3>2. QED
        BY <1>1, <1>6, <3>1 DEF Sorted
    <2>8. QED
      BY <1>4, <1>8, <2>2, <2>3, <2>4, <2>5, <2>6, <2>7
  <1>9. QED
    BY <1>3, <1>8 DEF Sorted

LEMMA RemoveSorted ==
    ASSUME NEW s \in Seq(Timers), NEW i \in 1..Len(s), NEW at, Sorted(s, at)
    PROVE  Sorted(RemoveAt(s, i), at)
  <1>1. PICK r \in Seq(Timers) : r = RemoveAt(s, i) /\ Removed(s, i, r)
    BY RemoveAtIs
  <1>2. /\ r = RemoveAt(s, i)
        /\ Len(r) = Len(s) - 1
        /\ \A j \in 1..(Len(s) - 1) : r[j] = IF j < i THEN s[j] ELSE s[j + 1]
    BY <1>1 DEF Removed
  <1> DEFINE from(j) == IF j < i THEN j ELSE j + 1
  <1>3. \A j \in 1..(Len(s) - 1) : from(j) \in 1..Len(s) /\ r[j] = s[from(j)]
    BY <1>2
  <1>4. \A j, k \in 1..(Len(s) - 1) : j <= k => from(j) <= from(k)
    OBVIOUS
  <1> HIDE DEF from
  <1>5. QED
    BY <1>2, <1>3, <1>4 DEF Sorted

\* r is s from its a-th timer on.
RestOf(s, a, r) ==
    /\ Len(r) = Len(s) + 1 - a
    /\ \A i \in 1..(Len(s) + 1 - a) : r[i] = s[i + a - 1]

\* Walking along the links of a list, from any place in it.
LEMMA WalkOn ==
    ASSUME NEW s \in Seq(Timers), Once(s), NEW nx, NEW pv, Linked(s, nx, pv),
           NEW a \in 1..(Len(s) + 1)
    PROVE  \E r \in Seq(Timers) :
               Walk(nx, At(s, a)) = r /\ RestOf(s, a, r)
  <1>1. Len(s) \in Nat /\ a \in Nat /\ 1 <= a /\ a <= Len(s) + 1
    OBVIOUS
  <1>2. PICK r : r = SubSeq(s, a, Len(s))
    OBVIOUS
  <1>3. r \in Seq(Timers) /\ Len(r) = Len(s) + 1 - a
    BY <1>1, <1>2
  <1>4. \A i \in 1..(Len(s) + 1 - a) : r[i] = s[i + a - 1] /\ i + a - 1 \in 1..Len(s)
    BY <1>1, <1>2
  <1>5. Once(r)
    <2>1. \A i, j \in 1..(Len(s) + 1 - a) : i + a - 1 = j + a - 1 => i = j
      BY <1>1
    <2>2. QED
      BY <1>3, <1>4, <2>1 DEF Once
  <1>6. \A i \in 1..(Len(s) + 2 - a) : At(r, i) = At(s, i + a - 1)
    <2>1. SUFFICES ASSUME NEW i \in 1..(Len(s) + 2 - a)
                   PROVE  At(r, i) = At(s, i + a - 1)
      OBVIOUS
    <2>2. i \in 1..(Len(s) + 1 - a) <=> i + a - 1 \in 1..Len(s)
      BY <1>1
    <2>3. QED
      BY <1>3, <1>4, <2>2 DEF At
  <1>7. \A i \in 1..Len(r) : nx[r[i]] = At(r, i + 1)
    <2>1. SUFFICES ASSUME NEW i \in 1..(Len(s) + 1 - a)
                   PROVE  nx[r[i]] = At(r, i + 1)
      BY <1>3
    <2>2. nx[r[i]] = At(s, (i + a - 1) + 1)
      BY <1>4 DEF Linked
    <2>3. (i + a - 1) + 1 = (i + 1) + a - 1 /\ i + 1 \in 1..(Len(s) + 2 - a)
      BY <1>1
    <2>4. QED
      BY <1>6, <2>2, <2>3
  <1>8. At(s, a) = At(r, 1)
    <2>1. 1 \in 1..(Len(s) + 2 - a) /\ 1 + a - 1 = a
      BY <1>1
    <2>2. QED
      BY <1>6, <2>1
  <1>9. Walk(nx, At(s, a)) = r
    BY <1>3, <1>5, <1>7, <1>8, WalkIs
  <1>10. RestOf(s, a, r)
    BY <1>3, <1>4 DEF RestOf
  <1>11. QED
    BY <1>3, <1>9, <1>10

LEMMA WalkAll ==
    ASSUME NEW s \in Seq(Timers), Once(s), NEW nx, NEW pv, Linked(s, nx, pv)
    PROVE  Walk(nx, At(s, 1)) = s
  BY WalkIs DEF Linked

LEMMA WalkBack ==
    ASSUME NEW s \in Seq(Timers), Once(s), NEW nx, NEW pv, Linked(s, nx, pv)
    PROVE  Walk(pv, At(s, Len(s))) = Reverse(s)
  <1>1. Len(s) \in Nat
    OBVIOUS
  <1>2. PICK r : r = [i \in 1..Len(s) |-> s[(Len(s) - i) + 1]]
    OBVIOUS
  <1>3. \A i \in 1..Len(s) : (Len(s) - i) + 1 \in 1..Len(s)
    BY <1>1
  <1>4. r \in Seq(Timers) /\ Len(r) = Len(s)
        /\ \A i \in 1..Len(s) : r[i] = s[(Len(s) - i) + 1]
    BY <1>1, <1>2, <1>3
  <1>5. Once(r)
    <2>1. \A i, j \in 1..Len(s) : (Len(s) - i) + 1 = (Len(s) - j) + 1 => i = j
      BY <1>1
    <2>2. QED
      BY <1>3, <1>4, <2>1 DEF Once
  <1>6. \A i \in 1..(Len(s) + 1) : At(r, i) = At(s, (Len(s) - i) + 1)
    <2>1. SUFFICES ASSUME NEW i \in 1..(Len(s) + 1)
                   PROVE  At(r, i) = At(s, (Len(s) - i) + 1)
      OBVIOUS
    <2>2. i \in 1..Len(s) <=> (Len(s) - i) + 1 \in 1..Len(s)
      BY <1>1
    <2>3. QED
      BY <1>4, <2>2 DEF At
  <1>7. \A i \in 1..Len(r) : pv[r[i]] = At(r, i + 1)
    <2>1. SUFFICES ASSUME NEW i \in 1..Len(s)
                   PROVE  pv[r[i]] = At(r, i + 1)
      BY <1>4
    <2>2. pv[r[i]] = At(s, ((Len(s) - i) + 1) - 1)
      BY <1>3, <1>4 DEF Linked
    <2>3. ((Len(s) - i) + 1) - 1 = (Len(s) - (i + 1)) + 1 /\ i + 1 \in 1..(Len(s) + 1)
      BY <1>1
    <2>4. QED
      BY <1>6, <2>2, <2>3
  <1>8. At(s, Len(s)) = At(r, 1)
    <2>1. 1 \in 1..(Len(s) + 1) /\ (Len(s) - 1) + 1 = Len(s)
      BY <1>1
    <2>2. QED
      BY <1>6, <2>1
  <1>9. Walk(pv, At(s, Len(s))) = r
    BY <1>4, <1>5, <1>7, <1>8, WalkIs
  <1>10. QED
    BY <1>2, <1>9 DEF Reverse

-----------------------------------------------------------------------------
(* The invariant of the links.                                             *)

\* s is what the links stand for.
IsList(s) ==
    /\ Once(s) /\ ToSet(s) = DOMAIN next
    /\ head = At(s, 1) /\ (s # <<>> => tail = At(s, Len(s)))
    /\ Linked(s, next, prev)
    /\ Sorted(s, expire)

\* f is a function.
IsMember(f) == f = [t \in DOMAIN f |-> f[t]]

\* What the links need not be one list for.
LinksTyped ==
    /\ IsMember(next) /\ IsMember(prev) /\ DOMAIN prev = DOMAIN next
    /\ expire \in [DOMAIN next -> Times]
    /\ tail \in Timers \cup {NULL}
    /\ fired \in Seq(Timers) /\ destroyed \in BOOLEAN

LInv == LinksTyped /\ \E s \in Seq(Timers) : IsList(s)

LEMMA WalkList ==
    ASSUME NEW s \in Seq(Timers), IsList(s)
    PROVE  Walk(next, head) = s
  BY WalkAll DEF IsList

LEMMA PlaceIs ==
    ASSUME NEW s \in Seq(Timers), IsList(s), NEW a \in 1..Len(s), NEW t, NEW at
    PROVE  \E p \in a..Len(s) :
               /\ Place(t, at, s[a]) = s[p]
               /\ \A j \in (a + 1)..p : ~(at[t] < at[s[j]])
               /\ p < Len(s) => at[t] < at[s[p + 1]]
  <1>1. Len(s) \in Nat /\ a \in Nat /\ 1 <= a /\ a <= Len(s) /\ a \in 1..(Len(s) + 1)
        /\ At(s, a) = s[a]
    BY DEF At
  <1>2. PICK r \in Seq(Timers) :
            /\ Walk(next, s[a]) = r
            /\ Len(r) = Len(s) + 1 - a
            /\ \A i \in 1..Len(r) : r[i] = s[i + a - 1]
    <2>1. Once(s) /\ Linked(s, next, prev)
      BY DEF IsList
    <2>2. PICK r \in Seq(Timers) :
              Walk(next, At(s, a)) = r /\ RestOf(s, a, r)
      BY <1>1, <2>1, WalkOn
    <2>3. Walk(next, s[a]) = r
      BY <1>1, <2>2
    <2>4. QED
      BY <2>2, <2>3 DEF RestOf
  <1> DEFINE passed == {k \in 1..Len(r) : \A j \in 2..k : ~(at[t] < at[r[j]])}
             k == CHOOSE k \in passed : \A j \in passed : j <= k
  <1>3. Place(t, at, s[a]) = r[k]
    BY <1>2 DEF Place
  <1>4. 1 \in passed
    BY <1>1, <1>2
  <1>5. k \in passed /\ \A j \in passed : j <= k
    <2>1. passed \subseteq 0..Len(r) /\ Len(r) \in Nat
      OBVIOUS
    <2>2. \E x \in passed : \A j \in passed : j <= x
      BY <1>4, <2>1, LargestNat
    <2>3. QED
      BY <2>2
  <1> HIDE DEF k
  <1>6. k \in 1..Len(r) /\ \A j \in 2..k : ~(at[t] < at[r[j]])
    BY <1>5
  <1> DEFINE p == k + a - 1
  <1>7. p \in a..Len(s) /\ r[k] = s[p]
    BY <1>1, <1>2, <1>6
  <1>8. ASSUME NEW j \in (a + 1)..p
        PROVE  ~(at[t] < at[s[j]])
    <2>1. j - a + 1 \in 2..k /\ j - a + 1 \in 1..Len(r) /\ (j - a + 1) + a - 1 = j
      BY <1>1, <1>2, <1>6
    <2>2. r[j - a + 1] = s[j]
      BY <1>2, <2>1
    <2>3. QED
      BY <1>6, <2>1, <2>2
  <1>9. ASSUME p < Len(s)
        PROVE  at[t] < at[s[p + 1]]
    <2>1. k + 1 \in 1..Len(r) /\ (k + 1) + a - 1 = p + 1 /\ ~(k + 1 <= k)
          /\ 2..(k + 1) = (2..k) \cup {k + 1}
      BY <1>1, <1>2, <1>6, <1>9
    <2>2. k + 1 \notin passed
      BY <1>5, <2>1
    <2>3. at[t] < at[r[k + 1]]
      BY <1>6, <2>1, <2>2
    <2>4. r[k + 1] = s[p + 1]
      BY <1>2, <2>1
    <2>5. QED
      BY <2>3, <2>4
  <1>10. QED
    BY <1>3, <1>7, <1>8, <1>9

\* What LinkAfter does to a list s, which t is not in.
LEMMA LinkAfterIs ==
    ASSUME NEW s \in Seq(Timers), Once(s), NEW t \in Timers, t \notin ToSet(s),
           NEW k \in 1..Len(s), NEW pv, NEW nx, IsMember(pv), IsMember(nx),
           DOMAIN pv = ToSet(s) \cup {t}, DOMAIN nx = ToSet(s) \cup {t},
           Linked(s, nx, pv), LinkAfter(t, s[k], pv, nx)
    PROVE  /\ Linked(InsertAt(s, k + 1, t), next', prev')
           /\ IsMember(next') /\ IsMember(prev')
           /\ DOMAIN next' = DOMAIN nx /\ DOMAIN prev' = DOMAIN pv
           /\ tail' = IF k = Len(s) THEN t ELSE tail
  <1>1. Len(s) \in Nat /\ k \in Nat /\ 1 <= k /\ k <= Len(s) /\ k \in 0..Len(s)
        /\ At(s, k) = s[k]
    BY DEF At
  <1>2. nx[s[k]] = At(s, k + 1)
    BY DEF Linked
  <1>3. \A i, j \in 1..Len(s) : s[i] = s[j] => i = j
    BY DEF Once
  <1>4. \A i \in 1..Len(s) : s[i] \in ToSet(s) /\ s[i] # t /\ s[i] # NULL
    BY NoTimer DEF ToSet
  <1>5. \A i \in 1..Len(s) : s[i] \in DOMAIN nx /\ s[i] \in DOMAIN pv
    BY <1>4
  <1>6. CASE k = Len(s)
    <2>1. nx[s[k]] = NULL /\ At(s, k + 1) = NULL
      BY <1>1, <1>2, <1>6 DEF At
    <2>2. /\ next' = [nx EXCEPT ![s[k]] = t, ![t] = NULL]
          /\ prev' = [pv EXCEPT ![t] = s[k]]
          /\ tail' = t
      BY <2>1 DEF LinkAfter
    <2>3. next'[t] = At(s, k + 1) /\ prev'[t] = At(s, k)
      BY <1>1, <1>4, <2>1, <2>2
    <2>4. \A i \in 1..Len(s) : next'[s[i]] = IF i = k THEN t ELSE nx[s[i]]
      BY <1>3, <1>4, <1>5, <2>2
    <2>5. \A i \in 1..Len(s) : i # k + 1 /\ prev'[s[i]] = pv[s[i]]
      BY <1>1, <1>4, <1>5, <1>6, <2>2
    <2>6. \A i \in 1..Len(s) : prev'[s[i]] = IF i = k + 1 THEN t ELSE pv[s[i]]
      BY <2>5
    <2>7. Linked(InsertAt(s, k + 1, t), next', prev')
      BY <1>1, <2>3, <2>4, <2>6, LinkIs
    <2>8. QED
      BY <1>6, <2>2, <2>7 DEF IsMember
  <1>7. CASE k # Len(s)
    <2>1. k + 1 \in 1..Len(s) /\ At(s, k + 1) = s[k + 1]
      BY <1>1, <1>7 DEF At
    <2>2. nx[s[k]] = s[k + 1] /\ nx[s[k]] # NULL
      BY <1>2, <1>4, <2>1
    <2>3. /\ next' = [nx EXCEPT ![s[k]] = t, ![t] = s[k + 1]]
          /\ prev' = [pv EXCEPT ![s[k + 1]] = t, ![t] = s[k]]
          /\ tail' = tail
      BY <2>2 DEF LinkAfter
    <2>4. next'[t] = At(s, k + 1) /\ prev'[t] = At(s, k)
      BY <1>1, <1>4, <2>1, <2>3
    <2>5. \A i \in 1..Len(s) : next'[s[i]] = IF i = k THEN t ELSE nx[s[i]]
      BY <1>3, <1>4, <1>5, <2>3
    <2>6. \A i \in 1..Len(s) : prev'[s[i]] = IF i = k + 1 THEN t ELSE pv[s[i]]
      BY <1>3, <1>4, <1>5, <2>1, <2>3
    <2>7. Linked(InsertAt(s, k + 1, t), next', prev')
      BY <1>1, <2>4, <2>5, <2>6, LinkIs
    <2>8. QED
      BY <1>7, <2>3, <2>7 DEF IsMember
  <1>8. QED
    BY <1>6, <1>7

LEMMA InsertIs ==
    ASSUME NEW s \in Seq(Timers), Once(s), NEW t \in Timers, t \notin ToSet(s),
           NEW k \in 0..Len(s)
    PROVE  \E r \in Seq(Timers) :
               /\ r = InsertAt(s, k + 1, t) /\ Inserted(s, k, t, r)
               /\ Once(r) /\ ToSet(r) = ToSet(s) \cup {t}
  <1>1. PICK r \in Seq(Timers) : r = InsertAt(s, k + 1, t) /\ Inserted(s, k, t, r)
    BY InsertAtIs
  <1>2. \E q \in Seq(Timers) :
            q = InsertAt(s, k + 1, t) /\ Once(q) /\ ToSet(q) = ToSet(s) \cup {t}
    BY InsertKeeps
  <1>3. QED
    BY <1>1, <1>2

LEMMA RemoveIs ==
    ASSUME NEW s \in Seq(Timers), Once(s), NEW i \in 1..Len(s)
    PROVE  \E r \in Seq(Timers) :
               /\ r = RemoveAt(s, i) /\ Removed(s, i, r)
               /\ Once(r) /\ ToSet(r) = ToSet(s) \ {s[i]}
  <1>1. PICK r \in Seq(Timers) : r = RemoveAt(s, i) /\ Removed(s, i, r)
    BY RemoveAtIs
  <1>2. \E q \in Seq(Timers) :
            q = RemoveAt(s, i) /\ Once(q) /\ ToSet(q) = ToSet(s) \ {s[i]}
    BY RemoveKeeps
  <1>3. QED
    BY <1>1, <1>2

\* The invariant after a step, and the list that the links then stand for.
LEMMA ListAfter ==
    ASSUME NEW r \in Seq(Timers), LinksTyped', IsList(r)'
    PROVE  LInv' /\ Walk(next, head)' = r
  <1>1. LInv'
    BY TimerListAssumption DEF LInv
  <1>2. Once(r) /\ Linked(r, next', prev') /\ head' = At(r, 1)
    BY DEF IsList
  <1>3. Walk(next', head') = r
    BY <1>2, WalkAll
  <1>4. QED
    BY <1>1, <1>3

LEMMA AddStep ==
    ASSUME LInv, NEW s \in Seq(Timers), IsList(s), NEW t \in Timers, NEW e \in Times,
           New(t, e), NEW k \in 0..Len(s), DueAre(s, expire', e, k),
           Linked(InsertAt(s, k + 1, t), next', prev'),
           IsMember(next'), IsMember(prev'),
           DOMAIN next' = DOMAIN next \cup {t}, DOMAIN prev' = DOMAIN next \cup {t},
           head' = (IF k = 0 THEN t ELSE head), tail' = IF k = Len(s) THEN t ELSE tail
    PROVE  LInv' /\ Abstract!Add(t, e)
  <1>1. /\ t \notin ToSet(s) /\ ToSet(s) = DOMAIN next
        /\ expire' = [u \in ToSet(s) \cup {t} |-> IF u = t THEN e ELSE expire[u]]
        /\ fired' = fired /\ destroyed' = destroyed /\ destroyed \in BOOLEAN
    BY DEF LInv, LinksTyped, IsList, New, Allocated, With
  <1>2. PICK r \in Seq(Timers) :
            /\ r = InsertAt(s, k + 1, t) /\ Inserted(s, k, t, r)
            /\ Once(r) /\ ToSet(r) = ToSet(s) \cup {t}
    <2>1. Once(s)
      BY DEF IsList
    <2>2. QED
      BY <1>1, <2>1, InsertIs
  <1>3. Len(s) \in Nat /\ k \in Nat /\ k <= Len(s) /\ Len(r) = Len(s) + 1
        /\ r # <<>>
    BY <1>2 DEF Inserted
  <1>4. head' = At(r, 1)
    BY <1>2, <1>3 DEF IsList, At, Inserted
  <1>5. tail' = At(r, Len(r))
    BY <1>2, <1>3 DEF IsList, At, Inserted
  <1>6. \A i \in 1..Len(s) : expire'[s[i]] = expire[s[i]] /\ expire'[s[i]] \in Nat
    <2>1. expire \in [ToSet(s) -> Nat]
      BY <1>1, TimerListAssumption DEF LInv, LinksTyped
    <2>2. \A i \in 1..Len(s) : s[i] \in ToSet(s)
      BY DEF ToSet
    <2>3. \A u \in ToSet(s) : expire'[u] = expire[u] /\ expire[u] \in Nat
      BY <1>1, <2>1
    <2>4. QED
      BY <2>2, <2>3
  <1>7. Sorted(s, expire')
    BY <1>6 DEF IsList, Sorted
  <1>8. expire'[t] = e /\ expire'[t] \in Nat
    BY <1>1, TimerListAssumption DEF LInv
  <1>9. Sorted(r, expire')
    BY <1>2, <1>6, <1>7, <1>8, InsertSorted
  <1>10. IsList(r)'
    BY <1>1, <1>2, <1>4, <1>5, <1>9 DEF IsList
  <1>11. LinksTyped'
    BY <1>1 DEF LInv, LinksTyped
  <1>12. LInv' /\ Walk(next, head)' = r
    BY <1>10, <1>11, ListAfter DEF LInv
  <1>13. Walk(next, head) = s
    BY WalkList
  <1>14. Abstract!Due(s, expire', expire'[t], k)
    BY <1>8 DEF DueAre, Abstract!Due
  <1>15. Abstract!Place(s, t)
    BY <1>2, <1>12, <1>14 DEF Abstract!Place, InsertAt, Abstract!InsertAt
  <1>16. QED
    BY <1>1, <1>12, <1>13, <1>15 DEF Abstract!Add, ToSet, Abstract!ToSet

\* In a sorted list, the two timers at the border decide.
LEMMA DueIs ==
    ASSUME NEW s \in Seq(Timers), NEW at, NEW cur \in Nat, NEW k \in 0..Len(s)
    PROVE  /\ \A i \in 1..Len(s) : at[s[i]] \in Nat
           /\ Sorted(s, at)
           /\ k > 0 => at[s[k]] <= cur
           /\ k < Len(s) => cur < at[s[k + 1]]
           => DueAre(s, at, cur, k)
  <1>1. SUFFICES ASSUME /\ \A i \in 1..Len(s) : at[s[i]] \in Nat
                        /\ Sorted(s, at)
                        /\ k > 0 => at[s[k]] <= cur
                        /\ k < Len(s) => cur < at[s[k + 1]],
                        NEW i \in 1..Len(s)
                 PROVE  at[s[i]] <= cur <=> i <= k
    BY DEF DueAre
  <1>2. CASE i <= k
    <2>1. k \in 1..Len(s) /\ k > 0
      BY <1>2
    <2>2. at[s[i]] <= at[s[k]] /\ at[s[k]] <= cur
      BY <1>1, <1>2, <2>1 DEF Sorted
    <2>3. at[s[i]] \in Nat /\ at[s[k]] \in Nat
      BY <1>1, <2>1
    <2>4. QED
      BY <1>2, <2>2, <2>3
  <1>3. CASE ~(i <= k)
    <2>1. k + 1 \in 1..Len(s) /\ k < Len(s) /\ k + 1 <= i
      BY <1>3
    <2>2. cur < at[s[k + 1]] /\ at[s[k + 1]] <= at[s[i]]
      BY <1>1, <2>1 DEF Sorted
    <2>3. at[s[i]] \in Nat /\ at[s[k + 1]] \in Nat
      BY <1>1, <2>1
    <2>4. QED
      BY <1>3, <2>2, <2>3
  <1>4. QED
    BY <1>2, <1>3

\* The parts of the list at a step that extends it.
LEMMA ListParts ==
    ASSUME LInv, NEW s \in Seq(Timers), IsList(s)
    PROVE  /\ Once(s) /\ ToSet(s) = DOMAIN next /\ DOMAIN prev = DOMAIN next
           /\ Linked(s, next, prev) /\ Sorted(s, expire)
           /\ IsMember(next) /\ IsMember(prev)
           /\ \A u \in ToSet(s) : expire[u] \in Nat
           /\ \A i \in 1..Len(s) : s[i] \in ToSet(s) /\ s[i] # NULL
           /\ \A u \in ToSet(s) : \E i \in 1..Len(s) : u = s[i]
           /\ \A u \in ToSet(s) : u \in Timers /\ u # NULL
           /\ head = IF s = <<>> THEN NULL ELSE s[1]
           /\ s # <<>> => tail = s[Len(s)]
  <1>1. \A i \in 1..Len(s) : s[i] \in ToSet(s) /\ s[i] # NULL
    BY NoTimer DEF ToSet
  <1>2. \A u \in ToSet(s) : \E i \in 1..Len(s) : u = s[i]
    BY DEF ToSet
  <1>3. \A u \in ToSet(s) : u \in Timers /\ u # NULL
    BY <1>2, NoTimer
  <1>4. Len(s) \in Nat /\ (s = <<>> <=> Len(s) = 0)
    OBVIOUS
  <1>5. /\ head = IF s = <<>> THEN NULL ELSE s[1]
        /\ s # <<>> => tail = s[Len(s)]
    BY <1>4 DEF IsList, At
  <1>6. \A u \in ToSet(s) : expire[u] \in Nat
    BY TimerListAssumption DEF LInv, LinksTyped, IsList
  <1>7. QED
    BY <1>1, <1>2, <1>3, <1>5, <1>6 DEF LInv, LinksTyped, IsList

LEMMA AddFrontStep ==
    ASSUME LInv, NEW t \in Timers, NEW e \in Times,
           AddFirst(t, e) \/ AddFront(t, e)
    PROVE  LInv' /\ Abstract!Add(t, e)
  <1>1. PICK s \in Seq(Timers) : IsList(s)
    BY DEF LInv
  <1>2. /\ Once(s) /\ ToSet(s) = DOMAIN next /\ DOMAIN prev = DOMAIN next
        /\ Linked(s, next, prev) /\ Sorted(s, expire)
        /\ \A u \in ToSet(s) : expire[u] \in Nat
        /\ \A i \in 1..Len(s) : s[i] \in ToSet(s) /\ s[i] # NULL
        /\ head = IF s = <<>> THEN NULL ELSE s[1]
    BY <1>1, ListParts
  <1>3. /\ New(t, e) /\ t \notin ToSet(s) /\ e \in Nat
        /\ expire' = [u \in ToSet(s) \cup {t} |-> IF u = t THEN e ELSE expire[u]]
        /\ head # NULL => e < expire[head]
        /\ head' = t /\ tail' = IF s = <<>> THEN t ELSE tail
    BY <1>1, <1>2, TimerListAssumption DEF LInv, LinksTyped, AddFirst, AddFront, New,
                      Allocated, With
  <1>4. Len(s) \in Nat /\ (s = <<>> <=> Len(s) = 0)
    OBVIOUS
  <1>5. PICK k \in 0..Len(s) : k = 0
    BY <1>4
  <1>6. DueAre(s, expire', e, k)
    <2>1. \A i \in 1..Len(s) : expire'[s[i]] = expire[s[i]] /\ expire'[s[i]] \in Nat
      BY <1>2, <1>3
    <2>2. Sorted(s, expire')
      BY <1>2, <2>1 DEF Sorted
    <2>3. k < Len(s) => e < expire'[s[k + 1]]
      BY <1>2, <1>3, <1>4, <1>5, <2>1
    <2>4. k > 0 => expire'[s[k]] <= e
      BY <1>5
    <2>5. QED
      BY <1>3, <2>1, <2>2, <2>3, <2>4, DueIs
  <1>7. /\ next' = [u \in ToSet(s) \cup {t} |-> IF u = t THEN head ELSE next[u]]
        /\ prev' = [u \in ToSet(s) \cup {t} |->
                        IF u = t THEN NULL ELSE IF u = head THEN t ELSE prev[u]]
    <2>1. CASE AddFirst(t, e)
      <3>1. s = <<>> /\ head = NULL /\ DOMAIN next = {} /\ DOMAIN prev = {}
        <4>1. head = NULL
          BY <2>1 DEF AddFirst
        <4>2. Len(s) = 0 /\ s = <<>>
          BY <1>2, <1>4, <4>1
        <4>3. ToSet(s) = {}
          BY <4>2 DEF ToSet
        <4>4. QED
          BY <1>2, <4>1, <4>2, <4>3
      <3>2. QED
        BY <1>2, <2>1, <3>1 DEF AddFirst, Null, With
    <2>2. CASE AddFront(t, e)
      <3>1. head \in ToSet(s)
        BY <1>2, <1>4, <2>2 DEF AddFront
      <3>2. QED
        BY <1>2, <1>3, <2>2, <3>1 DEF AddFront, Null, With
    <2>3. QED
      BY <2>1, <2>2
  <1>8. IsMember(next') /\ IsMember(prev')
        /\ DOMAIN next' = DOMAIN next \cup {t} /\ DOMAIN prev' = DOMAIN next \cup {t}
    BY <1>2, <1>7 DEF IsMember
  <1>9. Linked(InsertAt(s, k + 1, t), next', prev')
    <2>1. next'[t] = At(s, k + 1) /\ prev'[t] = At(s, k)
      BY <1>2, <1>4, <1>5, <1>7 DEF At
    <2>2. \A i \in 1..Len(s) : next'[s[i]] = IF i = k THEN t ELSE next[s[i]]
      BY <1>5, <1>2, <1>3, <1>7
    <2>3. \A i \in 1..Len(s) : prev'[s[i]] = IF i = k + 1 THEN t ELSE prev[s[i]]
      <3>1. SUFFICES ASSUME NEW i \in 1..Len(s)
                     PROVE  prev'[s[i]] = IF i = k + 1 THEN t ELSE prev[s[i]]
        OBVIOUS
      <3>2. s[i] \in ToSet(s) /\ s[i] # t /\ head = s[1] /\ (s[i] = s[1] <=> i = 1)
        BY <1>2, <1>3, <1>4 DEF Once
      <3>3. QED
        BY <1>5, <1>7, <3>2
    <2>4. \A i \in 1..Len(s) :
              /\ next'[s[i]] = IF i = k THEN t ELSE next[s[i]]
              /\ prev'[s[i]] = IF i = k + 1 THEN t ELSE prev[s[i]]
      BY <2>2, <2>3
    <2>5. Linked(s, next, prev)
      BY <1>2
    <2>6. QED
      BY <2>1, <2>4, <2>5, LinkIs
  <1>10. head' = (IF k = 0 THEN t ELSE head) /\ tail' = IF k = Len(s) THEN t ELSE tail
    BY <1>3, <1>4, <1>5
  <1>11. QED
    BY <1>1, <1>3, <1>6, <1>8, <1>9, <1>10, AddStep

LEMMA AddAfterStep ==
    ASSUME LInv, NEW t \in Timers, NEW e \in Times, AddAfter(t, e)
    PROVE  LInv' /\ Abstract!Add(t, e)
  <1>1. PICK s \in Seq(Timers) : IsList(s)
    BY DEF LInv
  <1>2. /\ Once(s) /\ ToSet(s) = DOMAIN next /\ DOMAIN prev = DOMAIN next
        /\ Linked(s, next, prev) /\ Sorted(s, expire)
        /\ \A u \in ToSet(s) : expire[u] \in Nat
        /\ \A i \in 1..Len(s) : s[i] \in ToSet(s) /\ s[i] # NULL
        /\ head = IF s = <<>> THEN NULL ELSE s[1]
    BY <1>1, ListParts
  <1>3. /\ New(t, e) /\ t \notin ToSet(s) /\ e \in Nat
        /\ expire' = [u \in ToSet(s) \cup {t} |-> IF u = t THEN e ELSE expire[u]]
        /\ head # NULL /\ ~(e < expire[head]) /\ head' = head
    BY <1>1, <1>2, TimerListAssumption DEF LInv, LinksTyped, AddAfter, New,
                      Allocated, With
  <1>4. Len(s) \in Nat /\ 1 \in 1..Len(s) /\ head = s[1]
    BY <1>2, <1>3
  <1>5. PICK p \in 1..Len(s) :
            /\ Place(t, expire', s[1]) = s[p]
            /\ \A j \in (1 + 1)..p : ~(expire'[t] < expire'[s[j]])
            /\ p < Len(s) => expire'[t] < expire'[s[p + 1]]
    BY <1>1, <1>4, PlaceIs
  <1>6. \A i \in 1..Len(s) : expire'[s[i]] = expire[s[i]] /\ expire'[s[i]] \in Nat
    BY <1>2, <1>3
  <1>7. expire'[t] = e
    BY <1>3
  <1>8. DueAre(s, expire', e, p)
    <2>1. Sorted(s, expire')
      BY <1>2, <1>6 DEF Sorted
    <2>2. p > 0 => expire'[s[p]] <= e
      <3>1. ~(e < expire'[s[p]])
        <4>1. CASE p = 1
          BY <1>3, <1>4, <1>6, <4>1
        <4>2. CASE p # 1
          <5>1. p \in (1 + 1)..p
            BY <1>4, <4>2
          <5>2. QED
            BY <1>5, <1>7, <5>1
        <4>3. QED
          BY <4>1, <4>2
      <3>2. expire'[s[p]] \in Nat
        BY <1>6
      <3>3. QED
        BY <1>3, <3>1, <3>2
    <2>3. p < Len(s) => e < expire'[s[p + 1]]
      BY <1>5, <1>7
    <2>4. p \in 0..Len(s)
      BY <1>4
    <2>5. QED
      BY <1>3, <1>6, <2>1, <2>2, <2>3, <2>4, DueIs
  <1>9. PICK pv : pv = Null(prev, t)
    OBVIOUS
  <1>10. PICK nx : nx = Null(next, t)
    OBVIOUS
  <1>11. LinkAfter(t, s[p], pv, nx)
    BY <1>4, <1>5, <1>9, <1>10 DEF AddAfter
  <1>12. /\ IsMember(pv) /\ IsMember(nx)
         /\ DOMAIN pv = ToSet(s) \cup {t} /\ DOMAIN nx = ToSet(s) \cup {t}
         /\ \A u \in ToSet(s) : pv[u] = prev[u] /\ nx[u] = next[u]
    BY <1>2, <1>3, <1>9, <1>10 DEF IsMember, Null, With
  <1>13. Linked(s, nx, pv)
    BY <1>2, <1>12 DEF Linked
  <1>14. /\ Linked(InsertAt(s, p + 1, t), next', prev')
         /\ IsMember(next') /\ IsMember(prev')
         /\ DOMAIN next' = DOMAIN nx /\ DOMAIN prev' = DOMAIN pv
         /\ tail' = IF p = Len(s) THEN t ELSE tail
    BY <1>2, <1>3, <1>11, <1>12, <1>13, LinkAfterIs
  <1>15. p \in 0..Len(s) /\ p # 0
    OBVIOUS
  <1>16. QED
    BY <1>1, <1>2, <1>3, <1>8, <1>12, <1>14, <1>15, AddStep

\* Who is next to whom.
LEMMA Neighbours ==
    ASSUME NEW s \in Seq(Timers), Once(s), NEW nx, NEW pv, Linked(s, nx, pv),
           NEW i \in 1..Len(s), NEW j \in 1..Len(s)
    PROVE  /\ nx[s[j]] = s[i] <=> j = i - 1
           /\ pv[s[j]] = s[i] <=> j = i + 1
  <1>1. Len(s) \in Nat /\ s[i] # NULL
    BY NoTimer
  <1>2. nx[s[j]] = At(s, j + 1) /\ pv[s[j]] = At(s, j - 1)
    BY DEF Linked
  <1>3. At(s, j + 1) = s[i] <=> j + 1 = i
    BY <1>1 DEF At, Once
  <1>4. At(s, j - 1) = s[i] <=> j - 1 = i
    BY <1>1 DEF At, Once
  <1>5. QED
    BY <1>2, <1>3, <1>4

\* nx and pv link the neighbours of the i-th timer of s to each other.
Bypassed(s, i, nx, pv) ==
    \A j \in 1..Len(s) : j # i =>
        /\ nx[s[j]] = IF j = i - 1 THEN next[s[i]] ELSE next[s[j]]
        /\ pv[s[j]] = IF j = i + 1 THEN prev[s[i]] ELSE prev[s[j]]

LEMMA BypassIs ==
    ASSUME NEW s \in Seq(Timers), Once(s), NEW i \in 1..Len(s), Linked(s, next, prev),
           NEW nx, NEW pv, Bypassed(s, i, nx, pv)
    PROVE  Linked(RemoveAt(s, i), nx, pv)
  <1>1. ASSUME NEW u \in ToSet(s) \ {s[i]}
        PROVE  /\ nx[u] = IF next[u] = s[i] THEN next[s[i]] ELSE next[u]
               /\ pv[u] = IF prev[u] = s[i] THEN prev[s[i]] ELSE prev[u]
    <2>1. PICK j \in 1..Len(s) : u = s[j] /\ j # i
      BY DEF ToSet
    <2>2. /\ next[s[j]] = s[i] <=> j = i - 1
          /\ prev[s[j]] = s[i] <=> j = i + 1
      BY Neighbours
    <2>3. QED
      BY <2>1, <2>2 DEF Bypassed
  <1>2. QED
    BY <1>1, UnlinkIs

-----------------------------------------------------------------------------
(* adjust_timer.                                                           *)

\* r is s with its i-th timer taken out and put behind the first k others.
Moved(s, i, k, r) == r = InsertAt(RemoveAt(s, i), k + 1, s[i])

LEMMA MovedIs ==
    ASSUME NEW s \in Seq(Timers), Once(s), NEW i \in 1..Len(s), NEW k \in 0..(Len(s) - 1)
    PROVE  \E q, r \in Seq(Timers) :
               /\ q = RemoveAt(s, i) /\ Removed(s, i, q) /\ Once(q)
               /\ ToSet(q) = ToSet(s) \ {s[i]}
               /\ r = InsertAt(q, k + 1, s[i]) /\ Inserted(q, k, s[i], r) /\ Once(r)
               /\ ToSet(r) = ToSet(s)
               /\ Moved(s, i, k, r)
  <1>1. PICK q \in Seq(Timers) :
            /\ q = RemoveAt(s, i) /\ Removed(s, i, q)
            /\ Once(q) /\ ToSet(q) = ToSet(s) \ {s[i]}
    BY RemoveIs
  <1>2. k \in 0..Len(q) /\ s[i] \notin ToSet(q) /\ s[i] \in ToSet(s) /\ s[i] \in Timers
    BY <1>1 DEF Removed, ToSet
  <1>3. PICK r \in Seq(Timers) :
            /\ r = InsertAt(q, k + 1, s[i]) /\ Inserted(q, k, s[i], r)
            /\ Once(r) /\ ToSet(r) = ToSet(q) \cup {s[i]}
    BY <1>1, <1>2, InsertIs
  <1>4. Moved(s, i, k, r)
    BY <1>1, <1>3 DEF Moved
  <1>5. ToSet(r) = ToSet(s)
    BY <1>1, <1>2, <1>3
  <1>6. QED
    BY <1>1, <1>3, <1>4, <1>5

LEMMA AdjustStep ==
    ASSUME LInv, NEW s \in Seq(Timers), IsList(s), NEW i \in 1..Len(s), NEW e \in Times,
           PutOff(s[i], e), NEW k \in 0..(Len(s) - 1),
           DueAre(RemoveAt(s, i), expire', e, k),
           NEW r \in Seq(Timers), Moved(s, i, k, r), Linked(r, next', prev'),
           IsMember(next'), IsMember(prev'),
           DOMAIN next' = DOMAIN next, DOMAIN prev' = DOMAIN next,
           head' = At(r, 1), tail' = At(r, Len(r))
    PROVE  LInv' /\ Abstract!Adjust(s[i], e)
  <1>1. /\ Once(s) /\ ToSet(s) = DOMAIN next /\ Sorted(s, expire)
        /\ \A u \in ToSet(s) : expire[u] \in Nat /\ u \in Timers
        /\ s[i] \in ToSet(s)
    BY ListParts
  <1>2. /\ e >= expire[s[i]]
        /\ expire' = [expire EXCEPT ![s[i]] = e]
        /\ fired' = fired /\ destroyed' = destroyed
    BY DEF PutOff
  <1>3. expire \in [ToSet(s) -> Times] /\ e \in Nat
    BY <1>1, TimerListAssumption DEF LInv, LinksTyped
  <1>4. /\ expire' \in [ToSet(s) -> Times] /\ expire'[s[i]] = e
        /\ \A u \in ToSet(s) : u # s[i] => expire'[u] = expire[u]
    BY <1>1, <1>2, <1>3
  <1>5. PICK q \in Seq(Timers) :
            /\ q = RemoveAt(s, i) /\ ToSet(q) = ToSet(s) \ {s[i]}
            /\ r = InsertAt(q, k + 1, s[i]) /\ Once(r)
            /\ ToSet(r) = ToSet(s) /\ k \in 0..Len(q)
    <2>1. PICK q, x \in Seq(Timers) :
              /\ q = RemoveAt(s, i) /\ Removed(s, i, q) /\ Once(q)
              /\ ToSet(q) = ToSet(s) \ {s[i]}
              /\ x = InsertAt(q, k + 1, s[i]) /\ Inserted(q, k, s[i], x) /\ Once(x)
              /\ ToSet(x) = ToSet(s)
              /\ Moved(s, i, k, x)
      BY <1>1, MovedIs
    <2>2. r = x
      BY <2>1 DEF Moved
    <2>3. k \in 0..Len(q)
      BY <2>1 DEF Removed
    <2>4. QED
      BY <2>1, <2>2, <2>3
  <1>6. \A j \in 1..Len(q) : q[j] \in ToSet(s) /\ q[j] # s[i]
    <2>1. \A j \in 1..Len(q) : q[j] \in ToSet(q)
      BY DEF ToSet
    <2>2. ToSet(q) = ToSet(s) \ {s[i]}
      BY <1>5
    <2>3. QED
      BY <2>1, <2>2
  <1>7. Sorted(q, expire')
    <2>1. Sorted(q, expire)
      BY <1>1, <1>5, RemoveSorted
    <2>2. QED
      BY <1>4, <1>6, <2>1 DEF Sorted
  <1>8. Sorted(r, expire')
    <2>1. \A j \in 1..Len(q) : expire'[q[j]] \in Nat
      BY <1>1, <1>4, <1>6
    <2>2. DueAre(q, expire', expire'[s[i]], k) /\ expire'[s[i]] \in Nat
      BY <1>3, <1>4, <1>5
    <2>3. s[i] \in Timers
      OBVIOUS
    <2>4. QED
      BY <1>5, <1>7, <2>1, <2>2, <2>3, InsertSorted
  <1>9. IsList(r)'
    BY <1>1, <1>5, <1>8 DEF IsList
  <1>10. tail' \in Timers \cup {NULL}
    BY DEF At
  <1>11. LinksTyped'
    BY <1>1, <1>2, <1>4, <1>10 DEF LInv, LinksTyped
  <1>12. LInv' /\ Walk(next, head)' = r
    BY <1>9, <1>11, ListAfter DEF LInv
  <1>13. Walk(next, head) = s
    BY WalkList
  <1>14. Abstract!Place(q, s[i])
    <2>1. Abstract!Due(q, expire', expire'[s[i]], k)
      BY <1>4, <1>5 DEF DueAre, Abstract!Due
    <2>2. QED
      BY <1>5, <1>12, <2>1 DEF Abstract!Place, InsertAt, Abstract!InsertAt
  <1>15. Abstract!Place(Abstract!RemoveAt(s, i), s[i])
    BY <1>5, <1>14 DEF RemoveAt, Abstract!RemoveAt
  <1>16. QED
    BY <1>1, <1>2, <1>12, <1>13, <1>15 DEF Abstract!Adjust, ToSet, Abstract!ToSet

LEMMA AdjustStayStep ==
    ASSUME LInv, NEW t \in Timers, NEW e \in Times, AdjustStay(t, e)
    PROVE  LInv' /\ Abstract!Adjust(t, e)
  <1>1. PICK s \in Seq(Timers) : IsList(s)
    BY DEF LInv
  <1>2. /\ Once(s) /\ ToSet(s) = DOMAIN next /\ DOMAIN prev = DOMAIN next
        /\ Linked(s, next, prev) /\ Sorted(s, expire)
        /\ IsMember(next) /\ IsMember(prev)
        /\ \A u \in ToSet(s) : expire[u] \in Nat
        /\ \A i \in 1..Len(s) : s[i] \in ToSet(s) /\ s[i] # NULL
        /\ \A u \in ToSet(s) : \E i \in 1..Len(s) : u = s[i]
        /\ head = IF s = <<>> THEN NULL ELSE s[1]
        /\ s # <<>> => tail = s[Len(s)]
    BY <1>1, ListParts
  <1>3. /\ PutOff(t, e) /\ t \in ToSet(s) /\ e >= expire[t]
        /\ next[t] # NULL => e < expire[next[t]]
        /\ head' = head /\ tail' = tail /\ prev' = prev /\ next' = next
        /\ expire' = [expire EXCEPT ![t] = e]
    BY <1>2 DEF AdjustStay, PutOff, InOrder, links, Allocated
  <1>4. PICK i \in 1..Len(s) : t = s[i]
    BY <1>2, <1>3
  <1>5. Len(s) \in Nat /\ i \in Nat /\ 1 <= i /\ i <= Len(s) /\ i - 1 \in 0..(Len(s) - 1)
        /\ (i - 1) + 1 = i /\ s # <<>>
    OBVIOUS
  <1>6. PICK q, r \in Seq(Timers) :
            /\ q = RemoveAt(s, i) /\ Removed(s, i, q) /\ Once(q)
            /\ ToSet(q) = ToSet(s) \ {s[i]}
            /\ r = InsertAt(q, (i - 1) + 1, s[i]) /\ Inserted(q, i - 1, s[i], r) /\ Once(r)
            /\ ToSet(r) = ToSet(s)
            /\ Moved(s, i, i - 1, r)
    BY <1>2, <1>5, MovedIs
  <1>7. Len(q) = Len(s) - 1 /\ \A j \in 1..(Len(s) - 1) : q[j] = IF j < i THEN s[j] ELSE s[j + 1]
    BY <1>6 DEF Removed
  <1>8. r = s
    <2>1. Len(r) = Len(s)
      BY <1>5, <1>6, <1>7 DEF Inserted
    <2>2. \A j \in 1..Len(s) : /\ j <= i - 1 => r[j] = q[j]
                               /\ j = i => r[j] = s[i]
                               /\ j > i => r[j] = q[j - 1]
      BY <1>5, <1>6, <1>7 DEF Inserted
    <2>3. \A j \in 1..Len(s) : r[j] = s[j]
      <3>1. SUFFICES ASSUME NEW j \in 1..Len(s) PROVE r[j] = s[j]
        OBVIOUS
      <3>2. CASE j < i
        BY <1>5, <1>7, <2>2, <3>2
      <3>3. CASE j > i
        <4>1. j - 1 \in 1..(Len(s) - 1) /\ ~(j - 1 < i) /\ (j - 1) + 1 = j
          BY <1>5, <3>3
        <4>2. q[j - 1] = s[j]
          BY <1>7, <4>1
        <4>3. QED
          BY <2>2, <3>3, <4>2
      <3>4. QED
        BY <1>5, <2>2, <3>2, <3>3
    <2>4. QED
      BY <2>1, <2>3
  <1>9. DueAre(q, expire', e, i - 1)
    <2>1. \A j \in 1..Len(q) : q[j] \in ToSet(s) /\ q[j] # s[i]
      <3>1. \A j \in 1..Len(q) : q[j] \in ToSet(q)
        BY DEF ToSet
      <3>2. QED
        BY <1>6, <3>1
    <2>2. expire \in [ToSet(s) -> Times] /\ e \in Nat
      BY <1>2, TimerListAssumption DEF LInv, LinksTyped
    <2>3. \A j \in 1..Len(q) : expire'[q[j]] = expire[q[j]] /\ expire'[q[j]] \in Nat
      BY <1>2, <1>3, <1>4, <2>1, <2>2
    <2>4. Sorted(q, expire')
      <3>1. Sorted(q, expire)
        BY <1>2, <1>6, RemoveSorted
      <3>2. QED
        BY <2>3, <3>1 DEF Sorted
    <2>5. i - 1 > 0 => expire'[q[i - 1]] <= e
      <3>1. HAVE i - 1 > 0
      <3>2. i - 1 \in 1..Len(q) /\ i - 1 \in 1..Len(s) /\ i - 1 <= i /\ q[i - 1] = s[i - 1]
        BY <1>5, <1>7, <3>1
      <3>3. expire[s[i - 1]] <= expire[s[i]]
        BY <1>2, <3>2 DEF Sorted
      <3>4. expire[s[i - 1]] \in Nat /\ expire[s[i]] \in Nat
        BY <1>2, <3>2
      <3>5. QED
        BY <1>3, <1>4, <2>2, <2>3, <3>2, <3>3, <3>4
    <2>6. i - 1 < Len(q) => e < expire'[q[(i - 1) + 1]]
      <3>1. HAVE i - 1 < Len(q)
      <3>2. i \in 1..Len(q) /\ i + 1 \in 1..Len(s) /\ q[i] = s[i + 1]
        BY <1>5, <1>7, <3>1
      <3>3. next[s[i]] = s[i + 1]
        BY <1>2, <3>2 DEF Linked, At
      <3>4. e < expire[s[i + 1]]
        BY <1>2, <1>3, <1>4, <3>2, <3>3
      <3>5. QED
        BY <1>5, <2>3, <3>2, <3>4
    <2>7. i - 1 \in 0..Len(q)
      BY <1>5, <1>7
    <2>8. QED
      BY <2>2, <2>3, <2>4, <2>5, <2>6, <2>7, DueIs
  <1>10. head' = At(s, 1) /\ tail' = At(s, Len(s))
    BY <1>2, <1>3, <1>5 DEF At
  <1>11. Moved(s, i, i - 1, s) /\ DueAre(RemoveAt(s, i), expire', e, i - 1)
         /\ Linked(s, next', prev')
    BY <1>2, <1>3, <1>6, <1>8, <1>9
  <1>12. QED
    BY <1>1, <1>2, <1>3, <1>4, <1>5, <1>10, <1>11, AdjustStep

\* The timer is taken out and linked in further back, among its old successors.
LEMMA AdjustMoveStep ==
    ASSUME LInv, NEW s \in Seq(Timers), IsList(s), NEW i \in 1..(Len(s) - 1), NEW e \in Times,
           PutOff(s[i], e), ~(e < expire[s[i + 1]]),
           NEW pv, NEW nx, IsMember(pv), IsMember(nx),
           DOMAIN pv = DOMAIN next, DOMAIN nx = DOMAIN next,
           Bypassed(s, i, nx, pv),
           LinkAfter(s[i], Place(s[i], expire', s[i + 1]), pv, nx),
           head' = IF i = 1 THEN s[2] ELSE head
    PROVE  LInv' /\ Abstract!Adjust(s[i], e)
  <1>1. /\ Once(s) /\ ToSet(s) = DOMAIN next /\ Sorted(s, expire)
        /\ Linked(s, next, prev)
        /\ \A u \in ToSet(s) : expire[u] \in Nat
        /\ \A j \in 1..Len(s) : s[j] \in ToSet(s) /\ s[j] # NULL
        /\ head = IF s = <<>> THEN NULL ELSE s[1]
        /\ s # <<>> => tail = s[Len(s)]
    BY ListParts
  <1>2. Len(s) \in Nat /\ i \in Nat /\ 1 <= i /\ i + 1 <= Len(s) /\ i \in 1..Len(s)
        /\ i + 1 \in 1..Len(s) /\ s # <<>>
    OBVIOUS
  <1>3. e >= expire[s[i]] /\ expire' = [expire EXCEPT ![s[i]] = e]
    BY DEF PutOff
  <1>4. expire \in [ToSet(s) -> Times] /\ e \in Nat
    BY <1>1, TimerListAssumption DEF LInv, LinksTyped
  <1>5. \A j \in 1..Len(s) : expire'[s[j]] = IF j = i THEN e ELSE expire[s[j]]
    BY <1>1, <1>2, <1>3, <1>4 DEF Once
  <1>6. PICK p \in (i + 1)..Len(s) :
            /\ Place(s[i], expire', s[i + 1]) = s[p]
            /\ \A j \in ((i + 1) + 1)..p : ~(expire'[s[i]] < expire'[s[j]])
            /\ p < Len(s) => expire'[s[i]] < expire'[s[p + 1]]
    BY <1>2, PlaceIs
  <1>7. PICK k \in 1..(Len(s) - 1) : k = p - 1
    BY <1>2
  <1>8. PICK q, r \in Seq(Timers) :
            /\ q = RemoveAt(s, i) /\ Removed(s, i, q) /\ Once(q)
            /\ ToSet(q) = ToSet(s) \ {s[i]}
            /\ r = InsertAt(q, k + 1, s[i]) /\ Inserted(q, k, s[i], r) /\ Once(r)
            /\ ToSet(r) = ToSet(s)
            /\ Moved(s, i, k, r)
    <2>1. k \in 0..(Len(s) - 1)
      OBVIOUS
    <2>2. QED
      BY <1>1, <1>2, <2>1, MovedIs
  <1>9. /\ Len(q) = Len(s) - 1
        /\ \A j \in 1..(Len(s) - 1) : q[j] = IF j < i THEN s[j] ELSE s[j + 1]
    BY <1>8 DEF Removed
  <1>10. Len(r) = Len(s) /\ \A j \in 1..Len(s) : /\ j <= k => r[j] = q[j]
                                                 /\ j = k + 1 => r[j] = s[i]
                                                 /\ j > k + 1 => r[j] = q[j - 1]
    <2>1. Inserted(q, k, s[i], r) /\ Len(q) = Len(s) - 1
      BY <1>8, <1>9
    <2>2. Len(r) = (Len(s) - 1) + 1
      BY <2>1 DEF Inserted
    <2>3. \A j \in 1..((Len(s) - 1) + 1) : /\ j <= k => r[j] = q[j]
                                           /\ j = k + 1 => r[j] = s[i]
                                           /\ j > k + 1 => r[j] = q[j - 1]
      BY <2>1 DEF Inserted
    <2>4. QED
      BY <1>2, <2>2, <2>3
  <1>11. q[k] = s[p] /\ k \in 1..Len(q)
    BY <1>2, <1>7, <1>9
  <1>12. DueAre(q, expire', e, k)
    <2>1. \A j \in 1..Len(q) : q[j] \in ToSet(s) /\ q[j] # s[i]
      <3>1. \A j \in 1..Len(q) : q[j] \in ToSet(q)
        BY DEF ToSet
      <3>2. ToSet(q) = ToSet(s) \ {s[i]}
        BY <1>8
      <3>3. QED
        BY <3>1, <3>2
    <2>2. \A j \in 1..Len(q) : expire'[q[j]] = expire[q[j]] /\ expire'[q[j]] \in Nat
      BY <1>1, <1>3, <1>4, <2>1
    <2>3. Sorted(q, expire')
      <3>1. Sorted(q, expire)
        BY <1>1, <1>2, <1>8, RemoveSorted
      <3>2. QED
        BY <2>2, <3>1 DEF Sorted
    <2>4. k > 0 => expire'[q[k]] <= e
      <3>1. ~(e < expire'[s[p]])
        <4>1. CASE p = i + 1
          BY <1>2, <1>5, <4>1
        <4>2. CASE p # i + 1
          <5>1. p \in ((i + 1) + 1)..p /\ expire'[s[i]] = e
            BY <1>2, <1>5, <4>2
          <5>2. QED
            BY <1>6, <5>1
        <4>3. QED
          BY <4>1, <4>2
      <3>2. expire'[q[k]] \in Nat
        BY <1>11, <2>2
      <3>3. QED
        BY <1>4, <1>11, <3>1, <3>2
    <2>5. k < Len(q) => e < expire'[q[k + 1]]
      <3>1. HAVE k < Len(q)
      <3>2. p < Len(s) /\ q[k + 1] = s[p + 1] /\ expire'[s[i]] = e
        BY <1>2, <1>5, <1>7, <1>9, <3>1
      <3>3. QED
        BY <1>6, <3>2
    <2>6. k \in 0..Len(q)
      BY <1>11
    <2>7. QED
      BY <1>4, <2>2, <2>3, <2>4, <2>5, <2>6, DueIs
  <1>13. Linked(q, nx, pv)
    <2>1. Linked(RemoveAt(s, i), nx, pv)
      BY <1>1, <1>2, BypassIs
    <2>2. QED
      BY <1>8, <2>1
  <1>14. /\ Linked(r, next', prev')
         /\ IsMember(next') /\ IsMember(prev')
         /\ DOMAIN next' = DOMAIN nx /\ DOMAIN prev' = DOMAIN pv
         /\ tail' = IF k = Len(q) THEN s[i] ELSE tail
    <2>1. s[i] \in Timers /\ s[i] \notin ToSet(q) /\ Once(q)
          /\ DOMAIN pv = ToSet(q) \cup {s[i]} /\ DOMAIN nx = ToSet(q) \cup {s[i]}
      <3>1. ToSet(q) = ToSet(s) \ {s[i]} /\ Once(q)
        BY <1>8
      <3>2. s[i] \in ToSet(s) /\ ToSet(s) = DOMAIN next
        BY <1>1, <1>2
      <3>3. s[i] \in Timers
        BY <1>2
      <3>4. DOMAIN next = ToSet(q) \cup {s[i]} /\ s[i] \notin ToSet(q)
        BY <3>1, <3>2
      <3>5. QED
        BY <3>1, <3>3, <3>4
    <2>2. LinkAfter(s[i], q[k], pv, nx)
      BY <1>6, <1>11
    <2>3. /\ Linked(InsertAt(q, k + 1, s[i]), next', prev')
          /\ IsMember(next') /\ IsMember(prev')
          /\ DOMAIN next' = DOMAIN nx /\ DOMAIN prev' = DOMAIN pv
          /\ tail' = IF k = Len(q) THEN s[i] ELSE tail
      BY <1>11, <1>13, <2>1, <2>2, LinkAfterIs
    <2>4. QED
      BY <1>8, <2>3
  <1>15. head' = At(r, 1)
    <2>1. 1 \in 1..Len(r) /\ r[1] = q[1] /\ q[1] = IF 1 < i THEN s[1] ELSE s[1 + 1]
      BY <1>2, <1>9, <1>10
    <2>2. QED
      BY <1>1, <1>2, <2>1 DEF At
  <1>16. tail' = At(r, Len(r))
    <2>1. Len(r) \in 1..Len(r) /\ At(r, Len(r)) = r[Len(s)]
      BY <1>2, <1>10 DEF At
    <2>2. CASE k = Len(q)
      BY <1>2, <1>9, <1>10, <1>14, <2>1, <2>2
    <2>3. CASE k # Len(q)
      <3>1. Len(s) > k + 1 /\ Len(s) - 1 \in 1..(Len(s) - 1) /\ ~(Len(s) - 1 < i)
            /\ (Len(s) - 1) + 1 = Len(s)
        BY <1>2, <1>9, <2>3
      <3>2. r[Len(s)] = s[Len(s)]
        BY <1>2, <1>9, <1>10, <3>1
      <3>3. QED
        BY <1>1, <1>2, <1>14, <2>1, <2>3, <3>2
    <2>4. QED
      BY <2>2, <2>3
  <1>17. DueAre(RemoveAt(s, i), expire', e, k) /\ k \in 0..(Len(s) - 1)
    BY <1>8, <1>12
  <1>18. QED
    BY <1>2, <1>8, <1>14, <1>15, <1>16, <1>17, AdjustStep

LEMMA AdjustHeadStep ==
    ASSUME LInv, NEW t \in Timers, NEW e \in Times, AdjustHead(t, e)
    PROVE  LInv' /\ Abstract!Adjust(t, e)
  <1>1. PICK s \in Seq(Timers) : IsList(s)
    BY DEF LInv
  <1>2. /\ Once(s) /\ ToSet(s) = DOMAIN next /\ DOMAIN prev = DOMAIN next
        /\ Linked(s, next, prev)
        /\ \A j \in 1..Len(s) : s[j] \in ToSet(s) /\ s[j] # NULL
        /\ head = IF s = <<>> THEN NULL ELSE s[1]
    BY <1>1, ListParts
  <1>3. /\ PutOff(t, e) /\ t = head /\ t # NULL
        /\ next[t] # NULL /\ ~(e < expire[next[t]])
        /\ head' = next[t]
    BY NoTimer DEF AdjustHead, InOrder
  <1>4. PICK i \in 1..Len(s) : i = 1 /\ t = s[i]
    BY <1>2, <1>3
  <1>5. i \in 1..(Len(s) - 1) /\ next[t] = s[i + 1] /\ prev[t] = NULL /\ next[t] = s[2]
        /\ i + 1 \in 1..Len(s)
    <2>1. next[t] = At(s, i + 1) /\ prev[t] = At(s, i - 1)
      BY <1>2, <1>4 DEF Linked
    <2>2. QED
      BY <1>3, <1>4, <2>1 DEF At
  <1>6. PICK pv : pv = Null(prev, next[t])
    OBVIOUS
  <1>7. PICK nx : nx = Null(next, t)
    OBVIOUS
  <1>8. LinkAfter(s[i], Place(s[i], expire', s[i + 1]), pv, nx)
    BY <1>4, <1>5, <1>6, <1>7 DEF AdjustHead
  <1>9. /\ pv = [u \in DOMAIN next |-> IF u = s[i + 1] THEN NULL ELSE prev[u]]
        /\ nx = [u \in DOMAIN next |-> IF u = s[i] THEN NULL ELSE next[u]]
    BY <1>2, <1>4, <1>5, <1>6, <1>7 DEF Null, With
  <1>10. IsMember(pv) /\ IsMember(nx) /\ DOMAIN pv = DOMAIN next /\ DOMAIN nx = DOMAIN next
    BY <1>9 DEF IsMember
  <1>11. Bypassed(s, i, nx, pv)
    <2>1. SUFFICES ASSUME NEW j \in 1..Len(s), j # i
                   PROVE  /\ nx[s[j]] = IF j = i - 1 THEN next[s[i]] ELSE next[s[j]]
                          /\ pv[s[j]] = IF j = i + 1 THEN prev[s[i]] ELSE prev[s[j]]
      BY DEF Bypassed
    <2>2. s[j] \in DOMAIN next /\ s[j] # s[i] /\ (s[j] = s[i + 1] <=> j = i + 1) /\ j # i - 1
      BY <1>2, <1>4, <1>5, <2>1 DEF Once
    <2>3. QED
      BY <1>4, <1>5, <1>9, <2>2
  <1>12. head' = (IF i = 1 THEN s[2] ELSE head) /\ ~(e < expire[s[i + 1]])
    BY <1>3, <1>4, <1>5
  <1>13. QED
    BY <1>1, <1>3, <1>4, <1>5, <1>8, <1>10, <1>11, <1>12, AdjustMoveStep

LEMMA AdjustMiddleStep ==
    ASSUME LInv, NEW t \in Timers, NEW e \in Times, AdjustMiddle(t, e)
    PROVE  LInv' /\ Abstract!Adjust(t, e)
  <1>1. PICK s \in Seq(Timers) : IsList(s)
    BY DEF LInv
  <1>2. /\ Once(s) /\ ToSet(s) = DOMAIN next /\ DOMAIN prev = DOMAIN next
        /\ Linked(s, next, prev) /\ IsMember(next) /\ IsMember(prev)
        /\ \A j \in 1..Len(s) : s[j] \in ToSet(s) /\ s[j] # NULL
        /\ \A u \in ToSet(s) : \E i \in 1..Len(s) : u = s[i]
        /\ head = IF s = <<>> THEN NULL ELSE s[1]
    BY <1>1, ListParts
  <1>3. /\ PutOff(t, e) /\ t # head /\ t \in DOMAIN next
        /\ next[t] # NULL /\ ~(e < expire[next[t]])
        /\ head' = head
    BY DEF AdjustMiddle, InOrder, PutOff, Allocated
  <1>4. PICK i \in 1..Len(s) : t = s[i]
    BY <1>2, <1>3
  <1>5. i # 1
    BY <1>2, <1>3, <1>4
  <1>6. i \in 1..(Len(s) - 1) /\ next[t] = s[i + 1] /\ prev[t] = s[i - 1]
        /\ i + 1 \in 1..Len(s) /\ i - 1 \in 1..Len(s)
    <2>1. next[t] = At(s, i + 1) /\ prev[t] = At(s, i - 1)
      BY <1>2, <1>4 DEF Linked
    <2>2. QED
      BY <1>3, <1>5, <2>1 DEF At
  <1>7. PICK pv : pv = [prev EXCEPT ![next[t]] = prev[t]]
    OBVIOUS
  <1>8. PICK nx : nx = [next EXCEPT ![prev[t]] = next[t]]
    OBVIOUS
  <1>9. LinkAfter(s[i], Place(s[i], expire', s[i + 1]), pv, nx)
    BY <1>4, <1>6, <1>7, <1>8 DEF AdjustMiddle
  <1>10. /\ pv = [u \in DOMAIN next |-> IF u = s[i + 1] THEN prev[s[i]] ELSE prev[u]]
         /\ nx = [u \in DOMAIN next |-> IF u = s[i - 1] THEN next[s[i]] ELSE next[u]]
    BY <1>2, <1>4, <1>6, <1>7, <1>8 DEF IsMember
  <1>11. IsMember(pv) /\ IsMember(nx) /\ DOMAIN pv = DOMAIN next /\ DOMAIN nx = DOMAIN next
    BY <1>10 DEF IsMember
  <1>12. Bypassed(s, i, nx, pv)
    <2>1. SUFFICES ASSUME NEW j \in 1..Len(s), j # i
                   PROVE  /\ nx[s[j]] = IF j = i - 1 THEN next[s[i]] ELSE next[s[j]]
                          /\ pv[s[j]] = IF j = i + 1 THEN prev[s[i]] ELSE prev[s[j]]
      BY DEF Bypassed
    <2>2. s[j] \in DOMAIN next /\ (s[j] = s[i + 1] <=> j = i + 1)
          /\ (s[j] = s[i - 1] <=> j = i - 1)
      BY <1>2, <1>6 DEF Once
    <2>3. QED
      BY <1>10, <2>2
  <1>13. head' = (IF i = 1 THEN s[2] ELSE head) /\ ~(e < expire[s[i + 1]])
    BY <1>3, <1>5, <1>6
  <1>14. QED
    BY <1>1, <1>3, <1>4, <1>6, <1>9, <1>11, <1>12, <1>13, AdjustMoveStep

-----------------------------------------------------------------------------
(* del_timer.                                                              *)

LEMMA DeletedIs ==
    ASSUME NEW link, NEW gone
    PROVE  /\ Deleted(link, gone) = [u \in DOMAIN link \ gone |-> link[u]]
           /\ IsMember(Deleted(link, gone))
  BY DEF Deleted, Restrict, IsMember

LEMMA DeleteStep ==
    ASSUME LInv, NEW s \in Seq(Timers), IsList(s), NEW i \in 1..Len(s), Free(s[i]),
           Bypassed(s, i, next', prev'), IsMember(next'), IsMember(prev'),
           DOMAIN next' = DOMAIN next \ {s[i]}, DOMAIN prev' = DOMAIN next \ {s[i]},
           head' = (IF i = 1 THEN next[s[i]] ELSE head),
           tail' = IF i = Len(s) THEN prev[s[i]] ELSE tail
    PROVE  LInv' /\ Abstract!Delete(s[i])
  <1>1. /\ Once(s) /\ ToSet(s) = DOMAIN next /\ Sorted(s, expire)
        /\ Linked(s, next, prev)
        /\ head = IF s = <<>> THEN NULL ELSE s[1]
        /\ s # <<>> => tail = s[Len(s)]
    BY ListParts
  <1>2. Len(s) \in Nat /\ i \in Nat /\ 1 <= i /\ i <= Len(s) /\ s # <<>>
    OBVIOUS
  <1>3. expire \in [ToSet(s) -> Times]
    BY <1>1 DEF LInv, LinksTyped
  <1>4. /\ expire' = [u \in ToSet(s) \ {s[i]} |-> expire[u]]
        /\ fired' = fired /\ destroyed' = destroyed
    BY <1>3, DeletedIs DEF Free
  <1>5. next[s[i]] = At(s, i + 1) /\ prev[s[i]] = At(s, i - 1)
    BY <1>1 DEF Linked
  <1>6. PICK q \in Seq(Timers) :
            /\ q = RemoveAt(s, i) /\ Removed(s, i, q)
            /\ Once(q) /\ ToSet(q) = ToSet(s) \ {s[i]}
    BY <1>1, RemoveIs
  <1>7. /\ Len(q) = Len(s) - 1
        /\ \A j \in 1..(Len(s) - 1) : q[j] = IF j < i THEN s[j] ELSE s[j + 1]
    BY <1>6 DEF Removed
  <1>8. head' = At(q, 1)
    <2>1. CASE i = 1
      BY <1>2, <1>5, <1>7, <2>1 DEF At
    <2>2. CASE i # 1
      BY <1>1, <1>2, <1>7, <2>2 DEF At
    <2>3. QED
      BY <2>1, <2>2
  <1>9. q # <<>> => tail' = At(q, Len(q))
    <2>1. HAVE q # <<>>
    <2>2. Len(q) \in 1..(Len(s) - 1) /\ At(q, Len(q)) = q[Len(s) - 1]
          /\ Len(s) - 1 \in 1..(Len(s) - 1)
      BY <1>2, <1>7, <2>1 DEF At
    <2>3. CASE i = Len(s)
      BY <1>2, <1>5, <1>7, <2>2, <2>3 DEF At
    <2>4. CASE i # Len(s)
      BY <1>1, <1>2, <1>7, <2>2, <2>4
    <2>5. QED
      BY <2>3, <2>4
  <1>10. Linked(q, next', prev')
    <2>1. Linked(RemoveAt(s, i), next', prev')
      BY <1>1, BypassIs
    <2>2. QED
      BY <1>6, <2>1
  <1>11. \A j \in 1..Len(q) : q[j] \in ToSet(s) \ {s[i]}
    <2>1. \A j \in 1..Len(q) : q[j] \in ToSet(q)
      BY DEF ToSet
    <2>2. ToSet(q) = ToSet(s) \ {s[i]}
      BY <1>6
    <2>3. QED
      BY <2>1, <2>2
  <1>12. Sorted(q, expire')
    <2>1. Sorted(q, expire)
      BY <1>1, <1>6, RemoveSorted
    <2>2. QED
      BY <1>4, <1>11, <2>1 DEF Sorted
  <1>13. Once(q) /\ ToSet(q) = DOMAIN next'
    BY <1>1, <1>6
  <1>14. IsList(q)'
    BY <1>8, <1>9, <1>10, <1>12, <1>13 DEF IsList
  <1>15. tail' \in Timers \cup {NULL}
    BY <1>1, <1>2, <1>5 DEF At
  <1>16. expire' \in [DOMAIN next' -> Times]
    BY <1>1, <1>3, <1>4
  <1>17. LinksTyped'
    BY <1>4, <1>15, <1>16 DEF LInv, LinksTyped
  <1>18. LInv' /\ Walk(next, head)' = q
    BY <1>14, <1>17, ListAfter DEF LInv
  <1>19. Walk(next, head) = s
    BY WalkList
  <1>20. q = Abstract!RemoveAt(s, i)
    BY <1>6 DEF RemoveAt, Abstract!RemoveAt
  <1>21. expire' = Abstract!Restrict(expire, Abstract!ToSet(q))
    <2>1. Abstract!ToSet(q) = ToSet(s) \ {s[i]}
      BY <1>6 DEF ToSet, Abstract!ToSet
    <2>2. QED
      BY <1>4, <2>1 DEF Abstract!Restrict
  <1>22. QED
    BY <1>4, <1>18, <1>19, <1>20, <1>21 DEF Abstract!Delete

LEMMA DelTimerStep ==
    ASSUME LInv, NEW t \in Timers, DelTimer(t)
    PROVE  LInv' /\ Abstract!Delete(t)
  <1>1. PICK s \in Seq(Timers) : IsList(s)
    BY DEF LInv
  <1>2. /\ Once(s) /\ ToSet(s) = DOMAIN next /\ DOMAIN prev = DOMAIN next
        /\ Linked(s, next, prev) /\ IsMember(next) /\ IsMember(prev)
        /\ \A j \in 1..Len(s) : s[j] \in ToSet(s) /\ s[j] # NULL
        /\ \A u \in ToSet(s) : \E i \in 1..Len(s) : u = s[i]
        /\ head = IF s = <<>> THEN NULL ELSE s[1]
        /\ s # <<>> => tail = s[Len(s)]
    BY <1>1, ListParts
  <1>3. Free(t) /\ t \in ToSet(s)
    BY <1>2 DEF DelTimer, DeleteOnly, DeleteHead, DeleteTail,
                DeleteMiddle, Free, Allocated
  <1>4. PICK i \in 1..Len(s) : t = s[i]
    BY <1>2, <1>3
  <1>5. Len(s) \in Nat /\ i \in Nat /\ 1 <= i /\ i <= Len(s) /\ s # <<>>
        /\ 1 \in 1..Len(s) /\ Len(s) \in 1..Len(s)
    OBVIOUS
  <1>6. (t = head <=> i = 1) /\ (t = tail <=> i = Len(s))
    BY <1>2, <1>4, <1>5 DEF Once
  <1>7. next[t] = At(s, i + 1) /\ prev[t] = At(s, i - 1)
    BY <1>2, <1>4 DEF Linked
  <1>8. \A j, k \in 1..Len(s) : s[j] = s[k] => j = k
    BY <1>2 DEF Once
  <1>9. /\ head' = IF i = 1 THEN next[s[i]] ELSE head
        /\ tail' = IF i = Len(s) THEN prev[s[i]] ELSE tail
    <2>1. CASE DeleteOnly(t)
      <3>1. i = 1 /\ i = Len(s) /\ head' = NULL /\ tail' = NULL
        BY <1>6, <2>1 DEF DeleteOnly
      <3>2. At(s, i + 1) = NULL /\ At(s, i - 1) = NULL
        <4>1. i + 1 > Len(s) /\ i - 1 < 1 /\ i + 1 \in Int /\ i - 1 \in Int
          <5>1. i = 1 /\ Len(s) = 1
            BY <3>1
          <5>2. QED
            BY <5>1
        <4>2. QED
          BY <4>1, AtIs
      <3>3. QED
        BY <1>4, <1>7, <3>1, <3>2
    <2>2. CASE DeleteHead(t) \/ DeleteTail(t) \/ DeleteMiddle(t)
      BY <1>4, <1>6, <2>2 DEF DeleteHead, DeleteTail, DeleteMiddle
    <2>3. QED
      BY <2>1, <2>2 DEF DelTimer
  <1>10. /\ next' = [u \in ToSet(s) \ {t} |->
                       IF i > 1 /\ u = s[i - 1] THEN At(s, i + 1) ELSE next[u]]
         /\ prev' = [u \in ToSet(s) \ {t} |->
                       IF i < Len(s) /\ u = s[i + 1] THEN At(s, i - 1) ELSE prev[u]]
    <2>1. CASE DeleteOnly(t)
      <3>1. i = 1 /\ i = Len(s)
            /\ next' = Deleted(next, {t}) /\ prev' = Deleted(prev, {t})
        BY <1>6, <2>1 DEF DeleteOnly
      <3>2. /\ next' = [u \in ToSet(s) \ {t} |-> next[u]]
            /\ prev' = [u \in ToSet(s) \ {t} |-> prev[u]]
        <4>1. DOMAIN next = ToSet(s) /\ DOMAIN prev = ToSet(s)
          BY <1>2
        <4>2. QED
          BY <3>1, <4>1 DEF Deleted, Restrict
      <3>3. ~(i > 1) /\ ~(i < Len(s))
        <4>1. i = 1 /\ Len(s) = 1
          BY <3>1
        <4>2. QED
          BY <4>1
      <3>4. QED
        BY <3>2, <3>3
    <2>2. CASE DeleteHead(t)
      <3>1. i = 1 /\ i < Len(s) /\ next[t] = s[i + 1] /\ s[i + 1] \in ToSet(s)
            /\ At(s, i - 1) = NULL
        BY <1>2, <1>5, <1>6, <1>7, <2>2 DEF DeleteHead, At
      <3>2. PICK pv : pv = Null(prev, next[t])
        OBVIOUS
      <3>3. pv = [u \in ToSet(s) |-> IF u = s[i + 1] THEN NULL ELSE prev[u]]
        BY <1>2, <3>1, <3>2 DEF Null, With
      <3>4. next' = Deleted(next, {t}) /\ prev' = Deleted(pv, {t})
        BY <2>2, <3>2 DEF DeleteHead
      <3>5. /\ next' = [u \in ToSet(s) \ {t} |-> next[u]]
            /\ prev' = [u \in ToSet(s) \ {t} |-> pv[u]]
        <4>1. DOMAIN next = ToSet(s) /\ DOMAIN prev = ToSet(s) /\ DOMAIN pv = ToSet(s)
          BY <1>2, <3>3
        <4>2. QED
          BY <3>4, <4>1 DEF Deleted, Restrict
      <3>6. QED
        BY <1>5, <3>1, <3>3, <3>5
    <2>3. CASE DeleteTail(t)
      <3>1. i > 1 /\ i = Len(s) /\ prev[t] = s[i - 1] /\ s[i - 1] \in ToSet(s)
            /\ At(s, i + 1) = NULL
        BY <1>2, <1>5, <1>6, <1>7, <2>3 DEF DeleteTail, At
      <3>2. PICK nx : nx = Null(next, prev[t])
        OBVIOUS
      <3>3. nx = [u \in ToSet(s) |-> IF u = s[i - 1] THEN NULL ELSE next[u]]
        BY <1>2, <3>1, <3>2 DEF Null, With
      <3>4. prev' = Deleted(prev, {t}) /\ next' = Deleted(nx, {t})
        BY <2>3, <3>2 DEF DeleteTail
      <3>5. /\ next' = [u \in ToSet(s) \ {t} |-> nx[u]]
            /\ prev' = [u \in ToSet(s) \ {t} |-> prev[u]]
        <4>1. DOMAIN next = ToSet(s) /\ DOMAIN prev = ToSet(s) /\ DOMAIN nx = ToSet(s)
          BY <1>2, <3>3
        <4>2. QED
          BY <3>4, <4>1 DEF Deleted, Restrict
      <3>6. QED
        BY <1>5, <3>1, <3>3, <3>5
    <2>4. CASE DeleteMiddle(t)
      <3>1. i > 1 /\ i < Len(s) /\ prev[t] = s[i - 1] /\ next[t] = s[i + 1]
            /\ At(s, i - 1) = s[i - 1] /\ At(s, i + 1) = s[i + 1]
        BY <1>5, <1>6, <1>7, <2>4 DEF DeleteMiddle, At
      <3>2. PICK nx : nx = [next EXCEPT ![prev[t]] = next[t]]
        OBVIOUS
      <3>3. PICK pv : pv = [prev EXCEPT ![next[t]] = prev[t]]
        OBVIOUS
      <3>4. /\ nx = [u \in ToSet(s) |-> IF u = s[i - 1] THEN s[i + 1] ELSE next[u]]
            /\ pv = [u \in ToSet(s) |-> IF u = s[i + 1] THEN s[i - 1] ELSE prev[u]]
        BY <1>2, <3>1, <3>2, <3>3 DEF IsMember
      <3>5. next' = Deleted(nx, {t}) /\ prev' = Deleted(pv, {t})
        BY <2>4, <3>2, <3>3 DEF DeleteMiddle
      <3>6. /\ next' = [u \in ToSet(s) \ {t} |-> nx[u]]
            /\ prev' = [u \in ToSet(s) \ {t} |-> pv[u]]
        <4>1. DOMAIN nx = ToSet(s) /\ DOMAIN pv = ToSet(s)
          BY <3>4
        <4>2. QED
          BY <3>5, <4>1 DEF Deleted, Restrict
      <3>7. QED
        BY <3>1, <3>4, <3>6
    <2>5. QED
      BY <2>1, <2>2, <2>3, <2>4 DEF DelTimer
  <1>11. Bypassed(s, i, next', prev')
    <2>1. SUFFICES ASSUME NEW j \in 1..Len(s), j # i
                   PROVE  /\ next'[s[j]] = IF j = i - 1 THEN next[s[i]] ELSE next[s[j]]
                          /\ prev'[s[j]] = IF j = i + 1 THEN prev[s[i]] ELSE prev[s[j]]
      BY DEF Bypassed
    <2>2. s[j] \in ToSet(s) \ {t}
      BY <1>2, <1>4, <1>8, <2>1
    <2>3. i > 1 /\ s[j] = s[i - 1] <=> j = i - 1
      BY <1>5, <1>8
    <2>4. i < Len(s) /\ s[j] = s[i + 1] <=> j = i + 1
      BY <1>5, <1>8
    <2>5. QED
      BY <1>4, <1>7, <1>10, <2>2, <2>3, <2>4
  <1>12. IsMember(next') /\ IsMember(prev')
         /\ DOMAIN next' = DOMAIN next \ {s[i]} /\ DOMAIN prev' = DOMAIN next \ {s[i]}
    BY <1>2, <1>4, <1>10 DEF IsMember
  <1>13. QED
    BY <1>1, <1>3, <1>4, <1>9, <1>11, <1>12, DeleteStep

-----------------------------------------------------------------------------
(* tick and the destructor.                                                *)

\* How many timers of s the loop of tick fires.
FiredBy(s, cur, c) ==
    LET due == {k \in 0..Len(s) : \A j \in 1..k : ~(cur < expire[s[j]])}
    IN  c = CHOOSE k \in due : \A j \in due : j <= k

LEMMA FiredIs ==
    ASSUME NEW s \in Seq(Timers), Sorted(s, expire), NEW cur \in Nat, NEW c,
           FiredBy(s, cur, c), \A i \in 1..Len(s) : expire[s[i]] \in Nat
    PROVE  c \in 0..Len(s) /\ DueAre(s, expire, cur, c)
  <1> DEFINE due == {k \in 0..Len(s) : \A j \in 1..k : ~(cur < expire[s[j]])}
  <1>1. Len(s) \in Nat
    OBVIOUS
  <1>2. 0 \in due /\ due \subseteq 0..Len(s)
    BY <1>1
  <1>3. \E x \in due : \A j \in due : j <= x
    BY <1>1, <1>2, LargestNat
  <1>4. c \in due /\ \A j \in due : j <= c
    BY <1>3 DEF FiredBy
  <1>5. c \in 0..Len(s) /\ \A j \in 1..c : ~(cur < expire[s[j]])
    BY <1>4
  <1>6. c > 0 => expire[s[c]] <= cur
    <2>1. HAVE c > 0
    <2>2. c \in 1..c /\ c \in 1..Len(s)
      BY <1>1, <1>5, <2>1
    <2>3. ~(cur < expire[s[c]]) /\ expire[s[c]] \in Nat
      BY <1>5, <2>2
    <2>4. QED
      BY <2>3
  <1>7. c < Len(s) => cur < expire[s[c + 1]]
    <2>1. HAVE c < Len(s)
    <2>2. c + 1 \in 0..Len(s) /\ ~(c + 1 <= c) /\ 1..(c + 1) = (1..c) \cup {c + 1}
      BY <1>1, <1>5, <2>1
    <2>3. c + 1 \notin due
      BY <1>4, <2>2
    <2>4. QED
      BY <1>5, <2>2, <2>3
  <1>8. QED
    BY <1>5, <1>6, <1>7, DueIs

LEMMA TickStep ==
    ASSUME LInv, NEW cur \in Times, Tick(cur)
    PROVE  LInv' /\ Abstract!Tick(cur)
  <1>1. PICK s \in Seq(Timers) : IsList(s)
    BY DEF LInv
  <1>2. /\ Once(s) /\ ToSet(s) = DOMAIN next /\ DOMAIN prev = DOMAIN next
        /\ Linked(s, next, prev) /\ Sorted(s, expire)
        /\ \A u \in ToSet(s) : expire[u] \in Nat
        /\ \A i \in 1..Len(s) : s[i] \in ToSet(s)
        /\ s # <<>> => tail = s[Len(s)]
    BY <1>1, ListParts
  <1>3. Walk(next, head) = s
    BY <1>1, WalkList
  <1>4. PICK c : FiredBy(s, cur, c)
    BY DEF FiredBy
  <1>5. /\ fired' = SubSeq(s, 1, c)
        /\ head' = IF c = Len(s) THEN NULL ELSE s[c + 1]
        /\ prev' = Deleted(IF c \in 1..(Len(s) - 1)
                                 THEN Null(prev, head') ELSE prev,
                                 ToSet(SubSeq(s, 1, c)))
        /\ next' = Deleted(next, ToSet(SubSeq(s, 1, c)))
        /\ expire' = Deleted(expire, ToSet(SubSeq(s, 1, c)))
        /\ tail' = tail /\ destroyed' = destroyed
    BY <1>3, <1>4 DEF Tick, FiredBy, ToSet, ToSet
  <1>6. cur \in Nat /\ \A i \in 1..Len(s) : expire[s[i]] \in Nat
    BY <1>2, TimerListAssumption DEF LInv
  <1>7. c \in 0..Len(s) /\ DueAre(s, expire, cur, c)
    BY <1>2, <1>4, <1>6, FiredIs
  <1>8. Len(s) \in Nat /\ c \in Nat /\ c <= Len(s)
    BY <1>7
  <1>9. PICK a, r \in Seq(Timers) :
            /\ a = SubSeq(s, 1, c) /\ r = SubSeq(s, c + 1, Len(s))
            /\ Once(r)
            /\ ToSet(a) = {s[i] : i \in 1..c}
            /\ ToSet(r) = {s[i] : i \in (c + 1)..Len(s)}
    BY <1>2, <1>7, CutKeeps
  <1>10. Len(r) = Len(s) - c /\ \A i \in 1..(Len(s) - c) : r[i] = s[i + c]
    BY <1>8, <1>9
  <1>11. ToSet(r) = DOMAIN next \ ToSet(a)
    <2>1. ToSet(s) = {s[i] : i \in 1..Len(s)}
      BY DEF ToSet
    <2>2. \A i \in 1..c, j \in (c + 1)..Len(s) :
              i \in 1..Len(s) /\ j \in 1..Len(s) /\ s[i] # s[j]
      BY <1>2, <1>8 DEF Once
    <2>3. \A i \in 1..Len(s) : i \in 1..c \/ i \in (c + 1)..Len(s)
      BY <1>8
    <2>4. ToSet(a) = {s[i] : i \in 1..c} /\ ToSet(r) = {s[i] : i \in (c + 1)..Len(s)}
          /\ DOMAIN next = ToSet(s)
      BY <1>2, <1>9
    <2>5. ASSUME NEW u \in ToSet(r) PROVE u \in DOMAIN next \ ToSet(a)
      <3>1. PICK j \in (c + 1)..Len(s) : u = s[j]
        BY <2>4
      <3>2. j \in 1..Len(s) /\ \A i \in 1..c : s[i] # s[j]
        BY <1>8, <2>2
      <3>3. u \in DOMAIN next
        BY <2>1, <2>4, <3>1, <3>2
      <3>4. u \notin ToSet(a)
        BY <2>4, <3>1, <3>2
      <3>5. QED
        BY <3>3, <3>4
    <2>6. ASSUME NEW u \in DOMAIN next \ ToSet(a) PROVE u \in ToSet(r)
      <3>1. PICK j \in 1..Len(s) : u = s[j]
        BY <2>1, <2>4
      <3>2. j \notin 1..c
        BY <2>4, <3>1
      <3>3. QED
        BY <2>3, <2>4, <3>1, <3>2
    <2>7. QED
      BY <2>5, <2>6
  <1>12. \A i \in 1..(Len(s) - c) : r[i] \in ToSet(r) /\ i + c \in 1..Len(s)
    BY <1>8, <1>10 DEF ToSet
  <1>13. \A i \in 0..(Len(s) - c + 1) : i > 0 => At(r, i) = At(s, i + c)
    BY <1>8, <1>10 DEF At
  <1>14. head' = At(r, 1)
    BY <1>5, <1>8, <1>10 DEF At
  <1>15. r # <<>> => tail' = At(r, Len(r))
    <2>1. HAVE r # <<>>
    <2>2. Len(r) \in 1..(Len(s) - c) /\ Len(r) + c = Len(s) /\ s # <<>>
      BY <1>8, <1>10, <2>1
    <2>3. At(r, Len(r)) = r[Len(r)] /\ r[Len(r)] = s[Len(s)]
      BY <1>10, <2>2 DEF At
    <2>4. QED
      BY <1>2, <1>5, <2>2, <2>3
  <1>16. next' = [u \in ToSet(r) |-> next[u]]
    BY <1>5, <1>9, <1>11 DEF Deleted, Restrict
  <1>17. prev' = [u \in ToSet(r) |-> IF u = head' THEN NULL ELSE prev[u]]
    <2>1. CASE c \in 1..(Len(s) - 1)
      <3>1. head' \in DOMAIN prev
        BY <1>2, <1>5, <1>8, <2>1
      <3>2. PICK pv : pv = Null(prev, head')
        OBVIOUS
      <3>3. pv = [u \in DOMAIN next |-> IF u = head' THEN NULL ELSE prev[u]]
        BY <1>2, <3>1, <3>2 DEF Null, With
      <3>4. prev' = Deleted(pv, ToSet(a))
        BY <1>5, <1>9, <2>1, <3>2
      <3>5. DOMAIN pv = DOMAIN next
        BY <3>3
      <3>6. prev' = [u \in ToSet(r) |-> pv[u]]
        BY <1>11, <3>4, <3>5 DEF Deleted, Restrict
      <3>7. \A u \in ToSet(r) : u \in DOMAIN next
        BY <1>11
      <3>8. QED
        BY <3>3, <3>6, <3>7
    <2>2. CASE c \notin 1..(Len(s) - 1)
      <3>1. prev' = Deleted(prev, ToSet(a))
        BY <1>5, <1>9, <2>2
      <3>2. prev' = [u \in ToSet(r) |-> prev[u]]
        BY <1>2, <1>11, <3>1 DEF Deleted, Restrict
      <3>3. \A u \in ToSet(r) : u = head' => prev[u] = NULL
        <4>1. SUFFICES ASSUME NEW u \in ToSet(r), u = head'
                       PROVE  prev[u] = NULL
          OBVIOUS
        <4>2. ToSet(r) = {s[i] : i \in (c + 1)..Len(s)}
          BY <1>9
        <4>3. c < Len(s)
          BY <1>8, <4>2
        <4>4. c = 0 /\ 1 \in 1..Len(s)
          BY <1>8, <2>2, <4>3
        <4>5. u = s[1]
          BY <1>5, <4>1, <4>3, <4>4
        <4>6. prev[s[1]] = At(s, 1 - 1) /\ At(s, 1 - 1) = NULL
          BY <1>2, <4>4 DEF Linked, At
        <4>7. QED
          BY <4>5, <4>6
      <3>4. QED
        BY <3>2, <3>3
    <2>3. QED
      BY <2>1, <2>2
  <1>18. Linked(r, next', prev')
    <2>1. SUFFICES ASSUME NEW i \in 1..(Len(s) - c)
                   PROVE  next'[r[i]] = At(r, i + 1) /\ prev'[r[i]] = At(r, i - 1)
      BY <1>10 DEF Linked
    <2>2. r[i] \in ToSet(r) /\ r[i] = s[i + c] /\ i + c \in 1..Len(s)
      BY <1>10, <1>12
    <2>3. next[s[i + c]] = At(s, (i + c) + 1) /\ prev[s[i + c]] = At(s, (i + c) - 1)
      BY <1>2, <2>2 DEF Linked
    <2>4. At(r, i + 1) = At(s, (i + c) + 1)
      <3>1. i + 1 \in 0..(Len(s) - c + 1) /\ i + 1 > 0 /\ (i + 1) + c = (i + c) + 1
        BY <1>8
      <3>2. QED
        BY <1>13, <3>1
    <2>5. next'[r[i]] = At(r, i + 1)
      BY <1>16, <2>2, <2>3, <2>4
    <2>6. CASE i = 1
      <3>1. r[i] = head' /\ At(r, i - 1) = NULL
        BY <1>5, <1>8, <1>10, <2>6 DEF At
      <3>2. QED
        BY <1>17, <2>2, <2>5, <3>1
    <2>7. CASE i # 1
      <3>1. i - 1 \in 0..(Len(s) - c + 1) /\ i - 1 > 0 /\ (i - 1) + c = (i + c) - 1
            /\ 1 \in 1..(Len(s) - c)
        BY <1>8, <2>7
      <3>2. At(r, i - 1) = At(s, (i + c) - 1)
        BY <1>13, <3>1
      <3>3. r[i] # r[1]
        BY <1>9, <1>10, <2>7, <3>1 DEF Once
      <3>4. head' = r[1]
        BY <1>10, <1>14, <3>1 DEF At
      <3>5. QED
        BY <1>17, <2>2, <2>3, <2>5, <3>2, <3>3, <3>4
    <2>8. QED
      BY <2>6, <2>7
  <1>19. expire' = [u \in ToSet(r) |-> expire[u]]
    <2>1. DOMAIN expire = DOMAIN next
      BY DEF LInv, LinksTyped
    <2>2. QED
      BY <1>5, <1>9, <1>11, <2>1 DEF Deleted, Restrict
  <1>20. Sorted(r, expire')
    <2>1. SUFFICES ASSUME NEW i \in 1..(Len(s) - c), NEW j \in 1..(Len(s) - c), i <= j
                   PROVE  expire'[r[i]] <= expire'[r[j]]
      BY <1>10 DEF Sorted
    <2>2. i + c <= j + c /\ i + c \in 1..Len(s) /\ j + c \in 1..Len(s)
      BY <1>8, <2>1
    <2>3. expire[s[i + c]] <= expire[s[j + c]]
      BY <1>2, <2>2 DEF Sorted
    <2>4. QED
      BY <1>10, <1>12, <1>19, <2>3
  <1>21. IsList(r)'
    BY <1>9, <1>14, <1>15, <1>16, <1>18, <1>20 DEF IsList
  <1>22. LinksTyped'
    <2>1. IsMember(next') /\ IsMember(prev') /\ DOMAIN prev' = DOMAIN next'
          /\ DOMAIN next' = ToSet(r)
      BY <1>16, <1>17 DEF IsMember
    <2>2. expire' \in [ToSet(r) -> Times]
      BY <1>11, <1>19 DEF LInv, LinksTyped
    <2>3. fired' \in Seq(Timers)
      BY <1>5, <1>9
    <2>4. QED
      BY <1>5, <2>1, <2>2, <2>3 DEF LInv, LinksTyped
  <1>23. LInv' /\ Walk(next, head)' = r
    BY <1>21, <1>22, ListAfter DEF LInv
  <1>24. Abstract!Due(s, expire, cur, c)
    BY <1>7 DEF DueAre, Abstract!Due
  <1>25. expire' = Abstract!Restrict(expire, Abstract!ToSet(r))
    BY <1>19 DEF Abstract!Restrict, Abstract!ToSet, ToSet
  <1>26. QED
    BY <1>3, <1>5, <1>7, <1>9, <1>23, <1>24, <1>25 DEF Abstract!Tick

\* An empty function is the empty sequence.
LEMMA NothingIs == \A f : IsMember(f) /\ DOMAIN f = {} <=> f = <<>>
  <1>1. <<>> \in Seq(Timers) /\ Len(<<>>) = 0
    OBVIOUS
  <1>2. IsMember(<<>>) /\ DOMAIN <<>> = {}
    BY <1>1 DEF IsMember
  <1>3. ASSUME NEW f, IsMember(f), DOMAIN f = {}
        PROVE  f = <<>>
    <2>1. f \in [1..0 -> Timers]
      BY <1>3 DEF IsMember
    <2>2. f \in Seq(Timers)
      BY <2>1
    <2>3. Len(f) = 0
      BY <1>3, <2>2
    <2>4. QED
      BY <2>2, <2>3
  <1>4. QED
    BY <1>2, <1>3

LEMMA EmptyAfter ==
    ASSUME LinksTyped', DOMAIN next' = {}, head' = NULL
    PROVE  LInv' /\ Walk(next, head)' = <<>>
  <1>1. PICK r \in Seq(Timers) : r = <<>>
    <2>1. <<>> \in Seq(Timers)
      OBVIOUS
    <2>2. QED
      BY <2>1
  <1>2. Len(r) = 0 /\ 1..Len(r) = {} /\ ToSet(r) = {}
    BY <1>1 DEF ToSet
  <1>3. Once(r) /\ At(r, 1) = NULL /\ Linked(r, next', prev') /\ Sorted(r, expire')
    BY <1>2 DEF Once, At, Linked, Sorted
  <1>4. IsList(r)'
    BY <1>1, <1>2, <1>3 DEF IsList
  <1>5. LInv' /\ Walk(next, head)' = r
    BY <1>4, ListAfter
  <1>6. QED
    BY <1>1, <1>5

LEMMA DestroyStep ==
    ASSUME LInv, Destroy
    PROVE  LInv' /\ Abstract!Clear
  <1>1. PICK s \in Seq(Timers) : IsList(s)
    BY DEF LInv
  <1>2. ToSet(s) = DOMAIN next /\ DOMAIN prev = DOMAIN next /\ DOMAIN expire = DOMAIN next
    BY <1>1, ListParts DEF LInv, LinksTyped
  <1>3. ToSet(Walk(next, head)) = DOMAIN next
    BY <1>1, <1>2, WalkList DEF ToSet, ToSet
  <1>4. /\ head' = NULL /\ tail' = tail /\ fired' = fired /\ destroyed' = TRUE
        /\ next' = Deleted(next, DOMAIN next)
        /\ prev' = Deleted(prev, DOMAIN next)
        /\ expire' = Deleted(expire, DOMAIN next)
    BY <1>3 DEF Destroy
  <1>5. \A f : DOMAIN f = DOMAIN next =>
            IsMember(Deleted(f, DOMAIN next)) /\ DOMAIN Deleted(f, DOMAIN next) = {}
    BY DEF IsMember, Deleted, Restrict
  <1>6. IsMember(next') /\ IsMember(prev') /\ IsMember(expire')
        /\ DOMAIN next' = {} /\ DOMAIN prev' = {} /\ DOMAIN expire' = {}
    BY <1>2, <1>4, <1>5
  <1>7. expire' = <<>>
    BY <1>6, NothingIs
  <1>8. expire' \in [DOMAIN next' -> Times]
    BY <1>6, <1>7
  <1>9. LinksTyped'
    BY <1>4, <1>6, <1>8 DEF LInv, LinksTyped
  <1>10. LInv' /\ Walk(next, head)' = <<>>
    BY <1>4, <1>6, <1>9, EmptyAfter DEF LInv
  <1>11. QED
    BY <1>4, <1>7, <1>10 DEF Abstract!Clear

\* tick on an empty list is a tick of the sequence at any time.
LEMMA TickEmptyStep ==
    ASSUME LInv, TickEmpty
    PROVE  LInv' /\ \E cur \in Times : Abstract!Tick(cur)
  <1>1. /\ head = NULL /\ fired' = <<>> /\ expire' = expire /\ destroyed' = destroyed
        /\ head' = head /\ tail' = tail /\ prev' = prev /\ next' = next
    BY DEF TickEmpty, links
  <1>2. PICK s \in Seq(Timers) : IsList(s)
    BY DEF LInv
  <1>3. s = <<>> /\ ToSet(s) = DOMAIN next /\ \A i \in 1..Len(s) : s[i] # NULL
    <2>1. /\ head = IF s = <<>> THEN NULL ELSE s[1]
          /\ ToSet(s) = DOMAIN next /\ \A i \in 1..Len(s) : s[i] # NULL
      BY <1>2, ListParts
    <2>2. s # <<>> => 1 \in 1..Len(s)
      OBVIOUS
    <2>3. QED
      BY <1>1, <2>1, <2>2
  <1>4. DOMAIN next = {}
    <2>1. ToSet(s) = {}
      BY <1>3 DEF ToSet
    <2>2. QED
      BY <1>3, <2>1
  <1>5. LinksTyped'
    BY <1>1 DEF LInv, LinksTyped
  <1>6. LInv' /\ Walk(next, head)' = <<>>
    BY <1>1, <1>4, <1>5, EmptyAfter DEF LInv
  <1>7. Walk(next, head) = <<>>
    BY <1>2, <1>3, WalkList
  <1>8. expire = <<>>
    <2>1. IsMember(expire) /\ DOMAIN expire = {}
      BY <1>4 DEF LInv, LinksTyped, IsMember
    <2>2. QED
      BY <2>1, NothingIs
  <1>9. PICK cur \in Times : TRUE
    BY TimerListAssumption DEF LInv
  <1>10. Abstract!Tick(cur)
    <2>1. Abstract!Due(<<>>, expire, cur, 0) /\ 0 \in 0..Len(<<>>)
      BY DEF Abstract!Due
    <2>2. SubSeq(<<>>, 1, 0) = <<>> /\ SubSeq(<<>>, 0 + 1, Len(<<>>)) = <<>>
      OBVIOUS
    <2>3. Abstract!Restrict(expire, Abstract!ToSet(<<>>)) = <<>>
      <3>1. Abstract!ToSet(<<>>) = {}
        BY DEF Abstract!ToSet
      <3>2. DOMAIN Abstract!Restrict(expire, {}) = {}
            /\ IsMember(Abstract!Restrict(expire, {}))
        BY DEF Abstract!Restrict, IsMember
      <3>3. QED
        BY <3>1, <3>2, NothingIs
    <2>4. QED
      BY <1>1, <1>6, <1>7, <1>8, <2>1, <2>2, <2>3 DEF Abstract!Tick
  <1>11. QED
    BY <1>6, <1>10

LEMMA InitStep ==
    Init => LInv /\ Abstract!Init
  <1>1. SUFFICES ASSUME Init
                 PROVE  LInv /\ Abstract!Init
    OBVIOUS
  <1>2. /\ head = NULL /\ tail = NULL /\ prev = <<>> /\ next = <<>> /\ expire = <<>>
        /\ fired = <<>> /\ destroyed = FALSE
    BY <1>1 DEF Init
  <1>3. PICK r \in Seq(Timers) : r = <<>>
    <2>1. <<>> \in Seq(Timers)
      OBVIOUS
    <2>2. QED
      BY <2>1
  <1>4. Len(r) = 0 /\ 1..Len(r) = {} /\ ToSet(r) = {}
    BY <1>3 DEF ToSet
  <1>5. IsMember(<<>>) /\ DOMAIN <<>> = {}
    BY NothingIs
  <1>6. Once(r) /\ At(r, 1) = NULL /\ Linked(r, next, prev) /\ Sorted(r, expire)
    BY <1>4 DEF Once, At, Linked, Sorted
  <1>7. IsList(r)
    BY <1>2, <1>3, <1>4, <1>5, <1>6 DEF IsList
  <1>8. LinksTyped
    <2>1. <<>> \in [{} -> Times]
      BY <1>5 DEF IsMember
    <2>2. QED
      BY <1>2, <1>3, <1>5, <2>1 DEF LinksTyped
  <1>9. Walk(next, head) = <<>>
    BY <1>3, <1>7, WalkList
  <1>10. QED
    BY <1>1, <1>2, <1>7, <1>8, <1>9 DEF LInv, Abstract!Init

\* Every step keeps the links in order and is a step of the sequence.
LEMMA NextStep ==
    LInv /\ [Next]_vars =>
        LInv' /\ [Abstract!Next]_Abstract!vars
  <1>1. SUFFICES ASSUME LInv, [Next]_vars
                 PROVE  LInv' /\ [Abstract!Next]_Abstract!vars
    OBVIOUS
  <1>2. ASSUME NEW t \in Timers, NEW e \in Times, AddTimer(t, e)
        PROVE  LInv' /\ Abstract!Next
    <2>1. LInv' /\ Abstract!Add(t, e)
      BY <1>1, <1>2, AddFrontStep, AddAfterStep DEF AddTimer
    <2>2. QED
      BY <2>1 DEF Abstract!Next
  <1>3. ASSUME NEW t \in Timers, NEW e \in Times, AdjustTimer(t, e)
        PROVE  LInv' /\ Abstract!Next
    <2>1. LInv' /\ Abstract!Adjust(t, e)
      BY <1>1, <1>3, AdjustStayStep, AdjustHeadStep, AdjustMiddleStep DEF AdjustTimer
    <2>2. QED
      BY <2>1 DEF Abstract!Next
  <1>4. ASSUME NEW t \in Timers, DelTimer(t)
        PROVE  LInv' /\ Abstract!Next
    <2>1. LInv' /\ Abstract!Delete(t)
      BY <1>1, <1>4, DelTimerStep
    <2>2. QED
      BY <2>1 DEF Abstract!Next
  <1>5. ASSUME NEW cur \in Times, Tick(cur)
        PROVE  LInv' /\ Abstract!Next
    <2>1. LInv' /\ Abstract!Tick(cur)
      BY <1>1, <1>5, TickStep
    <2>2. QED
      BY <2>1 DEF Abstract!Next
  <1>6. CASE TickEmpty
    <2>1. LInv' /\ \E cur \in Times : Abstract!Tick(cur)
      BY <1>1, <1>6, TickEmptyStep
    <2>2. QED
      BY <2>1 DEF Abstract!Next
  <1>7. CASE Destroy
    <2>1. LInv' /\ Abstract!Clear
      BY <1>1, <1>7, DestroyStep
    <2>2. QED
      BY <2>1 DEF Abstract!Next
  <1>8. CASE UNCHANGED vars
    <2>1. /\ head' = head /\ tail' = tail /\ prev' = prev /\ next' = next
          /\ expire' = expire /\ fired' = fired /\ destroyed' = destroyed
      BY <1>8 DEF vars, links
    <2>2. PICK s \in Seq(Timers) : IsList(s)
      BY <1>1 DEF LInv
    <2>3. IsList(s)'
      BY <2>1, <2>2 DEF IsList
    <2>4. LinksTyped'
      BY <1>1, <2>1 DEF LInv, LinksTyped
    <2>5. LInv' /\ Walk(next, head)' = s
      BY <1>1, <2>3, <2>4, ListAfter DEF LInv
    <2>6. Walk(next, head) = s
      BY <2>2, WalkList
    <2>7. QED
      BY <2>1, <2>5, <2>6 DEF Abstract!vars
  <1>9. QED
    BY <1>1, <1>2, <1>3, <1>4, <1>5, <1>6, <1>7, <1>8 DEF Next

LEMMA LInvTypes == LInv => TypeOK
  <1>1. SUFFICES ASSUME LInv PROVE TypeOK
    OBVIOUS
  <1>2. PICK s \in Seq(Timers) : IsList(s)
    BY <1>1 DEF LInv
  <1>3. /\ ToSet(s) = DOMAIN next /\ DOMAIN prev = DOMAIN next
        /\ Linked(s, next, prev) /\ IsMember(next) /\ IsMember(prev)
        /\ \A j \in 1..Len(s) : s[j] \in ToSet(s) /\ s[j] # NULL
        /\ \A u \in ToSet(s) : \E i \in 1..Len(s) : u = s[i]
        /\ \A u \in ToSet(s) : u \in Timers /\ u # NULL
        /\ head = IF s = <<>> THEN NULL ELSE s[1]
    BY <1>1, <1>2, ListParts
  <1>4. \A i \in Int : At(s, i) \in DOMAIN next \cup {NULL}
    BY <1>3 DEF At
  <1>5. ASSUME NEW u \in DOMAIN next
        PROVE  next[u] \in DOMAIN next \cup {NULL} /\ prev[u] \in DOMAIN next \cup {NULL}
    <2>1. PICK i \in 1..Len(s) : u = s[i]
      BY <1>3
    <2>2. next[u] = At(s, i + 1) /\ prev[u] = At(s, i - 1) /\ i + 1 \in Int /\ i - 1 \in Int
      BY <1>3, <2>1 DEF Linked
    <2>3. QED
      BY <1>4, <2>2
  <1>6. /\ prev \in [DOMAIN next -> DOMAIN next \cup {NULL}]
        /\ next \in [DOMAIN next -> DOMAIN next \cup {NULL}]
    BY <1>3, <1>5 DEF IsMember
  <1>7. head \in DOMAIN next \cup {NULL}
    <2>1. s # <<>> => 1 \in 1..Len(s)
      OBVIOUS
    <2>2. QED
      BY <1>3, <2>1
  <1>8. QED
    BY <1>1, <1>3, <1>6, <1>7 DEF LInv, LinksTyped, TypeOK, Allocated

LEMMA LInvLinks == LInv => WellLinked
  <1>1. SUFFICES ASSUME LInv PROVE WellLinked
    OBVIOUS
  <1>2. PICK s \in Seq(Timers) : IsList(s)
    BY <1>1 DEF LInv
  <1>3. /\ Once(s) /\ ToSet(s) = DOMAIN next /\ Linked(s, next, prev)
        /\ head = IF s = <<>> THEN NULL ELSE s[1]
        /\ tail = At(s, Len(s)) \/ s = <<>>
    BY <1>1, <1>2, ListParts DEF IsList
  <1>4. Walk(next, head) = s
    BY <1>2, WalkList
  <1>5. IsInjective(s)
    BY <1>3 DEF Once, IsInjective
  <1>6. head # NULL => Walk(prev, tail) = Reverse(s)
    <2>1. HAVE head # NULL
    <2>2. tail = At(s, Len(s))
      BY <1>3, <2>1
    <2>3. Walk(prev, At(s, Len(s))) = Reverse(s)
      BY <1>3, WalkBack
    <2>4. QED
      BY <2>2, <2>3
  <1>7. Reverse(s) = Reverse(s) /\ ToSet(s) = ToSet(s)
    BY DEF Reverse, Reverse, ToSet, ToSet
  <1>8. QED
    BY <1>3, <1>4, <1>5, <1>6, <1>7 DEF WellLinked, Allocated

\* The list's state is always of its type, and head never points at a timer
\* that has been deleted (11_2.cpp:117-143 and 150-178).
THEOREM LinksTypes == Spec => []TypeOK
  <1>1. Init => LInv
    BY InitStep
  <1>2. LInv /\ [Next]_vars => LInv'
    BY NextStep
  <1>3. LInv => TypeOK
    BY LInvTypes
  <1>4. QED
    BY <1>1, <1>2, <1>3, PTL DEF Spec

\* The links are always those of one list: forwards and backwards they visit
\* every timer between new and delete, each once.
THEOREM LinksAreAList == Spec => []WellLinked
  <1>1. Init => LInv
    BY InitStep
  <1>2. LInv /\ [Next]_vars => LInv'
    BY NextStep
  <1>3. LInv => WellLinked
    BY LInvLinks
  <1>4. QED
    BY <1>1, <1>2, <1>3, PTL DEF Spec

\* sort_timer_lst implements the sorted sequence that the server counts on.
THEOREM ListIsSorted == Spec => ImplementsSortedTimers
  <1>1. Init => LInv /\ Abstract!Init
    BY InitStep
  <1>2. LInv /\ [Next]_vars =>
            LInv' /\ [Abstract!Next]_Abstract!vars
    BY NextStep
  <1>3. QED
    BY <1>1, <1>2, PTL DEF Spec, ImplementsSortedTimers, Abstract!Spec

-----------------------------------------------------------------------------
(* Second part: the wheel.                                                 *)

\* How far the wheel has to turn to slot s; more than one rotation is needed for
\* a timer that this tick() has already passed.
Dist(s) == IF s >= cur_slot THEN s - cur_slot ELSE s - cur_slot + N
Passed(s, i) == IF s = cur_slot /\ i < tmp THEN N ELSE 0

\* What the slot and the rotation of a timer say agrees with the turns that are
\* left to it.
Remaining ==
    \A s \in Slots : \A i \in 1..Len(slots[s]) :
        left[slots[s][i]] = N * rotation[slots[s][i]] + Dist(s) + Passed(s, i)

WheelInv == WheelTypeOK /\ Filed /\ OnceEach /\ Found /\ Remaining

-----------------------------------------------------------------------------
(* Lemmas about sequences and division.                                    *)

\* Taking one element out of a sequence moves the later ones up.
LEMMA UnlinkedProperties ==
    ASSUME NEW S, NEW s \in Seq(S), NEW i \in 1..Len(s)
    PROVE  /\ Unlinked(s, i) \in Seq(S)
           /\ Len(Unlinked(s, i)) = Len(s) - 1
           /\ \A j \in 1..(Len(s) - 1) :
                Unlinked(s, i)[j] = IF j < i THEN s[j] ELSE s[j + 1]
  <1>1. Len(s) - 1 \in Nat
    OBVIOUS
  <1>2. \A j \in 1..(Len(s) - 1) : (IF j < i THEN s[j] ELSE s[j + 1]) \in S
    OBVIOUS
  <1>3. QED
    BY <1>1, <1>2 DEF Unlinked

\* An element put in front of a sequence moves the others down.
LEMMA FrontProperties ==
    ASSUME NEW S, NEW s \in Seq(S), NEW t \in S
    PROVE  /\ <<t>> \o s \in Seq(S)
           /\ Len(<<t>> \o s) = Len(s) + 1
           /\ (<<t>> \o s)[1] = t
           /\ \A j \in 1..Len(s) : (<<t>> \o s)[j + 1] = s[j]
  OBVIOUS

\* Quotient and remainder.
LEMMA DivMod ==
    ASSUME NEW k \in Nat, NEW n \in Nat \ {0}
    PROVE  /\ k \div n \in Nat /\ k % n \in 0..(n - 1)
           /\ k = n * (k \div n) + (k % n)
  OBVIOUS

\* A step round a circle of n places.
LEMMA ModSmall ==
    ASSUME NEW n \in Nat \ {0}, NEW a \in 0..(n - 1), NEW b \in 0..n
    PROVE  (a + b) % n = IF a + b < n THEN a + b ELSE a + b - n
  OBVIOUS

\* On a circle of n places, b places on from a is b places away from a.
LEMMA CircleDistance ==
    ASSUME NEW n \in Nat \ {0}, NEW a \in 0..(n - 1), NEW b \in 0..(n - 1)
    PROVE  /\ (a + b) % n \in 0..(n - 1)
           /\ b = IF (a + b) % n >= a THEN ((a + b) % n) - a ELSE ((a + b) % n) - a + n
  <1>1. b \in 0..n
    OBVIOUS
  <1>2. (a + b) % n = IF a + b < n THEN a + b ELSE a + b - n
    BY <1>1, ModSmall
  <1>3. QED
    BY <1>2

LEMMA ProductType == ASSUME NEW a \in Nat, NEW b \in Nat PROVE a * b \in Nat
  OBVIOUS

\* A timer waits for a whole number of ticks, at least one.
LEMMA TicksPositive ==
    ASSUME NEW timeout \in Timeouts
    PROVE  Ticks(timeout) \in Nat
  BY DivMod, TimerWheelAssumption DEF Ticks

-----------------------------------------------------------------------------
(* The steps.                                                              *)

LEMMA InitInvariant == WheelInit => WheelInv
  BY TimerWheelAssumption
  DEF WheelInit, WheelInv, WheelTypeOK, Filed, OnceEach, Found, Remaining, Slots, Exists

\* add_timer: the slot and the rotation that it computes are those of a timer
\* that waits for its ticks.
LEMMA AddKeeps ==
    ASSUME WheelInv, NEW t \in TwTimers, NEW timeout \in Timeouts, WheelAddTimer(t, timeout)
    PROVE  WheelInv'
  <1> DEFINE k == Ticks(timeout)
             ts == (cur_slot + (k % N)) % N
  <1>1. /\ k \in Nat /\ k \div N \in Nat /\ k % N \in 0..(N - 1)
        /\ k = N * (k \div N) + (k % N)
    BY TicksPositive, DivMod, TimerWheelAssumption
  <1>2. cur_slot \in 0..(N - 1)
    BY DEF WheelInv, WheelTypeOK, Slots
  <1>3. ts \in Slots /\ Dist(ts) = k % N
    BY <1>1, <1>2, CircleDistance, TimerWheelAssumption DEF Slots, Dist
  <1> HIDE DEF k, ts
  <1>4. /\ tmp = 0 /\ tmp' = 0 /\ cur_slot' = cur_slot /\ time_slot[t] = -1
        /\ rotation' = [rotation EXCEPT ![t] = k \div N]
        /\ time_slot' = [time_slot EXCEPT ![t] = ts]
        /\ slots' = [slots EXCEPT ![ts] = <<t>> \o @]
        /\ left' = [left EXCEPT ![t] = k]
    BY DEF WheelAddTimer, AddTo, Exists, k, ts
  <1>5. /\ slots'[ts] \in Seq(TwTimers)
        /\ Len(slots[ts]) \in Nat /\ Len(slots'[ts]) \in Nat
        /\ Len(slots'[ts]) = Len(slots[ts]) + 1
        /\ slots'[ts][1] = t
        /\ \A j \in 1..Len(slots[ts]) : slots'[ts][j + 1] = slots[ts][j]
        /\ \A j \in 2..Len(slots'[ts]) :
                j - 1 \in 1..Len(slots[ts]) /\ slots'[ts][j] = slots[ts][j - 1]
    <2>1. slots[ts] \in Seq(TwTimers) /\ slots'[ts] = <<t>> \o slots[ts]
      BY <1>3, <1>4 DEF WheelInv, WheelTypeOK
    <2>2. /\ slots'[ts] \in Seq(TwTimers)
          /\ Len(slots'[ts]) = Len(slots[ts]) + 1
          /\ slots'[ts][1] = t
          /\ \A j \in 1..Len(slots[ts]) : slots'[ts][j + 1] = slots[ts][j]
      BY <2>1, FrontProperties
    <2>3. ASSUME NEW j \in 2..Len(slots'[ts])
          PROVE  j - 1 \in 1..Len(slots[ts]) /\ slots'[ts][j] = slots[ts][j - 1]
      <3>1. j - 1 \in 1..Len(slots[ts]) /\ (j - 1) + 1 = j
        BY <2>1, <2>2
      <3>2. QED
        BY <2>2, <3>1
    <2>4. QED
      BY <2>2, <2>3
  <1>6. \A s \in Slots \ {ts} : slots'[s] = slots[s]
    BY <1>4 DEF WheelInv, WheelTypeOK
  <1>7. \A s \in Slots : \A i \in 1..Len(slots[s]) : slots[s][i] \in TwTimers \ {t}
    BY <1>4, TimerWheelAssumption DEF WheelInv, WheelTypeOK, Filed, Slots
  <1>8. WheelTypeOK'
    BY <1>1, <1>3, <1>4, <1>5 DEF WheelInv, WheelTypeOK
  <1>9. Filed'
    <2>1. ASSUME NEW s \in Slots, NEW i \in 1..Len(slots'[s])
          PROVE  time_slot'[slots'[s][i]] = s
      <3>1. CASE s # ts
        BY <1>4, <1>6, <1>7, <2>1, <3>1 DEF WheelInv, WheelTypeOK, Filed
      <3>2. CASE s = ts /\ i = 1
        BY <1>4, <1>5, <3>2 DEF WheelInv, WheelTypeOK
      <3>3. CASE s = ts /\ i # 1
        BY <1>3, <1>4, <1>5, <1>7, <2>1, <3>3 DEF WheelInv, WheelTypeOK, Filed
      <3>4. QED
        BY <3>1, <3>2, <3>3
    <2>2. QED
      BY <2>1 DEF Filed, Slots
  <1>10. OnceEach'
    <2>1. ASSUME NEW s \in Slots, NEW i \in 1..Len(slots'[s]), NEW j \in 1..Len(slots'[s]),
                 slots'[s][i] = slots'[s][j]
          PROVE  i = j
      <3>1. CASE s # ts
        BY <1>6, <2>1, <3>1 DEF WheelInv, OnceEach
      <3>2. CASE s = ts
        <4>1. \A m \in 1..Len(slots'[ts]) : m # 1 => slots'[ts][m] # t
          <5>1. ASSUME NEW m \in 1..Len(slots'[ts]), m # 1 PROVE slots'[ts][m] # t
            <6>1. m \in 2..Len(slots'[ts])
              BY <1>5, <5>1
            <6>2. QED
              BY <1>3, <1>5, <1>7, <6>1
          <5>2. QED
            BY <5>1
        <4>2. CASE i = 1 \/ j = 1
          BY <1>5, <2>1, <3>2, <4>1, <4>2
        <4>3. CASE i # 1 /\ j # 1
          <5>1. /\ i - 1 \in 1..Len(slots[ts]) /\ j - 1 \in 1..Len(slots[ts])
                /\ slots[ts][i - 1] = slots[ts][j - 1]
            BY <1>5, <2>1, <3>2, <4>3
          <5>2. i - 1 = j - 1
            BY <1>3, <5>1 DEF WheelInv, OnceEach
          <5>3. QED
            BY <2>1, <5>2
        <4>4. QED
          BY <4>2, <4>3
      <3>3. QED
        BY <3>1, <3>2
    <2>2. QED
      BY <2>1 DEF OnceEach, Slots
  <1>11. Found'
    <2>1. ASSUME NEW u \in TwTimers, time_slot'[u] # -1
          PROVE  \E i \in 1..Len(slots'[time_slot'[u]]) : slots'[time_slot'[u]][i] = u
      <3>1. CASE u = t
        <4>1. time_slot'[u] = ts /\ 1 \in 1..Len(slots'[ts])
          BY <1>3, <1>4, <1>5, <3>1 DEF WheelInv, WheelTypeOK
        <4>2. QED
          BY <1>5, <3>1, <4>1
      <3>2. CASE u # t
        <4>1. time_slot'[u] = time_slot[u] /\ time_slot[u] \in Slots
          BY <1>4, <2>1, <3>2 DEF WheelInv, WheelTypeOK
        <4>2. PICK i \in 1..Len(slots[time_slot[u]]) : slots[time_slot[u]][i] = u
          BY <2>1, <4>1 DEF WheelInv, Found, Exists
        <4>3. CASE time_slot[u] = ts
          <5>1. i + 1 \in 1..Len(slots'[ts]) /\ slots'[ts][i + 1] = u
            BY <1>5, <4>2, <4>3
          <5>2. QED
            BY <4>1, <4>3, <5>1
        <4>4. CASE time_slot[u] # ts
          BY <1>6, <4>1, <4>2, <4>4
        <4>5. QED
          BY <4>3, <4>4
      <3>3. QED
        BY <3>1, <3>2
    <2>2. QED
      BY <2>1 DEF Found, Exists
  <1>12. Remaining'
    <2>1. ASSUME NEW s \in Slots, NEW i \in 1..Len(slots'[s])
          PROVE  left'[slots'[s][i]] = N * rotation'[slots'[s][i]] + Dist(s)
      <3>1. CASE s = ts /\ i = 1
        <4>1. left'[t] = k /\ rotation'[t] = k \div N
          BY <1>4 DEF WheelInv, WheelTypeOK
        <4>2. QED
          BY <1>1, <1>3, <1>5, <3>1, <4>1
      <3>2. CASE ~(s = ts /\ i = 1)
        <4>1. PICK j \in 1..Len(slots[s]) : slots'[s][i] = slots[s][j]
          <5>1. CASE s = ts
            <6>1. i \in 2..Len(slots'[ts])
              BY <1>5, <2>1, <3>2, <5>1
            <6>2. QED
              BY <1>5, <5>1, <6>1
          <5>2. CASE s # ts
            BY <1>6, <2>1, <5>2
          <5>3. QED
            BY <5>1, <5>2
        <4>2. left[slots[s][j]] = N * rotation[slots[s][j]] + Dist(s) + 0
          BY <1>4, <4>1 DEF WheelInv, Remaining, Passed
        <4>3. /\ left'[slots[s][j]] = left[slots[s][j]]
              /\ rotation'[slots[s][j]] = rotation[slots[s][j]]
              /\ left[slots[s][j]] \in Int
          BY <1>4, <1>7, <4>1 DEF WheelInv, WheelTypeOK
        <4>4. N * rotation[slots[s][j]] \in Int /\ Dist(s) \in Int
          <5>1. rotation[slots[s][j]] \in Nat /\ N \in Nat
            BY <1>7, <4>1, TimerWheelAssumption DEF WheelInv, WheelTypeOK
          <5>2. N * rotation[slots[s][j]] \in Nat
            BY <5>1, ProductType
          <5>3. Dist(s) \in Int
            BY <1>2, <5>1 DEF Dist, Slots
          <5>4. QED
            BY <5>2, <5>3
        <4>5. QED
          BY <4>1, <4>2, <4>3, <4>4
      <3>3. QED
        BY <3>1, <3>2
    <2>2. ASSUME NEW s \in Slots, NEW i \in 1..Len(slots'[s])
          PROVE  /\ Dist(s)' = Dist(s) /\ Passed(s, i)' = 0
                 /\ N * rotation'[slots'[s][i]] \in Int /\ Dist(s) \in Int
      <3>1. slots'[s][i] \in TwTimers
        BY <1>8, <2>2 DEF WheelTypeOK
      <3>2. rotation'[slots'[s][i]] \in Nat /\ N \in Nat
        BY <1>8, <3>1, TimerWheelAssumption DEF WheelTypeOK
      <3>3. N * rotation'[slots'[s][i]] \in Nat
        BY <3>2, ProductType
      <3>4. /\ Dist(s)' = Dist(s) /\ Dist(s) \in Int
        BY <1>2, <1>4, <3>2 DEF Dist, Slots
      <3>5. Passed(s, i)' = 0
        BY <1>4, <2>2 DEF Passed
      <3>6. QED
        BY <3>3, <3>4, <3>5
    <2>3. QED
      BY <2>1, <2>2 DEF Remaining, Slots
  <1>13. QED
    BY <1>8, <1>9, <1>10, <1>11, <1>12 DEF WheelInv

\* Taking the timer at place i of slot s out keeps the lists in order and the
\* others on time, in tick() when it is the one that tick() looks at.
LEMMA DeleteKeeps ==
    ASSUME WheelInv, NEW s \in Slots, NEW i \in 1..Len(slots[s]), Delete(s, i),
           UNCHANGED <<cur_slot, tmp>>, tmp = 0 \/ (s = cur_slot /\ tmp = i)
    PROVE  WheelInv'
  <1> DEFINE t == slots[s][i]
  <1>1. slots[s] \in Seq(TwTimers) /\ Len(slots[s]) \in Nat /\ t \in TwTimers
    BY DEF WheelInv, WheelTypeOK
  <1>2. /\ slots'[s] \in Seq(TwTimers)
        /\ Len(slots'[s]) = Len(slots[s]) - 1
        /\ \A j \in 1..Len(slots'[s]) :
                slots'[s][j] = IF j < i THEN slots[s][j] ELSE slots[s][j + 1]
    <2>1. slots'[s] = Unlinked(slots[s], i)
      BY DEF Delete, WheelInv, WheelTypeOK
    <2>2. QED
      BY <1>1, <2>1, UnlinkedProperties
  <1>3. /\ slots' = [slots EXCEPT ![s] = slots'[s]]
        /\ time_slot' = [time_slot EXCEPT ![t] = -1]
        /\ rotation' = [rotation EXCEPT ![t] = 0]
        /\ left' = [left EXCEPT ![t] = 0]
        /\ cur_slot' = cur_slot /\ tmp' = tmp
    BY DEF Delete, WheelInv, WheelTypeOK
  \* Where the timer at place j of slot u was.
  <1>4. \A u \in Slots : \A j \in 1..Len(slots'[u]) : \E m \in 1..Len(slots[u]) :
            /\ slots'[u][j] = slots[u][m]
            /\ slots[u][m] \in TwTimers \ {t}
            /\ Passed(u, j)' = Passed(u, m)
            /\ m = IF u = s /\ j >= i THEN j + 1 ELSE j
    <2>1. SUFFICES ASSUME NEW u \in Slots, NEW j \in 1..Len(slots'[u])
                   PROVE  LET m == IF u = s /\ j >= i THEN j + 1 ELSE j IN
                            /\ m \in 1..Len(slots[u])
                            /\ slots'[u][j] = slots[u][m]
                            /\ slots[u][m] \in TwTimers \ {t}
                            /\ Passed(u, j)' = Passed(u, m)
      BY <2>1
    <2>2. CASE u # s
      <3>1. slots'[u] = slots[u]
        BY <1>3, <2>2 DEF WheelInv, WheelTypeOK
      <3>2. slots[u][j] \in TwTimers /\ time_slot[slots[u][j]] = u /\ time_slot[t] = s
        BY <3>1 DEF WheelInv, WheelTypeOK, Filed
      <3>3. QED
        BY <1>3, <2>2, <3>1, <3>2 DEF Passed
    <2>3. CASE u = s
      <3> DEFINE m == IF j >= i THEN j + 1 ELSE j
      <3>1. m \in 1..Len(slots[s]) /\ m # i /\ slots'[s][j] = slots[s][m]
        BY <1>1, <1>2, <2>3
      <3>2. slots[s][m] \in TwTimers \ {t}
        BY <1>1, <3>1 DEF WheelInv, OnceEach
      <3>3. Passed(s, j)' = Passed(s, m)
        <4>1. tmp' = tmp /\ cur_slot' = cur_slot /\ tmp \in Nat /\ j \in Nat \ {0}
          BY <1>1, <1>2, <1>3, <2>3 DEF WheelInv, WheelTypeOK
        <4>2. CASE s = cur_slot /\ tmp = i
          BY <1>1, <4>1, <4>2 DEF Passed
        <4>3. CASE tmp = 0
          BY <1>1, <4>1, <4>3 DEF Passed
        <4>4. QED
          BY <4>2, <4>3
      <3>4. QED
        BY <2>3, <3>1, <3>2, <3>3
    <2>4. QED
      BY <2>2, <2>3
  <1>5. WheelTypeOK'
    <2>1. slots' \in [Slots -> Seq(TwTimers)]
      BY <1>2, <1>3 DEF WheelInv, WheelTypeOK
    <2>2. /\ rotation' \in [TwTimers -> Nat] /\ left' \in [TwTimers -> Int]
          /\ time_slot' \in [TwTimers -> Slots \cup {-1}]
      BY <1>1, <1>3 DEF WheelInv, WheelTypeOK
    <2>3. QED
      BY <1>3, <2>1, <2>2 DEF WheelInv, WheelTypeOK
  <1>6. Filed'
    <2>1. ASSUME NEW u \in Slots, NEW j \in 1..Len(slots'[u])
          PROVE  time_slot'[slots'[u][j]] = u
      <3>1. PICK m \in 1..Len(slots[u]) :
                slots'[u][j] = slots[u][m] /\ slots[u][m] \in TwTimers \ {t}
        BY <1>4, <2>1
      <3>2. QED
        BY <1>3, <3>1 DEF WheelInv, WheelTypeOK, Filed
    <2>2. QED
      BY <2>1 DEF Filed, Slots
  <1>7. OnceEach'
    <2>1. ASSUME NEW u \in Slots, NEW j \in 1..Len(slots'[u]), NEW l \in 1..Len(slots'[u]),
                 slots'[u][j] = slots'[u][l]
          PROVE  j = l
      <3>1. PICK m \in 1..Len(slots[u]) :
                /\ slots'[u][j] = slots[u][m]
                /\ m = IF u = s /\ j >= i THEN j + 1 ELSE j
        BY <1>4, <2>1
      <3>2. PICK n \in 1..Len(slots[u]) :
                /\ slots'[u][l] = slots[u][n]
                /\ n = IF u = s /\ l >= i THEN l + 1 ELSE l
        BY <1>4, <2>1
      <3>3. m = n
        BY <2>1, <3>1, <3>2 DEF WheelInv, OnceEach
      <3>4. QED
        BY <1>1, <2>1, <3>1, <3>2, <3>3
    <2>2. QED
      BY <2>1 DEF OnceEach, Slots
  <1>8. Found'
    <2>1. ASSUME NEW u \in TwTimers, time_slot'[u] # -1
          PROVE  \E j \in 1..Len(slots'[time_slot'[u]]) : slots'[time_slot'[u]][j] = u
      <3>1. u # t /\ time_slot'[u] = time_slot[u] /\ time_slot[u] \in Slots
        BY <1>1, <1>3, <2>1 DEF WheelInv, WheelTypeOK
      <3>2. PICK m \in 1..Len(slots[time_slot[u]]) : slots[time_slot[u]][m] = u
        BY <2>1, <3>1 DEF WheelInv, Found, Exists
      <3>3. CASE time_slot[u] # s
        BY <1>3, <3>1, <3>2, <3>3 DEF WheelInv, WheelTypeOK
      <3>4. CASE time_slot[u] = s
        <4>1. m # i
          BY <3>1, <3>2, <3>4
        <4>2. CASE m < i
          <5>1. m \in 1..Len(slots'[s]) /\ slots'[s][m] = u
            BY <1>1, <1>2, <3>2, <3>4, <4>2
          <5>2. QED
            BY <3>1, <3>4, <5>1
        <4>3. CASE m > i
          <5>1. m - 1 \in 1..Len(slots'[s]) /\ ~(m - 1 < i) /\ (m - 1) + 1 = m
            BY <1>1, <1>2, <3>2, <3>4, <4>3
          <5>2. slots'[s][m - 1] = u
            BY <1>2, <3>2, <3>4, <5>1
          <5>3. QED
            BY <3>1, <3>4, <5>1, <5>2
        <4>4. QED
          BY <1>1, <3>2, <3>4, <4>1, <4>2, <4>3
      <3>5. QED
        BY <3>3, <3>4
    <2>2. QED
      BY <2>1 DEF Found, Exists
  <1>9. Remaining'
    <2>1. ASSUME NEW u \in Slots, NEW j \in 1..Len(slots'[u])
          PROVE  left'[slots'[u][j]] =
                    N * rotation'[slots'[u][j]] + Dist(u)' + Passed(u, j)'
      <3>1. PICK m \in 1..Len(slots[u]) :
                /\ slots'[u][j] = slots[u][m] /\ slots[u][m] \in TwTimers \ {t}
                /\ Passed(u, j)' = Passed(u, m)
        BY <1>4, <2>1
      <3>2. left[slots[u][m]] = N * rotation[slots[u][m]] + Dist(u) + Passed(u, m)
        BY DEF WheelInv, Remaining
      <3>3. /\ left'[slots[u][m]] = left[slots[u][m]]
            /\ rotation'[slots[u][m]] = rotation[slots[u][m]]
            /\ Dist(u)' = Dist(u)
        BY <1>3, <3>1 DEF WheelInv, WheelTypeOK, Dist
      <3>4. QED
        BY <3>1, <3>2, <3>3
    <2>2. QED
      BY <2>1 DEF Remaining, Slots
  <1>10. QED
    BY <1>5, <1>6, <1>7, <1>8, <1>9 DEF WheelInv

\* A timer passed in tick() has one rotation less and the whole wheel before it.
LEMMA PassKeeps == ASSUME WheelInv, TickPass PROVE WheelInv'
  <1> DEFINE t == slots[cur_slot][tmp]
  <1>1. /\ cur_slot \in Slots /\ tmp \in 1..Len(slots[cur_slot]) /\ tmp \in Nat
        /\ t \in TwTimers /\ rotation[t] \in Nat /\ rotation[t] > 0
        /\ slots' = slots /\ time_slot' = time_slot /\ left' = left
        /\ cur_slot' = cur_slot /\ tmp' = tmp + 1
        /\ rotation' = [rotation EXCEPT ![t] = rotation[t] - 1]
    BY DEF TickPass, Current, WheelInv, WheelTypeOK
  <1>2. WheelTypeOK'
    BY <1>1 DEF WheelInv, WheelTypeOK
  <1>3. Filed' /\ OnceEach' /\ Found'
    BY <1>1 DEF WheelInv, Filed, OnceEach, Found, Exists, Slots
  <1>4. Remaining'
    <2>1. ASSUME NEW s \in Slots, NEW i \in 1..Len(slots[s])
          PROVE  left[slots[s][i]] =
                    N * rotation'[slots[s][i]] + Dist(s) + Passed(s, i)'
      <3>1. left[slots[s][i]] = N * rotation[slots[s][i]] + Dist(s) + Passed(s, i)
        BY DEF WheelInv, Remaining
      <3>2. slots[s][i] \in TwTimers /\ slots[s] \in Seq(TwTimers)
        BY DEF WheelInv, WheelTypeOK
      <3>3. CASE s = cur_slot /\ i = tmp
        <4>1. /\ slots[s][i] = t /\ rotation'[t] = rotation[t] - 1
              /\ Dist(s) = 0 /\ Passed(s, i) = 0 /\ Passed(s, i)' = N
          BY <1>1, <3>3, TimerWheelAssumption DEF WheelInv, WheelTypeOK, Dist, Passed, Slots
        <4>2. N * rotation[t] = N * (rotation[t] - 1) + N /\ N * (rotation[t] - 1) \in Nat
          <5>1. rotation[t] - 1 \in Nat /\ N \in Nat
            BY <1>1, TimerWheelAssumption
          <5>2. \A a \in Nat, b \in Nat : a * (b + 1) = a * b + a
            OBVIOUS
          <5>3. N * ((rotation[t] - 1) + 1) = N * (rotation[t] - 1) + N
            BY <5>1, <5>2
          <5>4. N * (rotation[t] - 1) \in Nat
            BY <5>1, ProductType
          <5>5. (rotation[t] - 1) + 1 = rotation[t]
            BY <1>1
          <5>6. QED
            BY <5>3, <5>4, <5>5
        <4>3. QED
          BY <3>1, <4>1, <4>2, TimerWheelAssumption
      <3>4. CASE ~(s = cur_slot /\ i = tmp)
        <4>1. slots[s][i] # t
          <5>1. CASE s = cur_slot
            BY <1>1, <3>4, <5>1 DEF WheelInv, OnceEach
          <5>2. CASE s # cur_slot
            BY <1>1, <5>2 DEF WheelInv, Filed
          <5>3. QED
            BY <5>1, <5>2
        <4>2. rotation'[slots[s][i]] = rotation[slots[s][i]]
          BY <1>1, <3>2, <4>1 DEF WheelInv, WheelTypeOK
        <4>3. Passed(s, i)' = Passed(s, i)
          BY <1>1, <3>2, <3>4 DEF Passed
        <4>4. QED
          BY <3>1, <4>2, <4>3
      <3>5. QED
        BY <3>3, <3>4
    <2>2. \A s \in Slots : Dist(s)' = Dist(s)
      BY <1>1 DEF Dist
    <2>3. QED
      BY <1>1, <2>1, <2>2 DEF Remaining, Slots
  <1>5. QED
    BY <1>2, <1>3, <1>4 DEF WheelInv

\* The turn of the wheel brings every slot one place nearer.
LEMMA TurnKeeps == ASSUME WheelInv, TickTurn PROVE WheelInv'
  <1>1. /\ cur_slot \in 0..(N - 1) /\ N \in Nat \ {0} /\ tmp \in Nat
        /\ slots' = slots /\ time_slot' = time_slot /\ rotation' = rotation
        /\ tmp' = 0 /\ tmp > Len(slots[cur_slot])
        /\ cur_slot' = (cur_slot + 1) % N
        /\ left' = [t \in TwTimers |-> IF Exists(t) THEN left[t] - 1 ELSE 0]
    BY TimerWheelAssumption DEF TickTurn, Current, WheelInv, WheelTypeOK, Slots
  <1>2. cur_slot' = IF cur_slot + 1 < N THEN cur_slot + 1 ELSE 0
    <2>1. 1 \in 0..N
      BY <1>1
    <2>2. (cur_slot + 1) % N = IF cur_slot + 1 < N THEN cur_slot + 1 ELSE cur_slot + 1 - N
      BY <1>1, <2>1, ModSmall
    <2>3. QED
      BY <1>1, <2>2
  <1>3. WheelTypeOK'
    BY <1>1, <1>2 DEF WheelInv, WheelTypeOK, Slots
  <1>4. Filed' /\ OnceEach' /\ Found'
    BY <1>1 DEF WheelInv, Filed, OnceEach, Found, Exists, Slots
  <1>5. Remaining'
    <2>1. ASSUME NEW s \in Slots, NEW i \in 1..Len(slots[s])
          PROVE  left'[slots[s][i]] =
                    N * rotation[slots[s][i]] + Dist(s)' + Passed(s, i)'
      <3>1. left[slots[s][i]] = N * rotation[slots[s][i]] + Dist(s) + Passed(s, i)
        BY DEF WheelInv, Remaining
      <3>2. /\ slots[s][i] \in TwTimers /\ Exists(slots[s][i]) /\ s \in 0..(N - 1)
            /\ i \in Nat \ {0} /\ rotation[slots[s][i]] \in Nat
        BY <1>1 DEF WheelInv, WheelTypeOK, Filed, Exists, Slots
      <3>3. left'[slots[s][i]] = left[slots[s][i]] - 1
        BY <1>1, <3>2
      <3>4. Passed(s, i)' = 0
        BY <1>1, <3>2 DEF Passed
      <3>5. Dist(s)' = Dist(s) + Passed(s, i) - 1
        <4>1. CASE s = cur_slot
          <5>1. Len(slots[cur_slot]) \in Nat
            BY <1>1 DEF WheelInv, WheelTypeOK, Slots
          <5>2. i < tmp
            BY <1>1, <4>1, <5>1
          <5>3. Passed(s, i) = N
            BY <1>1, <4>1, <5>2 DEF Passed
          <5>4. Dist(s) = 0
            BY <1>1, <4>1 DEF Dist
          <5>5. Dist(s)' = N - 1
            BY <1>1, <1>2, <4>1 DEF Dist
          <5>6. QED
            BY <1>1, <5>3, <5>4, <5>5
        <4>2. CASE s # cur_slot
          <5>1. Passed(s, i) = 0
            BY <4>2 DEF Passed
          <5>2. Dist(s)' = Dist(s) - 1
            <6>1. s \in 0..(N - 1) /\ s # cur_slot
              BY <3>2, <4>2 DEF Slots
            <6>2. CASE cur_slot + 1 < N
              BY <1>1, <1>2, <6>1, <6>2 DEF Dist
            <6>3. CASE ~(cur_slot + 1 < N)
              <7>1. cur_slot' = 0 /\ cur_slot = N - 1
                BY <1>1, <1>2, <6>3
              <7>2. QED
                BY <1>1, <6>1, <7>1 DEF Dist
            <6>4. QED
              BY <6>2, <6>3
          <5>3. QED
            BY <1>1, <3>2, <5>1, <5>2 DEF Dist
        <4>3. QED
          BY <4>1, <4>2
      <3>6. N * rotation[slots[s][i]] \in Nat
        BY <1>1, <3>2, ProductType
      <3>7. Dist(s) \in Int /\ Passed(s, i) \in Int
        BY <1>1, <3>2 DEF Dist, Passed
      <3>8. QED
        BY <3>1, <3>3, <3>4, <3>5, <3>6, <3>7
    <2>2. QED
      BY <1>1, <2>1 DEF Remaining, Slots
  <1>6. QED
    BY <1>3, <1>4, <1>5 DEF WheelInv

\* Every step keeps the lists in order and the timers on time.
LEMMA StepInvariant == WheelInv /\ [WheelNext]_wheelVars => WheelInv'
  <1> SUFFICES ASSUME WheelInv, [WheelNext]_wheelVars PROVE WheelInv'
    OBVIOUS
  <1>1. ASSUME NEW t \in TwTimers, NEW timeout \in Timeouts, WheelAddTimer(t, timeout) PROVE WheelInv'
    BY <1>1, AddKeeps
  <1>2. ASSUME NEW t \in TwTimers, WheelDelTimer(t) PROVE WheelInv'
    <2>1. time_slot[t] \in Slots
      BY <1>2 DEF WheelDelTimer, Exists, WheelInv, WheelTypeOK
    <2>2. PICK i \in 1..Len(slots[time_slot[t]]) : Delete(time_slot[t], i)
      BY <1>2 DEF WheelDelTimer
    <2>3. tmp = 0 /\ UNCHANGED <<cur_slot, tmp>>
      BY <1>2 DEF WheelDelTimer
    <2>4. QED
      BY <2>1, <2>2, <2>3, DeleteKeeps
  <1>3. CASE WheelTick
    <2>1. /\ WheelTypeOK' /\ Filed' /\ OnceEach' /\ Found'
      BY <1>3 DEF WheelTick, WheelInv, WheelTypeOK, Filed, OnceEach, Found, Exists, Slots
    <2>2. ASSUME NEW s \in Slots, NEW i \in 1..Len(slots[s])
          PROVE  Passed(s, i)' = Passed(s, i) /\ Dist(s)' = Dist(s)
      BY <1>3 DEF WheelTick, Passed, Dist, WheelInv, WheelTypeOK
    <2>3. Remaining'
      BY <1>3, <2>2 DEF WheelTick, WheelInv, Remaining, Slots
    <2>4. QED
      BY <2>1, <2>3 DEF WheelInv
  <1>4. CASE TickPass
    BY <1>4, PassKeeps
  <1>5. CASE TickGoOff
    <2>1. /\ cur_slot \in Slots /\ tmp \in 1..Len(slots[cur_slot])
          /\ Delete(cur_slot, tmp) /\ UNCHANGED <<cur_slot, tmp>>
      BY <1>5 DEF TickGoOff, Current, WheelInv, WheelTypeOK
    <2>2. QED
      BY <2>1, DeleteKeeps
  <1>6. CASE TickTurn
    BY <1>6, TurnKeeps
  <1>7. CASE WheelDestroy
    BY <1>7, TimerWheelAssumption
    DEF WheelDestroy, WheelInv, WheelTypeOK, Filed, OnceEach, Found, Remaining, Slots, Exists
  <1>8. CASE UNCHANGED wheelVars
    BY <1>8
    DEF wheelVars, WheelInv, WheelTypeOK, Filed, OnceEach, Found, Remaining, Slots, Exists,
        Dist, Passed
  <1>9. QED
    BY <1>1, <1>2, <1>3, <1>4, <1>5, <1>6, <1>7, <1>8 DEF WheelNext

\* Every timer is filed once and the turns left to it are those that its slot and
\* its rotation say.
THEOREM WheelInvariance == WheelSpec => []WheelInv
  BY InitInvariant, StepInvariant, PTL DEF WheelSpec

-----------------------------------------------------------------------------
(* The properties of TimerWheel.                                           *)

\* The types of the wheel hold for any number of slots and timers.
THEOREM WheelTypes == WheelSpec => []WheelTypeOK
  BY WheelInvariance, PTL DEF WheelInv

\* Each timer is in the list of its slot once, and in no other.
THEOREM FilingInvariance == WheelSpec => []WellFiled
  <1>1. WheelInv => WellFiled
    BY DEF WheelInv, WellFiled
  <1>2. QED
    BY <1>1, WheelInvariance, PTL

\* In a step of tick(), a timer that is deleted is due, and none that is due is
\* passed by when the wheel turns.
LEMMA StepOnTime ==
    ASSUME WheelInv, [WheelNext]_wheelVars, NEW t \in TwTimers, Exists(t)
    PROVE  /\ (tmp > 0 /\ time_slot'[t] = -1) => left[t] = 0
           /\ (tmp > 0 /\ tmp' = 0) => left[t] > 0
  <1> SUFFICES ASSUME tmp > 0
               PROVE  /\ time_slot'[t] = -1 => left[t] = 0
                      /\ tmp' = 0 => left[t] > 0
    OBVIOUS
  <1>1. /\ N \in Nat \ {0} /\ cur_slot \in Slots /\ cur_slot \in 0..(N - 1) /\ tmp \in Nat
        /\ tmp # 0 /\ time_slot[t] # -1
    BY TimerWheelAssumption DEF WheelInv, WheelTypeOK, Slots, Exists
  <1>2. CASE TickGoOff
    <2>1. /\ tmp \in 1..Len(slots[cur_slot]) /\ rotation[slots[cur_slot][tmp]] = 0
          /\ time_slot' = [time_slot EXCEPT ![slots[cur_slot][tmp]] = -1] /\ tmp' = tmp
      BY <1>2 DEF TickGoOff, Current, Delete
    <2>2. left[slots[cur_slot][tmp]] = 0
      BY <1>1, <2>1 DEF WheelInv, Remaining, Dist, Passed
    <2>3. QED
      BY <1>1, <2>1, <2>2 DEF WheelInv, WheelTypeOK
  <1>3. CASE TickTurn
    <2>1. time_slot' = time_slot /\ tmp > Len(slots[cur_slot])
      BY <1>3 DEF TickTurn, Current
    <2>2. PICK i \in 1..Len(slots[time_slot[t]]) : slots[time_slot[t]][i] = t
      BY DEF WheelInv, Found
    <2>3. time_slot[t] \in Slots /\ time_slot[t] \in 0..(N - 1) /\ rotation[t] \in Nat
      BY <1>1 DEF WheelInv, WheelTypeOK, Slots
    <2>4. left[t] = N * rotation[t] + Dist(time_slot[t]) + Passed(time_slot[t], i)
      BY <2>2, <2>3 DEF WheelInv, Remaining
    <2>5. N * rotation[t] \in Nat
      BY <1>1, <2>3, ProductType
    <2>6. Dist(time_slot[t]) \in Nat /\ Passed(time_slot[t], i) \in Nat
          /\ Dist(time_slot[t]) + Passed(time_slot[t], i) > 0
      <3>1. i \in Nat /\ Len(slots[cur_slot]) \in Nat
        BY <1>1, <2>2, <2>3 DEF WheelInv, WheelTypeOK
      <3>2. QED
        BY <1>1, <2>1, <2>2, <2>3, <3>1 DEF Dist, Passed
    <2>7. QED
      BY <1>1, <2>1, <2>4, <2>5, <2>6
  <1>4. CASE TickPass
    BY <1>1, <1>4 DEF TickPass
  <1>5. CASE UNCHANGED wheelVars
    BY <1>1, <1>5 DEF wheelVars
  <1>6. ~WheelTick /\ ~WheelDestroy /\ (\A u \in TwTimers : ~WheelDelTimer(u))
        /\ (\A u \in TwTimers, timeout \in Timeouts : ~WheelAddTimer(u, timeout))
    BY <1>1 DEF WheelTick, WheelDestroy, WheelDelTimer, WheelAddTimer, AddTo
  <1>7. QED
    BY <1>2, <1>3, <1>4, <1>5, <1>6 DEF WheelNext

\* Every timer goes off after its ticks, neither a turn early nor a turn late,
\* with any number of slots, and whatever is added and deleted meanwhile.
THEOREM Punctuality == WheelSpec => OnTime
  <1>1. WheelInv /\ [WheelNext]_wheelVars =>
            [\A t \in TwTimers : Exists(t) =>
                /\ (tmp > 0 /\ time_slot'[t] = -1) => left[t] = 0
                /\ (tmp > 0 /\ tmp' = 0) => left[t] > 0]_wheelVars
    BY StepOnTime
  <1>2. QED
    BY <1>1, WheelInvariance, PTL DEF WheelSpec, OnTime
=============================================================================
