-------------------------- MODULE IdleServer_proof --------------------------
(***************************************************************************)
(* The idle-connection server closes silent connections only, and its      *)
(* timers are those of its open connections, for any number of descriptors *)
(* and timers.                                                             *)
(***************************************************************************)
EXTENDS IdleServer, FiniteSetTheorems, WellFoundedInduction, TLAPS

Events == Fds \cup {"listen", "pipe"}

ServerTyped ==
    /\ backlog \in Nat /\ open \subseteq Fds
    /\ unread \in [Fds -> 0..MaxUnread] /\ fin \in [Fds -> BOOLEAN]
    /\ edges \subseteq Events /\ batch \subseteq Events
    /\ pipe \subseteq {"SIGALRM", "SIGTERM"} /\ alarm \in BOOLEAN
    /\ pc \in {"wait", "events", "ended"}
    /\ timeout \in BOOLEAN /\ stop_server \in BOOLEAN
    /\ silent \in [Fds -> 0..Limit]

Once(s) == \A i, j \in 1..Len(s) : s[i] = s[j] => i = j
ListTyped ==
    /\ timers \in Seq(Timers) /\ fired \in Seq(Timers)
    /\ Once(timers)
    /\ expire \in [ToSet(timers) -> 0..Limit]

PointersTyped ==
    /\ timer \in [Fds -> Timers \cup {NULL}]
    /\ user_data \in [ToSet(timers) -> Fds]

\* No more connections than descriptors, those that wait for accept included.
Connections == backlog + Cardinality(open) <= Cardinality(Fds)

\* What epoll has reported is still there.
EventsAreTrue ==
    /\ "listen" \in batch => backlog > 0
    /\ \A fd \in Fds : fd \in batch => fd \in open /\ (unread[fd] > 0 \/ fin[fd])

\* The timer of a connection and the connection's silence together are three
\* TIMESLOTs.
SilenceIsTimed ==
    /\ \A fd \in open : expire[timer[fd]] + silent[fd] = Limit
    /\ \A fd \in Fds \ open : silent[fd] = 0

IInv ==
    /\ ServerTyped /\ ListTyped /\ PointersTyped
    /\ Connections /\ TimerOfConnection /\ EventsAreTrue /\ SilenceIsTimed

-----------------------------------------------------------------------------
(* Sequences.                                                              *)

\* r is s with e behind its first k elements.
Inserted(s, k, e, r) ==
    /\ Len(r) = Len(s) + 1
    /\ \A i \in 1..(Len(s) + 1) : /\ i <= k => r[i] = s[i]
                                  /\ i = k + 1 => r[i] = e
                                  /\ i > k + 1 => r[i] = s[i - 1]

\* r is s without its k-th element.
Removed(s, k, r) ==
    /\ Len(r) = Len(s) - 1
    /\ \A i \in 1..(Len(s) - 1) : r[i] = IF i < k THEN s[i] ELSE s[i + 1]

LEMMA InsertAtIs ==
    ASSUME NEW S, NEW s \in Seq(S), NEW e \in S, NEW k \in 0..Len(s)
    PROVE  \E r \in Seq(S) : r = InsertAt(s, k + 1, e) /\ Inserted(s, k, e, r)
  <1>1. Len(s) \in Nat /\ k \in Nat /\ k <= Len(s) /\ (k + 1) - 1 = k
    OBVIOUS
  <1>2. PICK a : a = SubSeq(s, 1, k)
    OBVIOUS
  <1>3. PICK b : b = SubSeq(s, k + 1, Len(s))
    OBVIOUS
  <1>4. a \in Seq(S) /\ Len(a) = k /\ \A i \in 1..k : a[i] = s[i]
    BY <1>2
  <1>5. b \in Seq(S) /\ Len(b) = Len(s) - k /\ \A i \in 1..(Len(s) - k) : b[i] = s[k + i]
    BY <1>3
  <1>6. PICK c : c = a \o <<e>>
    OBVIOUS
  <1>7. c \in Seq(S) /\ Len(c) = k + 1
        /\ \A i \in 1..(k + 1) : c[i] = IF i <= k THEN s[i] ELSE e
    BY <1>1, <1>4, <1>6
  <1>8. PICK r : r = c \o b
    OBVIOUS
  <1>9. r \in Seq(S) /\ Len(r) = Len(s) + 1
    <2>1. c \in Seq(S) /\ b \in Seq(S)
      BY <1>5, <1>7
    <2>2. r \in Seq(S) /\ Len(r) = Len(c) + Len(b)
      BY <1>8, <2>1
    <2>3. Len(c) = k + 1 /\ Len(b) = Len(s) - k
      BY <1>5, <1>7
    <2>4. QED
      BY <1>1, <2>2, <2>3
  <1>10. ASSUME NEW i \in 1..(Len(s) + 1)
         PROVE  /\ i <= k => r[i] = s[i]
                /\ i = k + 1 => r[i] = e
                /\ i > k + 1 => r[i] = s[i - 1]
    <2>1. CASE i <= k + 1
      <3>1. r[i] = c[i] /\ i \in 1..(k + 1)
        BY <1>1, <1>5, <1>7, <1>8, <2>1
      <3>2. QED
        BY <1>1, <1>7, <3>1
    <2>2. CASE i > k + 1
      <3>1. i - (k + 1) \in 1..(Len(s) - k) /\ k + (i - (k + 1)) = i - 1
            /\ ~(i <= k) /\ i # k + 1
        BY <1>1, <2>2
      <3>2. r[i] = b[i - (k + 1)]
        BY <1>1, <1>5, <1>7, <1>8, <2>2
      <3>3. b[i - (k + 1)] = s[i - 1]
        BY <1>5, <3>1
      <3>4. QED
        BY <3>1, <3>2, <3>3
    <2>3. QED
      BY <1>1, <2>1, <2>2
  <1>11. r = InsertAt(s, k + 1, e)
    BY <1>1, <1>2, <1>3, <1>6, <1>8 DEF InsertAt
  <1>12. QED
    BY <1>9, <1>10, <1>11 DEF Inserted

LEMMA RemoveAtIs ==
    ASSUME NEW S, NEW s \in Seq(S), NEW k \in 1..Len(s)
    PROVE  \E r \in Seq(S) : r = RemoveAt(s, k) /\ Removed(s, k, r)
  <1>1. Len(s) \in Nat /\ k \in Nat /\ k >= 1 /\ k <= Len(s)
    OBVIOUS
  <1>2. PICK a : a = SubSeq(s, 1, k - 1)
    OBVIOUS
  <1>3. PICK b : b = SubSeq(s, k + 1, Len(s))
    OBVIOUS
  <1>4. a \in Seq(S) /\ Len(a) = k - 1 /\ \A i \in 1..(k - 1) : a[i] = s[i]
    BY <1>2
  <1>5. b \in Seq(S) /\ Len(b) = Len(s) - k /\ \A i \in 1..(Len(s) - k) : b[i] = s[k + i]
    BY <1>3
  <1>6. PICK r : r = a \o b
    OBVIOUS
  <1>7. r \in Seq(S) /\ Len(r) = Len(s) - 1
    <2>1. a \in Seq(S) /\ b \in Seq(S)
      BY <1>4, <1>5
    <2>2. r \in Seq(S) /\ Len(r) = Len(a) + Len(b)
      BY <1>6, <2>1
    <2>3. Len(a) = k - 1 /\ Len(b) = Len(s) - k
      BY <1>4, <1>5
    <2>4. QED
      BY <1>1, <2>2, <2>3
  <1>8. ASSUME NEW i \in 1..(Len(s) - 1)
        PROVE  r[i] = IF i < k THEN s[i] ELSE s[i + 1]
    <2>1. CASE i < k
      <3>1. r[i] = a[i] /\ i \in 1..(k - 1)
        BY <1>1, <1>4, <1>5, <1>6, <2>1
      <3>2. QED
        BY <1>4, <2>1, <3>1
    <2>2. CASE i >= k
      <3>1. i - (k - 1) \in 1..(Len(s) - k) /\ k + (i - (k - 1)) = i + 1 /\ ~(i < k)
        BY <1>1, <2>2
      <3>2. r[i] = b[i - (k - 1)]
        BY <1>1, <1>4, <1>5, <1>6, <2>2
      <3>3. b[i - (k - 1)] = s[i + 1]
        BY <1>5, <3>1
      <3>4. QED
        BY <3>1, <3>2, <3>3
    <2>3. QED
      BY <1>1, <2>1, <2>2
  <1>9. r = RemoveAt(s, k)
    BY <1>2, <1>3, <1>6 DEF RemoveAt
  <1>10. QED
    BY <1>7, <1>8, <1>9 DEF Removed

LEMMA InsertKeeps ==
    ASSUME NEW S, NEW s \in Seq(S), Once(s), NEW e \in S, e \notin ToSet(s),
           NEW k \in 0..Len(s)
    PROVE  \E r \in Seq(S) :
               r = InsertAt(s, k + 1, e) /\ Once(r) /\ ToSet(r) = ToSet(s) \cup {e}
  <1>1. PICK r \in Seq(S) : r = InsertAt(s, k + 1, e) /\ Inserted(s, k, e, r)
    BY InsertAtIs
  <1>2. /\ r = InsertAt(s, k + 1, e)
        /\ Len(r) = Len(s) + 1
        /\ \A i \in 1..(Len(s) + 1) :
               /\ i <= k => r[i] = s[i]
               /\ i = k + 1 => r[i] = e
               /\ i > k + 1 => r[i] = s[i - 1]
    BY <1>1 DEF Inserted
  <1>3. r \in Seq(S) /\ Len(r) = Len(s) + 1 /\ Len(s) \in Nat /\ k \in Nat /\ k <= Len(s)
        /\ DOMAIN r = 1..(Len(s) + 1) /\ DOMAIN s = 1..Len(s)
    BY <1>2
  <1>4. \A i \in 1..(Len(s) + 1) :
            /\ i <= k => r[i] = s[i]
            /\ i = k + 1 => r[i] = e
            /\ i > k + 1 => r[i] = s[i - 1]
    BY <1>2
  <1>5. \A i \in 1..Len(s) : s[i] # e
    BY <1>3 DEF ToSet
  <1>6. ASSUME NEW i \in 1..(Len(s) + 1), NEW j \in 1..(Len(s) + 1), r[i] = r[j]
        PROVE  i = j
    <2>1. CASE i <= k
      <3>1. r[i] = s[i] /\ i \in 1..Len(s)
        BY <1>3, <1>4, <2>1
      <3>2. CASE j <= k
        <4>1. r[j] = s[j] /\ j \in 1..Len(s)
          BY <1>3, <1>4, <3>2
        <4>2. QED
          BY <1>6, <3>1, <4>1 DEF Once
      <3>3. CASE j = k + 1
        <4>1. r[j] = e
          BY <1>3, <1>4, <3>3
        <4>2. QED
          BY <1>5, <1>6, <3>1, <4>1
      <3>4. CASE j > k + 1
        <4>1. r[j] = s[j - 1] /\ j - 1 \in 1..Len(s)
          BY <1>3, <1>4, <3>4
        <4>2. i = j - 1
          BY <1>6, <3>1, <4>1 DEF Once
        <4>3. QED
          BY <1>3, <2>1, <3>4, <4>2
      <3>5. QED
        BY <1>3, <3>2, <3>3, <3>4
    <2>2. CASE i = k + 1
      <3>1. r[i] = e
        BY <1>3, <1>4, <2>2
      <3>2. CASE j <= k
        <4>1. r[j] = s[j] /\ j \in 1..Len(s)
          BY <1>3, <1>4, <3>2
        <4>2. QED
          BY <1>5, <1>6, <3>1, <4>1
      <3>3. CASE j > k + 1
        <4>1. r[j] = s[j - 1] /\ j - 1 \in 1..Len(s)
          BY <1>3, <1>4, <3>3
        <4>2. QED
          BY <1>5, <1>6, <3>1, <4>1
      <3>4. QED
        BY <1>3, <2>2, <3>2, <3>3
    <2>3. CASE i > k + 1
      <3>1. r[i] = s[i - 1] /\ i - 1 \in 1..Len(s)
        BY <1>3, <1>4, <2>3
      <3>2. CASE j <= k
        <4>1. r[j] = s[j] /\ j \in 1..Len(s)
          BY <1>3, <1>4, <3>2
        <4>2. i - 1 = j
          BY <1>6, <3>1, <4>1 DEF Once
        <4>3. QED
          BY <1>3, <2>3, <3>2, <4>2
      <3>3. CASE j = k + 1
        <4>1. r[j] = e
          BY <1>3, <1>4, <3>3
        <4>2. QED
          BY <1>5, <1>6, <3>1, <4>1
      <3>4. CASE j > k + 1
        <4>1. r[j] = s[j - 1] /\ j - 1 \in 1..Len(s)
          BY <1>3, <1>4, <3>4
        <4>2. i - 1 = j - 1
          BY <1>6, <3>1, <4>1 DEF Once
        <4>3. QED
          BY <1>3, <4>2
      <3>5. QED
        BY <1>3, <3>2, <3>3, <3>4
    <2>4. QED
      BY <1>3, <2>1, <2>2, <2>3
  <1>7. ToSet(r) \subseteq ToSet(s) \cup {e}
    <2>1. SUFFICES ASSUME NEW i \in 1..(Len(s) + 1)
                   PROVE  r[i] \in ToSet(s) \cup {e}
      BY <1>3 DEF ToSet
    <2>2. CASE i <= k
      BY <1>3, <1>4, <2>2 DEF ToSet
    <2>3. CASE i > k + 1
      <3>1. r[i] = s[i - 1] /\ i - 1 \in 1..Len(s)
        BY <1>3, <1>4, <2>3
      <3>2. QED
        BY <1>3, <3>1 DEF ToSet
    <2>4. QED
      BY <1>3, <1>4, <2>2, <2>3
  <1>8. ToSet(s) \cup {e} \subseteq ToSet(r)
    <2>1. e \in ToSet(r)
      <3>1. k + 1 \in 1..(Len(s) + 1) /\ r[k + 1] = e
        BY <1>3, <1>4
      <3>2. QED
        BY <1>3, <3>1 DEF ToSet
    <2>2. ASSUME NEW i \in 1..Len(s)
          PROVE  s[i] \in ToSet(r)
      <3>1. CASE i <= k
        <4>1. i \in 1..(Len(s) + 1) /\ r[i] = s[i]
          BY <1>3, <1>4, <3>1
        <4>2. QED
          BY <1>3, <4>1 DEF ToSet
      <3>2. CASE i > k
        <4>1. i + 1 \in 1..(Len(s) + 1) /\ r[i + 1] = s[i]
          BY <1>3, <1>4, <3>2
        <4>2. QED
          BY <1>3, <4>1 DEF ToSet
      <3>3. QED
        BY <1>3, <3>1, <3>2
    <2>3. QED
      BY <1>3, <2>1, <2>2 DEF ToSet
  <1>9. QED
    BY <1>2, <1>3, <1>6, <1>7, <1>8 DEF Once

LEMMA RemoveKeeps ==
    ASSUME NEW S, NEW s \in Seq(S), Once(s), NEW k \in 1..Len(s)
    PROVE  \E r \in Seq(S) :
               r = RemoveAt(s, k) /\ Once(r) /\ ToSet(r) = ToSet(s) \ {s[k]}
  <1>1. PICK r \in Seq(S) : r = RemoveAt(s, k) /\ Removed(s, k, r)
    BY RemoveAtIs
  <1>2. /\ r = RemoveAt(s, k)
        /\ Len(r) = Len(s) - 1
        /\ \A i \in 1..(Len(s) - 1) : r[i] = IF i < k THEN s[i] ELSE s[i + 1]
    BY <1>1 DEF Removed
  <1>3. r \in Seq(S) /\ Len(r) = Len(s) - 1 /\ Len(s) \in Nat
        /\ k \in Nat /\ 1 <= k /\ k <= Len(s)
        /\ DOMAIN r = 1..(Len(s) - 1) /\ DOMAIN s = 1..Len(s)
    BY <1>2
  <1>4. \A i \in 1..(Len(s) - 1) : r[i] = IF i < k THEN s[i] ELSE s[i + 1]
    BY <1>2
  <1> DEFINE from(i) == IF i < k THEN i ELSE i + 1
  <1>5. \A i \in 1..(Len(s) - 1) :
            r[i] = s[from(i)] /\ from(i) \in 1..Len(s) /\ from(i) # k
    BY <1>3, <1>4
  <1>6. \A i, j \in 1..(Len(s) - 1) : from(i) = from(j) => i = j
    BY <1>3
  <1>7. \A i \in 1..Len(s) : i # k => \E j \in 1..(Len(s) - 1) : from(j) = i
    <2>1. SUFFICES ASSUME NEW i \in 1..Len(s), i # k
                   PROVE  \E j \in 1..(Len(s) - 1) : from(j) = i
      OBVIOUS
    <2>2. CASE i < k
      <3>1. i \in 1..(Len(s) - 1) /\ from(i) = i
        BY <1>3, <2>2
      <3>2. QED
        BY <3>1
    <2>3. CASE i > k
      <3>1. i - 1 \in 1..(Len(s) - 1) /\ from(i - 1) = i
        BY <1>3, <2>3
      <3>2. QED
        BY <3>1
    <2>4. QED
      BY <1>3, <2>1, <2>2, <2>3
  <1> HIDE DEF from
  <1>8. Once(r)
    BY <1>3, <1>5, <1>6 DEF Once
  <1>9. ToSet(r) \subseteq ToSet(s) \ {s[k]}
    BY <1>3, <1>5 DEF Once, ToSet
  <1>10. ToSet(s) \ {s[k]} \subseteq ToSet(r)
    <2>1. SUFFICES ASSUME NEW i \in 1..Len(s), s[i] # s[k]
                   PROVE  s[i] \in ToSet(r)
      BY <1>3 DEF ToSet
    <2>2. PICK j \in 1..(Len(s) - 1) : from(j) = i
      BY <1>7, <2>1
    <2>3. r[j] = s[i]
      BY <1>5, <2>2
    <2>4. QED
      BY <1>3, <2>3 DEF ToSet
  <1>11. QED
    BY <1>2, <1>3, <1>8, <1>9, <1>10

LEMMA CutKeeps ==
    ASSUME NEW S, NEW s \in Seq(S), Once(s), NEW k \in 0..Len(s)
    PROVE  \E a, b \in Seq(S) :
               /\ a = SubSeq(s, 1, k) /\ b = SubSeq(s, k + 1, Len(s))
               /\ Once(b)
               /\ ToSet(a) = {s[i] : i \in 1..k}
               /\ ToSet(b) = {s[i] : i \in (k + 1)..Len(s)}
  <1>1. Len(s) \in Nat /\ k \in Nat /\ k <= Len(s)
    OBVIOUS
  <1>2. PICK a : a = SubSeq(s, 1, k)
    OBVIOUS
  <1>3. PICK b : b = SubSeq(s, k + 1, Len(s))
    OBVIOUS
  <1>4. a \in Seq(S) /\ Len(a) = k /\ DOMAIN a = 1..k /\ \A i \in 1..k : a[i] = s[i]
    BY <1>2
  <1>5. b \in Seq(S) /\ Len(b) = Len(s) - k /\ DOMAIN b = 1..(Len(s) - k)
        /\ \A i \in 1..(Len(s) - k) : b[i] = s[k + i]
    BY <1>3
  <1>6. ToSet(a) = {s[i] : i \in 1..k}
    BY <1>4 DEF ToSet
  <1>7. Once(b)
    <2>1. \A i \in 1..(Len(s) - k) : k + i \in 1..Len(s)
      BY <1>1
    <2>2. \A i, j \in 1..(Len(s) - k) : k + i = k + j => i = j
      BY <1>1
    <2>3. QED
      BY <1>5, <2>1, <2>2 DEF Once
  <1>8. ToSet(b) = {s[i] : i \in (k + 1)..Len(s)}
    <2>1. \A i \in 1..(Len(s) - k) : k + i \in (k + 1)..Len(s)
      BY <1>1
    <2>2. \A i \in (k + 1)..Len(s) : i - k \in 1..(Len(s) - k) /\ k + (i - k) = i
      BY <1>1
    <2>3. \A i \in (k + 1)..Len(s) : b[i - k] = s[i]
      BY <1>5, <2>2
    <2>4. QED
      BY <1>5, <2>1, <2>2, <2>3 DEF ToSet
  <1>9. QED
    BY <1>2, <1>3, <1>4, <1>5, <1>6, <1>7, <1>8

-----------------------------------------------------------------------------
(* What the operations of the list do to its timers.                       *)

LEMMA AddIs ==
    ASSUME ListTyped, NEW t \in Timers, NEW e \in 0..Limit, List!Add(t, e)
    PROVE  /\ ListTyped'
           /\ t \notin ToSet(timers)
           /\ ToSet(timers') = ToSet(timers) \cup {t}
           /\ expire'[t] = e
           /\ \A u \in ToSet(timers) : expire'[u] = expire[u]
  <1>1. timers \in Seq(Timers) /\ Once(timers) /\ fired \in Seq(Timers)
        /\ expire \in [ToSet(timers) -> 0..Limit]
    BY DEF ListTyped
  <1>2. t \notin ToSet(timers) /\ fired' = fired
    BY DEF List!Add, List!ToSet, ToSet
  <1>3. PICK k \in 0..Len(timers) : timers' = InsertAt(timers, k + 1, t)
    BY DEF List!Add, List!Place, List!InsertAt, InsertAt
  <1>4. timers' \in Seq(Timers) /\ Once(timers') /\ ToSet(timers') = ToSet(timers) \cup {t}
    BY <1>1, <1>2, <1>3, InsertKeeps
  <1>5. expire' = [u \in ToSet(timers) \cup {t} |-> IF u = t THEN e ELSE expire[u]]
    BY DEF List!Add, List!ToSet, ToSet
  <1>6. QED
    BY <1>1, <1>2, <1>4, <1>5 DEF ListTyped

LEMMA AdjustIs ==
    ASSUME ListTyped, NEW t, NEW e \in 0..Limit, List!Adjust(t, e)
    PROVE  /\ ListTyped'
           /\ t \in ToSet(timers)
           /\ ToSet(timers') = ToSet(timers)
           /\ expire' = [expire EXCEPT ![t] = e]
  <1>1. timers \in Seq(Timers) /\ Once(timers) /\ fired \in Seq(Timers)
        /\ expire \in [ToSet(timers) -> 0..Limit]
    BY DEF ListTyped
  <1>2. t \in ToSet(timers) /\ expire' = [expire EXCEPT ![t] = e] /\ fired' = fired
    BY DEF List!Adjust, List!ToSet, ToSet
  <1>3. PICK i \in 1..Len(timers) :
            timers[i] = t /\ List!Place(RemoveAt(timers, i), t)
    BY DEF List!Adjust, List!RemoveAt, RemoveAt
  <1>4. PICK r \in Seq(Timers) :
            r = RemoveAt(timers, i) /\ Once(r) /\ ToSet(r) = ToSet(timers) \ {t}
    BY <1>1, <1>3, RemoveKeeps
  <1>5. PICK k \in 0..Len(r) : timers' = InsertAt(r, k + 1, t)
    BY <1>3, <1>4 DEF List!Place, List!InsertAt, InsertAt
  <1>6. t \in Timers
    BY <1>1, <1>3
  <1>7. timers' \in Seq(Timers) /\ Once(timers') /\ ToSet(timers') = ToSet(r) \cup {t}
    BY <1>4, <1>5, <1>6, InsertKeeps
  <1>8. ToSet(timers') = ToSet(timers)
    BY <1>2, <1>4, <1>7
  <1>9. QED
    BY <1>1, <1>2, <1>7, <1>8 DEF ListTyped

LEMMA DeleteIs ==
    ASSUME ListTyped, NEW t, List!Delete(t)
    PROVE  /\ ListTyped'
           /\ t \in ToSet(timers)
           /\ ToSet(timers') = ToSet(timers) \ {t}
           /\ expire' = [u \in ToSet(timers') |-> expire[u]]
  <1>1. timers \in Seq(Timers) /\ Once(timers) /\ fired \in Seq(Timers)
        /\ expire \in [ToSet(timers) -> 0..Limit]
    BY DEF ListTyped
  <1>2. PICK i \in 1..Len(timers) : timers[i] = t /\ timers' = RemoveAt(timers, i)
    BY DEF List!Delete, List!RemoveAt, RemoveAt
  <1>3. timers' \in Seq(Timers) /\ Once(timers') /\ ToSet(timers') = ToSet(timers) \ {t}
    BY <1>1, <1>2, RemoveKeeps
  <1>4. expire' = [u \in ToSet(timers') |-> expire[u]] /\ fired' = fired
    BY DEF List!Delete, List!Restrict, List!ToSet, ToSet
  <1>5. t \in ToSet(timers)
    BY <1>1, <1>2 DEF ToSet
  <1>6. QED
    BY <1>1, <1>3, <1>4, <1>5 DEF ListTyped

LEMMA TickIs ==
    ASSUME ListTyped, NEW cur \in 0..Limit, List!Tick(cur)
    PROVE  /\ ListTyped'
           /\ ToSet(fired') = {t \in ToSet(timers) : expire[t] <= cur}
           /\ ToSet(timers') = {t \in ToSet(timers) : ~(expire[t] <= cur)}
           /\ expire' = [u \in ToSet(timers') |-> expire[u]]
  <1>1. timers \in Seq(Timers) /\ Once(timers) /\ expire \in [ToSet(timers) -> 0..Limit]
        /\ DOMAIN timers = 1..Len(timers) /\ Len(timers) \in Nat
    BY DEF ListTyped
  <1>2. PICK k \in 0..Len(timers) :
            /\ \A i \in 1..Len(timers) : expire[timers[i]] <= cur <=> i <= k
            /\ fired' = SubSeq(timers, 1, k)
            /\ timers' = SubSeq(timers, k + 1, Len(timers))
    BY DEF List!Tick, List!Due
  <1>3. PICK a \in Seq(Timers), b \in Seq(Timers) :
            /\ a = SubSeq(timers, 1, k) /\ b = SubSeq(timers, k + 1, Len(timers))
            /\ Once(b)
            /\ ToSet(a) = {timers[i] : i \in 1..k}
            /\ ToSet(b) = {timers[i] : i \in (k + 1)..Len(timers)}
    BY <1>1, CutKeeps
  <1>4. fired' = a /\ timers' = b
    BY <1>2, <1>3
  <1>5. ToSet(timers) = {timers[i] : i \in 1..Len(timers)}
    BY <1>1 DEF ToSet
  <1>6. \A i \in 1..k : i \in 1..Len(timers) /\ i <= k
    BY <1>1
  <1>7. \A i \in (k + 1)..Len(timers) : i \in 1..Len(timers) /\ ~(i <= k)
    BY <1>1
  <1>8. \A i \in 1..Len(timers) : IF i <= k THEN i \in 1..k ELSE i \in (k + 1)..Len(timers)
    BY <1>1
  <1>9. ToSet(a) = {t \in ToSet(timers) : expire[t] <= cur}
    BY <1>2, <1>3, <1>5, <1>6, <1>8
  <1>10. ToSet(b) = {t \in ToSet(timers) : ~(expire[t] <= cur)}
    BY <1>2, <1>3, <1>5, <1>7, <1>8
  <1>11. expire' = [u \in ToSet(timers') |-> expire[u]]
    BY DEF List!Tick, List!Restrict, List!ToSet, ToSet
  <1>12. QED
    BY <1>1, <1>3, <1>4, <1>9, <1>10, <1>11 DEF ListTyped

-----------------------------------------------------------------------------
(* Connections.                                                            *)

LEMMA Descriptors ==
    ASSUME NEW A, A \subseteq Fds
    PROVE  /\ IsFiniteSet(A) /\ Cardinality(A) \in Nat
           /\ Cardinality(A) <= Cardinality(Fds) /\ Cardinality(Fds) \in Nat
  BY IdleServerAssumption, FS_Subset, FS_CardinalityType

LEMMA LimitIs == Limit \in Nat /\ Limit = 3
  BY DEF Limit

LEMMA NotDescriptors == \A fd \in Fds : fd # "listen" /\ fd # "pipe"
  BY IdleServerAssumption

LEMMA TimersOfOpen ==
    ASSUME IInv
    PROVE  /\ \A fd \in open : timer[fd] \in ToSet(timers) /\ timer[fd] # NULL
                               /\ user_data[timer[fd]] = fd
           /\ \A t \in ToSet(timers) :
                  t \in Timers /\ user_data[t] \in open /\ timer[user_data[t]] = t
           /\ \A fd \in Fds : timer[fd] \in ToSet(timers) /\ fd \in open
                              => user_data[timer[fd]] = fd
  <1>1. \A t \in ToSet(timers) : t \in Timers
    BY DEF IInv, ListTyped, ToSet
  <1>2. QED
    BY <1>1, IdleServerAssumption DEF IInv, TimerOfConnection

LEMMA CloseIs ==
    ASSUME IInv, NEW C, C \subseteq open, Close(C), ListTyped', UNCHANGED timer,
           ToSet(timers') = ToSet(timers) \ {timer[fd] : fd \in C},
           expire' = [u \in ToSet(timers') |-> expire[u]],
           user_data' = [u \in ToSet(timers') |-> user_data[u]]
    PROVE  PointersTyped' /\ Connections' /\ TimerOfConnection' /\ SilenceIsTimed'
  <1>1. open \subseteq Fds /\ open' = open \ C /\ backlog' = backlog /\ backlog \in Nat
    BY DEF IInv, ServerTyped, Close
  <1>2. PointersTyped'
    BY DEF IInv, PointersTyped
  <1>3. Connections'
    <2>1. Cardinality(open \ C) <= Cardinality(open)
      BY <1>1, Descriptors, FS_Subset
    <2>2. Cardinality(open \ C) \in Nat /\ Cardinality(open) \in Nat
          /\ Cardinality(Fds) \in Nat
      BY <1>1, Descriptors
    <2>3. backlog + Cardinality(open) <= Cardinality(Fds)
      BY DEF IInv, Connections
    <2>4. QED
      BY <1>1, <2>1, <2>2, <2>3 DEF Connections
  <1>4. \A fd \in open' : timer[fd] \in ToSet(timers')
    BY <1>1, TimersOfOpen
  <1>5. TimerOfConnection'
    <2>1. ToSet(timers') \subseteq {timer[fd] : fd \in open'}
      BY <1>1, TimersOfOpen
    <2>2. QED
      BY <1>1, <1>4, <2>1, TimersOfOpen DEF TimerOfConnection
  <1>6. SilenceIsTimed'
    <2>1. silent' = [fd \in Fds |-> IF fd \in C THEN 0 ELSE silent[fd]]
      BY DEF Close
    <2>2. \A fd \in open' : expire'[timer'[fd]] + silent'[fd] = Limit
      BY <1>1, <1>4, <2>1 DEF IInv, SilenceIsTimed
    <2>3. \A fd \in Fds \ open' : silent'[fd] = 0
      BY <1>1, <2>1 DEF IInv, SilenceIsTimed
    <2>4. QED
      BY <2>2, <2>3 DEF SilenceIsTimed
  <1>7. QED
    BY <1>2, <1>3, <1>5, <1>6

\* tick() fires the timers of connections, which have been silent for so long,
\* and closes these connections.
LEMMA TimerTickIs ==
    ASSUME IInv, TimerTick, UNCHANGED timer
    PROVE  /\ \E C \in SUBSET open : Close(C) /\ \A fd \in C : silent[fd] = Limit
           /\ ListTyped' /\ PointersTyped' /\ Connections' /\ TimerOfConnection'
           /\ SilenceIsTimed'
  <1>1. ListTyped /\ List!Tick(0) /\ 0 \in 0..Limit
    BY LimitIs DEF IInv, TimerTick
  <1>2. /\ ListTyped'
        /\ ToSet(fired') = {t \in ToSet(timers) : expire[t] <= 0}
        /\ ToSet(timers') = {t \in ToSet(timers) : ~(expire[t] <= 0)}
        /\ expire' = [u \in ToSet(timers') |-> expire[u]]
    BY <1>1, TickIs
  <1>3. PICK C : C = {user_data[t] : t \in ToSet(fired')}
    OBVIOUS
  <1>4. Close(C) /\ user_data' = [u \in ToSet(timers') |-> user_data[u]]
    BY <1>3 DEF TimerTick, Restrict
  <1>5. C \subseteq open
    BY <1>2, <1>3, TimersOfOpen
  <1>6. ToSet(timers') = ToSet(timers) \ {timer[fd] : fd \in C}
    <2>1. {timer[fd] : fd \in C} = ToSet(fired')
      BY <1>2, <1>3, TimersOfOpen
    <2>2. QED
      BY <1>2, <2>1
  <1>7. ASSUME NEW fd \in C
        PROVE  silent[fd] = Limit
    <2>1. fd \in open /\ timer[fd] \in ToSet(timers) /\ expire[timer[fd]] <= 0
      BY <1>2, <1>3, <1>5, TimersOfOpen
    <2>2. expire[timer[fd]] \in Nat /\ silent[fd] \in Nat
      <3>1. expire[timer[fd]] \in 0..Limit
        BY <2>1 DEF IInv, ListTyped
      <3>2. silent[fd] \in 0..Limit
        BY <2>1 DEF IInv, ServerTyped
      <3>3. QED
        BY <3>1, <3>2, LimitIs
    <2>3. expire[timer[fd]] + silent[fd] = Limit
      BY <2>1 DEF IInv, SilenceIsTimed
    <2>4. QED
      BY <2>1, <2>2, <2>3, LimitIs
  <1>8. PointersTyped' /\ Connections' /\ TimerOfConnection' /\ SilenceIsTimed'
    BY <1>2, <1>4, <1>5, <1>6, CloseIs
  <1>9. QED
    BY <1>2, <1>4, <1>5, <1>7, <1>8

LEMMA RecvEndIs ==
    ASSUME IInv, NEW fd, RecvEnd(fd)
    PROVE  /\ fd \in open /\ fin[fd] /\ Close({fd})
           /\ ListTyped' /\ PointersTyped' /\ Connections' /\ TimerOfConnection'
           /\ SilenceIsTimed'
  <1>1. fd \in Fds /\ fd \in batch /\ unread[fd] = 0 /\ Close({fd}) /\ UNCHANGED timer
    BY DEF RecvEnd, Handle
  <1>2. fd \in open /\ fin[fd]
    BY <1>1 DEF IInv, EventsAreTrue
  <1>3. ListTyped /\ List!Delete(timer[fd])
    BY <1>2, TimersOfOpen DEF IInv, RecvEnd
  <1>4. /\ ListTyped'
        /\ ToSet(timers') = ToSet(timers) \ {timer[fd]}
        /\ expire' = [u \in ToSet(timers') |-> expire[u]]
    BY <1>3, DeleteIs
  <1>5. user_data' = [u \in ToSet(timers') |-> user_data[u]]
    BY DEF RecvEnd, Restrict
  <1>6. {fd} \subseteq open /\ {timer[x] : x \in {fd}} = {timer[fd]}
    BY <1>2
  <1>7. QED
    BY <1>1, <1>2, <1>4, <1>5, <1>6, CloseIs

LEMMA RecvIs ==
    ASSUME IInv, NEW fd, NEW k, Recv(fd, k)
    PROVE  ListTyped' /\ PointersTyped' /\ TimerOfConnection' /\ SilenceIsTimed'
  <1>1. fd \in Fds /\ fd \in batch /\ UNCHANGED <<open, timer, user_data>>
        /\ silent' = [silent EXCEPT ![fd] = 0]
    BY DEF Recv, Handle, pointers
  <1>2. fd \in open
    BY <1>1 DEF IInv, EventsAreTrue
  <1>3. ListTyped /\ Limit \in 0..Limit /\ List!Adjust(timer[fd], Limit)
    BY <1>2, TimersOfOpen, LimitIs DEF IInv, Recv
  <1>4. /\ ListTyped' /\ ToSet(timers') = ToSet(timers)
        /\ expire' = [expire EXCEPT ![timer[fd]] = Limit]
    BY <1>3, AdjustIs
  <1>5. PointersTyped' /\ TimerOfConnection'
    BY <1>1, <1>4 DEF IInv, PointersTyped, TimerOfConnection
  <1>6. \A x \in open : x # fd => timer[x] # timer[fd]
    BY <1>2, TimersOfOpen
  <1>7. DOMAIN expire = ToSet(timers) /\ DOMAIN silent = Fds /\ open \subseteq Fds
    BY DEF IInv, ListTyped, ServerTyped
  <1>8. ASSUME NEW x \in open
        PROVE  expire'[timer[x]] + silent'[x] = Limit
    <2>1. CASE x = fd
      <3>1. expire'[timer[x]] = Limit /\ silent'[x] = 0
        BY <1>1, <1>2, <1>4, <1>7, <2>1, TimersOfOpen
      <3>2. QED
        BY <3>1, LimitIs
    <2>2. CASE x # fd
      <3>1. expire'[timer[x]] = expire[timer[x]] /\ silent'[x] = silent[x]
        BY <1>1, <1>4, <1>6, <1>7, <2>2, TimersOfOpen
      <3>2. QED
        BY <3>1 DEF IInv, SilenceIsTimed
    <2>3. QED
      BY <2>1, <2>2
  <1>9. \A x \in Fds \ open : silent'[x] = 0
    BY <1>1, <1>2, <1>7 DEF IInv, SilenceIsTimed
  <1>10. QED
    BY <1>1, <1>4, <1>5, <1>8, <1>9 DEF SilenceIsTimed

LEMMA NewConnectionIs ==
    ASSUME IInv, NEW fd \in Fds, NEW t \in Timers, NewConnection(fd, t), backlog > 0
    PROVE  /\ ListTyped' /\ PointersTyped' /\ Connections' /\ TimerOfConnection'
           /\ SilenceIsTimed'
  <1>1. fd \notin open /\ open' = open \cup {fd} /\ backlog' = backlog - 1
        /\ timer' = [timer EXCEPT ![fd] = t] /\ UNCHANGED silent /\ open \subseteq Fds
        /\ DOMAIN timer = Fds /\ List!Add(t, Limit) /\ backlog \in Nat
    BY DEF IInv, ServerTyped, PointersTyped, NewConnection
  <1>2. /\ ListTyped' /\ t \notin ToSet(timers)
        /\ ToSet(timers') = ToSet(timers) \cup {t}
        /\ expire'[t] = Limit
        /\ \A u \in ToSet(timers) : expire'[u] = expire[u]
    BY <1>1, AddIs, LimitIs DEF IInv
  <1>3. user_data' = [u \in ToSet(timers') |-> IF u = t THEN fd ELSE user_data[u]]
    BY <1>2 DEF IInv, PointersTyped, NewConnection
  <1>4. timer'[fd] = t /\ \A x \in open : timer'[x] = timer[x] /\ x # fd
    BY <1>1
  <1>5. PointersTyped'
    BY <1>1, <1>2, <1>3 DEF IInv, PointersTyped
  <1>6. Connections'
    <2>1. Cardinality(open \cup {fd}) = Cardinality(open) + 1 /\ Cardinality(open) \in Nat
      BY <1>1, Descriptors, FS_AddElement
    <2>2. backlog + Cardinality(open) <= Cardinality(Fds) /\ Cardinality(Fds) \in Nat
      BY Descriptors DEF IInv, Connections
    <2>3. QED
      BY <1>1, <2>1, <2>2 DEF Connections
  <1>7. TimerOfConnection'
    <2>1. {timer'[x] : x \in open'} = {timer[x] : x \in open} \cup {t}
      BY <1>1, <1>4
    <2>2. ToSet(timers) = {timer[x] : x \in open}
      BY DEF IInv, TimerOfConnection
    <2>3. \A x \in open' : user_data'[timer'[x]] = x
      BY <1>1, <1>2, <1>3, <1>4, TimersOfOpen
    <2>4. QED
      BY <1>2, <2>1, <2>2, <2>3 DEF TimerOfConnection
  <1>8. SilenceIsTimed'
    <2>1. expire'[timer'[fd]] + silent'[fd] = Limit
      <3>1. silent[fd] = 0
        BY <1>1 DEF IInv, SilenceIsTimed
      <3>2. QED
        BY <1>1, <1>2, <1>4, <3>1, LimitIs
    <2>2. \A x \in open : expire'[timer'[x]] + silent'[x] = Limit
      BY <1>1, <1>2, <1>4, TimersOfOpen DEF IInv, SilenceIsTimed
    <2>3. QED
      BY <1>1, <2>1, <2>2 DEF IInv, SilenceIsTimed
  <1>9. QED
    BY <1>2, <1>5, <1>6, <1>7, <1>8

LEMMA ElapseIs ==
    ASSUME IInv, Elapse
    PROVE  ListTyped' /\ SilenceIsTimed'
  <1>1. /\ timers \in Seq(Timers) /\ Once(timers) /\ fired \in Seq(Timers)
        /\ expire \in [ToSet(timers) -> 0..Limit] /\ open \subseteq Fds
        /\ silent \in [Fds -> 0..Limit]
        /\ UNCHANGED <<timers, fired, open, timer>>
    BY DEF IInv, ListTyped, ServerTyped, Elapse, sockets, pointers
  <1>2. expire' = [t \in ToSet(timers) |-> IF expire[t] = 0 THEN 0 ELSE expire[t] - 1]
    BY <1>1 DEF Elapse
  <1>3. silent' = [fd \in Fds |-> IF fd \in open /\ silent[fd] < Limit
                                  THEN silent[fd] + 1 ELSE silent[fd]]
    BY DEF Elapse
  <1>4. ListTyped'
    <2>1. \A t \in ToSet(timers) : expire'[t] \in 0..Limit
      BY <1>1, <1>2, LimitIs
    <2>2. expire' \in [ToSet(timers) -> 0..Limit]
      BY <1>2, <2>1
    <2>3. QED
      BY <1>1, <2>2 DEF ListTyped
  <1>5. ASSUME NEW fd \in open
        PROVE  expire'[timer[fd]] + silent'[fd] = Limit
    <2>1. timer[fd] \in ToSet(timers) /\ fd \in Fds
      BY <1>1, TimersOfOpen
    <2>2. expire[timer[fd]] \in 0..Limit /\ silent[fd] \in 0..Limit
      BY <1>1, <2>1
    <2>3. expire[timer[fd]] + silent[fd] = Limit
      BY DEF IInv, SilenceIsTimed
    <2>4. expire'[timer[fd]] =
              IF expire[timer[fd]] = 0 THEN 0 ELSE expire[timer[fd]] - 1
      BY <1>2, <2>1
    <2>5. silent'[fd] = IF silent[fd] < Limit THEN silent[fd] + 1 ELSE silent[fd]
      BY <1>3, <2>1
    <2>6. QED
      BY <2>2, <2>3, <2>4, <2>5, LimitIs
  <1>6. \A fd \in Fds \ open : silent'[fd] = 0
    BY <1>3 DEF IInv, SilenceIsTimed
  <1>7. QED
    BY <1>1, <1>4, <1>5, <1>6 DEF SilenceIsTimed

-----------------------------------------------------------------------------
(* The invariant is inductive.                                             *)

LEMMA InitIInv == Init => IInv
  <1> SUFFICES ASSUME Init PROVE IInv
    OBVIOUS
  <1> USE DEF Init
  <1>1. timers = <<>> /\ expire = <<>> /\ fired = <<>>
    BY DEF List!Init
  <1>2. ToSet(timers) = {}
    BY <1>1 DEF ToSet
  <1>3. ServerTyped
    <2>1. 0 \in 0..MaxUnread /\ 0 \in 0..Limit
      BY LimitIs, IdleServerAssumption
    <2>2. QED
      BY <2>1 DEF ServerTyped
  <1>4. ListTyped
    <2>1. <<>> \in [{} -> 0..Limit]
      OBVIOUS
    <2>2. QED
      BY <1>1, <1>2, <2>1 DEF ListTyped, Once
  <1>5. PointersTyped
    <2>1. <<>> \in [{} -> Fds]
      OBVIOUS
    <2>2. QED
      BY <1>2, <2>1 DEF PointersTyped
  <1>6. Connections
    BY FS_EmptySet, Descriptors DEF Connections
  <1>7. TimerOfConnection /\ EventsAreTrue /\ SilenceIsTimed
    BY <1>2 DEF TimerOfConnection, EventsAreTrue, SilenceIsTimed
  <1>8. QED
    BY <1>3, <1>4, <1>5, <1>6, <1>7 DEF IInv

LEMMA ServerTypedStep == IInv /\ [Next]_vars => ServerTyped'
  <1> SUFFICES ASSUME IInv, [Next]_vars
               PROVE  ServerTyped'
    OBVIOUS
  <1> ServerTyped
    BY DEF IInv
  <1> USE DEF ServerTyped, Events, sockets, events, main, clock, list, pointers
  <1>1. CASE Connect
    BY <1>1 DEF Connect
  <1>2. ASSUME NEW fd \in Fds, Send(fd)
        PROVE  ServerTyped'
    <2>1. unread[fd] \in 0..MaxUnread /\ unread[fd] < MaxUnread /\ MaxUnread \in Nat
      BY <1>2, IdleServerAssumption DEF Send
    <2>2. unread[fd] + 1 \in 0..MaxUnread
      BY <2>1
    <2>3. QED
      BY <1>2, <2>2 DEF Send, Arrives
  <1>3. ASSUME NEW fd \in Fds, Leave(fd)
        PROVE  ServerTyped'
    <2>1. 0 \in 0..MaxUnread
      BY IdleServerAssumption
    <2>2. QED
      BY <1>3, <2>1 DEF Leave, Arrives
  <1>4. CASE Terminate
    BY <1>4 DEF Terminate, Signal
  <1>5. CASE Elapse
    <2>1. \A fd \in Fds : silent[fd] < Limit => silent[fd] + 1 \in 0..Limit
      BY LimitIs
    <2>2. silent' \in [Fds -> 0..Limit]
      BY <1>5, <2>1 DEF Elapse
    <2>3. QED
      BY <1>5, <2>2 DEF Elapse, Signal
  <1>6. CASE EpollWait
    BY <1>6 DEF EpollWait, Ready
  <1>7. CASE Signals
    BY <1>7 DEF Signals, Handle
  <1>8. ASSUME NEW fds, Close(fds)
        PROVE  /\ backlog' \in Nat /\ open' \subseteq Fds
               /\ unread' \in [Fds -> 0..MaxUnread] /\ fin' \in [Fds -> BOOLEAN]
               /\ edges' \subseteq Events /\ silent' \in [Fds -> 0..Limit]
    BY <1>8, IdleServerAssumption, LimitIs DEF Close
  <1>9. CASE TimerHandler
    BY <1>8, <1>9 DEF TimerHandler, TimerTick, Round
  <1>10. CASE NoTimeout
    BY <1>10 DEF NoTimeout, Round
  <1>11. ASSUME NEW fd \in Fds, NEW t \in Timers, Accept(fd, t)
         PROVE  ServerTyped'
    <2>1. backlog > 0
      BY <1>11 DEF Accept, Handle, IInv, EventsAreTrue
    <2>2. backlog - 1 \in Nat
      BY <2>1
    <2>3. QED
      BY <1>11, <2>2 DEF Accept, NewConnection, Handle
  <1>12. ASSUME NEW fd \in Fds, NEW k \in 1..MaxUnread, Recv(fd, k)
         PROVE  ServerTyped'
    <2>1. unread[fd] \in 0..MaxUnread /\ k \in 1..unread[fd] /\ MaxUnread \in Nat
      BY <1>12, IdleServerAssumption DEF Recv
    <2>2. unread[fd] - k \in 0..MaxUnread /\ 0 \in 0..Limit
      BY <2>1, LimitIs
    <2>3. QED
      BY <1>12, <2>2 DEF Recv, Handle
  <1>13. ASSUME NEW fd \in Fds, RecvEnd(fd)
         PROVE  ServerTyped'
    BY <1>8, <1>13 DEF RecvEnd, Handle
  <1>14. CASE UNCHANGED vars
    BY <1>14 DEF vars
  <1>15. QED
    BY <1>1, <1>2, <1>3, <1>4, <1>5, <1>6, <1>7, <1>9, <1>10, <1>11, <1>12, <1>13, <1>14
       DEF Next, Main

LEMMA EventsAreTrueStep == IInv /\ [Next]_vars => EventsAreTrue'
  <1> SUFFICES ASSUME IInv, [Next]_vars
               PROVE  EventsAreTrue'
    OBVIOUS
  <1>1. ServerTyped /\ EventsAreTrue
    BY DEF IInv
  <1> USE <1>1 DEF EventsAreTrue, sockets, events, main, clock, list, pointers
  <1>2. CASE Connect
    BY <1>2 DEF Connect, ServerTyped
  <1>3. ASSUME NEW fd \in Fds, Send(fd)
        PROVE  EventsAreTrue'
    <2>1. /\ unread' = [unread EXCEPT ![fd] = unread[fd] + 1]
          /\ UNCHANGED <<backlog, open, fin, batch>>
      BY <1>3 DEF Send, Arrives
    <2>2. \A x \in Fds : unread[x] \in Nat
      BY IdleServerAssumption DEF ServerTyped
    <2>3. \A x \in Fds : unread'[x] >= unread[x] /\ unread'[x] \in Nat
      BY <2>1, <2>2 DEF ServerTyped
    <2>4. \A x \in Fds : unread[x] > 0 => unread'[x] > 0
      BY <2>2, <2>3
    <2>5. QED
      BY <2>1, <2>4
  <1>4. ASSUME NEW fd \in Fds, Leave(fd)
        PROVE  EventsAreTrue'
    BY <1>4 DEF Leave, Arrives, ServerTyped
  <1>5. CASE Terminate
    BY <1>5 DEF Terminate
  <1>6. CASE Elapse
    BY <1>6 DEF Elapse
  <1>7. CASE EpollWait
    <2>1. batch' = Ready /\ UNCHANGED <<backlog, open, unread, fin>> /\ open \subseteq Fds
      BY <1>7 DEF EpollWait, ServerTyped
    <2>2. "listen" \in Ready => backlog > 0
      BY <2>1, NotDescriptors DEF Ready
    <2>3. ASSUME NEW fd \in Fds, fd \in Ready
          PROVE  fd \in open /\ (unread[fd] > 0 \/ fin[fd])
      BY <2>3, NotDescriptors DEF Ready
    <2>4. QED
      BY <2>1, <2>2, <2>3
  <1>8. CASE Signals
    BY <1>8 DEF Signals, Handle
  <1>9. CASE TimerHandler
    BY <1>9 DEF TimerHandler, Round
  <1>10. CASE NoTimeout
    BY <1>10 DEF NoTimeout, Round
  <1>11. ASSUME NEW fd \in Fds, NEW t \in Timers, Accept(fd, t)
         PROVE  EventsAreTrue'
    BY <1>11 DEF Accept, NewConnection, Handle
  <1>12. ASSUME NEW fd \in Fds, NEW k \in 1..MaxUnread, Recv(fd, k)
         PROVE  EventsAreTrue'
    BY <1>12, NotDescriptors DEF Recv, Handle, ServerTyped
  <1>13. ASSUME NEW fd \in Fds, RecvEnd(fd)
         PROVE  EventsAreTrue'
    BY <1>13, NotDescriptors DEF RecvEnd, Handle, Close
  <1>14. CASE UNCHANGED vars
    BY <1>14 DEF vars
  <1>15. QED
    BY <1>2, <1>3, <1>4, <1>5, <1>6, <1>7, <1>8, <1>9, <1>10, <1>11, <1>12, <1>13, <1>14
       DEF Next, Main

LEMMA ListStep ==
    IInv /\ [Next]_vars
      => ListTyped' /\ PointersTyped' /\ Connections' /\ TimerOfConnection'
         /\ SilenceIsTimed'
  <1> DEFINE Parts == ListTyped /\ PointersTyped /\ Connections /\ TimerOfConnection
                      /\ SilenceIsTimed
  <1> SUFFICES ASSUME IInv, [Next]_vars
               PROVE  Parts'
    OBVIOUS
  <1>1. ASSUME UNCHANGED <<list, pointers, open, silent>>
        PROVE  /\ ListTyped' /\ PointersTyped' /\ TimerOfConnection' /\ SilenceIsTimed'
               /\ UNCHANGED backlog => Connections'
    BY <1>1 DEF IInv, ListTyped, PointersTyped, Connections, TimerOfConnection,
                SilenceIsTimed, list, pointers
  <1>2. CASE Connect
    <2>1. Connections'
      <3>1. backlog \in Nat /\ Cardinality(open) \in Nat /\ Cardinality(Fds) \in Nat
        BY Descriptors DEF IInv, ServerTyped
      <3>2. backlog + Cardinality(open) < Cardinality(Fds)
            /\ backlog' = backlog + 1 /\ open' = open
        BY <1>2 DEF Connect
      <3>3. QED
        BY <3>1, <3>2 DEF Connections
    <2>2. QED
      BY <1>1, <1>2, <2>1 DEF Connect
  <1>3. ASSUME NEW fd \in Fds, Send(fd) \/ Leave(fd)
        PROVE  Parts'
    BY <1>1, <1>3 DEF Send, Leave, Arrives
  <1>4. CASE Terminate
    BY <1>1, <1>4 DEF Terminate, sockets
  <1>5. CASE Elapse
    <2>1. ListTyped' /\ SilenceIsTimed'
      BY <1>5, ElapseIs
    <2>2. PointersTyped' /\ TimerOfConnection' /\ Connections'
      BY <1>5 DEF Elapse, IInv, PointersTyped, TimerOfConnection, Connections, sockets,
                  pointers
    <2>3. QED
      BY <2>1, <2>2
  <1>6. CASE EpollWait
    <2>1. /\ UNCHANGED <<timers, expire, pointers, open, silent, backlog>>
          /\ fired' = <<>>
      BY <1>6 DEF EpollWait, sockets
    <2>2. QED
      BY <2>1 DEF IInv, ListTyped, PointersTyped, Connections, TimerOfConnection,
                  SilenceIsTimed, pointers
  <1>7. CASE Signals
    BY <1>1, <1>7 DEF Signals, sockets
  <1>8. CASE TimerHandler
    BY <1>8, TimerTickIs DEF TimerHandler, Round
  <1>9. CASE NoTimeout
    BY <1>1, <1>9 DEF NoTimeout, Round, sockets, pointers
  <1>10. ASSUME NEW fd \in Fds, NEW t \in Timers, Accept(fd, t)
         PROVE  Parts'
    <2>1. NewConnection(fd, t) /\ backlog > 0
      BY <1>10 DEF Accept, Handle, IInv, EventsAreTrue
    <2>2. QED
      BY <2>1, NewConnectionIs
  <1>11. ASSUME NEW fd \in Fds, NEW k \in 1..MaxUnread, Recv(fd, k)
         PROVE  Parts'
    <2>1. UNCHANGED <<backlog, open>>
      BY <1>11 DEF Recv
    <2>2. QED
      BY <1>11, <2>1, RecvIs DEF IInv, Connections
  <1>12. ASSUME NEW fd \in Fds, RecvEnd(fd)
         PROVE  Parts'
    BY <1>12, RecvEndIs
  <1>13. CASE UNCHANGED vars
    BY <1>1, <1>13 DEF vars, sockets
  <1> HIDE DEF Parts
  <1>14. QED
    BY <1>2, <1>3, <1>4, <1>5, <1>6, <1>7, <1>8, <1>9, <1>10, <1>11, <1>12, <1>13
       DEF Next, Main

LEMMA Invariance == Spec => []IInv
  <1>1. IInv /\ [Next]_vars => IInv'
    BY ServerTypedStep, EventsAreTrueStep, ListStep DEF IInv
  <1>2. QED
    BY <1>1, InitIInv, PTL DEF Spec

-----------------------------------------------------------------------------
(* Theorems.                                                               *)

\* Every variable has its type: in particular every timer of the list is for a
\* descriptor, and no more connections wait or are open than there are
\* descriptors.
THEOREM TypeInvariance == Spec => []TypeOK
  <1>1. IInv => TypeOK
    <2> SUFFICES ASSUME IInv PROVE TypeOK
      OBVIOUS
    <2>1. backlog \in 0..Cardinality(Fds)
      <3>1. backlog \in Nat /\ Cardinality(open) \in Nat /\ Cardinality(Fds) \in Nat
            /\ backlog + Cardinality(open) <= Cardinality(Fds)
        BY Descriptors DEF IInv, ServerTyped, Connections
      <3>2. QED
        BY <3>1
    <2>2. QED
      BY <2>1 DEF IInv, ServerTyped, ListTyped, PointersTyped, TypeOK, Events
  <1>2. QED
    BY <1>1, Invariance, PTL

\* The list holds one timer for each open connection and no other: the pointers
\* that tick() and del_timer() leave behind in users[] (11_3.cpp:180) are never
\* used.
THEOREM TimersMatch == Spec => []TimerOfConnection
  <1>1. IInv => TimerOfConnection
    BY DEF IInv
  <1>2. QED
    BY <1>1, Invariance, PTL

\* No event of a batch is for a connection that has been closed meanwhile,
\* because the timers wait for the end of the batch (11_3.cpp:163-165, 210).
THEOREM NoStaleEvent == Spec => []EventsAreOpen
  <1>1. IInv => EventsAreOpen
    BY DEF IInv, EventsAreTrue, EventsAreOpen
  <1>2. QED
    BY <1>1, Invariance, PTL

\* The server itself closes a connection only after three TIMESLOTs of silence.
THEOREM ClosesIdleOnly == Spec => OnlyIdleClosed
  <1>1. IInv /\ [Next]_vars
          => [\A fd \in open \ open' : fin[fd] \/ silent[fd] = Limit]_vars
    <2> SUFFICES ASSUME IInv, Next, NEW fd \in open \ open'
                 PROVE  fin[fd] \/ silent[fd] = Limit
      OBVIOUS
    <2>1. CASE TimerHandler
      <3>1. PICK C \in SUBSET open : Close(C) /\ \A x \in C : silent[x] = Limit
        BY <2>1, TimerTickIs DEF TimerHandler, Round
      <3>2. fd \in C
        BY <3>1 DEF Close
      <3>3. QED
        BY <3>1, <3>2
    <2>2. ASSUME NEW x \in Fds, RecvEnd(x)
          PROVE  fin[fd]
      <3>1. fin[x] /\ Close({x})
        BY <2>2, RecvEndIs
      <3>2. fd = x
        BY <3>1 DEF Close
      <3>3. QED
        BY <3>1, <3>2
    <2>3. QED
      BY <2>1, <2>2 DEF Next, Main, Connect, Terminate, Elapse, Send, Leave, Arrives,
                        EpollWait, Signals, NoTimeout, Accept, NewConnection, Recv, sockets
  <1>2. QED
    BY <1>1, Invariance, PTL DEF Spec, OnlyIdleClosed
=============================================================================
