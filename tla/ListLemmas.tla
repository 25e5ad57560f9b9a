----------------------------- MODULE ListLemmas -----------------------------
(***************************************************************************)
(* Facts about the sequences that stand for the linked lists of the        *)
(* library: what pushing, popping, unlinking and draining do to the nodes  *)
(* a list holds, and how the contents of a chain of segments follow from   *)
(* those of its parts.                                                     *)
(***************************************************************************)
EXTENDS Integers, Sequences, SequencesExt, SequenceTheorems, WellFoundedInduction,
        TLAPS

\* Unlinking the node at i shifts those behind it by one.
LEMMA RemoveAtIsShift ==
    ASSUME NEW S, NEW q \in Seq(S), NEW i \in 1..Len(q)
    PROVE  /\ RemoveAt(q, i) \in Seq(S)
           /\ Len(RemoveAt(q, i)) = Len(q) - 1
           /\ \A j \in 1..(Len(q) - 1) :
                  RemoveAt(q, i)[j] = IF j < i THEN q[j] ELSE q[j + 1]
<1> DEFINE a == SubSeq(q, 1, i - 1)
           b == SubSeq(q, i + 1, Len(q))
<1>1. i \in Int /\ 1 <= i /\ i <= Len(q) /\ Len(q) \in Nat
  OBVIOUS
<1>2. a \in Seq(S) /\ Len(a) = i - 1 /\ \A j \in 1..(i - 1) : a[j] = q[j]
  BY <1>1
<1>3. b \in Seq(S) /\ Len(b) = Len(q) - i /\ \A j \in 1..(Len(q) - i) : b[j] = q[i + j]
  BY <1>1
<1>4. RemoveAt(q, i) = a \o b
  BY DEF RemoveAt
<1> HIDE DEF a, b
<1>5. a \o b \in Seq(S) /\ Len(a \o b) = Len(q) - 1
  <2>1. a \o b \in Seq(S) /\ Len(a \o b) = Len(a) + Len(b)
    BY <1>2, <1>3, ConcatProperties
  <2> QED
    BY <1>1, <1>2, <1>3, <2>1
<1>6. ASSUME NEW j \in 1..(Len(q) - 1), j < i
      PROVE  (a \o b)[j] = q[j]
  BY <1>1, <1>2, <1>3, <1>6
<1>7. ASSUME NEW j \in 1..(Len(q) - 1), ~(j < i)
      PROVE  (a \o b)[j] = q[j + 1]
  <2>1. (a \o b)[j] = b[j - (i - 1)]
    BY <1>1, <1>2, <1>3, <1>7
  <2>2. j - (i - 1) \in 1..(Len(q) - i) /\ i + (j - (i - 1)) = j + 1
    BY <1>1, <1>7
  <2> QED
    BY <1>3, <2>1, <2>2
<1> QED
  BY <1>4, <1>5, <1>6, <1>7

\* Unlinking a node of a list without duplicates takes out that node and no other.
LEMMA UnlinkNode ==
    ASSUME NEW S, NEW q \in Seq(S), IsInjective(q), NEW i \in 1..Len(q)
    PROVE  /\ RemoveAt(q, i) \in Seq(S)
           /\ IsInjective(RemoveAt(q, i))
           /\ ToSet(RemoveAt(q, i)) = ToSet(q) \ {q[i]}
<1> DEFINE r == RemoveAt(q, i)
<1>1. /\ r \in Seq(S)
      /\ Len(r) = Len(q) - 1
      /\ \A j \in 1..(Len(q) - 1) : r[j] = IF j < i THEN q[j] ELSE q[j + 1]
  BY RemoveAtIsShift
<1> HIDE DEF r
<1>2. /\ Len(q) \in Nat /\ i \in Int /\ 1 <= i /\ i <= Len(q)
      /\ DOMAIN q = 1..Len(q) /\ DOMAIN r = 1..(Len(q) - 1)
  BY <1>1
<1>3. \A j, k \in 1..Len(q) : q[j] = q[k] => j = k
  BY <1>2 DEF IsInjective
<1>4. IsInjective(r)
  <2> SUFFICES ASSUME NEW j \in 1..(Len(q) - 1), NEW k \in 1..(Len(q) - 1), r[j] = r[k]
               PROVE  j = k
    BY <1>2 DEF IsInjective
  <2> DEFINE J == IF j < i THEN j ELSE j + 1
             K == IF k < i THEN k ELSE k + 1
  <2>1. J \in 1..Len(q) /\ K \in 1..Len(q)
    BY <1>2
  <2>2. r[j] = q[J] /\ r[k] = q[K]
    BY <1>1
  <2>3. J = K
    BY <1>3, <2>1, <2>2
  <2> QED
    BY <1>2, <2>3
<1>5. ASSUME NEW x \in ToSet(r)
      PROVE  x \in ToSet(q) \ {q[i]}
  <2>1. PICK j \in 1..(Len(q) - 1) : r[j] = x
    BY <1>2 DEF ToSet
  <2> DEFINE J == IF j < i THEN j ELSE j + 1
  <2>2. J \in 1..Len(q) /\ J # i /\ q[J] = x
    BY <1>1, <1>2, <2>1
  <2> QED
    BY <1>2, <1>3, <2>2 DEF ToSet
<1>6. ASSUME NEW x \in ToSet(q) \ {q[i]}
      PROVE  x \in ToSet(r)
  <2>1. PICK j \in 1..Len(q) : q[j] = x
    BY <1>2 DEF ToSet
  <2>2. j # i
    BY <2>1
  <2> DEFINE J == IF j < i THEN j ELSE j - 1
  <2>3. J \in 1..(Len(q) - 1) /\ r[J] = x
    BY <1>1, <1>2, <2>1, <2>2
  <2> QED
    BY <1>2, <2>3 DEF ToSet
<1> QED
  BY <1>1, <1>4, <1>5, <1>6 DEF r

\* Pushing a node that is not in the list.
LEMMA PushNode ==
    ASSUME NEW S, NEW q \in Seq(S), IsInjective(q), NEW x \in S, x \notin ToSet(q)
    PROVE  /\ <<x>> \o q \in Seq(S)
           /\ IsInjective(<<x>> \o q)
           /\ ToSet(<<x>> \o q) = ToSet(q) \cup {x}
<1> DEFINE r == <<x>> \o q
<1>1. /\ r \in Seq(S)
      /\ Len(r) = Len(q) + 1
      /\ r[1] = x
      /\ \A j \in 1..Len(q) : r[j + 1] = q[j]
  OBVIOUS
<1>2. Len(q) \in Nat /\ DOMAIN q = 1..Len(q) /\ DOMAIN r = 1..(Len(q) + 1)
  BY <1>1
<1> HIDE DEF r
<1>3. \A j \in 2..(Len(q) + 1) : j - 1 \in 1..Len(q) /\ r[j] = q[j - 1]
  BY <1>1, <1>2
<1>4. \A j \in 1..Len(q) : q[j] # x
  BY <1>2 DEF ToSet
<1>5. IsInjective(r)
  <2> SUFFICES ASSUME NEW j \in 1..(Len(q) + 1), NEW k \in 1..(Len(q) + 1), r[j] = r[k]
               PROVE  j = k
    BY <1>2 DEF IsInjective
  <2>1. \A a, b \in 1..Len(q) : q[a] = q[b] => a = b
    BY <1>2 DEF IsInjective
  <2>2. CASE j = 1
    BY <1>1, <1>2, <1>3, <1>4, <2>2
  <2>3. CASE k = 1
    BY <1>1, <1>2, <1>3, <1>4, <2>3
  <2>4. CASE j \in 2..(Len(q) + 1) /\ k \in 2..(Len(q) + 1)
    BY <1>2, <1>3, <2>1, <2>4
  <2> QED
    BY <1>2, <2>2, <2>3, <2>4
<1>6. ToSet(r) \subseteq ToSet(q) \cup {x}
  <2> SUFFICES ASSUME NEW j \in 1..(Len(q) + 1)
               PROVE  r[j] \in ToSet(q) \cup {x}
    BY <1>2 DEF ToSet
  <2>1. CASE j = 1
    BY <1>1, <2>1
  <2>2. CASE j \in 2..(Len(q) + 1)
    BY <1>2, <1>3, <2>2 DEF ToSet
  <2> QED
    BY <1>2, <2>1, <2>2
<1>7. x \in ToSet(r) /\ \A y \in ToSet(q) : y \in ToSet(r)
  BY <1>1, <1>2 DEF ToSet
<1> QED
  BY <1>1, <1>5, <1>6, <1>7 DEF r

\* Popping the head of a list without duplicates.
LEMMA PopNode ==
    ASSUME NEW S, NEW q \in Seq(S), IsInjective(q), q # <<>>
    PROVE  /\ Head(q) \in ToSet(q)
           /\ Head(q) \in S
           /\ Tail(q) \in Seq(S)
           /\ IsInjective(Tail(q))
           /\ ToSet(Tail(q)) = ToSet(q) \ {Head(q)}
<1> DEFINE r == Tail(q)
<1>1. /\ Len(q) \in Nat /\ Len(q) >= 1
      /\ DOMAIN q = 1..Len(q)
      /\ r \in Seq(S)
      /\ Len(r) = Len(q) - 1
      /\ \A j \in 1..(Len(q) - 1) : r[j] = q[j + 1]
      /\ Head(q) = q[1]
  OBVIOUS
<1>2. DOMAIN r = 1..(Len(q) - 1)
  BY <1>1
<1> HIDE DEF r
<1>3. \A a, b \in 1..Len(q) : q[a] = q[b] => a = b
  BY <1>1 DEF IsInjective
<1>4. IsInjective(r)
  <2> SUFFICES ASSUME NEW j \in 1..(Len(q) - 1), NEW k \in 1..(Len(q) - 1), r[j] = r[k]
               PROVE  j = k
    BY <1>2 DEF IsInjective
  <2>1. j + 1 \in 1..Len(q) /\ k + 1 \in 1..Len(q) /\ q[j + 1] = q[k + 1]
    BY <1>1
  <2> QED
    BY <1>1, <1>3, <2>1
<1>5. ASSUME NEW y \in ToSet(r)
      PROVE  y \in ToSet(q) /\ y # q[1]
  <2>1. PICK j \in 1..(Len(q) - 1) : r[j] = y
    BY <1>2 DEF ToSet
  <2>2. j + 1 \in 1..Len(q) /\ j + 1 # 1 /\ q[j + 1] = y /\ 1 \in 1..Len(q)
    BY <1>1, <2>1
  <2> QED
    BY <1>1, <1>3, <2>2 DEF ToSet
<1>6. ASSUME NEW y \in ToSet(q), y # q[1]
      PROVE  y \in ToSet(r)
  <2>1. PICK j \in 1..Len(q) : q[j] = y
    BY <1>1 DEF ToSet
  <2>2. j - 1 \in 1..(Len(q) - 1) /\ r[j - 1] = y
    BY <1>1, <1>6, <2>1
  <2> QED
    BY <1>2, <2>2 DEF ToSet
<1>7. q[1] \in ToSet(q) /\ q[1] \in S
  BY <1>1 DEF ToSet
<1> QED
  BY <1>1, <1>4, <1>5, <1>6, <1>7 DEF r

\* Moving every node of one list to another, head by head.
LEMMA DrainNodes ==
    ASSUME NEW S, NEW q \in Seq(S), NEW r \in Seq(S),
           IsInjective(q), IsInjective(r), ToSet(q) \cap ToSet(r) = {}
    PROVE  /\ Reverse(q) \o r \in Seq(S)
           /\ IsInjective(Reverse(q) \o r)
           /\ ToSet(Reverse(q) \o r) = ToSet(q) \cup ToSet(r)
<1> DEFINE v == Reverse(q)
           w == v \o r
           n == Len(q)
           m == Len(r)
<1>1. /\ n \in Nat /\ m \in Nat
      /\ DOMAIN q = 1..n /\ DOMAIN r = 1..m
  OBVIOUS
<1>2. /\ v \in Seq(S)
      /\ Len(v) = n
      /\ \A j \in 1..n : v[j] = q[n - j + 1]
  <2>1. v = [j \in 1..n |-> q[(n - j) + 1]]
    BY DEF Reverse
  <2>2. \A j \in 1..n : (n - j) + 1 \in 1..n
    BY <1>1
  <2>3. \A j \in 1..n : q[(n - j) + 1] \in S
    BY <1>1, <2>2
  <2> QED
    BY <1>1, <2>1, <2>3
<1> HIDE DEF v, n, m
<1>3. w \in Seq(S) /\ Len(w) = n + m
  <2>1. w \in Seq(S) /\ Len(w) = Len(v) + Len(r)
    BY <1>2, ConcatProperties
  <2> QED
    BY <1>2, <2>1 DEF m
<1>4. \A j \in 1..n : w[j] = q[n - j + 1]
  BY <1>1, <1>2
<1>5. \A j \in 1..m : w[n + j] = r[j]
  BY <1>1, <1>2 DEF m
<1>6. DOMAIN w = 1..(n + m)
  BY <1>3
<1> HIDE DEF w
<1>7. \A a, b \in 1..n : q[a] = q[b] => a = b
  BY <1>1 DEF IsInjective
<1>8. \A a, b \in 1..m : r[a] = r[b] => a = b
  BY <1>1 DEF IsInjective
<1>9. \A a \in 1..n, b \in 1..m : q[a] # r[b]
  BY <1>1 DEF ToSet
<1>10. \A j \in (n + 1)..(n + m) : j - n \in 1..m /\ w[j] = r[j - n]
  BY <1>1, <1>5
<1>11. \A j \in 1..n : n - j + 1 \in 1..n
  BY <1>1
<1>12. IsInjective(w)
  <2> SUFFICES ASSUME NEW j \in 1..(n + m), NEW k \in 1..(n + m), w[j] = w[k]
               PROVE  j = k
    BY <1>6 DEF IsInjective
  <2>1. CASE j \in 1..n /\ k \in 1..n
    <3>1. n - j + 1 = n - k + 1
      BY <1>4, <1>7, <1>11, <2>1
    <3> QED
      BY <1>1, <2>1, <3>1
  <2>2. CASE j \in (n + 1)..(n + m) /\ k \in (n + 1)..(n + m)
    <3>1. j - n = k - n
      BY <1>8, <1>10, <2>2
    <3> QED
      BY <1>1, <2>2, <3>1
  <2>3. CASE j \in 1..n /\ k \in (n + 1)..(n + m)
    BY <1>4, <1>9, <1>10, <1>11, <2>3
  <2>4. CASE j \in (n + 1)..(n + m) /\ k \in 1..n
    BY <1>4, <1>9, <1>10, <1>11, <2>4
  <2> QED
    BY <1>1, <2>1, <2>2, <2>3, <2>4
<1>13. ToSet(w) \subseteq ToSet(q) \cup ToSet(r)
  <2> SUFFICES ASSUME NEW j \in 1..(n + m)
               PROVE  w[j] \in ToSet(q) \cup ToSet(r)
    BY <1>6 DEF ToSet
  <2>1. CASE j \in 1..n
    BY <1>1, <1>4, <1>11, <2>1 DEF ToSet
  <2>2. CASE j \in (n + 1)..(n + m)
    BY <1>1, <1>10, <2>2 DEF ToSet
  <2> QED
    BY <1>1, <2>1, <2>2
<1>14. ASSUME NEW a \in 1..n PROVE q[a] \in ToSet(w)
  <2>1. n - a + 1 \in 1..n /\ n - (n - a + 1) + 1 = a /\ n - a + 1 \in 1..(n + m)
    BY <1>1
  <2>2. w[n - a + 1] = q[a]
    BY <1>4, <2>1
  <2> QED
    BY <1>6, <2>1, <2>2 DEF ToSet
<1>15. ASSUME NEW a \in 1..m PROVE r[a] \in ToSet(w)
  BY <1>1, <1>5, <1>6 DEF ToSet
<1>16. ToSet(q) \cup ToSet(r) \subseteq ToSet(w)
  BY <1>1, <1>14, <1>15 DEF ToSet
<1> QED
  BY <1>3, <1>12, <1>13, <1>16 DEF w, v

\* Storing a node that was not listed behind the others.
LEMMA QueueNode ==
    ASSUME NEW S, NEW q \in Seq(S), IsInjective(q), NEW x \in S, x \notin ToSet(q)
    PROVE  IsInjective(Append(q, x)) /\ ToSet(Append(q, x)) = ToSet(q) \cup {x}
<1> DEFINE r == Append(q, x)
<1>1. /\ r \in Seq(S) /\ Len(r) = Len(q) + 1 /\ r[Len(q) + 1] = x
      /\ \A i \in 1..Len(q) : r[i] = q[i]
  BY AppendProperties
<1> HIDE DEF r
<1>2. /\ Len(q) \in Nat /\ DOMAIN q = 1..Len(q) /\ DOMAIN r = 1..(Len(q) + 1)
      /\ 1..(Len(q) + 1) = 1..Len(q) \cup {Len(q) + 1}
  BY <1>1
<1>3. \A i \in 1..Len(q) : q[i] # x
  BY <1>2 DEF ToSet
<1>4. \A i, j \in 1..Len(q) : q[i] = q[j] => i = j
  BY <1>2 DEF IsInjective
<1>5. ASSUME NEW i \in DOMAIN r, NEW j \in DOMAIN r, r[i] = r[j] PROVE i = j
  BY <1>1, <1>2, <1>3, <1>4, <1>5
<1>6. ToSet(r) = ToSet(q) \cup {x}
  BY <1>1, <1>2 DEF ToSet
<1> QED
  BY <1>5, <1>6 DEF r, IsInjective

-----------------------------------------------------------------------------
(* Parts of sequences *)

\* What is stored behind a sequence is behind each of its ends.
LEMMA SubSeqOfLonger ==
    ASSUME NEW S, NEW s \in Seq(S), NEW t \in Seq(S), NEW m \in 1..(Len(s) + 1)
    PROVE  SubSeq(s \o t, m, Len(s) + Len(t)) = SubSeq(s, m, Len(s)) \o t
<1> DEFINE w == s \o t
           n == Len(s)
           k == Len(t)
           u == SubSeq(w, m, n + k)
           v == SubSeq(s, m, n)
           x == v \o t
<1>1. /\ w \in Seq(S) /\ Len(w) = n + k /\ n \in Nat /\ k \in Nat
      /\ \A i \in 1..(n + k) : w[i] = IF i <= n THEN s[i] ELSE t[i - n]
  BY ConcatProperties
<1> HIDE DEF w
<1>2. n \in Nat /\ k \in Nat /\ m \in 1..(n + 1)
  BY <1>1
<1>3. (\A i \in m..(n + k) : w[i] \in S) /\ (\A i \in m..n : s[i] \in S)
  <2>1. (\A i \in 1..(n + k) : w[i] \in S) /\ (\A i \in 1..n : s[i] \in S)
    BY <1>1, ElementOfSeq
  <2> HIDE DEF n, k
  <2>2. m..(n + k) \subseteq 1..(n + k) /\ m..n \subseteq 1..n
    BY <1>2
  <2> QED
    BY <2>1, <2>2
<1> HIDE DEF n, k
<1>4. /\ u \in Seq(S) /\ Len(u) = (n + k) - m + 1
      /\ \A i \in 1..((n + k) - m + 1) : u[i] = w[m + i - 1]
  <2>1. m \in Int /\ n + k \in Int /\ \A i \in m..(n + k) : w[i] \in S
    BY <1>2, <1>3
  <2>2. /\ u \in Seq(S) /\ Len(u) = IF m <= n + k THEN (n + k) - m + 1 ELSE 0
        /\ \A i \in 1..((n + k) - m + 1) : u[i] = w[m + i - 1]
    BY <2>1, SubSeqProperties
  <2>3. ~(m <= n + k) => (n + k) - m + 1 = 0
    BY <1>2
  <2> HIDE DEF u
  <2> QED
    BY <2>2, <2>3
<1>5. /\ v \in Seq(S) /\ Len(v) = n - m + 1
      /\ \A i \in 1..(n - m + 1) : v[i] = s[m + i - 1]
  <2>1. m \in Int /\ n \in Int /\ \A i \in m..n : s[i] \in S
    BY <1>2, <1>3
  <2>2. /\ v \in Seq(S) /\ Len(v) = IF m <= n THEN n - m + 1 ELSE 0
        /\ \A i \in 1..(n - m + 1) : v[i] = s[m + i - 1]
    BY <2>1, SubSeqProperties
  <2>3. ~(m <= n) => n - m + 1 = 0
    BY <1>2
  <2> HIDE DEF v
  <2> QED
    BY <2>2, <2>3
<1> HIDE DEF u, v
<1>6. /\ x \in Seq(S) /\ Len(x) = Len(v) + k
      /\ \A i \in 1..(Len(v) + k) : x[i] = IF i <= Len(v) THEN v[i] ELSE t[i - Len(v)]
  BY <1>5, ConcatProperties DEF k
<1> HIDE DEF x
<1>7. Len(u) = Len(x) /\ Len(u) = (n - m + 1) + k
  BY <1>2, <1>4, <1>5, <1>6
<1>8. ASSUME NEW i \in 1..Len(u) PROVE u[i] = x[i]
  <2>1. PICK j : j = m + i - 1
    OBVIOUS
  <2>2. /\ i \in 1..((n + k) - m + 1) /\ i \in 1..(Len(v) + k) /\ j \in 1..(n + k)
        /\ i <= Len(v) <=> j <= n
    BY <1>2, <1>4, <1>5, <1>7, <2>1
  <2>3. u[i] = w[j] /\ w[j] = IF j <= n THEN s[j] ELSE t[j - n]
    BY <1>1, <1>4, <2>1, <2>2, Zenon
  <2>4. x[i] = IF i <= Len(v) THEN v[i] ELSE t[i - Len(v)]
    BY <1>6, <2>2, Zenon
  <2>5. CASE i <= Len(v)
    <3>1. i \in 1..(n - m + 1)
      BY <1>2, <1>5, <2>2, <2>5
    <3>2. v[i] = s[j]
      BY <1>5, <2>1, <3>1, Zenon
    <3> QED
      BY <2>2, <2>3, <2>4, <2>5, <3>2, Zenon
  <2>6. CASE ~(i <= Len(v))
    <3>1. i - Len(v) = j - n
      BY <1>2, <1>5, <2>1, <2>2
    <3> QED
      BY <2>2, <2>3, <2>4, <2>6, <3>1, Zenon
  <2> QED
    BY <2>5, <2>6
<1>9. u = x
  BY <1>4, <1>6, <1>7, <1>8, SeqEqual
<1> QED
  BY <1>9 DEF n, k, u, v, w, x

\* What is stored behind a sequence leaves it as the beginning.
LEMMA PrefixOfLonger ==
    ASSUME NEW S, NEW s \in Seq(S), NEW t \in Seq(S)
    PROVE  SubSeq(s \o t, 1, Len(s)) = s
<1> DEFINE w == s \o t
           n == Len(s)
           u == SubSeq(w, 1, n)
<1>1. /\ w \in Seq(S) /\ n \in Nat /\ Len(w) = n + Len(t) /\ Len(t) \in Nat
      /\ \A i \in 1..(n + Len(t)) : w[i] = IF i <= n THEN s[i] ELSE t[i - n]
  BY ConcatProperties
<1> HIDE DEF w
<1>2. \A i \in 1..n : w[i] \in S /\ w[i] = s[i]
  <2> SUFFICES ASSUME NEW i \in 1..n PROVE w[i] \in S /\ w[i] = s[i]
    OBVIOUS
  <2>1. i \in 1..(n + Len(t)) /\ i <= n
    BY <1>1
  <2>2. w[i] = s[i]
    BY <1>1, <2>1, Zenon
  <2>3. s[i] \in S
    BY ElementOfSeq
  <2> QED
    BY <2>2, <2>3
<1>3. n \in Int /\ 1 \in Int
  BY <1>1
<1> HIDE DEF n
<1>4. /\ u \in Seq(S) /\ Len(u) = IF 1 <= n THEN n - 1 + 1 ELSE 0
      /\ \A i \in 1..(n - 1 + 1) : u[i] = w[1 + i - 1]
  BY <1>2, <1>3, SubSeqProperties
<1> HIDE DEF u
<1>5. Len(u) = n
  BY <1>1, <1>4
<1>6. ASSUME NEW i \in 1..Len(u) PROVE u[i] = s[i]
  <2>1. i \in 1..n /\ i \in 1..(n - 1 + 1) /\ 1 + i - 1 = i
    BY <1>1, <1>5
  <2> QED
    BY <1>2, <1>4, <2>1, Zenon
<1>7. u = s
  BY <1>4, <1>5, <1>6, SeqEqual DEF n
<1> QED
  BY <1>7 DEF u, w, n

\* ... and ends the whole.
LEMMA SuffixOfLonger ==
    ASSUME NEW S, NEW s \in Seq(S), NEW t \in Seq(S)
    PROVE  SubSeq(s \o t, Len(s) + 1, Len(s) + Len(t)) = t
<1>1. Len(s) \in Nat /\ Len(s) + 1 \in 1..(Len(s) + 1)
  OBVIOUS
<1>2. SubSeq(s \o t, Len(s) + 1, Len(s) + Len(t)) = SubSeq(s, Len(s) + 1, Len(s)) \o t
  <2>1. PICK m : m = Len(s) + 1
    OBVIOUS
  <2>2. SubSeq(s \o t, m, Len(s) + Len(t)) = SubSeq(s, m, Len(s)) \o t
    BY <1>1, <2>1, SubSeqOfLonger
  <2> QED
    BY <2>1, <2>2, Zenon
<1>3. SubSeq(s, Len(s) + 1, Len(s)) = <<>>
  BY <1>1, SubSeqEmpty
<1>4. <<>> \o t = t
  BY ConcatEmptySeq
<1> QED
  BY <1>2, <1>3, <1>4, Zenon

\* The sequences of at most n elements.
LEMMA BoundedSeqIs ==
    ASSUME NEW S, NEW n \in Nat
    PROVE  \A s : s \in BoundedSeq(S, n) <=> s \in Seq(S) /\ Len(s) <= n
<1> SUFFICES ASSUME NEW s PROVE s \in BoundedSeq(S, n) <=> s \in Seq(S) /\ Len(s) <= n
  OBVIOUS
<1>1. ASSUME s \in BoundedSeq(S, n) PROVE s \in Seq(S) /\ Len(s) <= n
  <2>1. PICK m \in 0..n : s \in [1..m -> S]
    BY <1>1 DEF BoundedSeq, SeqOf
  <2>2. m \in Nat /\ m <= n
    BY <2>1
  <2> QED
    BY <2>1, <2>2
<1>2. ASSUME s \in Seq(S), Len(s) <= n PROVE s \in BoundedSeq(S, n)
  <2>1. PICK m : m = Len(s)
    OBVIOUS
  <2>2. s \in [1..m -> S] /\ m \in Nat
    BY <1>2, <2>1
  <2>3. m \in 0..n
    BY <1>2, <2>1, <2>2
  <2> QED
    BY <2>2, <2>3 DEF BoundedSeq, SeqOf
<1> QED
  BY <1>1, <1>2

\* The head and the tail of a sequence that has been given one more element in front.
LEMMA HeadTailOfCons ==
    ASSUME NEW S, NEW e \in S, NEW s \in Seq(S)
    PROVE  /\ <<e>> \o s \in Seq(S) /\ <<e>> \o s # <<>>
           /\ Head(<<e>> \o s) = e /\ Tail(<<e>> \o s) = s
<1> DEFINE w == <<e>> \o s
           t == Tail(w)
<1>1. <<e>> \in Seq(S) /\ Len(<<e>>) = 1 /\ <<e>>[1] = e /\ Len(s) \in Nat
  OBVIOUS
<1>2. /\ w \in Seq(S) /\ Len(w) = 1 + Len(s)
      /\ \A i \in 1..(1 + Len(s)) : w[i] = IF i <= 1 THEN <<e>>[i] ELSE s[i - 1]
  <2>1. PICK o : o = <<e>>
    OBVIOUS
  <2>2. /\ o \o s \in Seq(S) /\ Len(o \o s) = Len(o) + Len(s)
        /\ \A i \in 1..(Len(o) + Len(s)) :
               (o \o s)[i] = IF i <= Len(o) THEN o[i] ELSE s[i - Len(o)]
    BY <1>1, <2>1, ConcatProperties
  <2>3. Len(o) = 1
    BY <1>1, <2>1
  <2> QED
    BY <2>1, <2>2, <2>3
<1> HIDE DEF w
<1>3. w # <<>> /\ Len(w) # 0
  BY <1>1, <1>2
<1>4. w[1] = e
  <2>1. 1 \in 1..(1 + Len(s))
    BY <1>1
  <2> QED
    BY <1>1, <1>2, <2>1
<1>5. /\ t \in Seq(S) /\ Len(t) = Len(w) - 1
      /\ \A i \in 1..Len(t) : t[i] = w[i + 1]
  BY <1>2, <1>3, HeadTailProperties
<1>6. Head(w) = e
  BY <1>2, <1>3, <1>4
<1> HIDE DEF t
<1>7. Len(t) = Len(s)
  BY <1>1, <1>2, <1>5
<1>8. ASSUME NEW i \in 1..Len(t) PROVE t[i] = s[i]
  <2>1. i + 1 \in 1..(1 + Len(s)) /\ ~(i + 1 <= 1) /\ (i + 1) - 1 = i
    BY <1>1, <1>7
  <2>2. w[i + 1] = s[(i + 1) - 1]
    BY <1>2, <2>1, Zenon
  <2> QED
    BY <1>5, <2>1, <2>2
<1>9. t = s
  BY <1>5, <1>7, <1>8, SeqEqual
<1> QED
  BY <1>2, <1>3, <1>6, <1>9 DEF w, t

\* The part that is one element.
LEMMA SubSeqOfOne ==
    ASSUME NEW S, NEW s \in Seq(S), NEW i \in 1..Len(s)
    PROVE  SubSeq(s, i, i) = <<s[i]>>
<1> DEFINE t == SubSeq(s, i, i)
<1>1. Len(s) \in Nat /\ i \in Nat /\ i >= 1 /\ i <= Len(s)
  OBVIOUS
<1>2. t \in Seq(S) /\ Len(t) = i - i + 1 /\ t[1] = s[i]
  BY <1>1
<1>3. Len(t) = 1
  BY <1>1, <1>2
<1>4. s[i] \in S
  BY <1>1, ElementOfSeq
<1>5. <<s[i]>> \in Seq(S) /\ Len(<<s[i]>>) = 1 /\ <<s[i]>>[1] = s[i]
  BY <1>4
<1> DEFINE u == <<s[i]>>
<1> HIDE DEF t, u
<1>6. u \in Seq(S) /\ Len(u) = 1 /\ u[1] = s[i]
  BY <1>5 DEF u
<1>7. \A j \in 1..Len(t) : t[j] = u[j]
  BY <1>2, <1>3, <1>6
<1>8. t = u
  BY <1>2, <1>3, <1>6, <1>7, SeqEqual
<1> QED
  BY <1>8 DEF t, u

\* The part that is two elements.
LEMMA SubSeqOfTwo ==
    ASSUME NEW S, NEW s \in Seq(S), NEW i \in 1..Len(s), i + 1 <= Len(s)
    PROVE  LET t == SubSeq(s, i, i + 1)
           IN t \in Seq(S) /\ Len(t) = 2 /\ t[1] = s[i] /\ t[2] = s[i + 1]
<1> DEFINE t == SubSeq(s, i, i + 1)
<1>1. Len(s) \in Nat /\ i \in Nat /\ i >= 1 /\ i <= Len(s)
  OBVIOUS
<1>2. /\ t \in Seq(S) /\ Len(t) = (i + 1) - i + 1
      /\ \A j \in 1..((i + 1) - i + 1) : t[j] = s[i + j - 1]
  BY <1>1
<1>3. (i + 1) - i + 1 = 2 /\ i + 1 - 1 = i /\ i + 2 - 1 = i + 1
  BY <1>1
<1>4. 1 \in 1..2 /\ 2 \in 1..2
  OBVIOUS
<1> HIDE DEF t
<1>5. Len(t) = 2 /\ \A j \in 1..2 : t[j] = s[i + j - 1]
  BY <1>2, <1>3
<1>6. t[1] = s[i] /\ t[2] = s[i + 1]
  BY <1>3, <1>4, <1>5
<1> QED
  BY <1>2, <1>5, <1>6 DEF t

\* The first elements of a sequence.
LEMMA FirstPart ==
    ASSUME NEW S, NEW q \in Seq(S), NEW m \in Nat, m <= Len(q)
    PROVE  /\ SubSeq(q, 1, m) \in Seq(S) /\ Len(SubSeq(q, 1, m)) = m
           /\ \A k \in 1..m : SubSeq(q, 1, m)[k] = q[k]
  OBVIOUS

\* The elements behind the first ones.
LEMMA LastPart ==
    ASSUME NEW S, NEW q \in Seq(S), NEW m \in Nat, m <= Len(q)
    PROVE  /\ SubSeq(q, m + 1, Len(q)) \in Seq(S)
           /\ Len(SubSeq(q, m + 1, Len(q))) = Len(q) - m
           /\ \A i \in 1..(Len(q) - m) : SubSeq(q, m + 1, Len(q))[i] = q[m + i]
  OBVIOUS

-----------------------------------------------------------------------------
(* Sets of numbers *)

LEMMA SmallestExists ==
    ASSUME NEW S \in SUBSET Nat, S # {}
    PROVE  \E x \in S : \A y \in S : x <= y
<1> DEFINE Less == {p \in Nat \X Nat : p[1] < p[2]}
<1>1. IsWellFoundedOn(Less, Nat)
  BY NatLessThanWellFounded DEF OpToRel
<1>2. \E x \in S : \A y \in S : <<y, x>> \notin Less
  <2> HIDE DEF Less
  <2> QED
    BY <1>1, WFMin
<1>3. PICK x \in S : \A y \in S : <<y, x>> \notin Less
  BY <1>2
<1>4. \A y \in S : ~(y < x)
  BY <1>3
<1> HIDE DEF Less
<1> QED
  BY <1>4

LEMMA LargestExists ==
    ASSUME NEW S \in SUBSET Nat, S # {}, NEW n \in Nat, \A x \in S : x <= n
    PROVE  \E x \in S : \A y \in S : x >= y
<1> DEFINE T == {n - x : x \in S}
<1>1. T \in SUBSET Nat /\ T # {}
  OBVIOUS
<1>2. PICK t \in T : \A u \in T : t <= u
  <2> HIDE DEF T
  <2> QED
    BY <1>1, SmallestExists
<1>3. PICK x \in S : t = n - x
  BY <1>2
<1>4. \A y \in S : n - x <= n - y
  BY <1>2, <1>3
<1>5. \A y \in S : x >= y
  BY <1>4
<1> QED
  BY <1>5

\* A set of naturals with 0 and the successor of each of its members has them all:
\* induction, for a property given as the set of the numbers that have it.
LEMMA SetInduction ==
    ASSUME NEW S, 0 \in S, \A n \in Nat : n \in S => n + 1 \in S
    PROVE  Nat \subseteq S
<1> DEFINE T == Nat \ S
<1> SUFFICES ASSUME T # {} PROVE FALSE
  OBVIOUS
<1>1. T \in SUBSET Nat
  OBVIOUS
<1>2. PICK x \in T : \A y \in T : x <= y
  BY <1>1, SmallestExists
<1>3. x # 0 /\ x - 1 \in Nat
  OBVIOUS
<1>4. x - 1 \in S
  BY <1>2, <1>3
<1> QED
  BY <1>3, <1>4

-----------------------------------------------------------------------------
(* Flattening a sequence of sequences *)

\* The equation of the function that FlattenSeq computes, for the first n elements of q.
Flattens(f, q, n) ==
    \A i \in 1..n : f[i] = IF i = 1 THEN q[i] ELSE f[i - 1] \o q[i]

\* At most one function satisfies the equation.
LEMMA FlattensUnique ==
    ASSUME NEW q, NEW n \in Nat, NEW f, NEW g, Flattens(f, q, n), Flattens(g, q, n)
    PROVE  \A i \in 1..n : f[i] = g[i]
<1> DEFINE S == {k \in Nat : k \in 1..n => f[k] = g[k]}
<1>1. 0 \in S
  OBVIOUS
<1>2. ASSUME NEW k \in Nat, k \in S, k + 1 \in 1..n
      PROVE  f[k + 1] = g[k + 1]
  <2>1. /\ f[k + 1] = IF k + 1 = 1 THEN q[k + 1] ELSE f[(k + 1) - 1] \o q[k + 1]
        /\ g[k + 1] = IF k + 1 = 1 THEN q[k + 1] ELSE g[(k + 1) - 1] \o q[k + 1]
    BY <1>2 DEF Flattens
  <2>2. k + 1 # 1 => k \in 1..n /\ (k + 1) - 1 = k
    BY <1>2
  <2> QED
    BY <1>2, <2>1, <2>2
<1>3. \A k \in Nat : k \in S => k + 1 \in S
  BY <1>2
<1> HIDE DEF S
<1>4. Nat \subseteq S
  BY <1>1, <1>3, SetInduction
<1> QED
  BY <1>4 DEF S

\* There is one.
LEMMA FlattensExists ==
    ASSUME NEW q, NEW n \in Nat
    PROVE  \E f : f = [i \in 1..n |-> IF i = 1 THEN q[i] ELSE f[i - 1] \o q[i]]
<1> DEFINE Is(f, k) == f = [i \in 1..k |-> IF i = 1 THEN q[i] ELSE f[i - 1] \o q[i]]
           S == {k \in Nat : \E f : Is(f, k)}
<1>1. 0 \in S
  <2> DEFINE f == [i \in 1..0 |-> i]
  <2>1. Is(f, 0)
    OBVIOUS
  <2> HIDE DEF f, Is
  <2> QED
    BY <2>1
<1>2. ASSUME NEW k \in Nat, k \in S
      PROVE  k + 1 \in S
  <2>1. PICK f : Is(f, k)
    BY <1>2
  <2> DEFINE g == [i \in 1..(k + 1) |->
                      IF i = k + 1 THEN (IF i = 1 THEN q[i] ELSE f[i - 1] \o q[i]) ELSE f[i]]
  <2>2. ASSUME NEW i \in 1..(k + 1)
        PROVE  g[i] = IF i = 1 THEN q[i] ELSE g[i - 1] \o q[i]
    <3>1. i # 1 => i - 1 \in 1..k /\ g[i - 1] = f[i - 1]
      OBVIOUS
    <3>2. i # k + 1 => i \in 1..k
      OBVIOUS
    <3>3. i # k + 1 => f[i] = IF i = 1 THEN q[i] ELSE f[i - 1] \o q[i]
      BY <2>1, <3>2
    <3>4. g[i] = IF i = k + 1 THEN (IF i = 1 THEN q[i] ELSE f[i - 1] \o q[i]) ELSE f[i]
      OBVIOUS
    <3> QED
      BY <3>1, <3>3, <3>4
  <2>3. g = [i \in 1..(k + 1) |-> g[i]]
    OBVIOUS
  <2> HIDE DEF g
  <2>4. Is(g, k + 1)
    BY <2>2, <2>3
  <2>5. \E h : Is(h, k + 1)
    <3> HIDE DEF Is
    <3> QED
      BY <2>4
  <2> HIDE DEF Is
  <2> QED
    BY <2>5
<1> HIDE DEF S
<1>3. Nat \subseteq S
  BY <1>1, <1>2, SetInduction
<1> QED
  BY <1>3 DEF S

\* FlattenSeq is the last value of any function that satisfies the equation.
LEMMA FlattenSeqIs ==
    ASSUME NEW q, Len(q) \in Nat, Len(q) # 0, NEW f, Flattens(f, q, Len(q))
    PROVE  FlattenSeq(q) = f[Len(q)]
<1> DEFINE n == Len(q)
           g == CHOOSE h : h = [i \in 1..n |-> IF i = 1 THEN q[i] ELSE h[i - 1] \o q[i]]
<1>1. FlattenSeq(q) = g[n]
  BY DEF FlattenSeq
<1>2. g = [i \in 1..n |-> IF i = 1 THEN q[i] ELSE g[i - 1] \o q[i]]
  BY FlattensExists
<1> HIDE DEF g
<1>3. Flattens(g, q, n)
  BY <1>2 DEF Flattens
<1>4. g[n] = f[n]
  BY <1>3, FlattensUnique
<1> QED
  BY <1>1, <1>4

\* The values of a function that satisfies it are sequences.
LEMMA FlattensType ==
    ASSUME NEW S, NEW q \in Seq(Seq(S)), NEW f, Flattens(f, q, Len(q))
    PROVE  \A i \in 1..Len(q) : f[i] \in Seq(S)
<1> DEFINE n == Len(q)
           T == {k \in Nat : k \in 1..n => f[k] \in Seq(S)}
<1>1. 0 \in T /\ n \in Nat /\ \A i \in 1..n : q[i] \in Seq(S)
  OBVIOUS
<1>2. ASSUME NEW k \in Nat, k \in T, k + 1 \in 1..n
      PROVE  f[k + 1] \in Seq(S)
  <2>1. f[k + 1] = IF k + 1 = 1 THEN q[k + 1] ELSE f[k] \o q[k + 1]
    <3>1. f[k + 1] = IF k + 1 = 1 THEN q[k + 1] ELSE f[(k + 1) - 1] \o q[k + 1]
      BY <1>2 DEF Flattens
    <3>2. (k + 1) - 1 = k
      BY <1>2
    <3> QED
      BY <3>1, <3>2
  <2>2. CASE k = 0
    BY <1>1, <1>2, <2>1, <2>2
  <2>3. CASE k # 0
    <3>1. f[k] \in Seq(S) /\ q[k + 1] \in Seq(S)
      BY <1>1, <1>2, <2>3
    <3>2. f[k] \o q[k + 1] \in Seq(S)
      BY <3>1, ConcatProperties
    <3> QED
      BY <1>2, <2>1, <2>3, <3>2
  <2> QED
    BY <2>2, <2>3
<1> HIDE DEF T, n
<1>3. \A k \in Nat : k \in T => k + 1 \in T
  BY <1>2 DEF T
<1>4. Nat \subseteq T
  BY <1>1, <1>3, SetInduction
<1> QED
  BY <1>4 DEF T, n

\* What FlattenSeq returns is a sequence.
LEMMA FlattenType ==
    ASSUME NEW S, NEW q \in Seq(Seq(S))
    PROVE  FlattenSeq(q) \in Seq(S)
<1>1. CASE q = <<>>
  BY <1>1 DEF FlattenSeq
<1>2. CASE q # <<>>
  <2>1. Len(q) \in Nat /\ Len(q) # 0 /\ Len(q) \in 1..Len(q)
    BY <1>2
  <2>2. PICK f : f = [i \in 1..Len(q) |-> IF i = 1 THEN q[i] ELSE f[i - 1] \o q[i]]
    BY <2>1, FlattensExists
  <2>3. Flattens(f, q, Len(q))
    BY <2>2 DEF Flattens
  <2> QED
    BY <2>1, <2>3, FlattenSeqIs, FlattensType
<1> QED
  BY <1>1, <1>2

\* One more sequence is one more piece of the whole.
LEMMA FlattenAppend ==
    ASSUME NEW S, NEW q \in Seq(Seq(S)), NEW s \in Seq(S)
    PROVE  FlattenSeq(Append(q, s)) = FlattenSeq(q) \o s
<1> DEFINE r == Append(q, s)
           n == Len(q)
<1>1. /\ r \in Seq(Seq(S)) /\ n \in Nat /\ Len(r) = n + 1 /\ r[n + 1] = s
      /\ \A i \in 1..n : r[i] = q[i]
  BY AppendProperties
<1> HIDE DEF r, n
<1>2. PICK f : f = [i \in 1..(n + 1) |-> IF i = 1 THEN r[i] ELSE f[i - 1] \o r[i]]
  <2>1. n + 1 \in Nat
    BY <1>1
  <2> QED
    BY <2>1, FlattensExists
<1>3. Flattens(f, r, n + 1)
  BY <1>2 DEF Flattens
<1>4. FlattenSeq(r) = f[n + 1]
  BY <1>1, <1>3, FlattenSeqIs
<1>5. CASE q = <<>>
  <2>1. n = 0 /\ FlattenSeq(q) = <<>>
    BY <1>5 DEF FlattenSeq, n
  <2>2. f[1] = r[1]
    BY <1>3, <2>1 DEF Flattens
  <2>3. <<>> \o s = s
    BY ConcatEmptySeq
  <2> QED
    BY <1>1, <1>4, <2>1, <2>2, <2>3 DEF r
<1>6. CASE q # <<>>
  <2>1. n # 0
    BY <1>6 DEF n
  <2>2. Flattens(f, q, n)
    <3>1. n \in Nat /\ \A i \in 1..n : r[i] = q[i]
      BY <1>1
    <3>2. \A i \in 1..n : i \in 1..(n + 1)
      BY <3>1
    <3> QED
      BY <1>3, <3>1, <3>2, Zenon DEF Flattens
  <2>3. FlattenSeq(q) = f[n]
    BY <1>1, <2>1, <2>2, FlattenSeqIs DEF n
  <2>4. f[n + 1] = f[n] \o r[n + 1]
    <3>1. f[n + 1] = IF n + 1 = 1 THEN r[n + 1] ELSE f[(n + 1) - 1] \o r[n + 1]
      BY <1>1, <1>3 DEF Flattens
    <3>2. n + 1 # 1 /\ (n + 1) - 1 = n
      <4>1. n \in Nat
        BY <1>1
      <4> QED
        BY <4>1, <2>1
    <3> QED
      BY <3>1, <3>2
  <2> QED
    BY <1>1, <1>4, <2>3, <2>4 DEF r
<1> QED
  BY <1>5, <1>6

\* The first sequence is the beginning of the whole.
LEMMA FlattenHead ==
    ASSUME NEW S, NEW q \in Seq(Seq(S)), q # <<>>
    PROVE  FlattenSeq(q) = Head(q) \o FlattenSeq(Tail(q))
<1> DEFINE h == Head(q)
           r == Tail(q)
           n == Len(r)
<1>1. /\ h \in Seq(S) /\ h = q[1]
      /\ r \in Seq(Seq(S)) /\ n \in Nat /\ Len(q) = n + 1
      /\ \A i \in 1..n : r[i] = q[i + 1]
  BY HeadTailProperties
<1> HIDE DEF h, r, n
<1>n. n \in Nat
  BY <1>1
<1>2. PICK f : f = [i \in 1..n |-> IF i = 1 THEN r[i] ELSE f[i - 1] \o r[i]]
  BY <1>1, FlattensExists
<1>3. Flattens(f, r, n)
  BY <1>2 DEF Flattens
<1>4. \A i \in 1..n : f[i] \in Seq(S)
  BY <1>1, <1>3, FlattensType DEF n
<1> DEFINE g == [i \in 1..(n + 1) |-> IF i = 1 THEN h ELSE h \o f[i - 1]]
<1>a. \A a, b \in Seq(S) : (h \o a) \o b = h \o (a \o b)
  <2>1. \A a, b, c \in Seq(S) : (c \o a) \o b = c \o (a \o b)
    BY ConcatAssociative
  <2>2. h \in Seq(S)
    BY <1>1
  <2> QED
    BY <2>1, <2>2, Zenon
<1>g. \A i \in 1..(n + 1) : g[i] = IF i = 1 THEN h ELSE h \o f[i - 1]
  OBVIOUS
<1> HIDE DEF g
<1>5. ASSUME NEW i \in 1..(n + 1)
      PROVE  g[i] = IF i = 1 THEN q[i] ELSE g[i - 1] \o q[i]
  <2>1. CASE i = 1
    BY <1>1, <1>g, <2>1
  <2>2. CASE i = 2
    <3>1. 1 \in 1..n /\ 1 \in 1..(n + 1) /\ 2 \in 1..(n + 1)
      BY <1>n, <2>2
    <3>2. i # 1 /\ i - 1 = 1
      BY <2>2
    <3>3. g[1] = h
      BY <1>g, <3>1, Zenon
    <3>4. g[i] = h \o f[i - 1]
      BY <1>g, <3>2, Zenon
    <3>5. f[1] = q[2]
      BY <1>1, <1>3, <3>1 DEF Flattens
    <3> QED
      BY <2>2, <3>2, <3>3, <3>4, <3>5, Zenon
  <2>3. CASE i > 2
    <3>1. PICK j \in 1..n : j = i - 1
      BY <1>n, <2>3
    <3>2. j # 1 /\ j - 1 \in 1..n /\ j \in 1..(n + 1) /\ i # 1 /\ j + 1 = i
      BY <1>n, <2>3, <3>1
    <3>3. g[i] = h \o f[j] /\ g[j] = h \o f[j - 1]
      BY <1>g, <3>1, <3>2, Zenon
    <3>4. f[j] = f[j - 1] \o r[j]
      BY <1>3, <3>2 DEF Flattens
    <3>5. f[j - 1] \in Seq(S)
      BY <1>4, <3>2, Zenon
    <3>6. r[j] = q[i]
      BY <1>1, <3>2
    <3>10. r[j] \in Seq(S)
      BY <1>1, ElementOfSeq DEF n
    <3>8. (h \o f[j - 1]) \o r[j] = h \o (f[j - 1] \o r[j])
      BY <1>a, <3>5, <3>10, Zenon
    <3>9. g[i] = g[j] \o q[i]
      BY <3>3, <3>4, <3>6, <3>8, Zenon
    <3> QED
      BY <3>1, <3>2, <3>9, Zenon
  <2> QED
    BY <1>n, <2>1, <2>2, <2>3
<1>6. Flattens(g, q, n + 1)
  BY <1>5 DEF Flattens
<1>7. FlattenSeq(q) = g[n + 1]
  <2>1. Len(q) = n + 1 /\ Len(q) \in Nat /\ Len(q) # 0
    BY <1>1
  <2> QED
    BY <1>6, <2>1, FlattenSeqIs
<1>8. CASE n = 0
  <2>1. r = <<>> /\ FlattenSeq(r) = <<>>
    BY <1>1, <1>8 DEF FlattenSeq, n
  <2>2. g[1] = h /\ h \o <<>> = h
    BY <1>1, <1>8, <1>g, ConcatEmptySeq
  <2> QED
    BY <1>7, <1>8, <2>1, <2>2 DEF h, r
<1>9. CASE n # 0
  <2>1. FlattenSeq(r) = f[n]
    BY <1>1, <1>3, <1>9, FlattenSeqIs DEF n
  <2>2. g[n + 1] = h \o f[n]
    <3>1. n + 1 \in 1..(n + 1) /\ n + 1 # 1 /\ (n + 1) - 1 = n
      BY <1>n, <1>9
    <3> QED
      BY <1>g, <3>1, Zenon
  <2> QED
    BY <1>7, <2>1, <2>2 DEF h, r
<1> QED
  BY <1>8, <1>9

\* No sequences make the empty one.
LEMMA FlattenEmpty == FlattenSeq(<<>>) = <<>>
BY DEF FlattenSeq

\* What begins the first sequence begins the whole.
LEMMA FlattenFirst ==
    ASSUME NEW S, NEW q \in Seq(Seq(S)), NEW a \in Seq(S), NEW b \in Seq(S)
    PROVE  q # <<>> /\ q[1] = a \o b
               => FlattenSeq(q) = a \o FlattenSeq([q EXCEPT ![1] = b])
<1>10. \A c \in Seq(S) : (a \o b) \o c = a \o (b \o c)
  BY ConcatAssociative
<1> HAVE q # <<>> /\ q[1] = a \o b
<1> DEFINE r == [q EXCEPT ![1] = b]
<1>1. 1 \in 1..Len(q) /\ Len(q) \in Nat
  OBVIOUS
<1>2. /\ r \in Seq(Seq(S)) /\ Len(r) = Len(q)
      /\ \A j \in 1..Len(q) : r[j] = IF j = 1 THEN b ELSE q[j]
  BY <1>1, ExceptSeq
<1> HIDE DEF r
<1>3. r # <<>> /\ r[1] = b
  BY <1>1, <1>2
<1>4. Head(q) = q[1] /\ Head(r) = r[1]
  BY <1>2, <1>3
<1>5. /\ Tail(q) \in Seq(Seq(S)) /\ Len(Tail(q)) = Len(q) - 1
      /\ \A i \in 1..Len(Tail(q)) : Tail(q)[i] = q[i + 1]
  BY HeadTailProperties
<1>6. /\ Tail(r) \in Seq(Seq(S)) /\ Len(Tail(r)) = Len(r) - 1
      /\ \A i \in 1..Len(Tail(r)) : Tail(r)[i] = r[i + 1]
  BY <1>2, <1>3, HeadTailProperties
<1>7. Tail(r) = Tail(q)
  <2>1. Len(Tail(r)) = Len(Tail(q))
    BY <1>2, <1>5, <1>6
  <2>2. ASSUME NEW i \in 1..Len(Tail(r)) PROVE Tail(r)[i] = Tail(q)[i]
    <3>1. i + 1 \in 1..Len(q) /\ i + 1 # 1 /\ i \in 1..Len(Tail(q))
      BY <1>1, <1>2, <1>6, <2>1
    <3>2. Tail(r)[i] = r[i + 1] /\ Tail(q)[i] = q[i + 1]
      BY <1>5, <1>6, <3>1, Zenon
    <3>3. r[i + 1] = q[i + 1]
      BY <1>2, <3>1, Zenon
    <3> QED
      BY <3>2, <3>3, Zenon
  <2> QED
    BY <1>5, <1>6, <2>1, <2>2, SeqEqual
<1>8. /\ FlattenSeq(q) = Head(q) \o FlattenSeq(Tail(q))
      /\ FlattenSeq(r) = Head(r) \o FlattenSeq(Tail(r))
  BY <1>2, <1>3, FlattenHead
<1>9. FlattenSeq(Tail(q)) \in Seq(S)
  BY <1>5, FlattenType
<1>11. (a \o b) \o FlattenSeq(Tail(q)) = a \o (b \o FlattenSeq(Tail(q)))
  BY <1>9, <1>10, Zenon
<1>12. FlattenSeq(q) = a \o FlattenSeq(r)
  BY <1>3, <1>4, <1>7, <1>8, <1>11, Zenon
<1> QED
  BY <1>12 DEF r

\* What ends the last sequence ends the whole.
LEMMA FlattenLast ==
    ASSUME NEW S, NEW q \in Seq(Seq(S)), NEW a \in Seq(S), NEW b \in Seq(S)
    PROVE  q # <<>> /\ q[Len(q)] = a
               => FlattenSeq([q EXCEPT ![Len(q)] = a \o b]) = FlattenSeq(q) \o b
<1>11. \A d \in Seq(S) : (d \o a) \o b = d \o (a \o b)
  BY ConcatAssociative
<1> HAVE q # <<>> /\ q[Len(q)] = a
<1> DEFINE n == Len(q)
           c == a \o b
           r == [q EXCEPT ![n] = c]
<1>1. n \in 1..Len(q) /\ n \in Nat /\ c \in Seq(S)
  BY ConcatProperties
<1>2. /\ r \in Seq(Seq(S)) /\ Len(r) = Len(q)
      /\ \A j \in 1..Len(q) : r[j] = IF j = n THEN c ELSE q[j]
  <2> HIDE DEF n, c
  <2> QED
    BY <1>1, ExceptSeq
<1>3. PICK p \in Seq(Seq(S)), e \in Seq(S) : q = Append(p, e)
  BY SequenceEmptyOrAppend
<1>4. /\ n = Len(p) + 1 /\ q[n] = e /\ Len(p) \in Nat
      /\ \A i \in 1..Len(p) : q[i] = p[i]
  BY <1>3, AppendProperties
<1>5. e = a
  BY <1>4
<1> HIDE DEF c, r
<1> DEFINE t == Append(p, c)
<1>6. /\ t \in Seq(Seq(S)) /\ Len(t) = Len(p) + 1 /\ t[Len(p) + 1] = c
      /\ \A i \in 1..Len(p) : t[i] = p[i]
  BY <1>1, AppendProperties
<1> HIDE DEF t, n
<1>7. r = t
  <2>1. Len(r) = Len(t) /\ Len(r) = Len(p) + 1
    BY <1>2, <1>4, <1>6 DEF n
  <2>2. ASSUME NEW i \in 1..Len(r) PROVE r[i] = t[i]
    <3>1. CASE i = n
      <4>1. r[i] = c
        BY <1>1, <1>2, <3>1, Zenon
      <4>2. t[i] = c
        BY <1>4, <1>6, <3>1, Zenon
      <4> QED
        BY <4>1, <4>2
    <3>2. CASE i # n
      <4>1. i \in 1..Len(p) /\ i \in 1..Len(q)
        BY <1>2, <1>4, <2>1, <3>2
      <4>2. r[i] = q[i]
        BY <1>2, <3>2, <4>1, Zenon
      <4> QED
        BY <1>4, <1>6, <4>1, <4>2, Zenon
    <3> QED
      BY <3>1, <3>2
  <2> QED
    BY <1>2, <1>6, <2>1, <2>2, SeqEqual
<1>8. FlattenSeq(t) = FlattenSeq(p) \o c
  BY <1>1, FlattenAppend DEF t
<1>9. FlattenSeq(q) = FlattenSeq(p) \o a
  BY <1>3, <1>5, FlattenAppend
<1>10. FlattenSeq(p) \in Seq(S)
  BY FlattenType
<1>12. (FlattenSeq(p) \o a) \o b = FlattenSeq(p) \o (a \o b)
  BY <1>10, <1>11, Zenon
<1> QED
  BY <1>7, <1>8, <1>9, <1>12, Zenon DEF c, r, n

\* Two sequences, one behind the other, have the elements of both.
LEMMA ConcatElements ==
    ASSUME NEW S, NEW q \in Seq(S), NEW r \in Seq(S)
    PROVE  ToSet(q \o r) = ToSet(q) \cup ToSet(r)
<1> DEFINE w == q \o r
<1>1. /\ w \in Seq(S) /\ Len(w) = Len(q) + Len(r)
      /\ \A i \in 1..(Len(q) + Len(r)) : w[i] = IF i <= Len(q) THEN q[i] ELSE r[i - Len(q)]
  BY ConcatProperties
<1> HIDE DEF w
<1>2. /\ DOMAIN q = 1..Len(q) /\ DOMAIN r = 1..Len(r) /\ DOMAIN w = 1..(Len(q) + Len(r))
      /\ Len(q) \in Nat /\ Len(r) \in Nat
  BY <1>1
<1>3. ASSUME NEW i \in 1..Len(q) PROVE q[i] \in ToSet(w)
  <2>1. i \in 1..(Len(q) + Len(r)) /\ i <= Len(q)
    BY <1>2
  <2> QED
    BY <1>1, <1>2, <2>1, Zenon DEF ToSet
<1>4. ASSUME NEW i \in 1..Len(r) PROVE r[i] \in ToSet(w)
  <2>1. PICK j : j = i + Len(q)
    OBVIOUS
  <2>2. j \in 1..(Len(q) + Len(r)) /\ ~(j <= Len(q)) /\ j - Len(q) = i
    BY <1>2, <2>1
  <2>3. w[j] = r[i]
    BY <1>1, <2>2, Zenon
  <2> QED
    BY <1>2, <2>2, <2>3, Zenon DEF ToSet
<1>5. ASSUME NEW i \in 1..(Len(q) + Len(r)) PROVE w[i] \in ToSet(q) \cup ToSet(r)
  <2>1. CASE i <= Len(q)
    <3>1. w[i] = q[i] /\ i \in 1..Len(q)
      BY <1>1, <1>2, <2>1
    <3> QED
      BY <1>2, <3>1, Zenon DEF ToSet
  <2>2. CASE ~(i <= Len(q))
    <3>1. w[i] = r[i - Len(q)] /\ i - Len(q) \in 1..Len(r)
      BY <1>1, <1>2, <2>2
    <3> QED
      BY <1>2, <3>1, Zenon DEF ToSet
  <2> QED
    BY <2>1, <2>2
<1>6. ToSet(w) \subseteq ToSet(q) \cup ToSet(r)
  BY <1>2, <1>5, Zenon DEF ToSet
<1>7. ToSet(q) \subseteq ToSet(w) /\ ToSet(r) \subseteq ToSet(w)
  BY <1>2, <1>3, <1>4, Zenon DEF ToSet
<1> QED
  BY <1>6, <1>7 DEF w

\* The elements of the whole are those of its pieces.
LEMMA FlattenElements ==
    ASSUME NEW S, NEW q \in Seq(Seq(S))
    PROVE  ToSet(FlattenSeq(q)) = UNION {ToSet(q[i]) : i \in 1..Len(q)}
<1> DEFINE Is(p) == ToSet(FlattenSeq(p)) = UNION {ToSet(p[i]) : i \in 1..Len(p)}
           T == {n \in Nat : \A p \in Seq(Seq(S)) : Len(p) = n => Is(p)}
<1>1. 0 \in T
  <2> SUFFICES ASSUME NEW p \in Seq(Seq(S)), Len(p) = 0 PROVE Is(p)
    OBVIOUS
  <2>1. p = <<>>
    OBVIOUS
  <2>2. ToSet(<<>>) = {}
    BY DEF ToSet
  <2>3. {ToSet(p[i]) : i \in 1..Len(p)} = {}
    OBVIOUS
  <2> QED
    BY <2>1, <2>2, <2>3, FlattenEmpty
<1>2. ASSUME NEW n \in Nat, n \in T PROVE n + 1 \in T
  <2> SUFFICES ASSUME NEW p \in Seq(Seq(S)), Len(p) = n + 1 PROVE Is(p)
    OBVIOUS
  <2>1. p # <<>>
    OBVIOUS
  <2>2. PICK r \in Seq(Seq(S)), e \in Seq(S) : p = Append(r, e)
    BY <2>1, SequenceEmptyOrAppend
  <2>3. /\ Len(r) = n /\ Len(p) = Len(r) + 1 /\ p[n + 1] = e
        /\ \A i \in 1..n : p[i] = r[i]
    <3>1. Len(Append(r, e)) = Len(r) + 1 /\ Len(r) \in Nat
      BY AppendProperties
    <3>2. Len(r) = n
      BY <2>2, <3>1
    <3> QED
      BY <2>2, <3>2, AppendProperties
  <2>4. Is(r)
    BY <1>2, <2>3
  <2>5. FlattenSeq(p) = FlattenSeq(r) \o e /\ FlattenSeq(r) \in Seq(S)
    BY <2>2, FlattenAppend, FlattenType
  <2>6. ToSet(FlattenSeq(p)) = ToSet(FlattenSeq(r)) \cup ToSet(e)
    BY <2>5, ConcatElements
  <2>7. 1..Len(p) = 1..n \cup {n + 1}
    BY <2>3
  <2>8. UNION {ToSet(p[i]) : i \in 1..Len(p)}
            = (UNION {ToSet(r[i]) : i \in 1..n}) \cup ToSet(e)
    <3>1. \A i \in 1..n : ToSet(p[i]) = ToSet(r[i])
      BY <2>3, Zenon
    <3>2. ToSet(p[n + 1]) = ToSet(e)
      BY <2>3, Zenon
    <3> HIDE DEF T, Is
    <3> QED
      BY <2>7, <3>1, <3>2, Zenon
  <2> QED
    BY <2>3, <2>4, <2>6, <2>8
<1> HIDE DEF T
<1>3. Nat \subseteq T
  BY <1>1, <1>2, SetInduction
<1>4. Len(q) \in Nat
  OBVIOUS
<1> QED
  BY <1>3, <1>4 DEF T

=============================================================================
