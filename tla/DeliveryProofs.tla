---------------------------- MODULE DeliveryProofs ----------------------------
(***************************************************************************)
(* Proofs about Delivery, for any object paths, requests, ranges, sizes,   *)
(* cache limits and times to live.                                         *)
(***************************************************************************)
EXTENDS Delivery, WellFoundedInduction, TLAPS

Data == (Nat \ {0}) \X Nat

Entries == [key : Keys, data : Data, age : Nat, ttl : Nat, size : Nat]

-----------------------------------------------------------------------------
(* Positions and sequences.                                                *)

\* A set of numbers that is not empty has a smallest one.
LEMMA Smallest ==
    ASSUME NEW T, T \subseteq Nat, T # {}
    PROVE  \E i \in T : \A j \in T : i <= j
<1>1. \E x \in T : \A y \in T : ~(<<y, x>> \in OpToRel(<, Nat))
  BY NatLessThanWellFounded, WFMin
<1>2. PICK x \in T : \A y \in T : ~(<<y, x>> \in OpToRel(<, Nat))
  BY <1>1
<1>3. \A y \in T : ~(y < x)
  BY <1>2 DEF OpToRel
<1>. QED  BY <1>3

\* Induction up to n: what holds of 0 and passes from m - 1 to m holds up to n.
LEMMA InductionTo ==
    ASSUME NEW n \in Nat, NEW P, 0 \in P, \A m \in 1..n : m - 1 \in P => m \in P
    PROVE  \A m \in 0..n : m \in P
<1>. DEFINE T == {m \in 0..n : m \notin P}
<1>. SUFFICES ASSUME T # {}  PROVE FALSE
  OBVIOUS
<1>1. T \subseteq Nat
  OBVIOUS
<1>2. PICK i \in T : \A j \in T : i <= j
  <2>. HIDE DEF T
  <2>. QED  BY <1>1, Smallest
<1>3. i \in 1..n /\ i - 1 \in 0..n
  BY <1>2
<1>4. i - 1 \notin T
  BY <1>2, <1>3
<1>. QED  BY <1>2, <1>3, <1>4

\* The elements of a concatenation.
LEMMA ConcatElements ==
    ASSUME NEW S, NEW u \in Seq(S), NEW v \in Seq(S)
    PROVE  /\ u \o v \in Seq(S) /\ Len(u \o v) = Len(u) + Len(v)
           /\ \A j \in 1..Len(u) : (u \o v)[j] = u[j]
           /\ \A j \in 1..Len(v) : (u \o v)[Len(u) + j] = v[j]
OBVIOUS

\* Removing a position shifts the later ones.
LEMMA RemoveAtEffect ==
    ASSUME NEW S, NEW q \in Seq(S), NEW i \in DOMAIN q
    PROVE  /\ RemoveAt(q, i) \in Seq(S)
           /\ Len(RemoveAt(q, i)) = Len(q) - 1
           /\ \A j \in 1..(Len(q) - 1) :
                 RemoveAt(q, i)[j] = IF j < i THEN q[j] ELSE q[j + 1]
<1>1. i \in 1..Len(q) /\ Len(q) \in Nat /\ \A j \in 1..Len(q) : q[j] \in S
  OBVIOUS
<1>. DEFINE u == SubSeq(q, 1, i - 1)
            v == SubSeq(q, i + 1, Len(q))
<1>2. u \in Seq(S) /\ Len(u) = i - 1 /\ \A j \in 1..(i - 1) : u[j] = q[j]
  BY <1>1
<1>3. v \in Seq(S) /\ Len(v) = Len(q) - i /\ \A j \in 1..(Len(q) - i) : v[j] = q[i + j]
  BY <1>1
<1>. HIDE DEF u, v
<1>4. u \o v \in Seq(S) /\ Len(u \o v) = Len(q) - 1
  BY <1>1, <1>2, <1>3
<1>5. ASSUME NEW j \in 1..(Len(q) - 1)
      PROVE  (u \o v)[j] = IF j < i THEN q[j] ELSE q[j + 1]
  <2>1. CASE j < i
    BY <1>1, <1>2, <1>3, <2>1
  <2>2. CASE ~(j < i)
    <3>1. /\ j - (i - 1) \in 1..(Len(q) - i) /\ i + (j - (i - 1)) = j + 1
          /\ (i - 1) + (j - (i - 1)) = j
      BY <1>1, <2>2
    <3>2. (u \o v)[Len(u) + (j - (i - 1))] = v[j - (i - 1)]
      <4>0. u \in Seq(S) /\ v \in Seq(S)
        BY <1>2, <1>3
      <4>1. \A x \in 1..Len(v) : (u \o v)[Len(u) + x] = v[x]
        BY <4>0, ConcatElements
      <4>. QED  BY <1>3, <3>1, <4>1
    <3>. QED  BY <1>2, <1>3, <2>2, <3>1, <3>2
  <2>. QED  BY <2>1, <2>2
<1>6. RemoveAt(q, i) = u \o v
  BY DEF RemoveAt, u, v
<1>. QED  BY <1>4, <1>5, <1>6

-----------------------------------------------------------------------------
(* The sizes of the entries.                                               *)

\* f holds the sums of the first 0, 1, ..., k sizes.
SumsUpTo(lru, f, k) == f = [n \in 0..k |-> IF n = 0 THEN 0 ELSE f[n - 1] + lru[n].size]

\* The recursion of Sums is well defined.
LEMMA SumsExist ==
    ASSUME NEW lru, NEW k \in Nat
    PROVE  \E f : SumsUpTo(lru, f, k)
<1>. DEFINE P == {n \in Nat : \E f : SumsUpTo(lru, f, n)}
<1>1. 0 \in P
  <2>1. SumsUpTo(lru, [n \in 0..0 |-> 0], 0)
    BY DEF SumsUpTo
  <2>. QED  BY <2>1
<1>2. ASSUME NEW m \in 1..k, m - 1 \in P  PROVE m \in P
  <2>1. PICK f : SumsUpTo(lru, f, m - 1)
    BY <1>2
  <2>. DEFINE g == [n \in 0..m |-> IF n <= m - 1 THEN f[n] ELSE f[m - 1] + lru[m].size]
  <2>2. /\ DOMAIN f = 0..(m - 1)
        /\ \A n \in 0..(m - 1) : f[n] = IF n = 0 THEN 0 ELSE f[n - 1] + lru[n].size
    BY <2>1 DEF SumsUpTo
  <2>3. \A n \in 0..m : g[n] = IF n = 0 THEN 0 ELSE g[n - 1] + lru[n].size
    BY <2>2
  <2>4. g = [n \in 0..m |-> g[n]]
    OBVIOUS
  <2>. HIDE DEF g
  <2>5. SumsUpTo(lru, g, m)
    BY <2>3, <2>4 DEF SumsUpTo
  <2>. QED  BY <2>5
<1>3. \A n \in 0..k : n \in P
  <2>. HIDE DEF P
  <2>. QED  BY <1>1, <1>2, InductionTo
<1>. QED  BY <1>3

\* Sums is a solution of its recursion.
LEMMA SumsSolve ==
    ASSUME NEW lru, Len(lru) \in Nat
    PROVE  SumsUpTo(lru, Sums(lru), Len(lru))
<1>1. Sums(lru) = CHOOSE f : SumsUpTo(lru, f, Len(lru))
  BY DEF Sums, SumsUpTo
<1>2. \E f : SumsUpTo(lru, f, Len(lru))
  BY SumsExist
<1>3. SumsUpTo(lru, CHOOSE f : SumsUpTo(lru, f, Len(lru)), Len(lru))
  BY <1>2, Zenon
<1>. QED  BY <1>1, <1>3, Zenon

\* What the recursion computes: numbers that grow by the size of each entry.
LEMMA SumsAre ==
    ASSUME NEW lru \in Seq(Entries)
    PROVE  LET s == Sums(lru)
           IN  /\ s[0] = 0 /\ \A n \in 1..Len(lru) : s[n] = s[n - 1] + lru[n].size
               /\ \A n \in 0..Len(lru) : s[n] \in Nat
               /\ \A n \in 1..Len(lru) : lru[n].size \in Nat
<1>. DEFINE s == Sums(lru)
            L == Len(lru)
<1>1. L \in Nat /\ \A n \in 1..L : lru[n].size \in Nat
  <2>1. L \in Nat /\ \A n \in 1..L : lru[n] \in Entries
    OBVIOUS
  <2>2. \A e \in Entries : e.size \in Nat
    BY DEF Entries
  <2>. HIDE DEF L
  <2>. QED  BY <2>1, <2>2
<1>3. SumsUpTo(lru, s, L)
  BY <1>1, SumsSolve
<1>. HIDE DEF s, L
<1>4. s[0] = 0 /\ \A n \in 1..L : s[n] = s[n - 1] + lru[n].size
  BY <1>1, <1>3 DEF SumsUpTo
<1>. DEFINE P == {n \in Nat : s[n] \in Nat}
<1>5. 0 \in P /\ \A m \in 1..L : m - 1 \in P => m \in P
  <2>1. 0 \in P
    BY <1>4
  <2>2. ASSUME NEW m \in 1..L, m - 1 \in P  PROVE m \in P
    <3>1. s[m] = s[m - 1] + lru[m].size /\ s[m - 1] \in Nat /\ lru[m].size \in Nat /\ m \in Nat
      BY <1>1, <1>4, <2>2
    <3>2. s[m] \in Nat
      BY <3>1
    <3>. QED  BY <3>1, <3>2
  <2>. QED  BY <2>1, <2>2
<1>6. \A m \in 0..L : m \in P
  <2>. HIDE DEF P
  <2>. QED  BY <1>1, <1>5, InductionTo
<1>. QED  BY <1>1, <1>4, <1>6 DEF s, L

\* The recursion has one solution.
LEMMA SumsUnique ==
    ASSUME NEW lru \in Seq(Entries), NEW f, f[0] = 0,
           \A n \in 1..Len(lru) : f[n] = f[n - 1] + lru[n].size
    PROVE  \A n \in 0..Len(lru) : f[n] = Sums(lru)[n]
<1>. DEFINE s == Sums(lru)
            P == {n \in Nat : f[n] = s[n]}
<1>1. s[0] = 0 /\ \A n \in 1..Len(lru) : s[n] = s[n - 1] + lru[n].size
  BY SumsAre
<1>2. Len(lru) \in Nat
  OBVIOUS
<1>. HIDE DEF s
<1>3. 0 \in P /\ \A m \in 1..Len(lru) : m - 1 \in P => m \in P
  BY <1>1, <1>2
<1>4. \A m \in 0..Len(lru) : m \in P
  <2>. HIDE DEF P
  <2>. QED  BY <1>2, <1>3, InductionTo
<1>. QED  BY <1>4 DEF s

\* The sums never shrink.
LEMMA SumsGrow ==
    ASSUME NEW lru \in Seq(Entries), NEW m \in 0..Len(lru)
    PROVE  Sums(lru)[m] <= Total(lru)
<1>. DEFINE s == Sums(lru)
            L == Len(lru)
            P == {n \in Nat : n + m <= L => s[m] <= s[m + n]}
<1>1. /\ \A n \in 1..L : s[n] = s[n - 1] + lru[n].size
      /\ \A n \in 0..L : s[n] \in Nat
      /\ \A n \in 1..L : lru[n].size \in Nat
  BY SumsAre
<1>2. L \in Nat /\ m \in 0..L
  OBVIOUS
<1>. HIDE DEF s, L
<1>3. 0 \in P
  BY <1>1, <1>2
<1>4. ASSUME NEW n \in 1..(L - m), n - 1 \in P  PROVE n \in P
  <2>1. m + n \in 1..L /\ m + (n - 1) \in 0..L /\ (m + n) - 1 = m + (n - 1)
    BY <1>2
  <2>2. s[m] <= s[m + (n - 1)]
    BY <1>2, <1>4
  <2>3. s[m + n] = s[m + (n - 1)] + lru[m + n].size
    BY <1>1, <2>1
  <2>4. s[m] \in Nat /\ s[m + (n - 1)] \in Nat /\ lru[m + n].size \in Nat
    BY <1>1, <1>2, <2>1
  <2>5. s[m] <= s[m + (n - 1)] + lru[m + n].size
    BY <2>2, <2>4
  <2>6. s[m] <= s[m + n]
    BY <2>3, <2>5
  <2>7. n \in Nat
    BY <1>2
  <2>. QED  BY <2>6, <2>7
<1>5. \A n \in 0..(L - m) : n \in P
  <2>. HIDE DEF P
  <2>1. L - m \in Nat
    BY <1>2
  <2>. QED  BY <2>1, <1>3, <1>4, InductionTo
<1>6. L - m \in P /\ m + (L - m) = L
  <2>. HIDE DEF P
  <2>1. L - m \in 0..(L - m) /\ m + (L - m) = L
    BY <1>2
  <2>. QED  BY <1>5, <2>1
<1>7. s[m] <= s[L]
  BY <1>2, <1>6
<1>. QED  BY <1>7 DEF s, L, Total

\* An entry joins at the end.
LEMMA TotalAppend ==
    ASSUME NEW lru \in Seq(Entries), NEW e \in Entries
    PROVE  Total(Append(lru, e)) = Total(lru) + e.size
<1>. DEFINE t == Append(lru, e)
            L == Len(lru)
            f == [n \in 0..(L + 1) |-> IF n <= L THEN Sums(lru)[n] ELSE Sums(lru)[L] + e.size]
<1>1. /\ t \in Seq(Entries) /\ Len(t) = L + 1 /\ L \in Nat /\ t[L + 1] = e
      /\ \A n \in 1..L : t[n] = lru[n]
  OBVIOUS
<1>2. Sums(lru)[0] = 0 /\ \A n \in 1..L : Sums(lru)[n] = Sums(lru)[n - 1] + lru[n].size
  BY SumsAre
<1>. HIDE DEF t, L
<1>3. f[0] = 0 /\ \A n \in 1..(L + 1) : f[n] = f[n - 1] + t[n].size
  BY <1>1, <1>2
<1>4. f[L + 1] = Sums(lru)[L] + e.size
  BY <1>1
<1>. HIDE DEF f
<1>5. f[L + 1] = Sums(t)[L + 1]
  <2>1. \A n \in 0..Len(t) : f[n] = Sums(t)[n]
    BY <1>1, <1>3, SumsUnique
  <2>. QED  BY <1>1, <2>1
<1>. QED  BY <1>1, <1>4, <1>5 DEF Total, t, L

\* An entry is taken out.
LEMMA TotalRemove ==
    ASSUME NEW lru \in Seq(Entries), NEW i \in DOMAIN lru
    PROVE  /\ Total(RemoveAt(lru, i)) = Total(lru) - lru[i].size
           /\ lru[i].size <= Total(lru)
<1>. DEFINE t == RemoveAt(lru, i)
            L == Len(lru)
            s == Sums(lru)
            f == [n \in 0..(L - 1) |-> IF n < i THEN s[n] ELSE s[n + 1] - lru[i].size]
<1>1. /\ t \in Seq(Entries) /\ Len(t) = L - 1
      /\ \A n \in 1..(L - 1) : t[n] = IF n < i THEN lru[n] ELSE lru[n + 1]
  BY RemoveAtEffect
<1>2. L \in Nat /\ i \in 1..L
  OBVIOUS
<1>3. /\ s[0] = 0 /\ \A n \in 1..L : s[n] = s[n - 1] + lru[n].size
      /\ \A n \in 0..L : s[n] \in Nat
      /\ \A n \in 1..L : lru[n].size \in Nat
  BY SumsAre
<1>. HIDE DEF t, L, s
<1>4. f[0] = 0
  <2>1. 0 \in 0..(L - 1) /\ 0 < i
    BY <1>2
  <2>. QED  BY <1>3, <2>1
<1>5. ASSUME NEW n \in 1..(L - 1)  PROVE f[n] = f[n - 1] + t[n].size
  <2>0. n \in 0..(L - 1) /\ n - 1 \in 0..(L - 1) /\ n \in 1..L /\ n + 1 \in 1..L /\ (n + 1) - 1 = n
    BY <1>2
  <2>1. s[n] = s[n - 1] + lru[n].size /\ s[n + 1] = s[n] + lru[n + 1].size
    BY <1>3, <2>0
  <2>2. /\ s[n] \in Nat /\ s[n - 1] \in Nat /\ s[n + 1] \in Nat /\ lru[n].size \in Nat
        /\ lru[n + 1].size \in Nat /\ lru[i].size \in Nat
    BY <1>2, <1>3, <2>0
  <2>3. CASE n < i
    <3>1. f[n] = s[n] /\ f[n - 1] = s[n - 1] /\ t[n] = lru[n]
      BY <1>1, <1>2, <2>0, <2>3
    <3>. QED  BY <2>1, <3>1
  <2>4. CASE n = i
    <3>0. ~(n < i) /\ n - 1 < i
      BY <1>2, <2>4
    <3>1. f[n] = s[n + 1] - lru[n].size /\ f[n - 1] = s[n - 1] /\ t[n] = lru[n + 1]
      BY <1>1, <2>0, <2>4, <3>0
    <3>. DEFINE a == s[n - 1]
                b == lru[n].size
                x == lru[n + 1].size
    <3>2. a \in Nat /\ b \in Nat /\ x \in Nat /\ s[n + 1] = (a + b) + x
      BY <2>1, <2>2
    <3>. HIDE DEF a, b, x, f
    <3>3. s[n + 1] - b = a + x
      BY <3>2
    <3>. QED  BY <3>1, <3>3 DEF a, b, x
  <2>5. CASE n > i
    <3>0. (n - 1) + 1 = n /\ ~(n < i) /\ ~(n - 1 < i)
      BY <1>2, <2>5
    <3>1. /\ f[n] = s[n + 1] - lru[i].size /\ f[n - 1] = s[n] - lru[i].size /\ t[n] = lru[n + 1]
      BY <1>1, <2>0, <3>0
    <3>. HIDE DEF f
    <3>2. \A a, b, x \in Nat : (a + b) - x = (a - x) + b
      OBVIOUS
    <3>3. s[n + 1] - lru[i].size = (s[n] - lru[i].size) + lru[n + 1].size
      <4>. DEFINE a == s[n]
                  b == lru[n + 1].size
                  x == lru[i].size
      <4>1. a \in Nat /\ b \in Nat /\ x \in Nat /\ s[n + 1] = a + b
        BY <2>1, <2>2
      <4>. HIDE DEF a, b, x
      <4>2. s[n + 1] - x = (a - x) + b
        BY <3>2, <4>1
      <4>. QED  BY <4>2 DEF a, b, x
    <3>. QED  BY <3>1, <3>3
  <2>. QED  BY <1>2, <2>3, <2>4, <2>5
<1>6. f[L - 1] = s[L] - lru[i].size
  <2>1. CASE L - 1 < i
    <3>1. L = i /\ L - 1 \in 0..(L - 1) /\ L \in 1..L
      BY <1>2, <2>1
    <3>2. f[L - 1] = s[L - 1] /\ s[L] = s[L - 1] + lru[i].size
      BY <1>3, <2>1, <3>1
    <3>3. s[L - 1] \in Nat /\ lru[i].size \in Nat
      BY <1>2, <1>3, <3>1
    <3>. QED  BY <3>2, <3>3
  <2>2. CASE ~(L - 1 < i)
    <3>1. L - 1 \in 0..(L - 1) /\ (L - 1) + 1 = L
      BY <1>2
    <3>. QED  BY <2>2, <3>1
  <2>. QED  BY <2>1, <2>2
<1>. HIDE DEF f
<1>7. f[L - 1] = Sums(t)[L - 1]
  <2>0. t \in Seq(Entries) /\ \A n \in 1..Len(t) : f[n] = f[n - 1] + t[n].size
    BY <1>1, <1>5
  <2>1. \A n \in 0..Len(t) : f[n] = Sums(t)[n]
    BY <1>4, <2>0, SumsUnique
  <2>2. L - 1 \in 0..(L - 1)
    BY <1>2
  <2>. QED  BY <1>1, <2>1, <2>2
<1>8. lru[i].size <= s[L]
  <2>1. s[i] <= s[L]
    BY <1>2, SumsGrow DEF s, L, Total
  <2>2. s[i] = s[i - 1] + lru[i].size /\ s[i] \in Nat /\ s[i - 1] \in Nat /\ lru[i].size \in Nat
    BY <1>2, <1>3
  <2>3. s[L] \in Nat
    BY <1>2, <1>3
  <2>. QED  BY <2>1, <2>2, <2>3
<1>. QED  BY <1>1, <1>6, <1>7, <1>8 DEF Total, t, L, s

\* The first k entries go.
LEMMA TotalDrop ==
    ASSUME NEW lru \in Seq(Entries), NEW k \in 0..Len(lru)
    PROVE  LET t == SubSeq(lru, k + 1, Len(lru))
           IN  /\ t \in Seq(Entries) /\ Len(t) = Len(lru) - k
               /\ \A n \in 1..Len(t) : t[n] = lru[k + n]
               /\ Total(t) = Total(lru) - Sums(lru)[k]
<1>. DEFINE t == SubSeq(lru, k + 1, Len(lru))
            L == Len(lru)
            s == Sums(lru)
            f == [n \in 0..(L - k) |-> s[k + n] - s[k]]
<1>1. /\ t \in Seq(Entries) /\ Len(t) = L - k
      /\ \A n \in 1..(L - k) : t[n] = lru[k + n]
  OBVIOUS
<1>2. L \in Nat /\ k \in 0..L
  OBVIOUS
<1>3. /\ \A n \in 1..L : s[n] = s[n - 1] + lru[n].size
      /\ \A n \in 0..L : s[n] \in Nat
      /\ \A n \in 1..L : lru[n].size \in Nat
  BY SumsAre
<1>. HIDE DEF t, L, s
<1>4. f[0] = 0
  <2>1. 0 \in 0..(L - k) /\ k + 0 = k /\ s[k] \in Nat
    BY <1>2, <1>3
  <2>. QED  BY <2>1
<1>5. ASSUME NEW n \in 1..(L - k)  PROVE f[n] = f[n - 1] + t[n].size
  <2>1. /\ k + n \in 1..L /\ k + (n - 1) \in 0..L /\ (k + n) - 1 = k + (n - 1)
        /\ n \in 0..(L - k) /\ n - 1 \in 0..(L - k)
    BY <1>2
  <2>2. s[k + n] = s[k + (n - 1)] + lru[k + n].size
    BY <1>3, <2>1
  <2>3. /\ s[k + n] \in Nat /\ s[k + (n - 1)] \in Nat /\ lru[k + n].size \in Nat /\ s[k] \in Nat
    BY <1>2, <1>3, <2>1
  <2>4. f[n] = s[k + n] - s[k] /\ f[n - 1] = s[k + (n - 1)] - s[k] /\ t[n] = lru[k + n]
    BY <1>1, <2>1
  <2>. HIDE DEF f
  <2>5. (s[k + (n - 1)] + lru[k + n].size) - s[k] = (s[k + (n - 1)] - s[k]) + lru[k + n].size
    BY <2>3
  <2>. QED  BY <2>2, <2>4, <2>5
<1>6. f[L - k] = s[L] - s[k]
  <2>1. L - k \in 0..(L - k) /\ k + (L - k) = L
    BY <1>2
  <2>. QED  BY <2>1
<1>. HIDE DEF f
<1>7. f[L - k] = Sums(t)[L - k]
  <2>0. t \in Seq(Entries) /\ \A n \in 1..Len(t) : f[n] = f[n - 1] + t[n].size
    BY <1>1, <1>5
  <2>1. \A n \in 0..Len(t) : f[n] = Sums(t)[n]
    BY <1>4, <2>0, SumsUnique
  <2>2. L - k \in 0..(L - k)
    BY <1>2
  <2>. QED  BY <1>1, <2>1, <2>2
<1>. QED  BY <1>1, <1>6, <1>7 DEF Total, t, L, s

-----------------------------------------------------------------------------
(* The inductive invariant.                                                *)

\* What the operations of the cache keep, w bytes having been dropped.
Sound(c, w) ==
    /\ w \in Nat
    /\ c \in [lru : Seq(Entries), size : Nat]
    /\ c.size = Total(c.lru) + w
    /\ Total(c.lru) \in Nat
    /\ Total(c.lru) <= MaxSizeBytes
    /\ Len(c.lru) <= MaxEntries
    /\ \A i, j \in DOMAIN c.lru : c.lru[i].key = c.lru[j].key => i = j

RequestStates ==
    [at : {"idle", "lookup", "fetch", "fetched"}, key : Keys, attempt : Nat,
     data : Data \cup {Miss}, afterDelete : BOOLEAN]

Types ==
    /\ store \in [Keys -> Nat]
    /\ made \in [Keys -> Nat]
    /\ request \in [Requests -> RequestStates]
    /\ deletedFor \in {NotDeleted} \cup 0..MaxAge
    /\ orphans \in BOOLEAN

\* The stream has been DELETED for longer than the tombstone is kept.
Gone == deletedFor # NotDeleted /\ deletedFor >= TombstoneTicks

\* Of a stream deleted with nothing left behind, nothing was read since.
ReadBefore(data) == deletedFor # NotDeleted /\ ~orphans => data[2] >= deletedFor

\* A body is on its way in a fetched request only, and not for long; a
\* request that starts after the deletion starts after the tombstone's time.
GoodRequest(q) ==
    /\ IF q.at = "fetched"
       THEN q.data \in Data /\ q.data[2] <= MaxFetch /\ ReadBefore(q.data)
       ELSE q.data = Miss
    /\ q.afterDelete => Gone

\* An entry that has not expired holds data not much older than itself.
Fresh(e) ==
    /\ e.ttl = TtlForKey(e.key)
    /\ IsExpired(e) \/ e.data[2] <= e.age + MaxFetch

GoodEntry(e) == Fresh(e) /\ ReadBefore(e.data)

GoodRequests == \A r \in Requests : GoodRequest(request[r])

GoodEntries == \A i \in DOMAIN cache.lru : GoodEntry(cache.lru[i])

\* The tombstone stays for its time.
Tombstone ==
    /\ deletedFor # NotDeleted => record \in {"DELETED", "Absent"}
    /\ record = "Absent" => Gone

NothingStored ==
    deletedFor # NotDeleted /\ ~orphans => \A k \in Keys : store[k] = 0

Inv == Types /\ Sound(cache, dropped) /\ GoodRequests /\ GoodEntries /\ Tombstone /\ NothingStored

-----------------------------------------------------------------------------
(* The operations of the cache.                                            *)

\* Every entry of d is one of c.
From(d, c) == \A i \in DOMAIN d.lru : \E j \in DOMAIN c.lru : d.lru[i] = c.lru[j]

\* What a sound cache gives about its parts.
LEMMA SoundParts ==
    ASSUME NEW c, NEW w, Sound(c, w)
    PROVE  /\ c.lru \in Seq(Entries) /\ c.size \in Nat /\ Len(c.lru) \in Nat /\ w \in Nat
           /\ DOMAIN c.lru = 1..Len(c.lru)
           /\ \A i \in 1..Len(c.lru) : c.lru[i] \in Entries
           /\ c.size = Total(c.lru) + w
           /\ Total(c.lru) \in Nat /\ Total(c.lru) <= MaxSizeBytes
           /\ Len(c.lru) <= MaxEntries
           /\ \A i, j \in 1..Len(c.lru) : c.lru[i].key = c.lru[j].key => i = j
<1>1. c.lru \in Seq(Entries) /\ c.size \in Nat
  BY DEF Sound
<1>2. Len(c.lru) \in Nat /\ DOMAIN c.lru = 1..Len(c.lru) /\ \A i \in 1..Len(c.lru) : c.lru[i] \in Entries
  BY <1>1
<1>. QED  BY <1>1, <1>2 DEF Sound

\* f holds what is left of the counter after 0, 1, ..., k evictions.
LeftUpTo(c, f, k) ==
    f = [n \in 0..k |-> IF n = 0 THEN c.size ELSE Saturating(f[n - 1], c.lru[n].size)]

\* The subtraction never saturates in a sound cache: after n evictions the
\* counter is the size of the entries that remain.
LEMMA LeftIs ==
    ASSUME NEW c, NEW w, Sound(c, w)
    PROVE  \A n \in 0..Len(c.lru) : /\ Left(c)[n] = c.size - Sums(c.lru)[n]
                                    /\ Left(c)[n] \in Nat
<1>. DEFINE s == Sums(c.lru)
            L == Len(c.lru)
            T == c.size
            g == [n \in 0..L |-> T - s[n]]
            h == Left(c)
<1>1. /\ s[0] = 0 /\ \A n \in 1..L : s[n] = s[n - 1] + c.lru[n].size
      /\ \A n \in 0..L : s[n] \in Nat
      /\ \A n \in 1..L : c.lru[n].size \in Nat
  BY SoundParts, SumsAre
<1>2. L \in Nat /\ c.size = T /\ T \in Nat
  BY SoundParts
<1>3. \A n \in 0..L : s[n] <= T
  <2>1. \A n \in 0..L : s[n] <= Total(c.lru)
    BY SoundParts, SumsGrow
  <2>2. Total(c.lru) \in Nat /\ w \in Nat /\ T = Total(c.lru) + w
    BY SoundParts
  <2>. HIDE DEF s, T, L
  <2>. QED  BY <1>1, <2>1, <2>2
<1>4. h = CHOOSE f : LeftUpTo(c, f, L)
  BY DEF Left, LeftUpTo
<1>. HIDE DEF s, L, T, h
<1>5. ASSUME NEW n \in 1..L  PROVE g[n] = Saturating(g[n - 1], c.lru[n].size)
  <2>1. n - 1 \in 0..L /\ n \in 0..L
    BY <1>2
  <2>2. /\ s[n] = s[n - 1] + c.lru[n].size /\ s[n] \in Nat /\ s[n - 1] \in Nat
        /\ c.lru[n].size \in Nat /\ s[n] <= T
    BY <1>1, <1>3, <2>1
  <2>3. g[n] = T - s[n] /\ g[n - 1] = T - s[n - 1]
    BY <2>1
  <2>4. T - s[n] = Saturating(T - s[n - 1], c.lru[n].size)
    BY <1>2, <2>2 DEF Saturating
  <2>. HIDE DEF g
  <2>. QED  BY <2>3, <2>4
<1>6. g[0] = c.size /\ g = [n \in 0..L |-> g[n]]
  BY <1>1, <1>2
<1>7. LeftUpTo(c, g, L)
  <2>. HIDE DEF g
  <2>1. \A n \in 0..L : g[n] = IF n = 0 THEN c.size ELSE Saturating(g[n - 1], c.lru[n].size)
    <3>1. \A n \in 0..L : n = 0 \/ n \in 1..L
      BY <1>2
    <3>2. \A n \in 1..L : n # 0
      OBVIOUS
    <3>. QED  BY <1>5, <1>6, <3>1, <3>2
  <2>. QED  BY <1>6, <2>1 DEF LeftUpTo
<1>8. LeftUpTo(c, h, L)
  <2>. HIDE DEF g
  <2>1. LeftUpTo(c, CHOOSE f : LeftUpTo(c, f, L), L)
    BY <1>7, Zenon
  <2>. QED  BY <1>4, <2>1, Zenon
<1>9. h[0] = c.size /\ \A n \in 1..L : h[n] = Saturating(h[n - 1], c.lru[n].size)
  BY <1>2, <1>8 DEF LeftUpTo
<1>. DEFINE P == {n \in Nat : h[n] = g[n]}
<1>10. \A n \in 0..L : n \in P
  <2>1. 0 \in P
    BY <1>6, <1>9
  <2>2. ASSUME NEW n \in 1..L, n - 1 \in P  PROVE n \in P
    <3>1. n \in Nat /\ h[n - 1] = g[n - 1]
      BY <1>2, <2>2
    <3>. HIDE DEF g
    <3>2. h[n] = g[n]
      BY <1>5, <1>9, <3>1
    <3>. QED  BY <3>1, <3>2
  <2>. HIDE DEF P
  <2>. QED  BY <1>2, <2>1, <2>2, InductionTo
<1>11. ASSUME NEW n \in 0..L  PROVE h[n] = T - s[n] /\ h[n] \in Nat
  <2>1. h[n] = g[n]
    BY <1>10
  <2>2. h[n] = T - s[n]
    BY <2>1
  <2>. HIDE DEF g
  <2>. QED  BY <1>1, <1>2, <1>3, <2>2
<1>. QED  BY <1>11 DEF s, L, T, h

\* Taking an entry out.
LEMMA PopKeeps ==
    ASSUME NEW c, NEW w, Sound(c, w), NEW key
    PROVE  /\ Sound(Pop(c, key), w) /\ From(Pop(c, key), c)
           /\ Total(Pop(c, key).lru) <= Total(c.lru)
           /\ \A i \in DOMAIN Pop(c, key).lru : Pop(c, key).lru[i].key # key
           /\ Holds(c, key) => /\ EntryOf(c, key) \in Entries
                               /\ PositionOf(c, key) \in DOMAIN c.lru
                               /\ EntryOf(c, key) = c.lru[PositionOf(c, key)]
                               /\ EntryOf(c, key).key = key
                               /\ Total(Pop(c, key).lru) = Total(c.lru) - EntryOf(c, key).size
                               /\ c.size = Pop(c, key).size + EntryOf(c, key).size
                               /\ Len(Pop(c, key).lru) = Len(c.lru) - 1
<1>0. /\ c.lru \in Seq(Entries) /\ c.size \in Nat /\ Len(c.lru) \in Nat /\ w \in Nat
      /\ DOMAIN c.lru = 1..Len(c.lru)
      /\ \A i \in 1..Len(c.lru) : c.lru[i] \in Entries
      /\ c.size = Total(c.lru) + w /\ Total(c.lru) \in Nat /\ Total(c.lru) <= MaxSizeBytes
      /\ Len(c.lru) <= MaxEntries
      /\ \A i, j \in 1..Len(c.lru) : c.lru[i].key = c.lru[j].key => i = j
  BY SoundParts
<1>1. CASE ~Holds(c, key)
  <2>1. Pop(c, key) = c
    BY <1>1 DEF Pop
  <2>2. From(c, c)
    BY DEF From
  <2>3. \A i \in DOMAIN c.lru : c.lru[i].key # key
    BY <1>1 DEF Holds
  <2>. QED  BY <1>0, <1>1, <2>1, <2>2, <2>3
<1>2. CASE Holds(c, key)
  <2>. DEFINE p == PositionOf(c, key)
              L == Len(c.lru)
              q == RemoveAt(c.lru, p)
              d == Pop(c, key)
  <2>1. p \in 1..L /\ c.lru[p].key = key
    BY <1>0, <1>2 DEF Holds, PositionOf
  <2>2. EntryOf(c, key) = c.lru[p] /\ c.lru[p] \in Entries
    BY <1>0, <2>1 DEF EntryOf
  <2>3. c.lru[p].size \in Nat
    BY <2>2 DEF Entries
  <2>4. d = [lru |-> q, size |-> Saturating(c.size, c.lru[p].size)]
    BY <1>2, <2>2 DEF Pop
  <2>. HIDE DEF p, d
  <2>5. /\ q \in Seq(Entries) /\ Len(q) = L - 1
        /\ \A j \in 1..(L - 1) : q[j] = IF j < p THEN c.lru[j] ELSE c.lru[j + 1]
    BY <1>0, <2>1, RemoveAtEffect
  <2>6. Total(q) = Total(c.lru) - c.lru[p].size /\ c.lru[p].size <= Total(c.lru)
    BY <1>0, <2>1, TotalRemove
  <2>. HIDE DEF q, L
  <2>7. d.lru = q /\ d.size = c.size - c.lru[p].size /\ d.size \in Nat
    BY <1>0, <2>3, <2>4, <2>6 DEF Saturating
  <2>14. /\ Total(q) \in Nat /\ Total(q) <= Total(c.lru) /\ d.size = Total(q) + w
         /\ c.size = d.size + c.lru[p].size
    <3>1. /\ c.size = Total(c.lru) + w /\ Total(c.lru) \in Nat /\ w \in Nat
          /\ c.size \in Nat /\ d.size = c.size - c.lru[p].size
      BY <1>0, <2>7
    <3>. QED  BY <2>3, <2>6, <3>1
  <2>8. DOMAIN q = 1..(L - 1) /\ L \in Nat
    BY <1>0, <2>5 DEF L
  <2>9. ASSUME NEW j \in 1..(L - 1)
        PROVE  \E i \in 1..L : q[j] = c.lru[i] /\ i = IF j < p THEN j ELSE j + 1
    <3>1. j \in 1..L /\ j + 1 \in 1..L
      BY <2>8
    <3>. QED  BY <2>5, <3>1
  <2>10. From(d, c)
    BY <1>0, <2>7, <2>8, <2>9 DEF From, L
  <2>11. \A j \in 1..(L - 1) : q[j].key # key
    <3>1. SUFFICES ASSUME NEW j \in 1..(L - 1), q[j].key = key  PROVE FALSE
      OBVIOUS
    <3>2. PICK i \in 1..L : q[j] = c.lru[i] /\ i = IF j < p THEN j ELSE j + 1
      BY <2>9
    <3>3. i = p
      BY <1>0, <2>1, <3>1, <3>2 DEF L
    <3>. QED  BY <2>1, <2>8, <3>2, <3>3
  <2>12. \A j, k \in 1..(L - 1) : q[j].key = q[k].key => j = k
    <3>1. SUFFICES ASSUME NEW j \in 1..(L - 1), NEW k \in 1..(L - 1), q[j].key = q[k].key
                   PROVE  j = k
      OBVIOUS
    <3>2. PICK x \in 1..L : q[j] = c.lru[x] /\ x = IF j < p THEN j ELSE j + 1
      BY <2>9
    <3>3. PICK y \in 1..L : q[k] = c.lru[y] /\ y = IF k < p THEN k ELSE k + 1
      BY <2>9
    <3>4. x = y
      BY <1>0, <3>1, <3>2, <3>3 DEF L
    <3>. QED  BY <2>1, <2>8, <3>2, <3>3, <3>4
  <2>13. Sound(d, w)
    <3>1. d \in [lru : Seq(Entries), size : Nat]
      BY <2>4, <2>5, <2>7
    <3>2. /\ d.size = Total(d.lru) + w /\ Total(d.lru) \in Nat /\ Total(d.lru) <= MaxSizeBytes
          /\ Len(d.lru) <= MaxEntries /\ w \in Nat
      BY <1>0, <2>5, <2>7, <2>8, <2>14, CacheConstants DEF L
    <3>. QED  BY <2>7, <2>8, <2>12, <3>1, <3>2 DEF Sound
  <2>. QED
    BY <1>0, <2>1, <2>2, <2>5, <2>6, <2>7, <2>8, <2>10, <2>11, <2>13, <2>14 DEF d, p, L
<1>. QED  BY <1>1, <1>2

\* Making room for an object.
LEMMA EvictKeeps ==
    ASSUME NEW c, NEW w, Sound(c, w), NEW size \in Nat, size <= MaxSizeBytes
    PROVE  /\ Sound(Evict(c, size), w) /\ From(Evict(c, size), c)
           /\ Total(Evict(c, size).lru) + size <= MaxSizeBytes
<1>. DEFINE L == Len(c.lru)
            h == Left(c)
            enough == {n \in 0..L : h[n] + size <= MaxSizeBytes \/ n = L}
            k == CHOOSE n \in enough : \A m \in enough : n <= m
            t == SubSeq(c.lru, k + 1, L)
            d == Evict(c, size)
<1>0. /\ c.lru \in Seq(Entries) /\ c.size \in Nat /\ L \in Nat /\ w \in Nat
      /\ DOMAIN c.lru = 1..L
      /\ \A i \in 1..L : c.lru[i] \in Entries
      /\ c.size = Total(c.lru) + w /\ Total(c.lru) \in Nat /\ Total(c.lru) <= MaxSizeBytes
      /\ L <= MaxEntries
      /\ \A i, j \in 1..L : c.lru[i].key = c.lru[j].key => i = j
  BY SoundParts
<1>1. \A n \in 0..L : h[n] = c.size - Sums(c.lru)[n] /\ h[n] \in Nat
  BY LeftIs
<1>2. d = [lru |-> t, size |-> h[k]]
  BY DEF Evict
<1>. HIDE DEF h, d, L
<1>3. k \in enough
  <2>1. enough \subseteq Nat /\ L \in enough
    BY <1>0
  <2>2. \E i \in enough : \A j \in enough : i <= j
    <3>. HIDE DEF enough
    <3>. QED  BY <2>1, Smallest
  <2>. HIDE DEF enough
  <2>. QED  BY <2>2
<1>4. k \in 0..L /\ (h[k] + size <= MaxSizeBytes \/ k = L)
  <2>. HIDE DEF k
  <2>. QED  BY <1>3
<1>. HIDE DEF k, enough
<1>5. /\ t \in Seq(Entries) /\ Len(t) = L - k
      /\ \A n \in 1..Len(t) : t[n] = c.lru[k + n]
      /\ Total(t) = Total(c.lru) - Sums(c.lru)[k]
  BY <1>0, <1>4, TotalDrop DEF L
<1>6. DOMAIN t = 1..(L - k)
  BY <1>5
<1>. HIDE DEF t
<1>7. Sums(c.lru)[k] \in Nat /\ Sums(c.lru)[k] <= Total(c.lru) /\ Total(c.lru) = Sums(c.lru)[L]
  BY <1>0, <1>4, SumsAre, SumsGrow DEF Total, L
<1>8. d.lru = t /\ d.size = h[k] /\ h[k] = Total(t) + w /\ h[k] \in Nat /\ Total(t) \in Nat
  <2>1. d.lru = t /\ d.size = h[k] /\ h[k] = c.size - Sums(c.lru)[k] /\ h[k] \in Nat
    BY <1>1, <1>2, <1>4
  <2>2. Total(t) = Total(c.lru) - Sums(c.lru)[k]
    BY <1>5
  <2>3. c.size = Total(c.lru) + w /\ Total(c.lru) \in Nat /\ w \in Nat
    BY <1>0
  <2>4. Total(t) \in Nat /\ h[k] = Total(t) + w
    BY <1>7, <2>1, <2>2, <2>3
  <2>. QED  BY <2>1, <2>4
<1>9. Total(t) + size <= MaxSizeBytes
  <2>1. CASE k = L
    <3>1. Total(t) = 0
      BY <1>0, <1>5, <1>7, <2>1
    <3>. QED  BY <3>1
  <2>2. CASE h[k] + size <= MaxSizeBytes
    BY <1>0, <1>8, <2>2, CacheConstants
  <2>. QED  BY <1>4, <2>1, <2>2
<1>10. \A n \in 1..(L - k) : k + n \in 1..L /\ t[n] = c.lru[k + n]
  BY <1>0, <1>4, <1>5
<1>11. \A i, j \in 1..(L - k) : t[i].key = t[j].key => i = j
  <2>1. SUFFICES ASSUME NEW i \in 1..(L - k), NEW j \in 1..(L - k), t[i].key = t[j].key
                 PROVE  i = j
    OBVIOUS
  <2>2. k + i \in 1..L /\ k + j \in 1..L /\ c.lru[k + i].key = c.lru[k + j].key
    BY <1>10, <2>1
  <2>3. \A a, b \in 1..L : c.lru[a].key = c.lru[b].key => a = b
    BY <1>0
  <2>4. k + i = k + j
    BY <2>2, <2>3
  <2>5. k \in Nat /\ i \in Nat /\ j \in Nat
    BY <1>0, <1>4
  <2>. QED  BY <2>4, <2>5
<1>12. Sound(d, w)
  <2>1. d \in [lru : Seq(Entries), size : Nat]
    BY <1>2, <1>5, <1>8
  <2>2. /\ d.size = Total(d.lru) + w /\ Total(d.lru) \in Nat /\ Total(d.lru) <= MaxSizeBytes
        /\ Len(d.lru) <= MaxEntries /\ w \in Nat
    BY <1>0, <1>4, <1>5, <1>8, <1>9, CacheConstants
  <2>. QED  BY <1>6, <1>8, <1>11, <2>1, <2>2 DEF Sound
<1>13. From(d, c)
  BY <1>0, <1>6, <1>8, <1>10 DEF From
<1>. QED  BY <1>8, <1>9, <1>12, <1>13 DEF d

\* An entry of a path without one joins as the most recently used.
LEMMA AppendKeeps ==
    ASSUME NEW c, NEW w, Sound(c, w), NEW e \in Entries,
           Total(c.lru) + e.size <= MaxSizeBytes, Len(c.lru) < MaxEntries,
           \A i \in DOMAIN c.lru : c.lru[i].key # e.key
    PROVE  LET d == [lru |-> Append(c.lru, e), size |-> c.size + e.size]
           IN  /\ Sound(d, w)
               /\ \A i \in DOMAIN d.lru : d.lru[i] = e \/ \E j \in DOMAIN c.lru : d.lru[i] = c.lru[j]
<1>. DEFINE L == Len(c.lru)
            q == Append(c.lru, e)
            d == [lru |-> q, size |-> c.size + e.size]
<1>0. /\ c.lru \in Seq(Entries) /\ c.size \in Nat /\ L \in Nat /\ w \in Nat /\ L < MaxEntries
      /\ DOMAIN c.lru = 1..L
      /\ c.size = Total(c.lru) + w /\ Total(c.lru) \in Nat
      /\ \A i, j \in 1..L : c.lru[i].key = c.lru[j].key => i = j
  BY SoundParts
<1>1. /\ q \in Seq(Entries) /\ Len(q) = L + 1 /\ q[L + 1] = e
      /\ \A i \in 1..L : q[i] = c.lru[i]
  BY <1>0
<1>2. Total(q) = Total(c.lru) + e.size /\ e.size \in Nat
  <2>1. e.size \in Nat
    BY DEF Entries
  <2>. QED  BY <1>0, <2>1, TotalAppend
<1>3. DOMAIN q = 1..(L + 1)
  BY <1>1
<1>. HIDE DEF q, L
<1>4. \A i \in 1..(L + 1) : i \in 1..L \/ i = L + 1
  BY <1>0
<1>5. \A i, j \in 1..(L + 1) : q[i].key = q[j].key => i = j
  <2>1. \A i \in 1..L : q[i].key # e.key
    BY <1>0, <1>1
  <2>. QED  BY <1>0, <1>1, <1>4, <2>1
<1>6. /\ d \in [lru : Seq(Entries), size : Nat] /\ d.lru = q /\ d.size = Total(q) + w
      /\ Total(q) \in Nat /\ Total(q) <= MaxSizeBytes
  <2>1. /\ c.size = Total(c.lru) + w /\ Total(c.lru) \in Nat /\ w \in Nat /\ c.size \in Nat
        /\ Total(q) = Total(c.lru) + e.size /\ e.size \in Nat
    BY <1>0, <1>2
  <2>2. /\ c.size + e.size \in Nat /\ c.size + e.size = Total(q) + w /\ Total(q) \in Nat
        /\ Total(q) <= MaxSizeBytes
    BY <2>1
  <2>3. d \in [lru : Seq(Entries), size : Nat] /\ d.lru = q /\ d.size = c.size + e.size
    BY <1>1, <2>2
  <2>. QED  BY <2>2, <2>3
<1>9. Len(q) <= MaxEntries
  BY <1>0, <1>1, CacheConstants
<1>. HIDE DEF d
<1>7. Sound(d, w)
  BY <1>0, <1>3, <1>5, <1>6, <1>9 DEF Sound
<1>8. \A i \in DOMAIN d.lru : d.lru[i] = e \/ \E j \in DOMAIN c.lru : d.lru[i] = c.lru[j]
  BY <1>0, <1>1, <1>3, <1>4, <1>6
<1>. QED  BY <1>7, <1>8 DEF d, q

\* A full map drops its least recently used entry; the counter stays.
LEMMA SqueezeKeeps ==
    ASSUME NEW c, NEW w, Sound(c, w)
    PROVE  LET d == [lru |-> Squeezed(c.lru), size |-> c.size]
               v == w + (IF Len(c.lru) >= MaxEntries THEN Head(c.lru).size ELSE 0)
           IN  /\ Sound(d, v) /\ From(d, c)
               /\ Len(d.lru) < MaxEntries
               /\ Total(d.lru) <= Total(c.lru)
<1>. DEFINE L == Len(c.lru)
            q == Squeezed(c.lru)
            d == [lru |-> q, size |-> c.size]
            v == w + (IF L >= MaxEntries THEN Head(c.lru).size ELSE 0)
<1>0. /\ c.lru \in Seq(Entries) /\ c.size \in Nat /\ L \in Nat /\ w \in Nat
      /\ DOMAIN c.lru = 1..L
      /\ c.size = Total(c.lru) + w /\ Total(c.lru) \in Nat /\ Total(c.lru) <= MaxSizeBytes
      /\ L <= MaxEntries
      /\ \A i, j \in 1..L : c.lru[i].key = c.lru[j].key => i = j
  BY SoundParts
<1>1. MaxEntries \in Nat /\ MaxEntries > 0
  BY CacheConstants
<1>2. CASE L < MaxEntries
  <2>. HIDE DEF L
  <2>1. q = c.lru /\ v = w
    BY <1>0, <1>1, <1>2 DEF Squeezed, L
  <2>. HIDE DEF q, v
  <2>2. d.lru = c.lru /\ d.size = c.size /\ d \in [lru : Seq(Entries), size : Nat]
    BY <1>0, <2>1
  <2>3. Sound(d, v)
    BY <2>1, <2>2 DEF Sound
  <2>4. From(d, c)
    BY <2>2 DEF From
  <2>. QED  BY <1>0, <1>2, <2>2, <2>3, <2>4 DEF d, q, v, L
<1>3. CASE ~(L < MaxEntries)
  <2>1. L >= MaxEntries /\ 1 \in 0..L /\ 1 \in 1..L
    BY <1>0, <1>1, <1>3
  <2>2. q = SubSeq(c.lru, 2, L)
    BY <1>0, <1>3, <2>1 DEF Squeezed
  <2>3. Head(c.lru) = c.lru[1] /\ c.lru[1] \in Entries
    BY <1>0, <2>1
  <2>4. v = w + c.lru[1].size
    BY <2>1, <2>3
  <2>. HIDE DEF q, v, L
  <2>5. /\ q \in Seq(Entries) /\ Len(q) = L - 1 /\ \A n \in 1..Len(q) : q[n] = c.lru[1 + n]
        /\ Total(q) = Total(c.lru) - Sums(c.lru)[1]
    BY <1>0, <2>1, <2>2, TotalDrop DEF L
  <2>6. Sums(c.lru)[1] = c.lru[1].size /\ c.lru[1].size \in Nat
    <3>1. Sums(c.lru)[0] = 0 /\ Sums(c.lru)[1] = Sums(c.lru)[1 - 1] + c.lru[1].size
      BY <1>0, <2>1, SumsAre DEF L
    <3>2. c.lru[1].size \in Nat
      BY <2>3 DEF Entries
    <3>. QED  BY <3>1, <3>2
  <2>7. Sums(c.lru)[1] <= Total(c.lru)
    BY <1>0, <2>1, SumsGrow DEF L
  <2>8. /\ d.lru = q /\ d.size = c.size /\ d \in [lru : Seq(Entries), size : Nat]
        /\ v \in Nat /\ d.size = Total(q) + v /\ Total(q) \in Nat /\ Total(q) <= Total(c.lru)
    <3>1. d.lru = q /\ d.size = c.size /\ d \in [lru : Seq(Entries), size : Nat]
      BY <1>0, <2>5
    <3>2. Total(q) = Total(c.lru) - c.lru[1].size /\ c.lru[1].size <= Total(c.lru)
      BY <2>5, <2>6, <2>7
    <3>3. c.size = Total(c.lru) + w /\ Total(c.lru) \in Nat /\ w \in Nat
      BY <1>0
    <3>. HIDE DEF d
    <3>4. /\ v \in Nat /\ c.size = Total(q) + v /\ Total(q) \in Nat /\ Total(q) <= Total(c.lru)
      BY <2>4, <2>6, <3>2, <3>3
    <3>. QED  BY <3>1, <3>4
  <2>. HIDE DEF d
  <2>9. DOMAIN q = 1..(L - 1) /\ \A n \in 1..(L - 1) : 1 + n \in 1..L /\ q[n] = c.lru[1 + n]
    BY <1>0, <2>5
  <2>10. \A i, j \in 1..(L - 1) : q[i].key = q[j].key => i = j
    <3>1. SUFFICES ASSUME NEW i \in 1..(L - 1), NEW j \in 1..(L - 1), q[i].key = q[j].key
                   PROVE  i = j
      OBVIOUS
    <3>2. 1 + i \in 1..L /\ 1 + j \in 1..L /\ c.lru[1 + i].key = c.lru[1 + j].key
      BY <2>9, <3>1
    <3>3. \A a, b \in 1..L : c.lru[a].key = c.lru[b].key => a = b
      BY <1>0
    <3>4. 1 + i = 1 + j
      BY <3>2, <3>3
    <3>5. i \in Nat /\ j \in Nat
      BY <1>0
    <3>. QED  BY <3>4, <3>5
  <2>11. Len(q) < MaxEntries /\ Len(q) <= MaxEntries /\ Total(q) <= MaxSizeBytes
    BY <1>0, <1>1, <2>5, <2>8, CacheConstants
  <2>12. Sound(d, v)
    BY <2>8, <2>9, <2>10, <2>11 DEF Sound
  <2>13. From(d, c)
    BY <1>0, <2>8, <2>9 DEF From
  <2>. QED  BY <2>8, <2>11, <2>12, <2>13 DEF d, q, v, L
<1>. QED  BY <1>2, <1>3

\* The times to live are numbers.
LEMMA TtlType == ASSUME NEW k  PROVE TtlForKey(k) \in Nat
BY CacheConstants DEF TtlForKey, MediaTtl

\* A fill keeps the cache sound and adds the new object only.
LEMMA PutKeeps ==
    ASSUME NEW c, NEW w, Sound(c, w), NEW key \in Keys, NEW data \in Data, NEW size \in Nat
    PROVE  /\ Sound(Put(c, key, data, size), w + DroppedBy(c, key, size))
           /\ \A i \in DOMAIN Put(c, key, data, size).lru :
                 \/ \E j \in DOMAIN c.lru : Put(c, key, data, size).lru[i] = c.lru[j]
                 \/ Put(c, key, data, size).lru[i] =
                       [key |-> key, data |-> data, age |-> 0, ttl |-> TtlForKey(key),
                        size |-> size]
<1>. DEFINE e == [key |-> key, data |-> data, age |-> 0, ttl |-> TtlForKey(key), size |-> size]
            a == Evict(c, size)
            b == Room(c, key, size)
            f == [lru |-> Squeezed(b.lru), size |-> b.size]
            v == w + DroppedBy(c, key, size)
            d == Put(c, key, data, size)
<1>1. CASE ~Cacheable(size)
  <2>1. d = c /\ v = w
    BY <1>1, SoundParts DEF Put, DroppedBy
  <2>. QED  BY <2>1
<1>2. CASE Cacheable(size)
  <2>1. size <= MaxSizeBytes
    BY <1>2, CacheConstants DEF Cacheable
  <2>2. Sound(a, w) /\ From(a, c) /\ Total(a.lru) + size <= MaxSizeBytes
    BY <2>1, EvictKeeps
  <2>3. d = Insert(b, key, data, size)
    BY <1>2 DEF Put
  <2>. HIDE DEF a
  <2>4. /\ Sound(b, w) /\ From(b, a) /\ Total(b.lru) <= Total(a.lru)
        /\ \A i \in DOMAIN b.lru : b.lru[i].key # key
    BY <2>2, PopKeeps DEF Room, a
  <2>5. v = w + (IF Len(b.lru) >= MaxEntries THEN Head(b.lru).size ELSE 0)
    BY <1>2 DEF DroppedBy
  <2>. HIDE DEF b, v
  <2>6. /\ Sound(f, v) /\ From(f, b) /\ Len(f.lru) < MaxEntries /\ Total(f.lru) <= Total(b.lru)
    BY <2>4, <2>5, SqueezeKeeps
  <2>7. e \in Entries /\ e.key = key /\ e.size = size
    BY TtlType DEF Entries
  <2>8. d = [lru |-> Append(f.lru, e), size |-> f.size + e.size]
    BY <2>3 DEF Insert
  <2>. HIDE DEF e, d, f
  <2>9. Total(f.lru) + e.size <= MaxSizeBytes
    <3>1. Total(a.lru) \in Nat /\ Total(b.lru) \in Nat /\ Total(f.lru) \in Nat
      BY <2>2, <2>4, <2>6, SoundParts
    <3>. QED  BY <2>2, <2>4, <2>6, <2>7, <3>1, CacheConstants
  <2>10. \A i \in DOMAIN f.lru : f.lru[i].key # e.key
    BY <2>4, <2>6, <2>7 DEF From
  <2>11. /\ Sound(d, v)
         /\ \A i \in DOMAIN d.lru : d.lru[i] = e \/ \E j \in DOMAIN f.lru : d.lru[i] = f.lru[j]
    BY <2>6, <2>7, <2>8, <2>9, <2>10, AppendKeeps
  <2>12. \A i \in DOMAIN f.lru : \E j \in DOMAIN c.lru : f.lru[i] = c.lru[j]
    BY <2>2, <2>4, <2>6 DEF From
  <2>13. \A i \in DOMAIN d.lru : d.lru[i] = e \/ \E j \in DOMAIN c.lru : d.lru[i] = c.lru[j]
    BY <2>11, <2>12
  <2>. QED  BY <2>11, <2>13 DEF d, e, v
<1>. QED  BY <1>1, <1>2

\* A lookup keeps the cache sound and adds nothing; what it finds is the
\* data of an entry of the path that has not expired.
LEMMA GetKeeps ==
    ASSUME NEW c, NEW w, Sound(c, w), NEW key
    PROVE  /\ Sound(Get(c, key).cache, w) /\ From(Get(c, key).cache, c)
           /\ Get(c, key).hit # Miss =>
                 \E i \in DOMAIN c.lru : /\ c.lru[i].key = key /\ ~IsExpired(c.lru[i])
                                         /\ Get(c, key).hit = c.lru[i].data
<1>. DEFINE e == EntryOf(c, key)
            b == Pop(c, key)
            g == Get(c, key)
<1>0. /\ Total(c.lru) \in Nat /\ Total(c.lru) <= MaxSizeBytes /\ Len(c.lru) \in Nat
      /\ Len(c.lru) <= MaxEntries
  BY SoundParts
<1>1. CASE ~Holds(c, key)
  <2>1. g = [cache |-> c, hit |-> Miss]
    BY <1>1 DEF Get
  <2>2. From(c, c)
    BY DEF From
  <2>. QED  BY <2>1, <2>2
<1>2. CASE Holds(c, key)
  <2>1. /\ Sound(b, w) /\ From(b, c)
        /\ \A i \in DOMAIN b.lru : b.lru[i].key # key
        /\ e \in Entries /\ PositionOf(c, key) \in DOMAIN c.lru
        /\ e = c.lru[PositionOf(c, key)] /\ e.key = key
        /\ Total(b.lru) = Total(c.lru) - e.size /\ c.size = b.size + e.size
        /\ Len(b.lru) = Len(c.lru) - 1
    BY <1>2, PopKeeps
  <2>2. CASE IsExpired(e)
    <3>1. g = [cache |-> b, hit |-> Miss]
      BY <1>2, <2>2 DEF Get
    <3>. QED  BY <2>1, <3>1
  <2>3. CASE ~IsExpired(e)
    <3>1. g = [cache |-> Touch(c, key, e), hit |-> e.data]
      BY <1>2, <2>3 DEF Get
    <3>2. Touch(c, key, e) = [lru |-> Append(b.lru, e), size |-> c.size]
      BY DEF Touch
    <3>. HIDE DEF e, b, g
    <3>3. Total(b.lru) + e.size <= MaxSizeBytes /\ Len(b.lru) < MaxEntries
      <4>1. e.size \in Nat
        BY <2>1 DEF Entries
      <4>. QED  BY <1>0, <2>1, <4>1, CacheConstants
    <3>. DEFINE d == [lru |-> Append(b.lru, e), size |-> b.size + e.size]
    <3>4. g.cache = d /\ g.hit = e.data
      BY <2>1, <3>1, <3>2
    <3>. HIDE DEF d
    <3>5. /\ Sound(d, w)
          /\ \A i \in DOMAIN d.lru : d.lru[i] = e \/ \E j \in DOMAIN b.lru : d.lru[i] = b.lru[j]
      BY <2>1, <3>3, AppendKeeps DEF d
    <3>6. From(d, c)
      BY <2>1, <3>5 DEF From
    <3>. QED  BY <2>1, <2>3, <3>4, <3>5, <3>6 DEF g
  <2>. QED  BY <2>2, <2>3
<1>. QED  BY <1>1, <1>2

-----------------------------------------------------------------------------
(* The steps.                                                              *)

\* The handler at rest.
LEMMA IdleIs ==
    /\ Idle \in RequestStates /\ Idle.at = "idle" /\ Idle.data = Miss
    /\ ~Idle.afterDelete
<1>1. (CHOOSE k \in Keys : TRUE) \in Keys
  BY DeliveryAssumption
<1>. QED  BY <1>1 DEF Idle, RequestStates

\* A handler takes a step: its own state and the cache change.
LEMMA RequestStep ==
    ASSUME Inv, NEW r \in Requests, NEW q \in RequestStates, GoodRequest(q),
           request' = [request EXCEPT ![r] = q],
           Sound(cache', dropped'), \A i \in DOMAIN cache'.lru : GoodEntry(cache'.lru[i]),
           UNCHANGED <<store, made, record, deletedFor, orphans>>
    PROVE  Inv'
<1>1. Types'
  BY DEF Inv, Types
<1>2. GoodRequests'
  <2>1. \A x \in Requests : request'[x] = IF x = r THEN q ELSE request[x]
    BY DEF Inv, Types
  <2>2. \A x \in Requests : GoodRequest(request'[x])
    BY <2>1 DEF Inv, GoodRequests
  <2>. QED  BY <2>2 DEF GoodRequests, GoodRequest, ReadBefore, Gone
<1>3. GoodEntries'
  BY DEF GoodEntries, GoodEntry, ReadBefore
<1>4. Tombstone'
  BY DEF Inv, Tombstone, Gone
<1>5. NothingStored'
  BY DEF Inv, NothingStored
<1>6. Sound(cache, dropped)'
  OBVIOUS
<1>. QED  BY <1>1, <1>2, <1>3, <1>4, <1>5, <1>6 DEF Inv

\* Good entries stay good in a cache made of them.
LEMMA EntriesFrom ==
    ASSUME GoodEntries, NEW c, From(c, cache)
    PROVE  \A i \in DOMAIN c.lru : GoodEntry(c.lru[i])
BY DEF GoodEntries, From

\* A handler ends.
LEMMA EndStep ==
    ASSUME Inv, NEW r \in Requests, request' = [request EXCEPT ![r] = Idle],
           Sound(cache', dropped'), \A i \in DOMAIN cache'.lru : GoodEntry(cache'.lru[i]),
           UNCHANGED <<store, made, record, deletedFor, orphans>>
    PROVE  Inv'
<1>1. GoodRequest(Idle)
  BY IdleIs DEF GoodRequest
<1>. QED  BY <1>1, IdleIs, RequestStep

\* The sizes of bodies are numbers.
LEMMA SizeType ==
    ASSUME NEW k \in Keys, NEW v \in Nat \ {0}
    PROVE  SizeOf(k, v) \in Nat
<1>1. v - 1 \in Nat
  OBVIOUS
<1>2. \A a, b \in Nat : a * b \in Nat
  OBVIOUS
<1>3. ManifestGrowth \in Nat /\ SegmentSize \in Nat
  BY DeliveryAssumption
<1>. QED  BY <1>1, <1>2, <1>3 DEF SizeOf

\* The steps of serve_object() that send an answer.
LEMMA ServeKeeps ==
    ASSUME Inv, NEW r \in Requests, Serve(r)
    PROVE  Inv'
<1>0. /\ request[r] \in RequestStates /\ Sound(cache, dropped) /\ GoodEntries
      /\ GoodRequest(request[r])
      /\ From(cache, cache)
      /\ \A i \in DOMAIN cache.lru : GoodEntry(cache.lru[i])
  BY DEF Inv, Types, GoodRequests, GoodEntries, From
<1>1. ASSUME NEW range \in Headers, Refuse(r, range)  PROVE Inv'
  <2>1. /\ request' = [request EXCEPT ![r] = Idle] /\ cache' = cache /\ dropped' = dropped
        /\ UNCHANGED <<store, made, record, deletedFor, orphans>>
    BY <1>1 DEF Refuse, Respond, history
  <2>. QED  BY <1>0, <2>1, EndStep
<1>2. ASSUME NEW range \in ValidHeaders, Hit(r, range)  PROVE Inv'
  <2>1. /\ request' = [request EXCEPT ![r] = Idle]
        /\ cache' = Get(cache, request[r].key).cache /\ dropped' = dropped
        /\ UNCHANGED <<store, made, record, deletedFor, orphans>>
    BY <1>2 DEF Hit, Respond, history
  <2>2. Sound(cache', dropped') /\ From(cache', cache)
    BY <1>0, <2>1, GetKeeps
  <2>3. \A i \in DOMAIN cache'.lru : GoodEntry(cache'.lru[i])
    BY <1>0, <2>2, EntriesFrom
  <2>. QED  BY <2>1, <2>2, <2>3, EndStep
<1>3. ASSUME NEW range \in ValidHeaders, Complete(r, range)  PROVE Inv'
  <2>. DEFINE k == request[r].key
              data == request[r].data
              size == SizeOf(k, data[1])
              e == [key |-> k, data |-> data, age |-> 0, ttl |-> TtlForKey(k), size |-> size]
  <2>1. /\ request' = [request EXCEPT ![r] = Idle]
        /\ cache' = (IF range = NoRange THEN Put(cache, k, data, size) ELSE cache)
        /\ dropped' = (IF range = NoRange THEN dropped + DroppedBy(cache, k, size) ELSE dropped)
        /\ UNCHANGED <<store, made, record, deletedFor, orphans>>
        /\ request[r].at = "fetched"
    BY <1>3 DEF Complete, Respond, history
  <2>2. k \in Keys /\ data \in Data /\ data[2] <= MaxFetch /\ ReadBefore(data)
    BY <1>0, <2>1 DEF GoodRequest, RequestStates
  <2>3. data[1] \in Nat \ {0}
    BY <2>2 DEF Data
  <2>4. size \in Nat
    BY <2>2, <2>3, SizeType
  <2>5. GoodEntry(e)
    <3>. HIDE DEF k, data, size
    <3>1. e.data = data /\ e.ttl = TtlForKey(e.key) /\ e.age = 0 /\ 0 + MaxFetch = MaxFetch
      BY DeliveryAssumption
    <3>. QED  BY <2>2, <3>1 DEF GoodEntry, Fresh
  <2>6. CASE range = NoRange
    <3>. HIDE DEF k, data, size
    <3>1. cache' = Put(cache, k, data, size) /\ dropped' = dropped + DroppedBy(cache, k, size)
      BY <2>1, <2>6
    <3>2. /\ Sound(cache', dropped')
          /\ \A i \in DOMAIN cache'.lru :
                (\E j \in DOMAIN cache.lru : cache'.lru[i] = cache.lru[j]) \/ cache'.lru[i] = e
      BY <1>0, <2>2, <2>4, <3>1, PutKeeps
    <3>. HIDE DEF e
    <3>3. \A i \in DOMAIN cache'.lru : GoodEntry(cache'.lru[i])
      BY <1>0, <2>5, <3>2
    <3>. QED  BY <2>1, <3>2, <3>3, EndStep
  <2>7. CASE range # NoRange
    BY <1>0, <2>1, <2>7, EndStep
  <2>. QED  BY <2>6, <2>7
<1>4. ASSUME FetchNotFound(r) \/ FetchGivenUp(r)  PROVE Inv'
  <2>1. /\ request' = [request EXCEPT ![r] = Idle] /\ cache' = cache /\ dropped' = dropped
        /\ UNCHANGED <<store, made, record, deletedFor, orphans>>
    BY <1>4 DEF FetchNotFound, FetchGivenUp, Respond, history
  <2>. QED  BY <1>0, <2>1, EndStep
<1>. QED  BY <1>1, <1>2, <1>3, <1>4 DEF Serve

\* The steps of serve_object() that go on.
LEMMA ProceedKeeps ==
    ASSUME Inv, NEW r \in Requests, Proceed(r)
    PROVE  Inv'
<1>0. /\ request[r] \in RequestStates /\ Sound(cache, dropped) /\ GoodEntries
      /\ GoodRequest(request[r])
      /\ \A i \in DOMAIN cache.lru : GoodEntry(cache.lru[i])
      /\ request \in [Requests -> RequestStates]
  BY DEF Inv, Types, GoodRequests, GoodEntries
<1>1. ASSUME NEW k \in Keys, Check(r, k)  PROVE Inv'
  <2>. DEFINE q == [Idle EXCEPT !.at = "lookup", !.key = k,
                                !.afterDelete = (deletedFor # NotDeleted)]
  <2>1. /\ request' = [request EXCEPT ![r] = q] /\ cache' = cache /\ dropped' = dropped
        /\ UNCHANGED <<store, made, record, deletedFor, orphans>>
        /\ record # "DELETED"
    BY <1>1 DEF Check, history
  <2>2. /\ q \in RequestStates /\ q.at = "lookup" /\ q.data = Miss
        /\ q.afterDelete = (deletedFor # NotDeleted)
    BY IdleIs DEF RequestStates
  <2>. HIDE DEF q
  <2>3. deletedFor # NotDeleted => Gone
    BY <2>1 DEF Inv, Tombstone
  <2>4. GoodRequest(q)
    BY <2>2, <2>3 DEF GoodRequest
  <2>. QED  BY <1>0, <2>1, <2>2, <2>4, RequestStep
<1>2. ASSUME MissCache(r)  PROVE Inv'
  <2>. DEFINE q == [request[r] EXCEPT !.at = "fetch", !.attempt = 1]
  <2>1. /\ request' = [request EXCEPT ![r] = q]
        /\ cache' = Get(cache, request[r].key).cache /\ dropped' = dropped
        /\ UNCHANGED <<store, made, record, deletedFor, orphans>>
        /\ request[r].at = "lookup"
    BY <1>0, <1>2 DEF MissCache, history
  <2>2. /\ q \in RequestStates /\ q.at = "fetch" /\ q.data = request[r].data
        /\ q.afterDelete = request[r].afterDelete
    BY <1>0 DEF RequestStates
  <2>. HIDE DEF q
  <2>3. GoodRequest(q)
    BY <1>0, <2>1, <2>2 DEF GoodRequest
  <2>4. Sound(cache', dropped') /\ From(cache', cache)
    BY <1>0, <2>1, GetKeeps
  <2>5. \A i \in DOMAIN cache'.lru : GoodEntry(cache'.lru[i])
    BY <1>0, <2>4, EntriesFrom
  <2>. QED  BY <2>1, <2>2, <2>3, <2>4, <2>5, RequestStep
<1>3. ASSUME Fetch(r)  PROVE Inv'
  <2>. DEFINE d == <<store[request[r].key], 0>>
              q == [request[r] EXCEPT !.at = "fetched", !.data = d]
  <2>1. /\ request' = [request EXCEPT ![r] = q] /\ cache' = cache /\ dropped' = dropped
        /\ UNCHANGED <<store, made, record, deletedFor, orphans>>
        /\ store[request[r].key] # 0
    BY <1>0, <1>3 DEF Fetch, history
  <2>2. request[r].key \in Keys
    BY <1>0 DEF RequestStates
  <2>3. d \in Data /\ d[2] = 0
    BY <2>1, <2>2 DEF Data, Inv, Types
  <2>4. ReadBefore(d)
    BY <2>1, <2>2 DEF Inv, NothingStored, ReadBefore
  <2>. HIDE DEF d
  <2>5. /\ q \in RequestStates /\ q.at = "fetched" /\ q.data = d
        /\ q.afterDelete = request[r].afterDelete
    BY <1>0, <2>3 DEF RequestStates
  <2>. HIDE DEF q
  <2>6. GoodRequest(q)
    BY <1>0, <2>3, <2>4, <2>5, DeliveryAssumption DEF GoodRequest
  <2>. QED  BY <1>0, <2>1, <2>5, <2>6, RequestStep
<1>4. ASSUME FetchFails(r)  PROVE Inv'
  <2>. DEFINE q == [request[r] EXCEPT !.attempt = @ + 1]
  <2>1. /\ request' = [request EXCEPT ![r] = q] /\ cache' = cache /\ dropped' = dropped
        /\ UNCHANGED <<store, made, record, deletedFor, orphans>>
    BY <1>0, <1>4 DEF FetchFails, history
  <2>2. /\ q \in RequestStates /\ q.at = request[r].at /\ q.data = request[r].data
        /\ q.afterDelete = request[r].afterDelete
    BY <1>0 DEF RequestStates
  <2>. HIDE DEF q
  <2>3. GoodRequest(q)
    BY <1>0, <2>2 DEF GoodRequest
  <2>. QED  BY <1>0, <2>1, <2>2, <2>3, RequestStep
<1>. QED  BY <1>1, <1>2, <1>3, <1>4 DEF Proceed

\* A step of the stream that leaves the handlers and the cache alone and of the
\* deletion's history adds at most that something stayed behind.
LEMMA OutsideStep ==
    ASSUME Inv, UNCHANGED <<cache, request, deletedFor, dropped>>,
           orphans' = orphans \/ orphans' = TRUE,
           Types', Tombstone', NothingStored'
    PROVE  Inv'
<1>1. GoodRequests'
  BY DEF Inv, GoodRequests, GoodRequest, ReadBefore, Gone
<1>2. GoodEntries'
  BY DEF Inv, GoodEntries, GoodEntry, ReadBefore
<1>3. Sound(cache, dropped)'
  BY DEF Inv
<1>. QED  BY <1>1, <1>2, <1>3 DEF Inv

\* Ages grow together, up to the bound.
LEMMA OlderIs ==
    ASSUME NEW a \in Nat
    PROVE  /\ Older(a) \in Nat /\ a <= Older(a) /\ Older(a) <= a + 1
           /\ a <= MaxAge => Older(a) <= MaxAge
           /\ \A b \in Nat : b <= a /\ b <= MaxAge => Older(b) <= Older(a)
BY DeliveryAssumption DEF Older, MaxAge

\* A body grows older.
LEMMA OlderDataIs ==
    ASSUME NEW d \in Data
    PROVE  OlderData(d) = <<d[1], Older(d[2])>> /\ OlderData(d) \in Data
<1>1. d[1] \in Nat \ {0} /\ d[2] \in Nat /\ d # Miss
  BY DEF Data, Miss
<1>2. OlderData(d) = <<d[1], Older(d[2])>>
  BY <1>1 DEF OlderData
<1>. QED  BY <1>1, <1>2, OlderIs DEF Data

\* An entry grows older: its path and size stay, its data ages with it.
LEMMA OlderEntryIs ==
    ASSUME NEW e \in Entries, Fresh(e)
    PROVE  /\ OlderEntry(e) \in Entries
           /\ OlderEntry(e).key = e.key /\ OlderEntry(e).size = e.size
           /\ Fresh(OlderEntry(e))
           /\ OlderEntry(e).data[2] = MaxAge \/ OlderEntry(e).data[2] = Older(e.data[2])
<1>. DEFINE a == Aged(e)
            o == OlderEntry(e)
            x == IF IsExpired(a) THEN <<e.data[1], MaxAge>> ELSE OlderData(e.data)
<1>1. e.data \in Data /\ e.age \in Nat /\ e.ttl \in Nat /\ e.size \in Nat /\ e.key \in Keys
  BY DEF Entries
<1>2. /\ a \in Entries /\ a.key = e.key /\ a.size = e.size /\ a.data = e.data /\ a.ttl = e.ttl
      /\ a.age = IF IsExpired(e) THEN e.age ELSE e.age + 1
  BY <1>1 DEF Aged, Entries
<1>3. o = [a EXCEPT !.data = x]
  BY <1>2 DEF OlderEntry
<1>4. e.data[1] \in Nat \ {0} /\ e.data[2] \in Nat
  BY <1>1 DEF Data
<1>5. <<e.data[1], MaxAge>> \in Data
  BY <1>4, DeliveryAssumption DEF Data, MaxAge
<1>6. OlderData(e.data) \in Data /\ OlderData(e.data) = <<e.data[1], Older(e.data[2])>>
  BY <1>1, OlderDataIs
<1>7. /\ x \in Data
      /\ IsExpired(a) => x[2] = MaxAge
      /\ ~IsExpired(a) => x[2] = Older(e.data[2])
  BY <1>5, <1>6
<1>. HIDE DEF a, x, o
<1>8. /\ o \in Entries /\ o.key = a.key /\ o.size = a.size /\ o.data = x /\ o.ttl = a.ttl
      /\ o.age = a.age
  BY <1>2, <1>3, <1>7 DEF Entries
<1>9. o.ttl = TtlForKey(o.key)
  BY <1>2, <1>8 DEF Fresh
<1>10. IsExpired(o) \/ o.data[2] <= o.age + MaxFetch
  <2>1. CASE IsExpired(a)
    BY <1>8, <2>1 DEF IsExpired
  <2>2. CASE ~IsExpired(a)
    <3>1. ~IsExpired(e)
      BY <1>2, <2>2 DEF IsExpired
    <3>2. a.age = e.age + 1 /\ e.data[2] <= e.age + MaxFetch
      BY <1>2, <3>1 DEF Fresh
    <3>3. x[2] = Older(e.data[2]) /\ Older(e.data[2]) <= e.data[2] + 1 /\ Older(e.data[2]) \in Nat
      BY <1>4, <1>7, <2>2, OlderIs
    <3>4. MaxFetch \in Nat
      BY DeliveryAssumption
    <3>5. x[2] <= a.age + MaxFetch
      BY <1>1, <1>4, <3>2, <3>3, <3>4
    <3>. QED  BY <1>8, <3>5
  <2>. QED  BY <2>1, <2>2
<1>. QED  BY <1>2, <1>7, <1>8, <1>9, <1>10 DEF Fresh, o

\* Time passes.
LEMMA TickKeeps ==
    ASSUME Inv, Tick
    PROVE  Inv'
<1>. DEFINE c == cache'
            L == Len(cache.lru)
<1>0. /\ cache.lru \in Seq(Entries) /\ cache.size \in Nat /\ L \in Nat /\ dropped \in Nat
      /\ DOMAIN cache.lru = 1..L
      /\ \A i \in 1..L : cache.lru[i] \in Entries
      /\ cache.size = Total(cache.lru) + dropped
      /\ Total(cache.lru) \in Nat /\ Total(cache.lru) <= MaxSizeBytes /\ L <= MaxEntries
      /\ \A i, j \in 1..L : cache.lru[i].key = cache.lru[j].key => i = j
  BY SoundParts DEF Inv
<1>1. /\ cache \in [lru : Seq(Entries), size : Nat]
      /\ \A i \in 1..L : Fresh(cache.lru[i]) /\ ReadBefore(cache.lru[i].data)
  BY <1>0 DEF Inv, Sound, GoodEntries, GoodEntry
<1>. DEFINE q == [i \in 1..L |-> OlderEntry(cache.lru[i])]
<1>2. c = [cache EXCEPT !.lru = q]
  BY <1>0 DEF Tick
<1>. HIDE DEF L
<1>3. \A i \in 1..L : /\ q[i] \in Entries /\ q[i].key = cache.lru[i].key
                      /\ q[i].size = cache.lru[i].size /\ Fresh(q[i])
                      /\ \/ q[i].data[2] = MaxAge
                         \/ q[i].data[2] = Older(cache.lru[i].data[2])
  BY <1>0, <1>1, OlderEntryIs
<1>4. q \in Seq(Entries) /\ Len(q) = L /\ DOMAIN q = 1..L
  <2>1. \A i \in 1..L : OlderEntry(cache.lru[i]) \in Entries
    BY <1>3
  <2>2. L \in Nat
    BY <1>0
  <2>. QED  BY <2>1, <2>2
<1>. HIDE DEF q
<1>5. c.lru = q /\ c.size = cache.size /\ c \in [lru : Seq(Entries), size : Nat]
  BY <1>0, <1>1, <1>2, <1>4
<1>6. Total(q) = Total(cache.lru)
  <2>. DEFINE s == Sums(q)
  <2>1. s[0] = 0 /\ \A n \in 1..L : s[n] = s[n - 1] + q[n].size
    BY <1>4, SumsAre
  <2>. HIDE DEF s
  <2>2. \A n \in 1..L : s[n] = s[n - 1] + cache.lru[n].size
    BY <1>3, <2>1
  <2>3. \A n \in 0..L : s[n] = Sums(cache.lru)[n]
    BY <1>0, <2>1, <2>2, SumsUnique DEF L
  <2>4. L \in 0..L
    BY <1>0
  <2>5. s[L] = Sums(cache.lru)[L]
    BY <2>3, <2>4
  <2>. QED  BY <1>4, <2>5 DEF Total, s, L
<1>. HIDE DEF c
<1>7. Sound(c, dropped)
  BY <1>0, <1>3, <1>4, <1>5, <1>6 DEF Sound
<1>8. /\ UNCHANGED <<store, made, record, orphans, dropped>>
      /\ deletedFor' = (IF deletedFor = NotDeleted THEN NotDeleted ELSE Older(deletedFor))
      /\ request' = [r \in Requests |-> [request[r] EXCEPT !.data = OlderData(@)]]
      /\ \A r \in Requests : request[r].at = "fetched" => request[r].data[2] < MaxFetch
  BY DEF Tick
<1>9. /\ store \in [Keys -> Nat] /\ made \in [Keys -> Nat]
      /\ request \in [Requests -> RequestStates]
      /\ deletedFor \in {NotDeleted} \cup 0..MaxAge /\ orphans \in BOOLEAN
      /\ MaxAge \in Nat /\ MaxFetch \in Nat /\ MaxAge = TombstoneTicks
  BY DeliveryAssumption DEF Inv, Types, MaxAge
<1>10. /\ deletedFor' \in {NotDeleted} \cup 0..MaxAge
       /\ (deletedFor' # NotDeleted) <=> (deletedFor # NotDeleted)
       /\ deletedFor # NotDeleted => /\ deletedFor \in Nat /\ deletedFor <= MaxAge
                                     /\ deletedFor' = Older(deletedFor)
                                     /\ deletedFor <= deletedFor' /\ deletedFor' <= MaxAge
  <2>1. CASE deletedFor = NotDeleted
    BY <1>8, <2>1
  <2>2. CASE deletedFor # NotDeleted
    <3>1. deletedFor \in Nat /\ deletedFor <= MaxAge
      BY <1>9, <2>2
    <3>2. deletedFor' = Older(deletedFor)
      BY <1>8, <2>2
    <3>3. Older(deletedFor) \in Nat /\ deletedFor <= Older(deletedFor) /\ Older(deletedFor) <= MaxAge
      BY <3>1, OlderIs
    <3>4. NotDeleted \notin Nat
      BY DEF NotDeleted
    <3>. QED  BY <1>9, <2>2, <3>1, <3>2, <3>3, <3>4
  <2>. QED  BY <2>1, <2>2
\* What has been read before the deletion stays so.
<1>11. ASSUME NEW d \in Data, ReadBefore(d), NEW n, n = MaxAge \/ n = Older(d[2])
       PROVE  deletedFor' # NotDeleted /\ ~orphans' => n >= deletedFor'
  <2>1. SUFFICES ASSUME deletedFor' # NotDeleted, ~orphans'  PROVE n >= deletedFor'
    OBVIOUS
  <2>2. d[2] \in Nat /\ d[2] >= deletedFor /\ deletedFor \in Nat /\ deletedFor <= MaxAge
    BY <1>8, <1>10, <1>11, <2>1 DEF ReadBefore, Data
  <2>3. Older(deletedFor) <= Older(d[2]) /\ Older(d[2]) \in Nat
    BY <2>2, OlderIs
  <2>. QED  BY <1>9, <1>10, <1>11, <2>1, <2>3
<1>12. GoodEntries'
  <2>1. SUFFICES ASSUME NEW i \in 1..L
                 PROVE  Fresh(q[i]) /\ (deletedFor' # NotDeleted /\ ~orphans' => q[i].data[2] >= deletedFor')
    BY <1>4, <1>5 DEF GoodEntries, GoodEntry, ReadBefore, c
  <2>2. cache.lru[i].data \in Data
    BY <1>0 DEF Entries
  <2>. QED  BY <1>1, <1>3, <1>11, <2>2
<1>13. ASSUME NEW r \in Requests
       PROVE  /\ request'[r] \in RequestStates
              /\ IF request'[r].at = "fetched"
                 THEN /\ request'[r].data \in Data /\ request'[r].data[2] <= MaxFetch
                      /\ deletedFor' # NotDeleted /\ ~orphans' => request'[r].data[2] >= deletedFor'
                 ELSE request'[r].data = Miss
              /\ request'[r].afterDelete = request[r].afterDelete
  <2>1. request[r] \in RequestStates /\ GoodRequest(request[r])
    BY <1>9 DEF Inv, GoodRequests
  <2>2. request'[r] = [request[r] EXCEPT !.data = OlderData(request[r].data)]
    BY <1>8
  <2>3. CASE request[r].at = "fetched"
    <3>1. request[r].data \in Data /\ request[r].data[2] < MaxFetch /\ ReadBefore(request[r].data)
      BY <1>8, <2>1, <2>3 DEF GoodRequest
    <3>. DEFINE d == request[r].data
                x == OlderData(d)
    <3>2. x \in Data /\ x = <<d[1], Older(d[2])>>
      BY <3>1, OlderDataIs
    <3>3. d[2] \in Nat
      BY <3>1 DEF Data
    <3>4. x[2] = Older(d[2]) /\ x[2] <= MaxFetch
      <4>1. x[2] = Older(d[2])
        BY <3>2
      <4>2. Older(d[2]) <= d[2] + 1 /\ Older(d[2]) \in Nat
        BY <3>3, OlderIs
      <4>. HIDE DEF d, x
      <4>3. d[2] < MaxFetch
        BY <3>1 DEF d
      <4>. QED  BY <1>9, <3>3, <4>1, <4>2, <4>3
    <3>5. deletedFor' # NotDeleted /\ ~orphans' => x[2] >= deletedFor'
      BY <1>11, <3>1, <3>4
    <3>. HIDE DEF d, x
    <3>6. request'[r] = [request[r] EXCEPT !.data = x]
      BY <2>2 DEF x, d
    <3>7. /\ request'[r] \in RequestStates /\ request'[r].at = "fetched" /\ request'[r].data = x
          /\ request'[r].afterDelete = request[r].afterDelete
      BY <2>1, <2>3, <3>2, <3>6 DEF RequestStates
    <3>. QED  BY <3>2, <3>4, <3>5, <3>7
  <2>4. CASE request[r].at # "fetched"
    <3>1. request[r].data = Miss /\ OlderData(request[r].data) = Miss
      BY <2>1, <2>4 DEF GoodRequest, OlderData
    <3>2. /\ request'[r] \in RequestStates /\ request'[r].at = request[r].at
          /\ request'[r].data = Miss /\ request'[r].afterDelete = request[r].afterDelete
      BY <2>1, <2>2, <3>1 DEF RequestStates
    <3>. QED  BY <2>4, <3>2
  <2>. QED  BY <2>3, <2>4
<1>14. Gone => Gone'
  BY <1>9, <1>10 DEF Gone
<1>15. GoodRequests'
  <2>1. SUFFICES ASSUME NEW r \in Requests, request'[r].afterDelete  PROVE Gone'
    BY <1>13 DEF GoodRequests, GoodRequest, ReadBefore
  <2>2. GoodRequest(request[r]) /\ request[r].afterDelete
    BY <1>13, <2>1 DEF Inv, GoodRequests
  <2>. QED  BY <1>14, <2>2 DEF GoodRequest
<1>16. Types'
  <2>1. request' \in [Requests -> RequestStates]
    BY <1>8, <1>13
  <2>. QED  BY <1>8, <1>9, <1>10, <2>1 DEF Types
<1>17. Tombstone'
  BY <1>8, <1>10, <1>14 DEF Inv, Tombstone
<1>18. NothingStored'
  BY <1>8, <1>10 DEF Inv, NothingStored
<1>19. Sound(cache, dropped)'
  BY <1>7, <1>8 DEF c
<1>. QED  BY <1>12, <1>15, <1>16, <1>17, <1>18, <1>19 DEF Inv

\* The steps of the stream, its deletion and the clock.
LEMMA StreamKeeps ==
    ASSUME Inv, StreamStep
    PROVE  Inv'
<1>0. Types /\ Tombstone /\ NothingStored
  BY DEF Inv
<1>1. ASSUME NEW k \in Keys, NEW v \in Nat, Stored(k, v), made' \in [Keys -> Nat]
      PROVE  Inv'
  <2>0. UNCHANGED <<record, cache, request, deletedFor, dropped>>
    BY <1>1 DEF Stored
  <2>1. /\ store' = [store EXCEPT ![k] = v]
        /\ orphans' \in BOOLEAN /\ (orphans' = orphans \/ orphans' = TRUE)
        /\ deletedFor # NotDeleted => orphans'
    BY <1>0, <1>1 DEF Stored, Types
  <2>2. Types'
    BY <1>0, <1>1, <2>0, <2>1 DEF Types
  <2>3. Tombstone'
    BY <1>0, <2>0 DEF Tombstone, Gone
  <2>4. NothingStored'
    BY <2>0, <2>1 DEF NothingStored
  <2>. QED  BY <2>0, <2>1, <2>2, <2>3, <2>4, OutsideStep
<1>2. ASSUME NEW k \in Keys, PutObject(k)  PROVE Inv'
  <2>1. made[k] + 1 \in Nat /\ made' \in [Keys -> Nat]
    BY <1>0, <1>2 DEF PutObject, Types
  <2>. QED  BY <1>1, <1>2, <2>1 DEF PutObject
<1>3. ASSUME NEW k \in Keys, NEW v \in 1..MaxVersion, LatePut(k, v)  PROVE Inv'
  <2>1. v \in Nat /\ made' \in [Keys -> Nat]
    BY <1>0, <1>3 DEF LatePut, Types
  <2>. QED  BY <1>1, <1>3, <2>1 DEF LatePut
<1>4. ASSUME NEW k \in Keys, PutGivenUp(k)  PROVE Inv'
  <2>1. UNCHANGED <<store, record, cache, request, deletedFor, orphans, dropped>>
    BY <1>4 DEF PutGivenUp, history
  <2>2. made' \in [Keys -> Nat]
    BY <1>0, <1>4 DEF PutGivenUp, Types
  <2>3. Types' /\ Tombstone' /\ NothingStored'
    BY <1>0, <2>1, <2>2 DEF Types, Tombstone, Gone, NothingStored
  <2>. QED  BY <2>1, <2>3, OutsideStep
<1>5. ASSUME NEW purge \in BOOLEAN, DeletePrefix(purge)  PROVE Inv'
  <2>1. UNCHANGED <<made, record, cache, request, deletedFor, orphans, dropped>>
    BY <1>5 DEF DeletePrefix, history
  <2>2. PICK gone \in SUBSET {k \in Keys : store[k] # 0} :
           store' = [k \in Keys |-> IF k \in gone THEN 0 ELSE store[k]]
    BY <1>5 DEF DeletePrefix
  <2>3. Types'
    BY <1>0, <2>1, <2>2 DEF Types
  <2>4. Tombstone'
    BY <1>0, <2>1 DEF Tombstone, Gone
  <2>5. NothingStored'
    BY <1>0, <2>1, <2>2 DEF NothingStored
  <2>. QED  BY <2>1, <2>3, <2>4, <2>5, OutsideStep
<1>6. ASSUME AdvanceRecord  PROVE Inv'
  <2>1. /\ UNCHANGED <<store, made, cache, request, deletedFor, orphans, dropped>>
        /\ record \notin {"DELETED", "Absent"} /\ record' # "Absent"
    BY <1>6 DEF AdvanceRecord, history
  <2>2. Types' /\ Tombstone' /\ NothingStored'
    BY <1>0, <2>1 DEF Types, Tombstone, Gone, NothingStored
  <2>. QED  BY <2>1, <2>2, OutsideStep
<1>7. ASSUME RemoveTombstone  PROVE Inv'
  <2>1. /\ UNCHANGED <<store, made, cache, request, deletedFor, orphans, dropped>>
        /\ record = "DELETED" /\ record' = "Absent" /\ deletedFor >= TombstoneTicks
    BY <1>7 DEF RemoveTombstone, history
  <2>2. deletedFor # NotDeleted
    BY <2>1, DeliveryAssumption DEF NotDeleted
  <2>3. Types' /\ Tombstone' /\ NothingStored'
    BY <1>0, <2>1, <2>2 DEF Types, Tombstone, Gone, NothingStored
  <2>. QED  BY <2>1, <2>3, OutsideStep
<1>8. ASSUME DeleteTransition  PROVE Inv'
  <2>1. UNCHANGED <<store, made, cache, request, dropped>>
    BY <1>8 DEF DeleteTransition
  <2>2. CASE record \notin {"READY", "ERROR"}
    <3>1. UNCHANGED <<record, deletedFor, orphans>>
      BY <1>8, <2>2 DEF DeleteTransition
    <3>2. Types' /\ Tombstone' /\ NothingStored'
      BY <1>0, <2>1, <3>1 DEF Types, Tombstone, Gone, NothingStored
    <3>. QED  BY <2>1, <3>1, <3>2, OutsideStep
  <2>3. CASE record \in {"READY", "ERROR"}
    <3>1. /\ record' = "DELETED" /\ deletedFor' = 0
          /\ orphans' = (\E k \in Keys : store[k] # 0)
      BY <1>8, <2>3 DEF DeleteTransition
    <3>2. deletedFor = NotDeleted
      BY <1>0, <2>3 DEF Tombstone
    <3>3. \A r \in Requests : ~request[r].afterDelete
      BY <3>2 DEF Inv, GoodRequests, GoodRequest, Gone
    <3>4. \A i \in DOMAIN cache.lru : Fresh(cache.lru[i]) /\ cache.lru[i].data[2] >= 0
      <4>1. \A i \in DOMAIN cache.lru : cache.lru[i].data \in Data
        BY SoundParts DEF Inv, Entries
      <4>2. \A d \in Data : d[2] >= 0
        BY DEF Data
      <4>. QED  BY <4>1, <4>2 DEF Inv, GoodEntries, GoodEntry
    <3>5. GoodEntries'
      BY <2>1, <3>1, <3>4 DEF GoodEntries, GoodEntry, ReadBefore
    <3>6. GoodRequests'
      <4>1. \A d \in Data : d[2] >= 0
        BY DEF Data
      <4>. QED  BY <2>1, <3>1, <3>3, <4>1 DEF Inv, GoodRequests, GoodRequest, ReadBefore
    <3>7. Types'
      BY <1>0, <2>1, <3>1, DeliveryAssumption DEF Types, MaxAge
    <3>8. Tombstone' /\ NothingStored'
      BY <2>1, <3>1 DEF Tombstone, NothingStored
    <3>9. Sound(cache, dropped)'
      BY <2>1 DEF Inv
    <3>. QED  BY <3>5, <3>6, <3>7, <3>8, <3>9 DEF Inv
  <2>. QED  BY <2>2, <2>3
<1>. QED
  BY <1>2, <1>3, <1>4, <1>5, <1>6, <1>7, <1>8, TickKeeps DEF StreamStep

\* The initial states.
LEMMA InitKeeps ==
    ASSUME Init
    PROVE  Inv
<1>1. EmptyCache.lru = <<>> /\ EmptyCache.size = 0
  BY DEF EmptyCache
<1>2. <<>> \in Seq(Entries) /\ Len(<<>>) = 0 /\ DOMAIN <<>> = {}
  OBVIOUS
<1>3. Total(<<>>) = 0
  BY <1>2, SumsAre DEF Total
<1>4. Sound(cache, dropped)
  BY <1>1, <1>2, <1>3, CacheConstants DEF Init, Sound, EmptyCache
<1>5. GoodEntries
  BY <1>1, <1>2 DEF Init, GoodEntries
<1>6. GoodRequests
  BY IdleIs DEF Init, GoodRequests, GoodRequest
<1>7. Types /\ Tombstone /\ NothingStored
  BY IdleIs DEF Init, Types, Tombstone, NothingStored
<1>. QED  BY <1>4, <1>5, <1>6, <1>7 DEF Inv

\* The invariant of the handlers, the cache and the stream holds always.
THEOREM Invariance == Spec => []Inv
<1>1. Init => Inv
  BY InitKeeps
<1>2. Inv /\ [Next]_vars => Inv'
  <2>1. ASSUME Inv, Next  PROVE Inv'
    BY <2>1, ServeKeeps, ProceedKeeps, StreamKeeps DEF Next
  <2>2. ASSUME Inv, UNCHANGED vars  PROVE Inv'
    <3>1. UNCHANGED <<store, made, record, cache, request, deletedFor, orphans, dropped>>
      BY <2>2 DEF vars, history
    <3>2. Types' /\ Tombstone' /\ NothingStored'
      BY <2>2, <3>1 DEF Inv, Types, Tombstone, Gone, NothingStored
    <3>. QED  BY <2>2, <3>1, <3>2, OutsideStep
  <2>. QED  BY <2>1, <2>2
<1>. QED  BY <1>1, <1>2, PTL DEF Spec

(* The byte counter of the object cache is the sum of its entries and of   *)
(* what the full map dropped, the entries are within both limits, and each *)
(* path has one, for every sequence of get() and put() with objects of any *)
(* size (cache.rs keeps the counter by hand).                              *)
THEOREM CacheIsAccountedFor == Spec => []CacheAccounts
<1>1. Inv => CacheAccounts
  BY DEF Inv, Sound, CacheAccounts
<1>. QED  BY <1>1, Invariance, PTL

-----------------------------------------------------------------------------
(* The answers.                                                            *)

\* What build_response() sends for a valid range.
LEMMA BuildResponseIs ==
    ASSUME NEW k \in Keys, NEW v \in Nat \ {0}, NEW range \in ValidHeaders, range # NoRange,
           BuildResponse(k, v, range).status \in {200, 206}
    PROVE  LET b == BuildResponse(k, v, range)
           IN  /\ b.status = 206 /\ b.from = range[1]
               /\ b.to \in b.from..range[2] /\ b.to < SizeOf(k, v)
<1>. DEFINE size == SizeOf(k, v)
            b == BuildResponse(k, v, range)
<1>1. size \in Nat
  BY SizeType
<1>2. range \in Ranges /\ ~(range[1] > range[2])
  BY DEF ValidHeaders, Headers, ParseRangeHeader
<1>3. range[1] \in Nat /\ range[2] \in Nat
  BY <1>2, DeliveryAssumption
<1>4. CASE size = 0 \/ range[1] >= size
  <2>1. b.status = 416
    BY <1>4 DEF BuildResponse, Refusal, Status
  <2>. QED  BY <2>1
<1>5. CASE ~(size = 0 \/ range[1] >= size)
  <2>1. b = [status |-> 206, from |-> range[1],
             to |-> IF range[2] < size - 1 THEN range[2] ELSE size - 1]
    BY <1>5 DEF BuildResponse, Status
  <2>. HIDE DEF b, size
  <2>2. /\ b.status = 206 /\ b.from = range[1]
        /\ b.to = IF range[2] < size - 1 THEN range[2] ELSE size - 1
    BY <2>1
  <2>3. b.to \in range[1]..range[2] /\ b.to < size
    BY <1>1, <1>2, <1>3, <1>5, <2>2
  <2>. QED  BY <2>2, <2>3 DEF b, size
<1>. QED  BY <1>4, <1>5

\* The answer that a handler sends with a body.
Answered(k, data, late, range) ==
    [key |-> k, afterDelete |-> late, data |-> data, range |-> range,
     status |-> BuildResponse(k, data[1], range).status,
     from |-> BuildResponse(k, data[1], range).from,
     to |-> BuildResponse(k, data[1], range).to]

\* Each step sends no body, or one that is not too old and, of a stream
\* deleted with nothing left behind, to no late request.
LEMMA AnswerIs ==
    ASSUME Inv, Next
    PROVE  \/ ~Served'
           \/ /\ \E k \in Keys, data \in Data, late \in BOOLEAN, range \in ValidHeaders :
                    /\ answer' = Answered(k, data, late, range)
                    /\ data[2] <= TtlForKey(k) + MaxFetch
                    /\ late => orphans
              /\ orphans' = orphans
<1>1. CASE answer' = NoAnswer
  BY <1>1 DEF Served
<1>2. ASSUME NEW r \in Requests, Serve(r)
      PROVE  \/ ~Served'
             \/ /\ \E k \in Keys, data \in Data, late \in BOOLEAN, range \in ValidHeaders :
                      /\ answer' = Answered(k, data, late, range)
                      /\ data[2] <= TtlForKey(k) + MaxFetch
                      /\ late => orphans
                /\ orphans' = orphans
  <2>. DEFINE k == request[r].key
              late == request[r].afterDelete
              Goal == \E kk \in Keys, data \in Data, l \in BOOLEAN, range \in ValidHeaders :
                         /\ answer' = Answered(kk, data, l, range)
                         /\ data[2] <= TtlForKey(kk) + MaxFetch
                         /\ l => orphans
  <2>0. /\ request[r] \in RequestStates /\ Sound(cache, dropped) /\ GoodEntries
        /\ GoodRequest(request[r]) /\ k \in Keys /\ late \in BOOLEAN
        /\ deletedFor \in {NotDeleted} \cup 0..MaxAge
    BY DEF Inv, Types, GoodRequests, RequestStates
  <2>1. TtlForKey(k) \in Nat /\ MaxFetch \in Nat /\ TombstoneTicks \in Nat
        /\ TombstoneTicks > TtlForKey(k) + MaxFetch
    BY <2>0, TtlType, DeliveryAssumption
  \* Data read before the deletion and young enough is too young for Gone.
  <2>2. ASSUME NEW data \in Data, data[2] <= TtlForKey(k) + MaxFetch, ReadBefore(data), late
        PROVE  orphans
    <3>1. Gone
      BY <2>0, <2>2 DEF GoodRequest
    <3>2. SUFFICES ASSUME ~orphans  PROVE FALSE
      OBVIOUS
    <3>3. data[2] \in Nat /\ data[2] >= deletedFor
      BY <2>2, <3>1, <3>2 DEF ReadBefore, Gone, Data
    <3>4. deletedFor \in Nat /\ deletedFor >= TombstoneTicks
      BY <2>0, <2>1, <3>1 DEF Gone, MaxAge
    <3>. QED  BY <2>1, <2>2, <3>3, <3>4
  <2>3. ASSUME NEW range \in Headers, Refuse(r, range)  PROVE ~Served'
    BY <2>3 DEF Refuse, Respond, Refusal, Status, Served
  <2>4. ASSUME NEW range \in ValidHeaders, Hit(r, range)  PROVE Goal /\ orphans' = orphans
    <3>. DEFINE data == Get(cache, k).hit
    <3>1. /\ data # Miss /\ answer' = Answered(k, data, late, range) /\ orphans' = orphans
      BY <2>4 DEF Hit, Respond, history, Answered
    <3>2. PICK i \in DOMAIN cache.lru : /\ cache.lru[i].key = k /\ ~IsExpired(cache.lru[i])
                                        /\ data = cache.lru[i].data
      BY <2>0, <3>1, GetKeeps
    <3>. DEFINE e == cache.lru[i]
    <3>3. e \in Entries /\ GoodEntry(e)
      BY <2>0, <3>2, SoundParts DEF GoodEntries
    <3>. HIDE DEF e, data, k, late
    <3>4. e.key = k /\ ~IsExpired(e) /\ data = e.data
      BY <3>2 DEF e
    <3>5. data \in Data /\ data[2] \in Nat /\ e.age \in Nat /\ e.ttl \in Nat
      BY <3>3, <3>4 DEF Entries, Data
    <3>6. data[2] <= TtlForKey(k) + MaxFetch
      <4>1. data[2] <= e.age + MaxFetch /\ e.ttl = TtlForKey(k)
        BY <3>3, <3>4 DEF GoodEntry, Fresh
      <4>2. ~(e.age > e.ttl)
        BY <3>4 DEF IsExpired
      <4>. QED  BY <2>1, <3>5, <4>1, <4>2
    <3>7. ReadBefore(data)
      BY <3>3, <3>4 DEF GoodEntry
    <3>8. late => orphans
      BY <2>2, <3>5, <3>6, <3>7
    <3>. QED  BY <2>0, <3>1, <3>5, <3>6, <3>8
  <2>5. ASSUME NEW range \in ValidHeaders, Complete(r, range)  PROVE Goal /\ orphans' = orphans
    <3>. DEFINE data == request[r].data
    <3>1. /\ request[r].at = "fetched" /\ answer' = Answered(k, data, late, range)
          /\ orphans' = orphans
      BY <2>5 DEF Complete, Respond, history, Answered
    <3>2. data \in Data /\ data[2] <= MaxFetch /\ ReadBefore(data)
      BY <2>0, <3>1 DEF GoodRequest
    <3>. HIDE DEF data, k, late
    <3>3. data[2] \in Nat
      BY <3>2 DEF Data
    <3>4. data[2] <= TtlForKey(k) + MaxFetch
      BY <2>1, <3>2, <3>3
    <3>5. late => orphans
      BY <2>2, <3>2, <3>4
    <3>. QED  BY <2>0, <3>1, <3>2, <3>4, <3>5
  <2>6. ASSUME FetchNotFound(r) \/ FetchGivenUp(r)  PROVE ~Served'
    BY <2>6 DEF FetchNotFound, FetchGivenUp, Respond, Refusal, Status, Served
  <2>. QED  BY <1>2, <2>3, <2>4, <2>5, <2>6 DEF Serve
<1>. QED  BY <1>1, <1>2 DEF Next

\* The three properties of the answers, of which the invariant is the cause.
Answers == StalenessBounded /\ RangeInside /\ DeletedNotServed

\* They hold in every state.
LEMMA AnswersAreRight == Spec => []Answers
<1>1. Init => Answers
  BY DEF Init, Answers, StalenessBounded, RangeInside, DeletedNotServed, Served
<1>2. Inv /\ Answers /\ [Next]_vars => Answers'
  <2>1. ASSUME Inv, Next  PROVE Answers'
    <3>1. CASE ~Served'
      BY <3>1 DEF Answers, StalenessBounded, RangeInside, DeletedNotServed
    <3>2. CASE Served'
      <4>1. PICK k \in Keys, data \in Data, late \in BOOLEAN, range \in ValidHeaders :
               /\ answer' = Answered(k, data, late, range)
               /\ data[2] <= TtlForKey(k) + MaxFetch
               /\ late => orphans
        BY <2>1, <3>2, AnswerIs
      <4>2. orphans' = orphans
        BY <2>1, <3>2, AnswerIs
      <4>. DEFINE b == BuildResponse(k, data[1], range)
      <4>3. /\ answer'.key = k /\ answer'.data = data /\ answer'.afterDelete = late
            /\ answer'.range = range /\ answer'.status = b.status
            /\ answer'.from = b.from /\ answer'.to = b.to
        BY <4>1 DEF Answered
      <4>4. b.status \in {200, 206}
        BY <3>2, <4>3 DEF Served
      <4>5. data[1] \in Nat \ {0}
        BY DEF Data
      <4>6. range # NoRange => /\ b.status = 206 /\ b.from = range[1]
                               /\ b.to \in b.from..range[2] /\ b.to < SizeOf(k, data[1])
        BY <4>4, <4>5, BuildResponseIs
      <4>. HIDE DEF b
      <4>7. StalenessBounded'
        BY <4>1, <4>3 DEF StalenessBounded
      <4>8. RangeInside'
        BY <4>3, <4>6 DEF RangeInside
      <4>9. DeletedNotServed'
        BY <4>1, <4>2, <4>3 DEF DeletedNotServed
      <4>. QED  BY <4>7, <4>8, <4>9 DEF Answers
    <3>. QED  BY <3>1, <3>2
  <2>2. ASSUME Answers, UNCHANGED vars  PROVE Answers'
    <3>1. answer' = answer /\ orphans' = orphans
      BY <2>2 DEF vars, history
    <3>. QED  BY <2>2, <3>1 DEF Answers, StalenessBounded, RangeInside, DeletedNotServed, Served
  <2>. QED  BY <2>1, <2>2
<1>. QED  BY <1>1, <1>2, Invariance, PTL DEF Spec

(* serve_object() never answers with data older than the time to live of   *)
(* its object type and a fetch, however fills and updates interleave.      *)
THEOREM StalenessIsBounded == Spec => []StalenessBounded
<1>1. Answers => StalenessBounded
  BY DEF Answers
<1>. QED  BY <1>1, AnswersAreRight, PTL

(* build_response() answers a range with a part of the object that is not  *)
(* empty and not past its end, for objects and ranges of any size.         *)
THEOREM RangesStayInside == Spec => []RangeInside
<1>1. Answers => RangeInside
  BY DEF Answers
<1>. QED  BY <1>1, AnswersAreRight, PTL

(* A stream that became DELETED with nothing left behind, and nothing put  *)
(* since, is not served to requests that start later, before or after the  *)
(* tombstone goes.                                                         *)
THEOREM DeletedStreamsAreNotServed == Spec => []DeletedNotServed
<1>1. Answers => DeletedNotServed
  BY DEF Answers
<1>. QED  BY <1>1, AnswersAreRight, PTL

=============================================================================
