---------------------------- MODULE LogRulesProofs ----------------------------
(***************************************************************************)
(* What LogRules compares is equal for logs and lists of every length.     *)
(***************************************************************************)
EXTENDS LogRules, VerifierProofs

-----------------------------------------------------------------------------
(* Powers of two. *)

\* What doubling makes of one.
IsPow(k) == \A S \in SUBSET Nat : (1 \in S /\ \A x \in S : 2 * x \in S) => k \in S

\* A power is one or twice another one.
LEMMA PowFacts ==
    /\ IsPow(1)
    /\ \A k : IsPow(k) => k \in Nat /\ k >= 1 /\ IsPow(2 * k)
    /\ \A k : IsPow(k) => k = 1 \/ \E h \in Nat : IsPow(h) /\ k = 2 * h
  <1>1. IsPow(1)
    BY DEF IsPow
  <1>2. ASSUME NEW k, IsPow(k) PROVE k \in Nat /\ k >= 1
    <2> DEFINE S == {x \in Nat : x >= 1}
    <2>1. S \in SUBSET Nat /\ 1 \in S /\ \A x \in S : 2 * x \in S
      OBVIOUS
    <2>2. k \in S
      BY <1>2, <2>1 DEF IsPow
    <2> QED BY <2>2
  <1>3. ASSUME NEW k, IsPow(k) PROVE IsPow(2 * k)
    BY <1>3 DEF IsPow
  <1>4. ASSUME NEW k, IsPow(k) PROVE k = 1 \/ \E h \in Nat : IsPow(h) /\ k = 2 * h
    <2> DEFINE S == {x \in Nat : IsPow(x) /\ (x = 1 \/ \E h \in Nat : IsPow(h) /\ x = 2 * h)}
    <2>1. 1 \in S
      BY <1>1
    <2>2. ASSUME NEW x \in S PROVE 2 * x \in S
      <3>1. IsPow(x) /\ x \in Nat /\ 2 * x \in Nat
        OBVIOUS
      <3>2. IsPow(2 * x)
        BY <1>3, <3>1
      <3> QED BY <3>1, <3>2
    <2>3. S \in SUBSET Nat
      OBVIOUS
    <2>4. k \in S
      <3> HIDE DEF S
      <3> QED BY <1>4, <2>1, <2>2, <2>3 DEF IsPow
    <2> QED BY <2>4
  <1> QED BY <1>1, <1>2, <1>3, <1>4

\* What holds of one and of twice a power that it holds of, holds of all.
LEMMA PowInduction ==
    ASSUME NEW S, 1 \in S, \A k \in Nat : IsPow(k) /\ k \in S => 2 * k \in S
    PROVE  \A k : IsPow(k) => k \in S
  <1> SUFFICES ASSUME NEW k, IsPow(k) PROVE k \in S
    OBVIOUS
  <1> DEFINE T == {x \in Nat : IsPow(x) /\ x \in S}
  <1>1. T \in SUBSET Nat /\ 1 \in T
    BY PowFacts
  <1>2. ASSUME NEW x \in T PROVE 2 * x \in T
    <2>1. x \in Nat /\ IsPow(x) /\ x \in S
      OBVIOUS
    <2>2. 2 * x \in S /\ IsPow(2 * x) /\ 2 * x \in Nat
      BY <2>1, PowFacts
    <2> QED BY <2>2
  <1>3. k \in T
    <2> HIDE DEF T
    <2> QED BY <1>1, <1>2 DEF IsPow
  <1> QED BY <1>3

\* Two powers are equal, or one is at least twice the other.
LEMMA PowApart ==
    \A p : IsPow(p) => \A q : IsPow(q) => p = q \/ p >= 2 * q \/ q >= 2 * p
  <1> DEFINE Claim(p) == \A q : IsPow(q) => p = q \/ p >= 2 * q \/ q >= 2 * p
             S == {p \in Nat : Claim(p)}
  <1>1. 1 \in S
    <2> SUFFICES ASSUME NEW q, IsPow(q) PROVE 1 = q \/ 1 >= 2 * q \/ q >= 2 * 1
      OBVIOUS
    <2>1. q \in Nat /\ q >= 1
      BY PowFacts
    <2> QED BY <2>1
  <1>2. ASSUME NEW p \in Nat, IsPow(p), p \in S PROVE 2 * p \in S
    <2> SUFFICES ASSUME NEW q, IsPow(q)
                 PROVE  2 * p = q \/ 2 * p >= 2 * q \/ q >= 2 * (2 * p)
      OBVIOUS
    <2>1. p >= 1 /\ q \in Nat
      BY <1>2, PowFacts
    <2>2. CASE q = 1
      BY <2>1, <2>2
    <2>3. CASE q # 1
      <3>1. PICK h \in Nat : IsPow(h) /\ q = 2 * h
        BY <2>3, PowFacts
      <3>2. p = h \/ p >= 2 * h \/ h >= 2 * p
        BY <1>2, <3>1
      <3> QED BY <2>1, <3>1, <3>2
    <2> QED BY <2>2, <2>3
  <1>3. \A p : IsPow(p) => p \in S
    <2> HIDE DEF S
    <2> QED BY <1>1, <1>2, PowInduction
  <1> QED BY <1>3

\* The smaller power divides the larger one.
LEMMA PowDivides ==
    \A p : IsPow(p) => \A q : IsPow(q) /\ q <= p => \E f \in Nat : IsPow(f) /\ p = f * q
  <1> DEFINE Claim(p) == \A q : IsPow(q) /\ q <= p => \E f \in Nat : IsPow(f) /\ p = f * q
             S == {p \in Nat : Claim(p)}
  <1>1. 1 \in S
    <2> SUFFICES ASSUME NEW q, IsPow(q), q <= 1 PROVE \E f \in Nat : IsPow(f) /\ 1 = f * q
      OBVIOUS
    <2>1. q = 1
      BY PowFacts
    <2> QED BY <2>1, PowFacts
  <1>2. ASSUME NEW p \in Nat, IsPow(p), p \in S PROVE 2 * p \in S
    <2> SUFFICES ASSUME NEW q, IsPow(q), q <= 2 * p PROVE \E f \in Nat : IsPow(f) /\ 2 * p = f * q
      OBVIOUS
    <2>1. p >= 1 /\ q \in Nat /\ q >= 1 /\ IsPow(2 * p)
      BY <1>2, PowFacts
    <2>2. 2 * p = q \/ 2 * p >= 2 * q
      BY <2>1, PowApart
    <2>3. CASE 2 * p = q
      <3>1. 2 * p = 1 * q
        BY <2>1, <2>3
      <3> QED BY <3>1, PowFacts
    <2>4. CASE 2 * p >= 2 * q
      <3>1. q <= p
        BY <2>1, <2>4
      <3>2. PICK f \in Nat : IsPow(f) /\ p = f * q
        BY <1>2, <3>1
      <3>3. 2 * p = (2 * f) * q
        BY <2>1, <3>2
      <3>4. 2 * f \in Nat /\ IsPow(2 * f)
        BY <3>2, PowFacts
      <3> QED BY <3>3, <3>4
    <2> QED BY <2>2, <2>3, <2>4
  <1>3. \A p : IsPow(p) => p \in S
    <2> HIDE DEF S
    <2> QED BY <1>1, <1>2, PowInduction
  <1> QED BY <1>3

-----------------------------------------------------------------------------
(* The Merkle tree. *)

\* split finds the largest power below n.
LEMMA SplitPow ==
    ASSUME NEW n \in Nat, n >= 2
    PROVE  split(n) \in 1..(n - 1) /\ IsPow(split(n)) /\ n <= 2 * split(n)
  <1> DEFINE Is(f, m) == f = [i \in 0..m |-> IF i = 0 THEN 1 ELSE Double(f[i - 1], n)]
             S == {m \in Nat : \E f : Is(f, m)}
  <1>1. 0 \in S
    <2> DEFINE f == [i \in 0..0 |-> 1]
    <2>1. Is(f, 0)
      OBVIOUS
    <2> QED BY <2>1
  <1>2. ASSUME NEW m \in Nat, m \in S PROVE m + 1 \in S
    <2>1. PICK f : Is(f, m)
      BY <1>2
    <2> DEFINE g == [i \in 0..(m + 1) |-> IF i = m + 1 THEN Double(f[m], n) ELSE f[i]]
    <2>2. Is(g, m + 1)
      <3>1. ASSUME NEW i \in 0..(m + 1)
            PROVE g[i] = IF i = 0 THEN 1 ELSE Double(g[i - 1], n)
        <4>1. CASE i = m + 1
          BY <4>1
        <4>2. CASE i \in 0..m
          <5>1. f[i] = IF i = 0 THEN 1 ELSE Double(f[i - 1], n)
            BY <2>1, <4>2
          <5> QED BY <5>1, <4>2
        <4> QED BY <4>1, <4>2
      <3> QED BY <3>1
    <2> HIDE DEF Is, g
    <2> QED BY <2>2
  <1>3. n \in S
    <2> HIDE DEF S
    <2> QED BY <1>1, <1>2, Induction
  <1> DEFINE k == CHOOSE f : Is(f, n)
  <1>4. Is(k, n)
    <2> HIDE DEF Is
    <2> QED BY <1>3
  <1>5. split(n) = k[n]
    BY DEF split
  <1> HIDE DEF k
  <1>6. k[0] = 1 /\ \A i \in 1..n : k[i] = Double(k[i - 1], n)
    BY <1>4
  <1> DEFINE T == {i \in Nat : i <= n =>
                     k[i] \in 1..(n - 1) /\ IsPow(k[i]) /\ (k[i] >= i + 1 \/ n <= 2 * k[i])}
  <1>7. 0 \in T
    BY <1>6, PowFacts
  <1>8. ASSUME NEW i \in Nat, i \in T PROVE i + 1 \in T
    <2> SUFFICES ASSUME i + 1 <= n
                 PROVE  /\ k[i + 1] \in 1..(n - 1) /\ IsPow(k[i + 1])
                        /\ k[i + 1] >= (i + 1) + 1 \/ n <= 2 * k[i + 1]
      OBVIOUS
    <2>1. i + 1 \in 1..n /\ (i + 1) - 1 = i
      OBVIOUS
    <2>2. k[i + 1] = Double(k[i], n)
      BY <1>6, <2>1
    <2> DEFINE x == k[i]
    <2>3. x \in 1..(n - 1) /\ IsPow(x) /\ (x >= i + 1 \/ n <= 2 * x)
      BY <1>8
    <2> HIDE DEF x
    <2>4. CASE 2 * x < n
      <3>1. k[i + 1] = 2 * x
        BY <2>2, <2>4 DEF Double, x
      <3>2. IsPow(2 * x)
        BY <2>3, PowFacts
      <3> QED BY <2>3, <2>4, <3>1, <3>2
    <2>5. CASE ~(2 * x < n)
      <3>1. k[i + 1] = x
        BY <2>2, <2>5 DEF Double, x
      <3> QED BY <2>3, <2>5, <3>1
    <2> QED BY <2>4, <2>5
  <1>9. n \in T
    <2> HIDE DEF T
    <2> QED BY <1>7, <1>8, Induction
  <1>10. k[n] \in 1..(n - 1) /\ IsPow(k[n]) /\ (k[n] >= n + 1 \/ n <= 2 * k[n])
    BY <1>9
  <1> QED BY <1>5, <1>10

\* The larger part of n leaves is not empty, and neither is the rest.
LEMMA SplitBounds ==
    ASSUME NEW n \in Nat, n >= 2
    PROVE  split(n) \in 1..(n - 1)
  BY SplitPow

\* A power is split in the middle.
LEMMA SplitTwice ==
    ASSUME NEW h, IsPow(h)
    PROVE  split(2 * h) = h
  <1>1. h \in Nat /\ h >= 1 /\ 2 * h \in Nat /\ 2 * h >= 2
    BY PowFacts
  <1> DEFINE p == split(2 * h)
             n == 2 * h
  <1>2. p \in 1..(n - 1) /\ IsPow(p) /\ n <= 2 * p
    <2> HIDE DEF n
    <2> QED BY <1>1, SplitPow DEF n
  <1> HIDE DEF p
  <1>3. p = h \/ p >= 2 * h \/ h >= 2 * p
    BY <1>2, PowApart
  <1>4. p = h
    BY <1>1, <1>2, <1>3
  <1> QED BY <1>4 DEF p

\* h has the root of every slice of leaves.
IsTree(h, lvs) ==
    \A n \in 1..Len(lvs), i \in Nat :
        h[<<n, i>>] = IF n = 1 THEN lvs[i + 1]
                      ELSE nodeHash(h[<<split(n), i>>], h[<<n - split(n), i + split(n)>>])

\* The recursion of mth is well defined.
LEMMA TreeExists ==
    ASSUME NEW lvs, Len(lvs) \in Nat \ {0}
    PROVE  \E h : IsTree(h, lvs) /\ mth(lvs) = h[<<Len(lvs), 0>>]
  <1> DEFINE Join(f, n, i) ==
               IF n = 1 THEN lvs[i + 1]
               ELSE nodeHash(f[<<split(n), i>>], f[<<n - split(n), i + split(n)>>])
             Is(f, m) == f = [s \in (1..m) \X Nat |-> Join(f, s[1], s[2])]
             S == {m \in Nat : \E f : Is(f, m)}
  <1>0. ASSUME NEW f, NEW g, NEW n \in Nat \ {0}, NEW i \in Nat,
               \A a \in 1..(n - 1), b \in Nat : f[<<a, b>>] = g[<<a, b>>]
        PROVE  Join(f, n, i) = Join(g, n, i)
    <2>1. CASE n = 1
      BY <2>1
    <2>2. CASE n # 1
      <3>1. split(n) \in 1..(n - 1)
        BY <2>2, SplitBounds
      <3>2. n - split(n) \in 1..(n - 1) /\ i + split(n) \in Nat
        BY <3>1
      <3> QED BY <1>0, <2>2, <3>1, <3>2
    <2> QED BY <2>1, <2>2
  <1>1. 0 \in S
    <2> DEFINE f == [s \in (1..0) \X Nat |-> 0]
    <2>1. Is(f, 0)
      <3>1. (1..0) \X Nat = {}
        OBVIOUS
      <3> HIDE DEF Join
      <3> QED BY <3>1
    <2> HIDE DEF Is, f
    <2> QED BY <2>1
  <1>2. ASSUME NEW m \in Nat, m \in S PROVE m + 1 \in S
    <2>1. PICK f : Is(f, m)
      <3> HIDE DEF Is
      <3> QED BY <1>2
    <2> DEFINE g == [s \in (1..(m + 1)) \X Nat |-> IF s[1] = m + 1 THEN Join(f, s[1], s[2]) ELSE f[s]]
    <2>2. \A a \in 1..m, b \in Nat : f[<<a, b>>] = g[<<a, b>>]
      <3> HIDE DEF Join, Is
      <3> QED OBVIOUS
    <2>3. ASSUME NEW s \in (1..(m + 1)) \X Nat
          PROVE g[s] = Join(g, s[1], s[2])
      <3>0. PICK n \in 1..(m + 1), i \in Nat : s = <<n, i>>
        OBVIOUS
      <3>1. s[1] = n /\ s[2] = i
        BY <3>0
      <3>2. Join(f, s[1], s[2]) = Join(g, s[1], s[2])
        <4>1. 1..(n - 1) \subseteq 1..m /\ n \in Nat \ {0}
          OBVIOUS
        <4>2. \A a \in 1..(n - 1), b \in Nat : f[<<a, b>>] = g[<<a, b>>]
          <5> HIDE DEF g, Is, Join
          <5> QED BY <2>2, <4>1
        <4>3. Join(f, n, i) = Join(g, n, i)
          <5> HIDE DEF g, Is, Join
          <5> QED BY <4>1, <4>2, <1>0
        <4> HIDE DEF g, Is, Join
        <4> QED BY <3>1, <4>3
      <3>3. CASE s[1] = m + 1
        <4> HIDE DEF Join
        <4>1. g[s] = Join(f, s[1], s[2])
          BY <3>3
        <4> QED BY <4>1, <3>2
      <3>4. CASE s[1] # m + 1
        <4> HIDE DEF Join
        <4>1. g[s] = f[s]
          BY <3>4
        <4>2. s \in (1..m) \X Nat
          BY <3>0, <3>1, <3>4
        <4>3. f[s] = Join(f, s[1], s[2])
          BY <2>1, <4>2
        <4> QED BY <4>1, <4>3, <3>2
      <3> QED BY <3>3, <3>4
    <2>4. Is(g, m + 1)
      <3> HIDE DEF Join
      <3> QED BY <2>3
    <2> HIDE DEF Is, g
    <2> QED BY <2>4
  <1>3. Len(lvs) \in S
    <2> HIDE DEF S
    <2> QED BY <1>1, <1>2, Induction
  <1> DEFINE h == CHOOSE f : Is(f, Len(lvs))
  <1>4. Is(h, Len(lvs))
    <2> HIDE DEF Is
    <2> QED BY <1>3
  <1>5. mth(lvs) = h[<<Len(lvs), 0>>]
    BY DEF mth, Slices
  <1> HIDE DEF h
  <1>6. IsTree(h, lvs)
    <2> SUFFICES ASSUME NEW n \in 1..Len(lvs), NEW i \in Nat
                 PROVE  h[<<n, i>>] = Join(h, n, i)
      BY DEF IsTree
    <2> HIDE DEF Join
    <2>1. <<n, i>> \in (1..Len(lvs)) \X Nat
      OBVIOUS
    <2> QED BY <1>4, <2>1
  <1> QED BY <1>5, <1>6

\* A list of leaves.
IsLeaves(lvs) == Len(lvs) \in Nat /\ \A i \in 1..Len(lvs) : \E x : lvs[i] = LeafHash(x)

\* The root of n leaves is that of no other leaves.
SliceBinds(h, a, g, b, n) ==
    \A i, j, m \in Nat :
        (/\ n \in 1..Len(a) /\ i + n <= Len(a)
         /\ m \in 1..Len(b) /\ j + m <= Len(b)
         /\ h[<<n, i>>] = g[<<m, j>>])
          => (m = n /\ \A c \in 1..n : a[i + c] = b[j + c])

\* A root has one shape below it, and one list of leaves.
LEMMA TreeBinds ==
    ASSUME NEW a, NEW b, IsLeaves(a), IsLeaves(b),
           NEW h, IsTree(h, a), NEW g, IsTree(g, b)
    PROVE  \A n \in Nat : SliceBinds(h, a, g, b, n)
  <1> DEFINE Claim(n) ==
               \A i, j, m \in Nat :
                (/\ n \in 1..Len(a) /\ i + n <= Len(a)
                 /\ m \in 1..Len(b) /\ j + m <= Len(b)
                 /\ h[<<n, i>>] = g[<<m, j>>])
                  => (m = n /\ \A c \in 1..n : a[i + c] = b[j + c])
             S == {n \in Nat : \A k \in 0..n : Claim(k)}
  <1>1. 0 \in S
    OBVIOUS
  <1>2. ASSUME NEW k \in Nat, k \in S PROVE k + 1 \in S
    <2> DEFINE n == k + 1
    <2>1. \A l \in 0..k : Claim(l)
      BY <1>2
    <2> HIDE DEF Claim
    <2>2. ASSUME NEW i \in Nat, NEW j \in Nat, NEW m \in Nat,
                 n \in 1..Len(a), i + n <= Len(a), m \in 1..Len(b), j + m <= Len(b),
                 h[<<n, i>>] = g[<<m, j>>]
          PROVE  m = n /\ \A c \in 1..n : a[i + c] = b[j + c]
      <3>0. Len(a) \in Nat /\ Len(b) \in Nat
        BY DEF IsLeaves
      <3>1. h[<<n, i>>] = IF n = 1 THEN a[i + 1]
                          ELSE nodeHash(h[<<split(n), i>>], h[<<n - split(n), i + split(n)>>])
        BY <2>2 DEF IsTree
      <3>2. g[<<m, j>>] = IF m = 1 THEN b[j + 1]
                          ELSE nodeHash(g[<<split(m), j>>], g[<<m - split(m), j + split(m)>>])
        BY <2>2 DEF IsTree
      <3>3. \A x, y, z : LeafHash(x) # nodeHash(y, z)
        BY DEF LeafHash, nodeHash
      <3>4. CASE n = 1 /\ m = 1
        <4>1. a[i + 1] = b[j + 1]
          BY <2>2, <3>1, <3>2, <3>4
        <4> QED BY <3>4, <4>1
      <3>5. CASE n = 1 /\ m # 1
        <4>1. PICK x : a[i + 1] = LeafHash(x)
          <5>1. i + 1 \in 1..Len(a)
            BY <2>2, <3>0
          <5> QED BY <5>1 DEF IsLeaves
        <4> HIDE DEF n
        <4> QED BY <2>2, <3>1, <3>2, <3>3, <3>5, <4>1
      <3>6. CASE n # 1 /\ m = 1
        <4>1. PICK x : b[j + 1] = LeafHash(x)
          <5>1. j + 1 \in 1..Len(b)
            BY <2>2, <3>0
          <5> QED BY <5>1 DEF IsLeaves
        <4> HIDE DEF n
        <4> QED BY <2>2, <3>1, <3>2, <3>3, <3>6, <4>1
      <3>7. CASE n # 1 /\ m # 1
        <4> DEFINE p == split(n)  q == split(m)
        <4>1. p \in 1..(n - 1) /\ q \in 1..(m - 1)
          BY <2>2, <3>0, <3>7, SplitBounds
        <4>2. nodeHash(h[<<p, i>>], h[<<n - p, i + p>>]) = nodeHash(g[<<q, j>>], g[<<m - q, j + q>>])
          <5> HIDE DEF n
          <5> QED BY <2>2, <3>1, <3>2, <3>7
        <4> HIDE DEF p, q
        <4>3. h[<<p, i>>] = g[<<q, j>>] /\ h[<<n - p, i + p>>] = g[<<m - q, j + q>>]
          BY <4>2 DEF nodeHash
        <4>4. q = p /\ \A c \in 1..p : a[i + c] = b[j + c]
          <5>1. /\ p \in 0..k /\ p \in 1..Len(a) /\ i + p <= Len(a)
                /\ q \in Nat /\ q \in 1..Len(b) /\ j + q <= Len(b)
            BY <2>2, <3>0, <4>1
          <5>2. Claim(p)
            BY <2>1, <5>1
          <5> HIDE DEF n
          <5> QED BY <4>3, <5>1, <5>2 DEF Claim
        <4>5. m - q = n - p /\ \A c \in 1..(n - p) : a[(i + p) + c] = b[(j + q) + c]
          <5>0. p \in Int /\ q \in Int /\ n \in Int /\ Len(a) \in Int /\ Len(b) \in Int
            BY <2>2, <3>0, <4>1
          <5>a. n - p \in 0..k /\ n - p \in 1..Len(a) /\ (i + p) + (n - p) <= Len(a)
            BY <2>2, <5>0, <4>1
          <5>b. m - q \in Nat /\ m - q \in 1..Len(b) /\ (j + q) + (m - q) <= Len(b)
            BY <2>2, <5>0, <4>1
          <5>c. i + p \in Nat /\ j + q \in Nat
            BY <5>0, <4>1
          <5>1. /\ n - p \in 0..k /\ n - p \in 1..Len(a) /\ (i + p) + (n - p) <= Len(a)
                /\ m - q \in Nat /\ m - q \in 1..Len(b) /\ (j + q) + (m - q) <= Len(b)
                /\ i + p \in Nat /\ j + q \in Nat
            BY <5>a, <5>b, <5>c
          <5>2. Claim(n - p)
            BY <2>1, <5>1
          <5> HIDE DEF n
          <5> QED BY <4>3, <5>1, <5>2 DEF Claim
        <4>6. m = n
          BY <4>1, <4>4, <4>5
        <4>7. ASSUME NEW c \in 1..n PROVE a[i + c] = b[j + c]
          <5>1. CASE c \in 1..p
            BY <4>4, <5>1
          <5>2. CASE c \notin 1..p
            <6>1. c - p \in 1..(n - p) /\ (i + p) + (c - p) = i + c /\ (j + q) + (c - p) = j + c
              BY <4>1, <4>4, <5>2
            <6> QED BY <4>5, <6>1
          <5> QED BY <5>1, <5>2
        <4> QED BY <4>6, <4>7
      <3> QED BY <3>4, <3>5, <3>6, <3>7
    <2>3. Claim(n)
      BY <2>2 DEF Claim
    <2> QED BY <2>1, <2>3
  <1>3. \A n \in Nat : n \in S
    <2> HIDE DEF S
    <2> QED BY <1>1, <1>2, Induction
  <1>4. ASSUME NEW n \in Nat PROVE Claim(n)
    <2> HIDE DEF Claim
    <2> QED BY <1>3
  <1> QED BY <1>4 DEF SliceBinds

\* No two lists of leaves have the same root.
LEMMA RootInjective ==
    ASSUME NEW X, NEW a \in Seq(X), NEW b \in Seq(X), IsLeaves(a), IsLeaves(b), Root(a) = Root(b)
    PROVE  a = b
  <1>1. ASSUME NEW c \in Seq(X), IsLeaves(c), c # <<>>
        PROVE  /\ Root(c) = mth(c) /\ Len(c) \in Nat \ {0}
               /\ mth(c) # EmptyRoot
    <2>1. Root(c) = mth(c) /\ Len(c) \in Nat \ {0}
      BY <1>1 DEF Root
    <2>2. PICK h : IsTree(h, c) /\ mth(c) = h[<<Len(c), 0>>]
      BY <2>1, TreeExists
    <2> DEFINE n == Len(c)
               l == h[<<split(n), 0>>]
               r == h[<<n - split(n), 0 + split(n)>>]
    <2>a. n \in 1..Len(c) /\ 0 \in Nat
      BY <2>1
    <2>b. h[<<n, 0>>] = IF n = 1 THEN c[0 + 1] ELSE nodeHash(l, r)
      <3> HIDE DEF n
      <3> QED BY <2>2, <2>a DEF IsTree
    <2> HIDE DEF l, r
    <2>3. mth(c) = IF Len(c) = 1 THEN c[0 + 1] ELSE nodeHash(l, r)
      BY <2>2, <2>b
    <2>4. Len(c) = 1 => \E x : c[0 + 1] = LeafHash(x)
      BY <1>1, <2>1 DEF IsLeaves
    <2>5. \A x, y : LeafHash(x) # EmptyRoot /\ nodeHash(x, y) # EmptyRoot
      BY DEF LeafHash, nodeHash, EmptyRoot
    <2> QED BY <2>1, <2>3, <2>4, <2>5
  <1>2. CASE a = <<>> \/ b = <<>>
    BY <1>1, <1>2 DEF Root
  <1>3. CASE a # <<>> /\ b # <<>>
    <2>1. mth(a) = mth(b) /\ Len(a) \in Nat \ {0} /\ Len(b) \in Nat \ {0}
      BY <1>1, <1>3
    <2>2. PICK h : IsTree(h, a) /\ mth(a) = h[<<Len(a), 0>>]
      BY <2>1, TreeExists
    <2>3. PICK g : IsTree(g, b) /\ mth(b) = g[<<Len(b), 0>>]
      BY <2>1, TreeExists
    <2>4. Len(a) \in 1..Len(a) /\ 0 + Len(a) <= Len(a) /\ Len(b) \in 1..Len(b) /\ 0 + Len(b) <= Len(b)
      BY <2>1
    <2>5. Len(b) = Len(a) /\ \A c \in 1..Len(a) : a[0 + c] = b[0 + c]
      <3> DEFINE n == Len(a)  m == Len(b)
      <3>1. SliceBinds(h, a, g, b, n)
        BY <2>1, <2>2, <2>3, TreeBinds
      <3>2. n \in Nat /\ m \in Nat /\ 0 \in Nat /\ h[<<n, 0>>] = g[<<m, 0>>]
        BY <2>1, <2>2, <2>3
      <3>3. n \in 1..Len(a) /\ 0 + n <= Len(a) /\ m \in 1..Len(b) /\ 0 + m <= Len(b)
        BY <2>4
      <3> HIDE DEF n, m
      <3>4. m = n /\ \A c \in 1..n : a[0 + c] = b[0 + c]
        BY <3>1, <3>2, <3>3 DEF SliceBinds
      <3> QED BY <3>4 DEF n, m
    <2>6. \A c \in 1..Len(a) : a[c] = b[c]
      BY <2>5
    <2> QED BY <2>5, <2>6, SeqEqual
  <1> QED BY <1>2, <1>3

LeavesOK == leaves \in Seq({LeafHash(0), LeafHash(1)})

\* AddLeaf adds leaf hashes only.
LEMMA LeavesHold == Spec => []LeavesOK
  <1>1. Init => LeavesOK
    BY DEF Init, LeavesOK
  <1>2. LeavesOK /\ [Next]_vars => LeavesOK'
    <2> SUFFICES ASSUME LeavesOK, [Next]_vars PROVE LeavesOK'
      OBVIOUS
    <2>1. CASE AddLeaf
      BY <2>1 DEF AddLeaf, LeavesOK
    <2>2. CASE leaves' = leaves
      BY <2>2 DEF LeavesOK
    <2> QED BY <2>1, <2>2 DEF Next, vars, AddReceipt
  <1> QED BY <1>1, <1>2, PTL DEF Spec

\* RootBinds: two lists of leaves with the same root are the same list,
\* whatever their lengths (merkle.go, Root and split).
THEOREM RootBindsHolds == Spec => []RootBinds
  <1> DEFINE X == {LeafHash(0), LeafHash(1)}
  <1>1. LeavesOK => RootBinds
    <2> SUFFICES ASSUME LeavesOK, NEW other \in Lists, Root(other) = Root(leaves)
                 PROVE  other = leaves
      BY DEF RootBinds
    <2>1. \A s \in Seq(X) : IsLeaves(s)
      BY DEF IsLeaves
    <2>2. PICK n \in 0..MaxLeaves : other \in [1..n -> X]
      BY DEF Lists
    <2>3. other \in Seq(X)
      BY <2>2
    <2> HIDE DEF X
    <2>4. leaves \in Seq(X)
      BY DEF LeavesOK, X
    <2> QED BY <2>1, <2>3, <2>4, RootInjective
  <1> QED BY <1>1, LeavesHold, PTL

-----------------------------------------------------------------------------
(* Inclusion paths. *)

\* The loop of Climb.
LEMMA ClimbLoop ==
    ASSUME NEW fn \in Nat, NEW sn
    PROVE  \E at : /\ Climb(fn, sn) = at[fn] /\ at[0] = [fn |-> fn, sn |-> sn]
                   /\ \A i \in 1..fn : at[i] = Halve(at[i - 1])
  <1> DEFINE st == [fn |-> fn, sn |-> sn]
             Is(f, m) == f = [i \in 0..m |-> IF i = 0 THEN st ELSE Halve(f[i - 1])]
             S == {m \in Nat : \E f : Is(f, m)}
  <1>0. Climb(fn, sn) = (CHOOSE f : Is(f, fn))[fn]
    BY DEF Climb
  <1> HIDE DEF st
  <1>1. 0 \in S
    <2> DEFINE f == [i \in 0..0 |-> st]
    <2>1. Is(f, 0)
      OBVIOUS
    <2> QED BY <2>1
  <1>2. ASSUME NEW m \in Nat, m \in S PROVE m + 1 \in S
    <2>1. PICK f : Is(f, m)
      BY <1>2
    <2> DEFINE g == [i \in 0..(m + 1) |-> IF i = m + 1 THEN Halve(f[m]) ELSE f[i]]
    <2>2. Is(g, m + 1)
      <3>1. ASSUME NEW i \in 0..(m + 1)
            PROVE g[i] = IF i = 0 THEN st ELSE Halve(g[i - 1])
        <4>1. CASE i = m + 1
          BY <4>1
        <4>2. CASE i \in 0..m
          <5>1. f[i] = IF i = 0 THEN st ELSE Halve(f[i - 1])
            BY <2>1, <4>2
          <5> QED BY <5>1, <4>2
        <4> QED BY <4>1, <4>2
      <3> QED BY <3>1
    <2> HIDE DEF Is, g
    <2> QED BY <2>2
  <1>3. fn \in S
    <2> HIDE DEF S
    <2> QED BY <1>1, <1>2, Induction
  <1> DEFINE at == CHOOSE f : Is(f, fn)
  <1>4. Is(at, fn)
    <2> HIDE DEF Is
    <2> QED BY <1>3
  <1>5. Climb(fn, sn) = at[fn]
    BY <1>0
  <1> HIDE DEF at
  <1>6. at[0] = st /\ \A i \in 1..fn : at[i] = Halve(at[i - 1])
    BY <1>4
  <1> QED BY <1>5, <1>6 DEF st

\* A right node has a sibling.
LEMMA ClimbOdd ==
    ASSUME NEW fn \in Nat, fn % 2 = 1, NEW sn
    PROVE  Climb(fn, sn) = [fn |-> fn, sn |-> sn]
  <1>1. PICK at : /\ Climb(fn, sn) = at[fn] /\ at[0] = [fn |-> fn, sn |-> sn]
                  /\ \A i \in 1..fn : at[i] = Halve(at[i - 1])
    BY ClimbLoop
  <1> DEFINE st == [fn |-> fn, sn |-> sn]
             S == {i \in Nat : i <= fn => at[i] = st}
  <1>2. 0 \in S
    BY <1>1
  <1>3. ASSUME NEW i \in Nat, i \in S PROVE i + 1 \in S
    <2> SUFFICES ASSUME i + 1 <= fn PROVE at[i + 1] = st
      OBVIOUS
    <2>1. at[i] = st
      BY <1>3
    <2>2. i + 1 \in 1..fn /\ (i + 1) - 1 = i
      OBVIOUS
    <2>3. at[i + 1] = Halve(st)
      BY <1>1, <2>1, <2>2
    <2>4. Halve(st) = st
      BY DEF Halve
    <2> QED BY <2>3, <2>4
  <1>4. fn \in S
    <2> HIDE DEF S
    <2> QED BY <1>2, <1>3, Induction
  <1> QED BY <1>1, <1>4

\* On the right edge it goes up until there is one.
LEMMA ClimbEdge ==
    ASSUME NEW e \in Nat, NEW q, IsPow(q), NEW fn, fn = (2 * e + 1) * q
    PROVE  Climb(fn, fn) = [fn |-> 2 * e + 1, sn |-> 2 * e + 1]
  <1> DEFINE o == 2 * e + 1
             At(x) == [fn |-> o * x, sn |-> o * x]
  <1>0. o \in Nat /\ o >= 1 /\ o % 2 = 1 /\ q \in Nat /\ q >= 1
    BY PowFacts
  <1>1. fn \in Nat /\ fn >= q /\ fn = o * q
    <2> HIDE DEF o
    <2>1. fn = o * q
      BY DEF o
    <2>2. o * q \in Nat /\ o * q >= q
      BY <1>0
    <2> QED BY <2>1, <2>2
  <1>2. PICK at : /\ Climb(fn, fn) = at[fn] /\ at[0] = [fn |-> fn, sn |-> fn]
                  /\ \A i \in 1..fn : at[i] = Halve(at[i - 1])
    BY <1>1, ClimbLoop
  <1> HIDE DEF o
  <1>3. Halve(At(1)) = At(1)
    <2>1. o * 1 = o
      BY <1>0
    <2> QED BY <1>0, <2>1 DEF Halve
  <1>4. ASSUME NEW h \in Nat, h >= 1 PROVE Halve(At(2 * h)) = At(h)
    <2> DEFINE g == o * h
    <2>1. o * (2 * h) = 2 * g /\ g \in Nat /\ g >= 1
      BY <1>0, <1>4
    <2> HIDE DEF g
    <2>2. (2 * g) % 2 = 0 /\ 2 * g # 0 /\ (2 * g) \div 2 = g
      BY <2>1
    <2>3. At(2 * h) = [fn |-> 2 * g, sn |-> 2 * g]
      BY <2>1
    <2>4. Halve(At(2 * h)) = [fn |-> g, sn |-> g]
      BY <2>2, <2>3 DEF Halve
    <2> QED BY <2>4 DEF g
  <1> DEFINE S == {i \in Nat : i <= fn =>
                     \E x \in Nat : IsPow(x) /\ at[i] = At(x) /\ (x = 1 \/ x + i <= q)}
  <1>5. 0 \in S
    BY <1>0, <1>1, <1>2
  <1>6. ASSUME NEW i \in Nat, i \in S PROVE i + 1 \in S
    <2> SUFFICES ASSUME i + 1 <= fn
                 PROVE  \E x \in Nat : IsPow(x) /\ at[i + 1] = At(x) /\ (x = 1 \/ x + (i + 1) <= q)
      OBVIOUS
    <2>1. i + 1 \in 1..fn /\ (i + 1) - 1 = i /\ i <= fn
      BY <1>1
    <2> HIDE DEF At
    <2>2. PICK x \in Nat : IsPow(x) /\ at[i] = At(x) /\ (x = 1 \/ x + i <= q)
      BY <1>6, <2>1
    <2>3. at[i + 1] = Halve(At(x))
      BY <1>2, <2>1, <2>2
    <2>4. CASE x = 1
      <3>1. at[i + 1] = At(x) /\ x = 1
        BY <1>3, <2>3, <2>4
      <3> QED BY <2>2, <3>1
    <2>5. CASE x # 1
      <3>1. PICK h \in Nat : IsPow(h) /\ x = 2 * h
        BY <2>2, <2>5, PowFacts
      <3>2. h >= 1
        BY <3>1, PowFacts
      <3>3. at[i + 1] = At(h)
        BY <1>4, <2>3, <3>1, <3>2
      <3>4. h + (i + 1) <= q
        BY <1>0, <2>2, <2>5, <3>1, <3>2
      <3> QED BY <3>1, <3>3, <3>4
    <2> QED BY <2>4, <2>5
  <1>7. fn \in S
    <2> HIDE DEF S
    <2> QED BY <1>1, <1>5, <1>6, Induction
  <1>8. PICK x \in Nat : IsPow(x) /\ at[fn] = At(x) /\ (x = 1 \/ x + fn <= q)
    BY <1>1, <1>7
  <1>9. x >= 1
    BY <1>8, PowFacts
  <1>10. x = 1
    BY <1>0, <1>1, <1>8, <1>9
  <1>11. o * 1 = o
    BY <1>0
  <1> QED BY <1>2, <1>8, <1>10, <1>11 DEF o


\* at goes up along prf.
IsWalk(at, prf) == \A i \in 1..Len(prf) : at[i] = Ascend(at[i - 1], prf[i])

\* The recursion of VerifyInclusion is well defined.
LEMMA WalkExists ==
    ASSUME NEW leaf, NEW index \in Nat, NEW size \in Nat, NEW prf, Len(prf) \in Nat, NEW root
    PROVE  \E at : /\ at[0] = [fn |-> index, sn |-> size - 1, r |-> leaf] /\ IsWalk(at, prf)
                   /\ VerifyInclusion(leaf, index, size, prf, root)
                        <=> (index < size /\ at[Len(prf)].sn = 0 /\ at[Len(prf)].r = root)
  <1> DEFINE st == [fn |-> index, sn |-> size - 1, r |-> leaf]
             Is(f, m) == f = [i \in 0..m |-> IF i = 0 THEN st ELSE Ascend(f[i - 1], prf[i])]
             S == {m \in Nat : \E f : Is(f, m)}
             at == CHOOSE f : Is(f, Len(prf))
  <1>0. VerifyInclusion(leaf, index, size, prf, root)
          <=> (index < size /\ at[Len(prf)].sn = 0 /\ at[Len(prf)].r = root)
    BY DEF VerifyInclusion
  <1> HIDE DEF st
  <1>1. 0 \in S
    <2> DEFINE f == [i \in 0..0 |-> st]
    <2>1. Is(f, 0)
      OBVIOUS
    <2> QED BY <2>1
  <1>2. ASSUME NEW m \in Nat, m \in S PROVE m + 1 \in S
    <2>1. PICK f : Is(f, m)
      BY <1>2
    <2> DEFINE g == [i \in 0..(m + 1) |-> IF i = m + 1 THEN Ascend(f[m], prf[m + 1]) ELSE f[i]]
    <2>2. Is(g, m + 1)
      <3>1. ASSUME NEW i \in 0..(m + 1)
            PROVE g[i] = IF i = 0 THEN st ELSE Ascend(g[i - 1], prf[i])
        <4>1. CASE i = m + 1
          BY <4>1
        <4>2. CASE i \in 0..m
          <5>1. f[i] = IF i = 0 THEN st ELSE Ascend(f[i - 1], prf[i])
            BY <2>1, <4>2
          <5> QED BY <5>1, <4>2
        <4> QED BY <4>1, <4>2
      <3> QED BY <3>1
    <2> HIDE DEF Is, g
    <2> QED BY <2>2
  <1>3. Len(prf) \in S
    <2> HIDE DEF S
    <2> QED BY <1>1, <1>2, Induction
  <1>4. Is(at, Len(prf))
    <2> HIDE DEF Is
    <2> QED BY <1>3
  <1> HIDE DEF at
  <1>5. at[0] = st /\ \A i \in 1..Len(prf) : at[i] = Ascend(at[i - 1], prf[i])
    BY <1>4
  <1>6. IsWalk(at, prf)
    BY <1>5 DEF IsWalk
  <1> QED BY <1>0, <1>5, <1>6 DEF st

\* A longer path is walked like the shorter one, and one step more.
LEMMA WalkAppend ==
    ASSUME NEW X, NEW prf \in Seq(X), NEW y \in X, NEW at, IsWalk(at, Append(prf, y))
    PROVE  /\ IsWalk(at, prf) /\ Len(prf) \in Nat /\ Len(Append(prf, y)) = Len(prf) + 1
           /\ at[Len(prf) + 1] = Ascend(at[Len(prf)], y)
  <1> DEFINE q == Append(prf, y)
             l == Len(prf)
  <1>1. l \in Nat /\ Len(q) = l + 1 /\ q[l + 1] = y /\ \A i \in 1..l : q[i] = prf[i]
    OBVIOUS
  <1>2. \A i \in 1..(l + 1) : at[i] = Ascend(at[i - 1], q[i])
    BY <1>1 DEF IsWalk
  <1> HIDE DEF q
  <1>3. l + 1 \in 1..(l + 1) /\ (l + 1) - 1 = l /\ 1..l \subseteq 1..(l + 1)
    BY <1>1
  <1>4. at[l + 1] = Ascend(at[l], y)
    BY <1>1, <1>2, <1>3
  <1>5. \A i \in 1..l : at[i] = Ascend(at[i - 1], prf[i])
    BY <1>1, <1>2, <1>3
  <1>6. IsWalk(at, prf)
    BY <1>5 DEF IsWalk
  <1> QED BY <1>1, <1>4, <1>6 DEF q

\* The roots of a list are those of its slices.
LEMMA TreeShift ==
    ASSUME NEW a, NEW b, Len(a) \in Nat, Len(b) \in Nat, NEW o \in Nat, o + Len(b) <= Len(a),
           \A c \in 1..Len(b) : b[c] = a[o + c],
           NEW h, IsTree(h, a), NEW g, IsTree(g, b)
    PROVE  \A n \in 1..Len(b) : \A i \in Nat : i + n <= Len(b) => g[<<n, i>>] = h[<<n, o + i>>]
  <1> DEFINE Claim(n) == n \in 1..Len(b) =>
                \A i \in Nat : i + n <= Len(b) => g[<<n, i>>] = h[<<n, o + i>>]
             S == {n \in Nat : \A k \in 0..n : Claim(k)}
  <1>1. 0 \in S
    OBVIOUS
  <1>2. ASSUME NEW k \in Nat, k \in S PROVE k + 1 \in S
    <2> DEFINE n == k + 1
    <2>1. \A l \in 0..k : Claim(l)
      BY <1>2
    <2>2. ASSUME n \in 1..Len(b), NEW i \in Nat, i + n <= Len(b)
          PROVE  g[<<n, i>>] = h[<<n, o + i>>]
      <3>1. n \in 1..Len(a) /\ o + i \in Nat /\ n \in Nat
        BY <2>2
      <3> DEFINE s == split(n)
      <3>2. g[<<n, i>>] = IF n = 1 THEN b[i + 1] ELSE nodeHash(g[<<s, i>>], g[<<n - s, i + s>>])
        <4> HIDE DEF n
        <4> QED BY <2>2 DEF IsTree
      <3>3. h[<<n, o + i>>] = IF n = 1 THEN a[(o + i) + 1]
                              ELSE nodeHash(h[<<s, o + i>>], h[<<n - s, (o + i) + s>>])
        <4> HIDE DEF n
        <4> QED BY <3>1 DEF IsTree
      <3>4. CASE n = 1
        <4>1. i + 1 \in 1..Len(b) /\ o + (i + 1) = (o + i) + 1
          BY <2>2, <3>4
        <4> QED BY <3>2, <3>3, <3>4, <4>1
      <3>5. CASE n # 1
        <4>1. s \in 1..(n - 1)
          <5> HIDE DEF n
          <5> QED BY <3>1, <3>5, SplitBounds
        <4> HIDE DEF s
        <4>2. /\ s \in 0..k /\ n - s \in 0..k /\ s \in 1..Len(b) /\ n - s \in 1..Len(b)
              /\ i + s \in Nat /\ i + s <= Len(b) /\ (i + s) + (n - s) <= Len(b)
              /\ o + (i + s) = (o + i) + s
          BY <2>2, <4>1
        <4>3. g[<<s, i>>] = h[<<s, o + i>>]
          BY <2>1, <4>2
        <4>4. g[<<n - s, i + s>>] = h[<<n - s, o + (i + s)>>]
          <5> DEFINE d == n - s
          <5> HIDE DEF d
          <5> QED BY <2>1, <4>2 DEF d
        <4> QED BY <3>2, <3>3, <3>5, <4>2, <4>3, <4>4
      <3> QED BY <3>4, <3>5
    <2>3. Claim(n)
      BY <2>2
    <2>4. ASSUME NEW l \in 0..(k + 1) PROVE Claim(l)
      <3>1. l \in 0..k \/ l = n
        OBVIOUS
      <3> HIDE DEF Claim
      <3> QED BY <2>1, <2>3, <3>1
    <2> HIDE DEF Claim
    <2> QED BY <2>4
  <1>3. ASSUME NEW n \in Nat PROVE Claim(n)
    <2>1. n \in S
      <3> HIDE DEF S
      <3> QED BY <1>1, <1>2, Induction
    <2> HIDE DEF Claim
    <2> QED BY <2>1
  <1> QED BY <1>3
\* p has the path of leaf m in every slice of lvs, h the roots.
IsPath(p, m, h, N) ==
    \A n \in 1..N, i \in Nat : i + n <= N =>
        LET k == split(n) IN
        p[<<n, i>>] = IF n = 1 THEN <<>>
                      ELSE IF m < i + k THEN Append(p[<<k, i>>], h[<<n - k, i + k>>])
                      ELSE Append(p[<<n - k, i + k>>], h[<<k, i>>])

\* The recursion of path is well defined.
LEMMA PathExists ==
    ASSUME NEW X, NEW lvs \in Seq(X), lvs # <<>>, NEW m \in Nat, NEW h, IsTree(h, lvs)
    PROVE  \E p : IsPath(p, m, h, Len(lvs)) /\ path(m, lvs) = p[<<Len(lvs), 0>>]
  <1> DEFINE N == Len(lvs)
             part(n, i) == mth(SubSeq(lvs, i + 1, i + n))
             Join(f, n, i) ==
               IF n = 1 THEN <<>>
               ELSE IF m < i + split(n) THEN Append(f[<<split(n), i>>], part(n - split(n), i + split(n)))
               ELSE Append(f[<<n - split(n), i + split(n)>>], part(split(n), i))
             Is(f, l) == f = [s \in (1..l) \X Nat |-> Join(f, s[1], s[2])]
             S == {l \in Nat : \E f : Is(f, l)}
             p == CHOOSE f : Is(f, N)
  <1>a. N \in Nat \ {0}
    OBVIOUS
  <1>5. path(m, lvs) = p[<<N, 0>>]
    BY DEF path, Slices
  <1> HIDE DEF part, N
  <1>0. ASSUME NEW f, NEW g, NEW n \in Nat \ {0}, NEW i \in Nat,
               \A a \in 1..(n - 1), b \in Nat : f[<<a, b>>] = g[<<a, b>>]
        PROVE  Join(f, n, i) = Join(g, n, i)
    <2>1. CASE n = 1
      BY <2>1
    <2>2. CASE n # 1
      <3>1. split(n) \in 1..(n - 1)
        BY <2>2, SplitBounds
      <3>2. n - split(n) \in 1..(n - 1) /\ i + split(n) \in Nat
        BY <3>1
      <3>3. /\ f[<<split(n), i>>] = g[<<split(n), i>>]
            /\ f[<<n - split(n), i + split(n)>>] = g[<<n - split(n), i + split(n)>>]
        BY <1>0, <3>1, <3>2
      <3> QED BY <2>2, <3>3
    <2> QED BY <2>1, <2>2
  <1>1. 0 \in S
    <2> DEFINE f == [s \in (1..0) \X Nat |-> 0]
    <2>1. Is(f, 0)
      <3>1. (1..0) \X Nat = {}
        OBVIOUS
      <3> HIDE DEF Join
      <3> QED BY <3>1
    <2> HIDE DEF Is, f
    <2> QED BY <2>1
  <1>2. ASSUME NEW l \in Nat, l \in S PROVE l + 1 \in S
    <2>1. PICK f : Is(f, l)
      <3> HIDE DEF Is
      <3> QED BY <1>2
    <2> DEFINE g == [s \in (1..(l + 1)) \X Nat |-> IF s[1] = l + 1 THEN Join(f, s[1], s[2]) ELSE f[s]]
    <2>2. \A a \in 1..l, b \in Nat : f[<<a, b>>] = g[<<a, b>>]
      <3> HIDE DEF Join, Is
      <3> QED OBVIOUS
    <2>3. ASSUME NEW s \in (1..(l + 1)) \X Nat
          PROVE g[s] = Join(g, s[1], s[2])
      <3>0. PICK n \in 1..(l + 1), i \in Nat : s = <<n, i>>
        OBVIOUS
      <3>1. s[1] = n /\ s[2] = i
        BY <3>0
      <3>2. Join(f, s[1], s[2]) = Join(g, s[1], s[2])
        <4>1. 1..(n - 1) \subseteq 1..l /\ n \in Nat \ {0}
          OBVIOUS
        <4>2. \A a \in 1..(n - 1), b \in Nat : f[<<a, b>>] = g[<<a, b>>]
          <5> HIDE DEF g, Is, Join
          <5> QED BY <2>2, <4>1
        <4>3. Join(f, n, i) = Join(g, n, i)
          <5> HIDE DEF g, Is, Join
          <5> QED BY <4>1, <4>2, <1>0
        <4> HIDE DEF g, Is, Join
        <4> QED BY <3>1, <4>3
      <3>3. CASE s[1] = l + 1
        <4> HIDE DEF Join
        <4>1. g[s] = Join(f, s[1], s[2])
          BY <3>3
        <4> QED BY <4>1, <3>2
      <3>4. CASE s[1] # l + 1
        <4> HIDE DEF Join
        <4>1. g[s] = f[s]
          BY <3>4
        <4>2. s \in (1..l) \X Nat
          BY <3>0, <3>1, <3>4
        <4>3. f[s] = Join(f, s[1], s[2])
          BY <2>1, <4>2
        <4> QED BY <4>1, <4>3, <3>2
      <3> QED BY <3>3, <3>4
    <2>4. Is(g, l + 1)
      <3> HIDE DEF Join
      <3> QED BY <2>3
    <2> HIDE DEF Is, g
    <2> QED BY <2>4
  <1>3. N \in S
    <2> HIDE DEF S
    <2> QED BY <1>a, <1>1, <1>2, Induction
  <1>4. Is(p, N)
    <2> HIDE DEF Is
    <2> QED BY <1>3
  <1> HIDE DEF p
  <1>6. ASSUME NEW n \in 1..N, NEW i \in Nat PROVE p[<<n, i>>] = Join(p, n, i)
    <2> HIDE DEF Join
    <2>1. <<n, i>> \in (1..N) \X Nat
      BY <1>a
    <2> QED BY <1>4, <2>1
  <1>7. ASSUME NEW n \in 1..N, NEW i \in Nat, i + n <= N PROVE part(n, i) = h[<<n, i>>]
    <2> DEFINE b == SubSeq(lvs, i + 1, i + n)
    <2>1. Len(b) = n /\ \A c \in 1..n : b[c] = lvs[i + c]
      <3>1. i + 1 \in 1..(Len(lvs) + 1) /\ i + n \in i..Len(lvs) /\ (i + n) - (i + 1) + 1 = n
        BY <1>a, <1>7 DEF N
      <3>2. \A c \in 1..n : (i + 1) + c - 1 = i + c
        BY <1>a
      <3>3. Len(b) = (i + n) - (i + 1) + 1 /\ \A c \in 1..n : b[c] = lvs[(i + 1) + c - 1]
        BY <1>a, <1>7 DEF N
      <3> HIDE DEF b
      <3> QED BY <3>1, <3>2, <3>3
    <2> HIDE DEF b
    <2>2. PICK g : IsTree(g, b) /\ mth(b) = g[<<Len(b), 0>>]
      BY <1>a, <2>1, TreeExists
    <2>3. /\ Len(lvs) \in Nat /\ Len(b) \in Nat /\ i + Len(b) <= Len(lvs)
          /\ n \in 1..Len(b) /\ 0 \in Nat /\ 0 + n <= Len(b) /\ i + 0 = i
      BY <1>a, <1>7, <2>1 DEF N
    <2>4. g[<<n, 0>>] = h[<<n, i + 0>>]
      <3>1. \A c \in 1..Len(b) : b[c] = lvs[i + c]
        BY <2>1
      <3>2. \A x \in 1..Len(b) : \A y \in Nat : y + x <= Len(b) => g[<<x, y>>] = h[<<x, i + y>>]
        BY <2>2, <2>3, <3>1, TreeShift
      <3> QED BY <2>3, <3>2
    <2> QED BY <2>1, <2>2, <2>3, <2>4 DEF part, b
  <1>8. IsPath(p, m, h, N)
    <2> SUFFICES ASSUME NEW n \in 1..N, NEW i \in Nat, i + n <= N
                 PROVE  p[<<n, i>>] = IF n = 1 THEN <<>>
                          ELSE IF m < i + split(n) THEN Append(p[<<split(n), i>>], h[<<n - split(n), i + split(n)>>])
                          ELSE Append(p[<<n - split(n), i + split(n)>>], h[<<split(n), i>>])
      BY DEF IsPath
    <2>1. CASE n = 1
      BY <1>6, <2>1
    <2>2. CASE n # 1
      <3> DEFINE s == split(n)
      <3>1. s \in 1..(n - 1)
        BY <1>a, <2>2, SplitBounds
      <3> HIDE DEF s
      <3>2. /\ s \in 1..N /\ i + s <= N /\ n - s \in 1..N /\ i + s \in Nat
            /\ (i + s) + (n - s) <= N
        BY <1>a, <3>1
      <3>3. part(s, i) = h[<<s, i>>] /\ part(n - s, i + s) = h[<<n - s, i + s>>]
        <4> DEFINE d == n - s  e == i + s
        <4>1. d \in 1..N /\ e \in Nat /\ e + d <= N
          BY <3>2
        <4> HIDE DEF d, e
        <4>2. part(d, e) = h[<<d, e>>]
          BY <1>7, <4>1
        <4>3. part(s, i) = h[<<s, i>>]
          BY <1>7, <3>2
        <4> QED BY <4>2, <4>3 DEF d, e
      <3> QED BY <1>6, <2>2, <3>3 DEF s
    <2> QED BY <2>1, <2>2
  <1> QED BY <1>5, <1>8 DEF N
\* The roots in a list of N leaves.
Roots(h, N) == {h[<<s[1], s[2]>>] : s \in (1..N) \X Nat}

\* A path is a sequence of roots.
LEMMA PathType ==
    ASSUME NEW N \in Nat, NEW m \in Nat, NEW h, NEW p, IsPath(p, m, h, N)
    PROVE  \A n \in 1..N : \A i \in Nat : i + n <= N => p[<<n, i>>] \in Seq(Roots(h, N))
  <1> DEFINE X == Roots(h, N)
             Claim(n) == n \in 1..N => \A i \in Nat : i + n <= N => p[<<n, i>>] \in Seq(X)
             S == {n \in Nat : \A k \in 0..n : Claim(k)}
  <1>0. ASSUME NEW n \in 1..N, NEW i \in Nat PROVE h[<<n, i>>] \in X
    <2>1. <<n, i>> \in (1..N) \X Nat /\ <<n, i>>[1] = n /\ <<n, i>>[2] = i
      OBVIOUS
    <2> QED BY <2>1 DEF Roots
  <1> HIDE DEF X
  <1>1. 0 \in S
    OBVIOUS
  <1>2. ASSUME NEW k \in Nat, k \in S PROVE k + 1 \in S
    <2> DEFINE n == k + 1
    <2>1. \A l \in 0..k : Claim(l)
      BY <1>2
    <2>2. ASSUME n \in 1..N, NEW i \in Nat, i + n <= N
          PROVE  p[<<n, i>>] \in Seq(X)
      <3> DEFINE s == split(n)
                 d == n - s
                 e == i + s
      <3>2. p[<<n, i>>] = IF n = 1 THEN <<>> ELSE IF m < e THEN Append(p[<<s, i>>], h[<<d, e>>])
                          ELSE Append(p[<<d, e>>], h[<<s, i>>])
        <4> HIDE DEF n
        <4> QED BY <2>2 DEF IsPath
      <3>4. CASE n = 1
        BY <3>2, <3>4
      <3>5. CASE n # 1
        <4>1. s \in 1..(n - 1)
          <5> HIDE DEF n
          <5> QED BY <2>2, <3>5, SplitBounds
        <4> HIDE DEF s
        <4>2. /\ s \in 0..k /\ d \in 0..k /\ s \in 1..N /\ d \in 1..N
              /\ e \in Nat /\ i + s <= N /\ e + d <= N
          BY <2>2, <4>1
        <4> HIDE DEF d, e
        <4>3. p[<<s, i>>] \in Seq(X) /\ p[<<d, e>>] \in Seq(X)
          BY <2>1, <4>2
        <4>4. h[<<s, i>>] \in X /\ h[<<d, e>>] \in X
          BY <1>0, <4>2
        <4> HIDE DEF n
        <4> QED BY <3>2, <3>5, <4>3, <4>4
      <3> QED BY <3>4, <3>5
    <2>3. Claim(n)
      BY <2>2
    <2>4. ASSUME NEW l \in 0..(k + 1) PROVE Claim(l)
      <3>1. l \in 0..k \/ l = n
        OBVIOUS
      <3> HIDE DEF Claim
      <3> QED BY <2>1, <2>3, <3>1
    <2> HIDE DEF Claim
    <2> QED BY <2>4
  <1>3. ASSUME NEW n \in Nat PROVE Claim(n)
    <2>1. n \in S
      <3> HIDE DEF S
      <3> QED BY <1>1, <1>2, Induction
    <2> HIDE DEF Claim
    <2> QED BY <2>1
  <1> QED BY <1>3 DEF X

\* The node that a walk is at.
Node(fn, sn, r) == [fn |-> fn, sn |-> sn, r |-> r]

\* A path that walks up to fn, sn and the root of its slice.
Reaches(p, h, lvs, m, n, i, f0, s0, fn, sn) ==
    \A at : IsWalk(at, p[<<n, i>>]) /\ at[0] = Node(f0, s0, lvs[m + 1])
              => at[Len(p[<<n, i>>])] = Node(fn, sn, h[<<n, i>>])

\* One step more, to the parent: from the left half, and from the right half.
LEMMA ReachParent ==
    ASSUME NEW N \in Nat, NEW m \in Nat, NEW lvs, Len(lvs) = N, NEW h, IsTree(h, lvs),
           NEW p, IsPath(p, m, h, N),
           NEW n \in 2..N, NEW i \in Nat, i + n <= N, NEW f0, NEW s0,
           NEW fn \in Nat, NEW sn \in Nat, sn # 0, NEW fm, NEW sm
    PROVE  /\ (/\ m < i + split(n)
               /\ Reaches(p, h, lvs, m, split(n), i, f0, s0, fn, sn)
               /\ fn % 2 = 0 /\ fn # sn /\ fm = fn \div 2 /\ sm = sn \div 2)
                => Reaches(p, h, lvs, m, n, i, f0, s0, fm, sm)
           /\ (/\ ~(m < i + split(n))
               /\ Reaches(p, h, lvs, m, n - split(n), i + split(n), f0, s0, fn, sn)
               /\ fn % 2 = 1 \/ fn = sn
               /\ fm = Climb(fn, sn).fn \div 2 /\ sm = Climb(fn, sn).sn \div 2)
                => Reaches(p, h, lvs, m, n, i, f0, s0, fm, sm)
  <1> DEFINE s == split(n)
             d == n - s
             e == i + s
             X == Roots(h, N)
  <1>1. s \in 1..(n - 1)
    BY SplitBounds
  <1>2. h[<<n, i>>] = nodeHash(h[<<s, i>>], h[<<d, e>>])
    BY DEF IsTree
  <1>3. p[<<n, i>>] = IF m < e THEN Append(p[<<s, i>>], h[<<d, e>>]) ELSE Append(p[<<d, e>>], h[<<s, i>>])
    BY DEF IsPath
  <1> HIDE DEF s
  <1>4. s \in 1..N /\ d \in 1..N /\ e \in Nat /\ i + s <= N /\ e + d <= N
    BY <1>1
  <1> HIDE DEF d, e
  <1>5. p[<<s, i>>] \in Seq(X) /\ p[<<d, e>>] \in Seq(X)
    BY <1>4, PathType
  <1>6. h[<<s, i>>] \in X /\ h[<<d, e>>] \in X
    <2>1. /\ <<s, i>> \in (1..N) \X Nat /\ <<s, i>>[1] = s /\ <<s, i>>[2] = i
          /\ <<d, e>> \in (1..N) \X Nat /\ <<d, e>>[1] = d /\ <<d, e>>[2] = e
      BY <1>4
    <2> QED BY <2>1 DEF Roots
  <1> HIDE DEF X
  <1>7. ASSUME m < e, Reaches(p, h, lvs, m, s, i, f0, s0, fn, sn),
               fn % 2 = 0, fn # sn, fm = fn \div 2, sm = sn \div 2
        PROVE  Reaches(p, h, lvs, m, n, i, f0, s0, fm, sm)
    <2> DEFINE q == p[<<s, i>>]
               y == h[<<d, e>>]
               r == h[<<s, i>>]
    <2> SUFFICES ASSUME NEW at, IsWalk(at, p[<<n, i>>]), at[0] = Node(f0, s0, lvs[m + 1])
                 PROVE  at[Len(p[<<n, i>>])] = Node(fm, sm, h[<<n, i>>])
      BY DEF Reaches
    <2>1. p[<<n, i>>] = Append(q, y) /\ q \in Seq(X) /\ y \in X
      BY <1>3, <1>5, <1>6, <1>7
    <2>2. h[<<n, i>>] = nodeHash(r, y)
      BY <1>2
    <2>3. IsWalk(at, q) => at[Len(q)] = Node(fn, sn, r)
      BY <1>7 DEF Reaches
    <2> HIDE DEF q, y, r
    <2>4. /\ IsWalk(at, q) /\ Len(Append(q, y)) = Len(q) + 1
          /\ at[Len(q) + 1] = Ascend(at[Len(q)], y)
      BY <2>1, WalkAppend
    <2>5. Ascend(Node(fn, sn, r), y) = Node(fm, sm, nodeHash(r, y))
      BY <1>7 DEF Ascend, Step, Node
    <2> QED BY <2>1, <2>2, <2>3, <2>4, <2>5
  <1>8. ASSUME ~(m < e), Reaches(p, h, lvs, m, d, e, f0, s0, fn, sn),
               fn % 2 = 1 \/ fn = sn, fm = Climb(fn, sn).fn \div 2, sm = Climb(fn, sn).sn \div 2
        PROVE  Reaches(p, h, lvs, m, n, i, f0, s0, fm, sm)
    <2> DEFINE q == p[<<d, e>>]
               y == h[<<s, i>>]
               r == h[<<d, e>>]
    <2> SUFFICES ASSUME NEW at, IsWalk(at, p[<<n, i>>]), at[0] = Node(f0, s0, lvs[m + 1])
                 PROVE  at[Len(p[<<n, i>>])] = Node(fm, sm, h[<<n, i>>])
      BY DEF Reaches
    <2>1. p[<<n, i>>] = Append(q, y) /\ q \in Seq(X) /\ y \in X
      BY <1>3, <1>5, <1>6, <1>8
    <2>2. h[<<n, i>>] = nodeHash(y, r)
      BY <1>2
    <2>3. IsWalk(at, q) => at[Len(q)] = Node(fn, sn, r)
      BY <1>8 DEF Reaches
    <2> HIDE DEF q, y, r
    <2>4. /\ IsWalk(at, q) /\ Len(Append(q, y)) = Len(q) + 1
          /\ at[Len(q) + 1] = Ascend(at[Len(q)], y)
      BY <2>1, WalkAppend
    <2>5. Ascend(Node(fn, sn, r), y) = Node(fm, sm, nodeHash(y, r))
      BY <1>8 DEF Ascend, Step, Node
    <2> QED BY <2>1, <2>2, <2>3, <2>4, <2>5
  <1> QED BY <1>7, <1>8 DEF s, d, e
\* A slice of a power of two leaves, with leaves to its right: the path leads to
\* the node e of the level where s is the last.
LEMMA ReachFull ==
    ASSUME NEW N \in Nat, NEW m \in Nat, NEW lvs, Len(lvs) = N, NEW h, IsTree(h, lvs),
           NEW p, IsPath(p, m, h, N)
    PROVE  \A k : (IsPow(k) /\ k <= N) =>
             \A i, e, s, t \in Nat :
                (i <= m /\ m < i + k /\ i + k <= N /\ t < k /\ e < s)
                  => Reaches(p, h, lvs, m, k, i, (m - i) + e * k, s * k + t, e, s)
  <1> DEFINE Claim(k) == k <= N =>
               \A i, e, s, t \in Nat :
                (i <= m /\ m < i + k /\ i + k <= N /\ t < k /\ e < s)
                  => Reaches(p, h, lvs, m, k, i, (m - i) + e * k, s * k + t, e, s)
             S == {k \in Nat : Claim(k)}
  <1>1. 1 \in S
    <2> SUFFICES ASSUME 1 <= N, NEW i \in Nat, NEW e \in Nat, NEW s \in Nat, NEW t \in Nat,
                        i <= m, m < i + 1, i + 1 <= N, t < 1, e < s
                 PROVE  Reaches(p, h, lvs, m, 1, i, (m - i) + e * 1, s * 1 + t, e, s)
      OBVIOUS
    <2>1. m = i /\ (m - i) + e * 1 = e /\ s * 1 + t = s /\ 1 \in 1..N
      OBVIOUS
    <2>2. h[<<1, i>>] = lvs[i + 1]
      BY <2>1 DEF IsTree
    <2>3. p[<<1, i>>] = <<>>
      BY <2>1 DEF IsPath
    <2>4. Len(p[<<1, i>>]) = 0
      BY <2>3
    <2> QED BY <2>1, <2>2, <2>4 DEF Reaches
  <1>2. ASSUME NEW k \in Nat, IsPow(k), k \in S PROVE 2 * k \in S
    <2> DEFINE n == 2 * k
    <2> SUFFICES ASSUME n <= N, NEW i \in Nat, NEW e \in Nat, NEW s \in Nat, NEW t \in Nat,
                        i <= m, m < i + n, i + n <= N, t < n, e < s
                 PROVE  Reaches(p, h, lvs, m, n, i, (m - i) + e * n, s * n + t, e, s)
      OBVIOUS
    <2>1. k >= 1 /\ split(n) = k
      BY <1>2, PowFacts, SplitTwice
    <2>2. PICK u \in {0, 1} : t - u * k \in Nat /\ t - u * k < k
      <3>1. CASE t < k
        <4>1. t - 0 * k \in Nat /\ t - 0 * k < k
          BY <2>1, <3>1
        <4> QED BY <4>1
      <3>2. CASE t >= k
        <4>1. t - 1 * k \in Nat /\ t - 1 * k < k
          BY <2>1, <3>2
        <4> QED BY <4>1
      <3> QED BY <3>1, <3>2
    <2> DEFINE v == t - u * k
               f0 == (m - i) + e * n
               s0 == s * n + t
               s1 == 2 * s + u
    <2>3. s0 = s1 * k + v
      BY <2>1, <2>2
    <2>4. n \in 2..N /\ n - k = k /\ s1 \in Nat /\ s1 # 0 /\ s1 \div 2 = s /\ v \in Nat /\ v < k /\ k <= N
      BY <2>1, <2>2
    <2>5. CASE m < i + k
      <3>1. f0 = (m - i) + (2 * e) * k
        BY <2>1
      <3>2. /\ 2 * e \in Nat /\ (2 * e) % 2 = 0 /\ 2 * e # s1 /\ 2 * e < s1
            /\ (2 * e) \div 2 = e /\ i + k <= N
        BY <2>1, <2>2
      <3> HIDE DEF n, s1, v, f0, s0
      <3>3. Reaches(p, h, lvs, m, k, i, (m - i) + (2 * e) * k, s1 * k + v, 2 * e, s1)
        <4> DEFINE w == 2 * e
        <4>1. w \in Nat /\ w < s1
          BY <3>2
        <4> HIDE DEF w
        <4>2. Reaches(p, h, lvs, m, k, i, (m - i) + w * k, s1 * k + v, w, s1)
          BY <1>2, <2>4, <2>5, <3>2, <4>1
        <4> QED BY <4>2 DEF w
      <3>4. Reaches(p, h, lvs, m, split(n), i, f0, s0, 2 * e, s1)
        BY <2>1, <2>3, <3>1, <3>3
      <3> QED BY <2>1, <2>4, <2>5, <3>2, <3>4, ReachParent DEF f0, s0
    <2>6. CASE ~(m < i + k)
      <3> DEFINE w == 2 * e + 1
                 j == i + k
      <3>1. f0 = (m - j) + w * k
        BY <2>1
      <3>2. /\ w \in Nat /\ w % 2 = 1 /\ w < s1 /\ w \div 2 = e
            /\ j \in Nat /\ j <= m /\ m < j + k /\ j + k <= N
        BY <2>1, <2>2, <2>6
      <3>3. j = i + split(n) /\ k = n - split(n)
        BY <2>1
      <3> HIDE DEF n, s1, v, f0, s0, w, j
      <3>4. Reaches(p, h, lvs, m, k, j, (m - j) + w * k, s1 * k + v, w, s1)
        BY <1>2, <2>4, <3>2
      <3>5. Reaches(p, h, lvs, m, n - split(n), i + split(n), f0, s0, w, s1)
        BY <2>3, <3>1, <3>3, <3>4
      <3>6. Climb(w, s1).fn \div 2 = e /\ Climb(w, s1).sn \div 2 = s
        BY <2>4, <3>2, ClimbOdd
      <3> QED BY <2>1, <2>4, <2>6, <3>2, <3>5, <3>6, ReachParent DEF f0, s0
    <2> QED BY <2>5, <2>6
  <1>3. \A k : IsPow(k) => k \in S
    <2> HIDE DEF S
    <2> QED BY <1>1, <1>2, PowInduction
  <1> QED BY <1>3
\* The leaves that a slice of n has room for before a new level is needed.
Room(n) == IF n = 1 THEN 1 ELSE 2 * split(n)

\* The rest of a slice fits into its larger part.
LEMMA RoomDivides ==
    ASSUME NEW n \in Nat, n >= 2
    PROVE  LET w == Room(n - split(n)) IN
           IsPow(w) /\ w \in Nat /\ \E q \in Nat : IsPow(q) /\ split(n) = q * w
  <1> DEFINE k == split(n)
             d == n - k
             w == Room(d)
  <1>1. k \in 1..(n - 1) /\ IsPow(k) /\ n <= 2 * k
    BY SplitPow
  <1> HIDE DEF k
  <1>2. d \in Nat /\ d >= 1 /\ d <= k
    BY <1>1
  <1> HIDE DEF d
  <1>3. IsPow(w) /\ w \in Nat /\ w <= k
    <2>1. CASE d = 1
      BY <1>1, <2>1, PowFacts DEF Room
    <2>2. CASE d # 1
      <3> DEFINE l == split(d)
      <3>1. l \in 1..(d - 1) /\ IsPow(l)
        BY <1>2, <2>2, SplitPow
      <3>2. w = 2 * l
        BY <2>2 DEF Room
      <3> HIDE DEF l
      <3>3. l = k \/ l >= 2 * k \/ k >= 2 * l
        BY <1>1, <3>1, PowApart
      <3>4. k >= 2 * l
        BY <1>1, <1>2, <3>1, <3>3
      <3>5. IsPow(2 * l) /\ 2 * l \in Nat
        BY <3>1, PowFacts
      <3> QED BY <3>2, <3>4, <3>5
    <2> QED BY <2>1, <2>2
  <1> HIDE DEF w
  <1>4. \E q \in Nat : IsPow(q) /\ k = q * w
    BY <1>1, <1>3, PowDivides
  <1> QED BY <1>3, <1>4 DEF w, d, k

\* A slice on the right edge: the path leads to the last node of a level.
LEMMA ReachEdge ==
    ASSUME NEW N \in Nat, NEW m \in Nat, NEW lvs, Len(lvs) = N, NEW h, IsTree(h, lvs),
           NEW p, IsPath(p, m, h, N)
    PROVE  \A n \in 1..N : \A i, e \in Nat :
              (i <= m /\ m < i + n /\ i + n <= N)
                => Reaches(p, h, lvs, m, n, i, (m - i) + e * Room(n), (n - 1) + e * Room(n), e, e)
  <1> DEFINE Claim(n) == n \in 1..N => \A i, e \in Nat :
              (i <= m /\ m < i + n /\ i + n <= N)
                => Reaches(p, h, lvs, m, n, i, (m - i) + e * Room(n), (n - 1) + e * Room(n), e, e)
             S == {n \in Nat : \A k \in 0..n : Claim(k)}
  <1>1. 0 \in S
    OBVIOUS
  <1>2. ASSUME NEW l \in Nat, l \in S PROVE l + 1 \in S
    <2> DEFINE n == l + 1
    <2>1. \A x \in 0..l : Claim(x)
      BY <1>2
    <2>2. ASSUME n \in 1..N, NEW i \in Nat, NEW e \in Nat, i <= m, m < i + n, i + n <= N
          PROVE  Reaches(p, h, lvs, m, n, i, (m - i) + e * Room(n), (n - 1) + e * Room(n), e, e)
      <3>1. CASE n = 1
        <4>1. Room(n) = 1
          BY <3>1 DEF Room
        <4>2. m = i /\ (m - i) + e * 1 = e /\ (n - 1) + e * 1 = e
          BY <2>2, <3>1
        <4>3. h[<<1, i>>] = lvs[i + 1]
          BY <2>2, <3>1 DEF IsTree
        <4>4. p[<<1, i>>] = <<>>
          BY <2>2, <3>1 DEF IsPath
        <4>5. Len(p[<<1, i>>]) = 0
          BY <4>4
        <4>6. Reaches(p, h, lvs, m, 1, i, e, e, e, e)
          BY <4>2, <4>3, <4>5 DEF Reaches
        <4> HIDE DEF n
        <4> QED BY <3>1, <4>1, <4>2, <4>6
      <3>2. CASE n # 1
        <4> DEFINE k == split(n)
                   d == n - k
                   w == Room(d)
                   f0 == (m - i) + e * (2 * k)
                   s0 == (n - 1) + e * (2 * k)
        <4>0. n \in Nat /\ n >= 2 /\ n \in 2..N
          BY <2>2, <3>2
        <4>1. k \in 1..(n - 1) /\ IsPow(k) /\ n <= 2 * k
          <5> HIDE DEF n
          <5> QED BY <4>0, SplitPow
        <4>2. IsPow(w) /\ w \in Nat /\ \E q \in Nat : IsPow(q) /\ k = q * w
          <5> HIDE DEF n
          <5> QED BY <4>0, RoomDivides
        <4>3. Room(n) = 2 * k
          <5> HIDE DEF n
          <5> QED BY <3>2 DEF Room
        <4>4. Reaches(p, h, lvs, m, n, i, f0, s0, e, e)
          <5>1. CASE m < i + k
            <6> HIDE DEF k
            <6> DEFINE t == d - 1
                       a == 2 * e
                       b == 2 * e + 1
            <6>1. f0 = (m - i) + a * k
              BY <4>1
            <6>2. s0 = b * k + t
              BY <4>1
            <6>3. /\ t \in Nat /\ t < k /\ a \in Nat /\ b \in Nat /\ a < b /\ b # 0 /\ a % 2 = 0 /\ a # b
                  /\ a \div 2 = e /\ b \div 2 = e /\ k <= N /\ i + k <= N
              BY <2>2, <4>1
            <6> HIDE DEF t, a, b, n, f0, s0
            <6>4. Reaches(p, h, lvs, m, k, i, (m - i) + a * k, b * k + t, a, b)
              BY <2>2, <4>1, <5>1, <6>3, ReachFull
            <6>5. Reaches(p, h, lvs, m, split(n), i, f0, s0, a, b)
              BY <6>1, <6>2, <6>4 DEF k
            <6>6. m < i + split(n)
              BY <5>1 DEF k
            <6> QED BY <2>2, <4>0, <6>3, <6>5, <6>6, ReachParent
          <5>2. CASE ~(m < i + k)
            <6>1. PICK q \in Nat : IsPow(q) /\ k = q * w
              BY <4>2
            <6> HIDE DEF k, w
            <6> DEFINE j == i + k
                       o == 2 * e + 1
                       a == o * q
            <6>2. q >= 1
              BY <6>1, PowFacts
            <6>3. o \in Nat /\ o >= 1 /\ o % 2 = 1 /\ o \div 2 = e
              OBVIOUS
            <6>4. f0 = (m - j) + o * k /\ s0 = (d - 1) + o * k
              BY <4>1
            <6>a. /\ d \in 0..l /\ d \in 1..N /\ j \in Nat /\ j <= m /\ m < j + d /\ j + d <= N
              BY <2>2, <4>1, <5>2
            <6> HIDE DEF o
            <6>5. o * k = a * w /\ a \in Nat /\ a >= 1
              BY <4>2, <6>1, <6>2, <6>3
            <6>6. Climb(a, a).fn \div 2 = e /\ Climb(a, a).sn \div 2 = e
              <7>1. a = (2 * e + 1) * q
                BY DEF o
              <7>2. Climb(a, a) = [fn |-> o, sn |-> o]
                <8> HIDE DEF a
                <8> QED BY <6>1, <7>1, ClimbEdge DEF o
              <7> QED BY <6>3, <7>2
            <6> HIDE DEF a, f0, s0
            <6>7. Reaches(p, h, lvs, m, d, j, (m - j) + a * w, (d - 1) + a * w, a, a)
              <7> HIDE DEF d, j
              <7> QED BY <2>1, <6>a, <6>5 DEF w
            <6>8. Reaches(p, h, lvs, m, d, j, f0, s0, a, a)
              BY <6>4, <6>5, <6>7
            <6>9. Reaches(p, h, lvs, m, n - split(n), i + split(n), f0, s0, a, a)
              BY <6>8 DEF k
            <6>10. ~(m < i + split(n)) /\ a # 0
              BY <5>2, <6>5 DEF k
            <6> HIDE DEF n
            <6> QED BY <2>2, <4>0, <6>5, <6>6, <6>9, <6>10, ReachParent
          <5> QED BY <5>1, <5>2
        <4> HIDE DEF n
        <4> QED BY <4>3, <4>4
      <3> QED BY <3>1, <3>2
    <2>3. Claim(n)
      BY <2>2
    <2>4. ASSUME NEW x \in 0..(l + 1) PROVE Claim(x)
      <3>1. x \in 0..l \/ x = n
        OBVIOUS
      <3> HIDE DEF Claim
      <3> QED BY <2>1, <2>3, <3>1
    <2> HIDE DEF Claim
    <2> QED BY <2>4
  <1>3. ASSUME NEW n \in Nat PROVE Claim(n)
    <2>1. n \in S
      <3> HIDE DEF S
      <3> QED BY <1>1, <1>2, Induction
    <2> HIDE DEF Claim
    <2> QED BY <2>1
  <1> QED BY <1>3
\* The path from a leaf verifies that leaf.
LEMMA PathVerifies ==
    ASSUME NEW X, NEW lvs \in Seq(X), lvs # <<>>, NEW m \in 0..(Len(lvs) - 1),
           NEW h, IsTree(h, lvs), mth(lvs) = h[<<Len(lvs), 0>>]
    PROVE  /\ path(m, lvs) \in Seq(Roots(h, Len(lvs)))
           /\ VerifyInclusion(lvs[m + 1], m, Len(lvs), path(m, lvs), Root(lvs))
  <1> DEFINE N == Len(lvs)
  <1>1. N \in Nat /\ N >= 1 /\ N \in 1..N /\ m \in Nat /\ m < N
    OBVIOUS
  <1> HIDE DEF N
  <1>2. PICK p : IsPath(p, m, h, N) /\ path(m, lvs) = p[<<N, 0>>]
    BY <1>1, PathExists DEF N
  <1>3. 0 \in Nat /\ 0 + N <= N /\ 0 <= m /\ m < 0 + N
    BY <1>1
  <1>4. p[<<N, 0>>] \in Seq(Roots(h, N))
    BY <1>1, <1>2, <1>3, PathType
  <1>5. Reaches(p, h, lvs, m, N, 0, (m - 0) + 0 * Room(N), (N - 1) + 0 * Room(N), 0, 0)
    BY <1>1, <1>2, <1>3, ReachEdge DEF N
  <1>6. (m - 0) + 0 * Room(N) = m /\ (N - 1) + 0 * Room(N) = N - 1
    <2>1. Room(N) \in Nat
      <3>1. CASE N = 1
        BY <3>1 DEF Room
      <3>2. CASE N # 1
        <4>1. split(N) \in Nat
          BY <1>1, <3>2, SplitBounds
        <4> QED BY <3>2, <4>1 DEF Room
      <3> QED BY <3>1, <3>2
    <2> QED BY <1>1, <2>1
  <1> DEFINE prf == path(m, lvs)
  <1>7. Reaches(p, h, lvs, m, N, 0, m, N - 1, 0, 0)
    BY <1>5, <1>6
  <1>8. Len(prf) \in Nat
    BY <1>2, <1>4
  <1>9. PICK at : /\ at[0] = [fn |-> m, sn |-> N - 1, r |-> lvs[m + 1]] /\ IsWalk(at, prf)
                  /\ VerifyInclusion(lvs[m + 1], m, N, prf, Root(lvs))
                       <=> (m < N /\ at[Len(prf)].sn = 0 /\ at[Len(prf)].r = Root(lvs))
    <2> DEFINE leaf == lvs[m + 1]
               root == Root(lvs)
    <2> HIDE DEF prf, leaf, root
    <2>1. \E at : /\ at[0] = [fn |-> m, sn |-> N - 1, r |-> leaf] /\ IsWalk(at, prf)
                  /\ VerifyInclusion(leaf, m, N, prf, root)
                       <=> (m < N /\ at[Len(prf)].sn = 0 /\ at[Len(prf)].r = root)
      BY <1>1, <1>8, WalkExists
    <2> QED BY <2>1 DEF leaf, root
  <1>10. at[Len(prf)] = Node(0, 0, h[<<N, 0>>])
    BY <1>2, <1>7, <1>9 DEF Reaches, Node
  <1>11. Root(lvs) = h[<<N, 0>>]
    BY DEF Root, N
  <1>12. at[Len(prf)].sn = 0 /\ at[Len(prf)].r = Root(lvs)
    BY <1>10, <1>11 DEF Node
  <1> QED BY <1>1, <1>2, <1>4, <1>9, <1>12 DEF N

\* Where a walk is does not depend on the hashes.
LEMMA WalksAlike ==
    ASSUME NEW A, NEW P, NEW B, NEW Q, IsWalk(A, P), IsWalk(B, Q),
           NEW fn, NEW sn, NEW a, NEW b, A[0] = Node(fn, sn, a), B[0] = Node(fn, sn, b),
           Len(P) \in Nat, Len(Q) \in Nat
    PROVE  \A i \in Nat : (i <= Len(P) /\ i <= Len(Q)) =>
              \E f, s, x, y : A[i] = Node(f, s, x) /\ B[i] = Node(f, s, y)
  <1> DEFINE Alike(i) == \E f, s, x, y : A[i] = Node(f, s, x) /\ B[i] = Node(f, s, y)
             S == {i \in Nat : (i <= Len(P) /\ i <= Len(Q)) => Alike(i)}
  <1>1. 0 \in S
    OBVIOUS
  <1>2. ASSUME NEW i \in Nat, i \in S PROVE i + 1 \in S
    <2> SUFFICES ASSUME i + 1 <= Len(P), i + 1 <= Len(Q) PROVE Alike(i + 1)
      OBVIOUS
    <2>1. i + 1 \in 1..Len(P) /\ i + 1 \in 1..Len(Q) /\ (i + 1) - 1 = i
      OBVIOUS
    <2>2. PICK f, s, x, y : A[i] = Node(f, s, x) /\ B[i] = Node(f, s, y)
      BY <1>2, <2>1
    <2> DEFINE u == P[i + 1]
               v == Q[i + 1]
    <2>3. A[i + 1] = Ascend(Node(f, s, x), u) /\ B[i + 1] = Ascend(Node(f, s, y), v)
      BY <2>1, <2>2 DEF IsWalk
    <2> HIDE DEF u, v
    <2>4. CASE s = 0
      <3>1. /\ Ascend(Node(f, s, x), u) = Node(f, s, <<"overlong">>)
            /\ Ascend(Node(f, s, y), v) = Node(f, s, <<"overlong">>)
        BY <2>4 DEF Ascend, Node
      <3> QED BY <2>3, <3>1
    <2>5. CASE s # 0 /\ (f % 2 = 1 \/ f = s)
      <3> DEFINE up == Climb(f, s)
      <3>1. /\ Ascend(Node(f, s, x), u) = Node(up.fn \div 2, up.sn \div 2, nodeHash(u, x))
            /\ Ascend(Node(f, s, y), v) = Node(up.fn \div 2, up.sn \div 2, nodeHash(v, y))
        BY <2>5 DEF Ascend, Step, Node
      <3> HIDE DEF up
      <3> QED BY <2>3, <3>1
    <2>6. CASE s # 0 /\ ~(f % 2 = 1 \/ f = s)
      <3>1. /\ Ascend(Node(f, s, x), u) = Node(f \div 2, s \div 2, nodeHash(x, u))
            /\ Ascend(Node(f, s, y), v) = Node(f \div 2, s \div 2, nodeHash(y, v))
        BY <2>6 DEF Ascend, Step, Node
      <3> QED BY <2>3, <3>1
    <2> QED BY <2>4, <2>5, <2>6
  <1>3. ASSUME NEW i \in Nat, i <= Len(P), i <= Len(Q) PROVE Alike(i)
    <2>1. i \in S
      <3> HIDE DEF S
      <3> QED BY <1>1, <1>2, Induction
    <2> HIDE DEF Alike
    <2> QED BY <1>3, <2>1
  <1> QED BY <1>3

\* A walk that goes on at the root does not end there.
LEMMA TooLong ==
    ASSUME NEW A, NEW P, IsWalk(A, P), Len(P) \in Nat, NEW i \in Nat, i < Len(P),
           NEW f, NEW x, A[i] = Node(f, 0, x)
    PROVE  A[Len(P)].r = <<"overlong">>
  <1> DEFINE S == {j \in Nat : (i < j /\ j <= Len(P)) => A[j] = Node(f, 0, <<"overlong">>)}
  <1>1. 0 \in S
    OBVIOUS
  <1>2. ASSUME NEW j \in Nat, j \in S PROVE j + 1 \in S
    <2> SUFFICES ASSUME i < j + 1, j + 1 <= Len(P) PROVE A[j + 1] = Node(f, 0, <<"overlong">>)
      OBVIOUS
    <2>1. j + 1 \in 1..Len(P) /\ (j + 1) - 1 = j
      OBVIOUS
    <2>2. A[j + 1] = Ascend(A[j], P[j + 1])
      BY <2>1 DEF IsWalk
    <2>3. \E y : A[j] = Node(f, 0, y)
      <3>1. CASE j = i
        BY <3>1
      <3>2. CASE i < j
        BY <1>2, <3>2
      <3> QED BY <3>1, <3>2
    <2>4. \A y, z : Ascend(Node(f, 0, y), z) = Node(f, 0, <<"overlong">>)
      BY DEF Ascend, Node
    <2> QED BY <2>2, <2>3, <2>4
  <1>3. Len(P) \in S
    <2> HIDE DEF S
    <2> QED BY <1>1, <1>2, Induction
  <1>4. A[Len(P)] = Node(f, 0, <<"overlong">>)
    BY <1>3
  <1> QED BY <1>4 DEF Node
\* No path that verifies at an index is shorter than another.
LEMMA NotShorter ==
    ASSUME NEW A, NEW P, NEW B, NEW Q, IsWalk(A, P), IsWalk(B, Q),
           NEW fn, NEW sn, NEW a, NEW b, A[0] = Node(fn, sn, a), B[0] = Node(fn, sn, b),
           Len(P) \in Nat, Len(Q) \in Nat,
           A[Len(P)].sn = 0, B[Len(Q)].r # <<"overlong">>
    PROVE  Len(Q) <= Len(P)
  <1> SUFFICES ASSUME Len(P) < Len(Q) PROVE FALSE
    OBVIOUS
  <1>1. PICK f, s, x, y : A[Len(P)] = Node(f, s, x) /\ B[Len(P)] = Node(f, s, y)
    <2>1. \A i \in Nat : (i <= Len(P) /\ i <= Len(Q)) =>
              \E f, s, x, y : A[i] = Node(f, s, x) /\ B[i] = Node(f, s, y)
      BY WalksAlike
    <2>2. Len(P) <= Len(P) /\ Len(P) <= Len(Q)
      OBVIOUS
    <2> QED BY <2>1, <2>2
  <1>2. s = 0
    BY <1>1 DEF Node
  <1>3. B[Len(P)] = Node(f, 0, y)
    BY <1>1, <1>2
  <1>4. B[Len(Q)].r = <<"overlong">>
    BY <1>3, TooLong
  <1> QED BY <1>4

\* What verifies at an index of a tree is one leaf and one path.
LEMMA OneVerifies ==
    ASSUME NEW X, NEW P \in Seq(X), NEW Q \in Seq(X), NEW index \in Nat, NEW size \in Nat,
           NEW a, NEW b, NEW root, root # <<"overlong">>,
           VerifyInclusion(a, index, size, P, root), VerifyInclusion(b, index, size, Q, root)
    PROVE  a = b /\ P = Q
  <1> DEFINE L == Len(P)
  <1>0. Len(P) \in Nat /\ Len(Q) \in Nat
    OBVIOUS
  <1>1. PICK A : A[0] = Node(index, size - 1, a) /\ IsWalk(A, P) /\ A[Len(P)].sn = 0 /\ A[Len(P)].r = root
    BY <1>0, WalkExists DEF Node
  <1>2. PICK B : B[0] = Node(index, size - 1, b) /\ IsWalk(B, Q) /\ B[Len(Q)].sn = 0 /\ B[Len(Q)].r = root
    BY <1>0, WalkExists DEF Node
  <1>3. Len(Q) <= Len(P)
    BY <1>0, <1>1, <1>2, NotShorter
  <1>4. Len(P) <= Len(Q)
    BY <1>0, <1>1, <1>2, NotShorter
  <1>5. Len(Q) = L /\ L \in Nat
    BY <1>0, <1>3, <1>4
  <1>6. ASSUME NEW i \in Nat, i <= L
        PROVE  \E f, s, x, y : A[i] = Node(f, s, x) /\ B[i] = Node(f, s, y)
    <2>1. \A j \in Nat : (j <= Len(P) /\ j <= Len(Q)) =>
              \E f, s, x, y : A[j] = Node(f, s, x) /\ B[j] = Node(f, s, y)
      BY <1>0, <1>1, <1>2, WalksAlike
    <2> QED BY <1>5, <1>6, <2>1
  <1>7. A[L] = B[L]
    <2>1. PICK f, s, x, y : A[L] = Node(f, s, x) /\ B[L] = Node(f, s, y)
      BY <1>5, <1>6
    <2>2. x = root /\ y = root
      BY <1>1, <1>2, <1>5, <2>1 DEF Node
    <2> QED BY <2>1, <2>2
  <1> DEFINE S == {d \in Nat : d <= L => A[L - d] = B[L - d] /\ \A c \in (L - d + 1)..L : P[c] = Q[c]}
  <1>8. 0 \in S
    <2>1. L - 0 = L /\ (L - 0 + 1)..L = {}
      BY <1>5
    <2> QED BY <1>7, <2>1
  <1>9. ASSUME NEW d \in Nat, d \in S PROVE d + 1 \in S
    <2> SUFFICES ASSUME d + 1 <= L
                 PROVE  /\ A[L - (d + 1)] = B[L - (d + 1)]
                        /\ \A c \in (L - (d + 1) + 1)..L : P[c] = Q[c]
      OBVIOUS
    <2> DEFINE i == L - (d + 1)
    <2>1. /\ i \in Nat /\ i < L /\ i <= L /\ i + 1 = L - d /\ i + 1 \in 1..Len(P) /\ i + 1 \in 1..Len(Q)
          /\ (i + 1) - 1 = i
      BY <1>5
    <2>2. A[i + 1] = B[i + 1] /\ \A c \in ((i + 1) + 1)..L : P[c] = Q[c]
      <3>1. A[L - d] = B[L - d] /\ \A c \in (L - d + 1)..L : P[c] = Q[c]
        BY <1>5, <1>9
      <3> HIDE DEF i, L
      <3> QED BY <2>1, <3>1
    <2> HIDE DEF i, L
    <2> DEFINE u == P[i + 1]
               v == Q[i + 1]
    <2>3. PICK f, s, x, y : A[i] = Node(f, s, x) /\ B[i] = Node(f, s, y)
      BY <1>6, <2>1
    <2>4. Ascend(Node(f, s, x), u) = Ascend(Node(f, s, y), v)
      <3>1. A[i + 1] = Ascend(A[i], u) /\ B[i + 1] = Ascend(B[i], v)
        BY <1>1, <1>2, <2>1 DEF IsWalk
      <3> QED BY <2>2, <2>3, <3>1
    <2>5. s # 0
      <3> SUFFICES ASSUME s = 0 PROVE FALSE
        OBVIOUS
      <3>1. A[i] = Node(f, 0, x)
        BY <2>3
      <3>2. A[Len(P)].r = <<"overlong">>
        BY <1>0, <1>1, <2>1, <3>1, TooLong DEF L
      <3> QED BY <1>1, <3>2
    <2> HIDE DEF u, v
    <2>6. x = y /\ u = v
      <3>1. CASE f % 2 = 1 \/ f = s
        <4> DEFINE up == Climb(f, s)
        <4>1. /\ Ascend(Node(f, s, x), u) = Node(up.fn \div 2, up.sn \div 2, nodeHash(u, x))
              /\ Ascend(Node(f, s, y), v) = Node(up.fn \div 2, up.sn \div 2, nodeHash(v, y))
          BY <2>5, <3>1 DEF Ascend, Step, Node
        <4>2. nodeHash(u, x) = nodeHash(v, y)
          <5> DEFINE c == up.fn \div 2
                     g == up.sn \div 2
          <5> HIDE DEF c, g
          <5>1. Node(c, g, nodeHash(u, x)) = Node(c, g, nodeHash(v, y))
            BY <2>4, <4>1 DEF c, g
          <5>2. \A k, l : Node(c, g, k) = Node(c, g, l) => k = l
            BY DEF Node
          <5> QED BY <5>1, <5>2
        <4> QED BY <4>2 DEF nodeHash
      <3>2. CASE ~(f % 2 = 1 \/ f = s)
        <4>1. /\ Ascend(Node(f, s, x), u) = Node(f \div 2, s \div 2, nodeHash(x, u))
              /\ Ascend(Node(f, s, y), v) = Node(f \div 2, s \div 2, nodeHash(y, v))
          BY <2>5, <3>2 DEF Ascend, Step, Node
        <4>2. nodeHash(x, u) = nodeHash(y, v)
          <5> DEFINE c == f \div 2
                     g == s \div 2
          <5> HIDE DEF c, g
          <5>1. Node(c, g, nodeHash(x, u)) = Node(c, g, nodeHash(y, v))
            BY <2>4, <4>1 DEF c, g
          <5>2. \A k, l : Node(c, g, k) = Node(c, g, l) => k = l
            BY DEF Node
          <5> QED BY <5>1, <5>2
        <4> QED BY <4>2 DEF nodeHash
      <3> QED BY <3>1, <3>2
    <2>7. A[i] = B[i]
      BY <2>3, <2>6
    <2>8. \A c \in (i + 1)..L : P[c] = Q[c]
      <3> SUFFICES ASSUME NEW c \in (i + 1)..L PROVE P[c] = Q[c]
        OBVIOUS
      <3>1. c = i + 1 \/ c \in ((i + 1) + 1)..L
        BY <1>5, <2>1
      <3> QED BY <2>2, <2>6, <3>1 DEF u, v
    <2> QED BY <2>7, <2>8 DEF i
  <1>10. L \in S
    <2> HIDE DEF S, L
    <2> QED BY <1>5, <1>8, <1>9, Induction
  <1>11. A[0] = B[0] /\ \A c \in 1..L : P[c] = Q[c]
    <2>1. A[L - L] = B[L - L] /\ \A c \in (L - L + 1)..L : P[c] = Q[c]
      BY <1>5, <1>10
    <2>2. L - L = 0 /\ L - L + 1 = 1
      BY <1>5
    <2> HIDE DEF L
    <2> QED BY <2>1, <2>2
  <1>12. a = b
    BY <1>1, <1>2, <1>11 DEF Node
  <1>13. P = Q
    BY <1>5, <1>11, SeqEqual
  <1> QED BY <1>12, <1>13

\* PathsExact: a path verifies a leaf at an index exactly if that leaf is there
\* and the path is the one from there (merkle.go, Path and VerifyInclusion).
THEOREM PathsExactHolds == Spec => []PathsExact
  <1> DEFINE X == {LeafHash(0), LeafHash(1)}
  <1>1. LeavesOK => PathsExact
    <2> DEFINE N == Len(leaves)
    <2> SUFFICES ASSUME LeavesOK, NEW m \in 0..(N - 1), NEW index \in 0..(N - 1), NEW x \in {0, 1}
                 PROVE  VerifyInclusion(LeafHash(x), index, N, path(m, leaves), Root(leaves))
                          <=> leaves[index + 1] = LeafHash(x) /\ path(index, leaves) = path(m, leaves)
      BY DEF PathsExact
    <2>1. leaves \in Seq(X) /\ leaves # <<>> /\ N \in Nat \ {0} /\ index \in Nat /\ index + 1 \in 1..N
      BY DEF LeavesOK
    <2>2. PICK h : IsTree(h, leaves) /\ mth(leaves) = h[<<N, 0>>]
      BY <2>1, TreeExists
    <2> DEFINE P == path(m, leaves)
               Q == path(index, leaves)
               R == Root(leaves)
    <2>3. P \in Seq(Roots(h, N)) /\ Q \in Seq(Roots(h, N))
      BY <2>1, <2>2, PathVerifies
    <2>4. VerifyInclusion(leaves[index + 1], index, N, Q, R)
      BY <2>1, <2>2, PathVerifies
    <2>5. R # <<"overlong">>
      <3>1. R = IF N = 1 THEN leaves[1] ELSE nodeHash(h[<<split(N), 0>>], h[<<N - split(N), 0 + split(N)>>])
        <4> HIDE DEF N
        <4>1. N \in 1..Len(leaves) /\ 0 \in Nat /\ 0 + 1 = 1
          BY <2>1 DEF N
        <4>2. Root(leaves) = mth(leaves)
          BY <2>1 DEF Root
        <4> QED BY <2>2, <4>1, <4>2 DEF IsTree
      <3>2. \A y, z : LeafHash(y) # <<"overlong">> /\ nodeHash(y, z) # <<"overlong">>
        BY DEF LeafHash, nodeHash
      <3>3. leaves[1] \in X
        BY <2>1
      <3> HIDE DEF R, N
      <3> QED BY <3>1, <3>2, <3>3
    <2> HIDE DEF P, Q, R, N, X
    <2>6. ASSUME VerifyInclusion(LeafHash(x), index, N, P, R)
          PROVE  LeafHash(x) = leaves[index + 1] /\ P = Q
      BY <2>1, <2>3, <2>4, <2>5, <2>6, OneVerifies
    <2>7. ASSUME leaves[index + 1] = LeafHash(x), Q = P
          PROVE  VerifyInclusion(LeafHash(x), index, N, P, R)
      BY <2>4, <2>7
    <2>8. VerifyInclusion(LeafHash(x), index, N, P, R) <=> (leaves[index + 1] = LeafHash(x) /\ Q = P)
      BY <2>6, <2>7
    <2> QED BY <2>8 DEF P, Q, R, N
  <1> QED BY <1>1, LeavesHold, PTL

-----------------------------------------------------------------------------
(* The rules of a log. *)

\* A receipt as LogRules has them.
IsReceipt(r) ==
    /\ r.type \in {"decision", "approval", "result"}
    /\ r.ts \in Nat /\ r.expires \in Nat /\ r.dec \in Nat
    /\ r.verdict \in {"allow", "deny", "require_approval", "approved", "rejected", "ok"}

IsLog(lg) == Len(lg) \in Nat /\ DOMAIN lg = 1..Len(lg) /\ \A i \in 1..Len(lg) : IsReceipt(lg[i])

\* The rules that the line at position i keeps.
Obeys(lg, i) ==
    /\ lg[i].type # "decision" => lg[i].dec \in 1..(i - 1)
    /\ lg[i].type = "approval" => lg[i].expires > lg[i].ts
    /\ TimeRule(lg, i) /\ ApprovalRule(lg, i) /\ ResultRule(lg, i) /\ ExpiryRule(lg, i)

\* The approvals of a decision among the first n lines.
Heard(lg, n, d) == {j \in 1..n : lg[j].type = "approval" /\ lg[j].dec = d}

\* The decisions among the first n lines, with what has become of them.
Book(lg, n) ==
    [ d \in {c \in 1..n : lg[c].type = "decision"} |->
        [ r |-> lg[d], resulted |-> Resulted(lg, n + 1, d),
          approval |-> {lg[j] : j \in Heard(lg, n, d)} ] ]

\* An approval is the only one of its decision, which asked for it.
OneApproval(lg, n) ==
    \A j \in 1..n : lg[j].type = "approval" =>
        /\ lg[j].dec \in 1..n /\ lg[lg[j].dec].type = "decision"
        /\ lg[lg[j].dec].verdict = "require_approval"
        /\ \A k \in 1..n : lg[k].type = "approval" /\ lg[k].dec = lg[j].dec => k = j

\* What the verifier knows after n lines without a fault.
Knows(st, lg, n) ==
    /\ IsState(st) /\ st.fault = "none"
    /\ st.n = n /\ st.leaves = [i \in 1..n |-> LeafHash(i)]
    /\ st.lastTS = IF n = 0 THEN 0 ELSE lg[n].ts
    /\ n > 0 => st.signer = TheKid
    /\ st.known = [k \in {TheKid} |-> k]
    /\ st.decisions = Book(lg, n)
    /\ OneApproval(lg, n)

\* The checks common to all lines are the rules about references and times.
LEMMA LineRules ==
    ASSUME NEW lg, IsLog(lg), NEW n \in Nat, n < Len(lg), NEW st, Knows(st, lg, n)
    PROVE  LineFault(st, Chain(lg)[n + 1], {}) = "none"
             <=> /\ lg[n + 1].type # "decision" => lg[n + 1].dec \in 1..n
                 /\ lg[n + 1].type = "approval" => lg[n + 1].expires > lg[n + 1].ts
                 /\ TimeRule(lg, n + 1)
  <1> DEFINE r == lg[n + 1]
             l == Chain(lg)[n + 1]
  <1>1. n + 1 \in 1..Len(lg) /\ n + 1 \in DOMAIN lg
    BY DEF IsLog
  <1>2. IsReceipt(r)
    BY <1>1 DEF IsLog
  <1>3. /\ l.kid = TheKid /\ l.key = TheKid /\ l.form = "ok" /\ l.seq = n /\ l.r = r
        /\ l.prev = IF n = 0 THEN Genesis(TheKid, TheKid) ELSE LeafHash(n)
    BY <1>1 DEF Chain
  <1> HIDE DEF l
  <1>4. l.kid \in DOMAIN st.known /\ SignedBy(st.known, l)
    BY <1>3 DEF Knows, SignedBy
  <1>5. ~Withdrawn({}, l.kid, st.n)
    BY DEF Withdrawn
  <1>6. st.n = n /\ (n > 0 => st.signer = TheKid)
    BY DEF Knows
  <1>7. l.prev = IF st.n = 0 THEN Genesis(l.kid, l.key) ELSE st.leaves[st.n]
    <2>1. n > 0 => st.leaves[n] = LeafHash(n)
      BY DEF Knows
    <2> QED BY <1>3, <1>6, <2>1
  <1>8. Validate(l.seq, l.r) <=> /\ r.type # "decision" => r.dec \in 1..n
                                 /\ r.type = "approval" => r.expires > r.ts
    BY <1>2, <1>3 DEF Validate, IsReceipt
  <1>9. ~(l.r.ts < st.lastTS) <=> TimeRule(lg, n + 1)
    <2>1. CASE n = 0
      BY <1>2, <1>3, <2>1 DEF Knows, TimeRule, IsReceipt
    <2>2. CASE n > 0
      <3>1. (n + 1) - 1 = n /\ n + 1 > 1 /\ n \in 1..Len(lg)
        BY <2>2, <1>1
      <3>2. lg[n].ts \in Nat /\ r.ts \in Nat
        BY <1>2, <3>1 DEF IsLog, IsReceipt
      <3> QED BY <1>3, <2>2, <3>1, <3>2 DEF Knows, TimeRule
    <2> QED BY <2>1, <2>2
  <1>10. LineFault(st, l, {}) = "none" <=> Validate(l.seq, l.r) /\ ~(l.r.ts < st.lastTS)
    BY <1>3, <1>4, <1>5, <1>6, <1>7 DEF LineFault
  <1> QED BY <1>8, <1>9, <1>10 DEF l

\* What the book says of a decision.
LEMMA BookSays ==
    ASSUME NEW lg, IsLog(lg), NEW n \in Nat, n < Len(lg), OneApproval(lg, n), NEW c \in Nat
    PROVE  /\ c \in DOMAIN Book(lg, n) <=> DecisionBefore(lg, n + 1, c)
           /\ c \in DOMAIN Book(lg, n) =>
                /\ Book(lg, n)[c].r = lg[c]
                /\ Book(lg, n)[c].resulted <=> Resulted(lg, n + 1, c)
                /\ Book(lg, n)[c].approval = {lg[j] : j \in Heard(lg, n, c)}
           /\ \A j : j \in Heard(lg, n, c) <=> j \in 1..n /\ ApprovalBefore(lg, n + 1, c, j)
           /\ \A j, k \in Heard(lg, n, c) : j = k
           /\ Heard(lg, n, c) # {} => lg[c].verdict = "require_approval"
  <1>1. (n + 1) - 1 = n
    OBVIOUS
  <1>2. c \in DOMAIN Book(lg, n) <=> DecisionBefore(lg, n + 1, c)
    BY <1>1 DEF Book, DecisionBefore
  <1>3. c \in DOMAIN Book(lg, n) =>
                /\ Book(lg, n)[c].r = lg[c]
                /\ Book(lg, n)[c].resulted <=> Resulted(lg, n + 1, c)
                /\ Book(lg, n)[c].approval = {lg[j] : j \in Heard(lg, n, c)}
    BY DEF Book
  <1>4. \A j : j \in Heard(lg, n, c) <=> j \in 1..n /\ ApprovalBefore(lg, n + 1, c, j)
    BY <1>1 DEF Heard, ApprovalBefore
  <1>5. \A j, k \in Heard(lg, n, c) : j = k
    BY DEF Heard, OneApproval
  <1>6. Heard(lg, n, c) # {} => lg[c].verdict = "require_approval"
    BY DEF Heard, OneApproval
  <1> QED BY <1>2, <1>3, <1>4, <1>5, <1>6

\* The checks of each type of line are its rules.
LEMMA TypeRules ==
    ASSUME NEW lg, IsLog(lg), NEW n \in Nat, n < Len(lg), NEW st, Knows(st, lg, n)
    PROVE  TypeFault(st, Chain(lg)[n + 1], FALSE) = "none"
             <=> ApprovalRule(lg, n + 1) /\ ResultRule(lg, n + 1) /\ ExpiryRule(lg, n + 1)
  <1> DEFINE r == lg[n + 1]
             l == Chain(lg)[n + 1]
             c == r.dec
  <1>1. n + 1 \in 1..Len(lg) /\ n + 1 \in DOMAIN lg /\ (n + 1) - 1 = n
    BY DEF IsLog
  <1>2. IsReceipt(r)
    BY <1>1 DEF IsLog
  <1>3. l.r = r /\ c \in Nat
    BY <1>1, <1>2 DEF Chain, IsReceipt
  <1> HIDE DEF l
  <1>4. st.decisions = Book(lg, n) /\ OneApproval(lg, n)
    BY DEF Knows
  <1> DEFINE B == Book(lg, n)
  <1>5. /\ c \in DOMAIN B <=> DecisionBefore(lg, n + 1, c)
        /\ c \in DOMAIN B =>
             /\ B[c].r = lg[c]
             /\ B[c].resulted <=> Resulted(lg, n + 1, c)
             /\ B[c].approval = {lg[j] : j \in Heard(lg, n, c)}
        /\ \A j : j \in Heard(lg, n, c) <=> j \in 1..n /\ ApprovalBefore(lg, n + 1, c, j)
        /\ \A j, k \in Heard(lg, n, c) : j = k
        /\ Heard(lg, n, c) # {} => lg[c].verdict = "require_approval"
    <2> HIDE DEF c
    <2> QED BY <1>3, <1>4, BookSays
  <1> HIDE DEF B
  <1>6. CASE r.type = "decision"
    <2>1. TypeFault(st, l, FALSE) = "none"
      BY <1>3, <1>6 DEF TypeFault
    <2> QED BY <1>6, <2>1 DEF l, ApprovalRule, ResultRule, ExpiryRule
  <1>7. CASE r.type = "approval"
    <2>1. TypeFault(st, l, FALSE) = ApprovalFault(st, r)
      BY <1>3, <1>7 DEF TypeFault
    <2>2. ResultRule(lg, n + 1) /\ ExpiryRule(lg, n + 1)
      BY <1>7 DEF ResultRule, ExpiryRule
    <2>3. ApprovalFault(st, r) = "none" <=>
            /\ c \in DOMAIN B /\ B[c].r.verdict = "require_approval" /\ SameCall(B[c].r, r)
            /\ B[c].approval = {} /\ ~B[c].resulted
            /\ r.approver # PrincipalOf[B[c].r.ident]
      BY <1>4 DEF ApprovalFault, B
    <2>4. c \in DOMAIN B => (B[c].approval = {} <=> \A j \in 1..n : ~ApprovalBefore(lg, n + 1, c, j))
      <3> HIDE DEF c
      <3> QED BY <1>5
    <2>5. ApprovalRule(lg, n + 1) <=>
            /\ DecisionBefore(lg, n + 1, c) /\ lg[c].verdict = "require_approval"
            /\ SameCall(lg[c], r)
            /\ \A j \in 1..n : ~ApprovalBefore(lg, n + 1, c, j)
            /\ ~Resulted(lg, n + 1, c)
            /\ r.approver # PrincipalOf[lg[c].ident]
      BY <1>1, <1>7 DEF ApprovalRule
    <2> HIDE DEF c, r
    <2> QED BY <1>5, <2>1, <2>2, <2>3, <2>4, <2>5 DEF l
  <1>8. CASE r.type = "result"
    <2>1. TypeFault(st, l, FALSE) = ResultFault(st, r)
      BY <1>3, <1>8 DEF TypeFault
    <2>2. ApprovalRule(lg, n + 1)
      BY <1>8 DEF ApprovalRule
    <2>3. ResultFault(st, r) = "none" <=>
            /\ c \in DOMAIN B /\ SameCall(B[c].r, r) /\ ~B[c].resulted
            /\ B[c].r.verdict # "deny"
            /\ B[c].r.verdict = "require_approval" =>
                 /\ B[c].approval # {}
                 /\ \A a \in B[c].approval : a.verdict = "approved"
                 /\ \A a \in B[c].approval : ~(r.ts > a.expires)
      BY <1>4 DEF ResultFault, B
    <2>a. ASSUME c \in DOMAIN B
          PROVE  /\ \A j \in 1..n : ApprovalBefore(lg, n + 1, c, j) => lg[j] \in B[c].approval
                 /\ \A a \in B[c].approval :
                      \E j \in 1..n : ApprovalBefore(lg, n + 1, c, j) /\ a = lg[j]
                 /\ \A a, b \in B[c].approval : a = b
      <3> HIDE DEF c
      <3>1. B[c].approval = {lg[j] : j \in Heard(lg, n, c)}
        BY <1>5, <2>a
      <3>2. \A j : j \in Heard(lg, n, c) <=> j \in 1..n /\ ApprovalBefore(lg, n + 1, c, j)
        BY <1>5
      <3>3. \A j, k \in Heard(lg, n, c) : j = k
        BY <1>5
      <3> QED BY <3>1, <3>2, <3>3
    <2>4. c \in DOMAIN B =>
            ((/\ B[c].approval # {}
              /\ \A a \in B[c].approval : a.verdict = "approved")
              <=> \E j \in 1..n : ApprovalBefore(lg, n + 1, c, j) /\ lg[j].verdict = "approved")
      <3> HIDE DEF c
      <3> QED BY <2>a
    <2>5. c \in DOMAIN B =>
            ((\A a \in B[c].approval : ~(r.ts > a.expires))
              <=> \A j \in 1..n : ApprovalBefore(lg, n + 1, c, j) => r.ts <= lg[j].expires)
      <3>1. \A j \in 1..n : lg[j].expires \in Nat
        BY <1>1 DEF IsLog, IsReceipt
      <3>2. r.ts \in Nat
        BY <1>2 DEF IsReceipt
      <3> HIDE DEF c, r
      <3> QED BY <2>a, <3>1, <3>2
    <2>6. B[c].r.verdict # "require_approval" /\ c \in DOMAIN B =>
            \A j \in 1..n : ~ApprovalBefore(lg, n + 1, c, j)
      <3> HIDE DEF c
      <3> QED BY <1>5
    <2>7. ResultRule(lg, n + 1) <=>
            /\ DecisionBefore(lg, n + 1, c) /\ SameCall(lg[c], r) /\ ~Resulted(lg, n + 1, c)
            /\ lg[c].verdict # "deny"
            /\ lg[c].verdict = "require_approval" =>
                 \E j \in 1..n : ApprovalBefore(lg, n + 1, c, j) /\ lg[j].verdict = "approved"
      BY <1>1, <1>8 DEF ResultRule
    <2>8. ExpiryRule(lg, n + 1) <=>
            \A j \in 1..n : ApprovalBefore(lg, n + 1, c, j) => r.ts <= lg[j].expires
      BY <1>1, <1>8 DEF ExpiryRule
    <2> DEFINE Yes == \E j \in 1..n : ApprovalBefore(lg, n + 1, c, j) /\ lg[j].verdict = "approved"
               InTime == \A j \in 1..n : ApprovalBefore(lg, n + 1, c, j) => r.ts <= lg[j].expires
               None == \A j \in 1..n : ~ApprovalBefore(lg, n + 1, c, j)
    <2>9. None => InTime
      OBVIOUS
    <2> HIDE DEF c, r, Yes, InTime, None
    <2>10. ResultFault(st, r) = "none" <=>
            /\ c \in DOMAIN B /\ SameCall(lg[c], r) /\ ~Resulted(lg, n + 1, c)
            /\ lg[c].verdict # "deny"
            /\ lg[c].verdict = "require_approval" => Yes /\ InTime
      BY <1>5, <2>3, <2>4, <2>5 DEF Yes, InTime
    <2>11. ResultRule(lg, n + 1) <=>
            /\ c \in DOMAIN B /\ SameCall(lg[c], r) /\ ~Resulted(lg, n + 1, c)
            /\ lg[c].verdict # "deny"
            /\ lg[c].verdict = "require_approval" => Yes
      BY <1>5, <2>7 DEF Yes
    <2>12. ExpiryRule(lg, n + 1) <=> InTime
      BY <2>8 DEF InTime
    <2>13. lg[c].verdict # "require_approval" /\ c \in DOMAIN B => None
      BY <1>5, <2>6 DEF None
    <2> QED BY <2>1, <2>2, <2>9, <2>10, <2>11, <2>12, <2>13 DEF l
  <1> QED BY <1>2, <1>6, <1>7, <1>8 DEF IsReceipt

\* A line that keeps the rules is the one more approval of its decision.
LEMMA OneApprovalNext ==
    ASSUME NEW lg, IsLog(lg), NEW n \in Nat, n < Len(lg), OneApproval(lg, n), Obeys(lg, n + 1)
    PROVE  OneApproval(lg, n + 1)
  <1> DEFINE r == lg[n + 1]
  <1>1. (n + 1) - 1 = n
    OBVIOUS
  <1>2. r.type = "approval" =>
          /\ r.dec \in 1..n /\ lg[r.dec].type = "decision"
          /\ lg[r.dec].verdict = "require_approval"
          /\ \A k \in 1..n : ~(lg[k].type = "approval" /\ lg[k].dec = r.dec)
    BY <1>1 DEF Obeys, ApprovalRule, DecisionBefore, ApprovalBefore
  <1> HIDE DEF r
  <1>3. ASSUME NEW j \in 1..(n + 1), lg[j].type = "approval"
        PROVE  /\ lg[j].dec \in 1..(n + 1) /\ lg[lg[j].dec].type = "decision"
               /\ lg[lg[j].dec].verdict = "require_approval"
               /\ \A k \in 1..(n + 1) : lg[k].type = "approval" /\ lg[k].dec = lg[j].dec => k = j
    <2>1. CASE j = n + 1
      <3>1. lg[j] = r
        BY <2>1 DEF r
      <3> QED BY <1>2, <1>3, <2>1, <3>1
    <2>2. CASE j \in 1..n
      <3>1. /\ lg[j].dec \in 1..n /\ lg[lg[j].dec].type = "decision"
            /\ lg[lg[j].dec].verdict = "require_approval"
            /\ \A k \in 1..n : lg[k].type = "approval" /\ lg[k].dec = lg[j].dec => k = j
        BY <1>3, <2>2 DEF OneApproval
      <3>2. ~(r.type = "approval" /\ r.dec = lg[j].dec)
        BY <1>2, <1>3, <2>2
      <3> QED BY <3>1, <3>2 DEF r
    <2> QED BY <2>1, <2>2
  <1> QED BY <1>3 DEF OneApproval

\* The book after lines that keep the rules.
LEMMA BookNext ==
    ASSUME NEW lg, IsLog(lg), NEW n \in Nat, n < Len(lg), \A i \in 1..(n + 1) : Obeys(lg, i),
           OneApproval(lg, n), NEW st, st.n = n, st.decisions = Book(lg, n)
    PROVE  Decided(st, lg[n + 1]) = Book(lg, n + 1)
  <1> DEFINE r == lg[n + 1]
             c == r.dec
             D == {d \in 1..n : lg[d].type = "decision"}
             E == {d \in 1..(n + 1) : lg[d].type = "decision"}
             Entry(m, d) == [ r |-> lg[d], resulted |-> Resulted(lg, m + 1, d),
                              approval |-> {lg[j] : j \in Heard(lg, m, d)} ]
             F == [d \in D |-> Entry(n, d)]
             G == [d \in E |-> Entry(n + 1, d)]
  <1>0. n + 1 \in 1..Len(lg) /\ IsReceipt(r) /\ (n + 1) - 1 = n /\ ((n + 1) + 1) - 1 = n + 1
    BY DEF IsLog
  <1>1. Book(lg, n) = F /\ Book(lg, n + 1) = G
    BY DEF Book
  <1>2. /\ r.type = "decision" => E = D \cup {n + 1}
        /\ r.type # "decision" => E = D
        /\ n + 1 \notin D
    OBVIOUS
  <1>3. \A d : Resulted(lg, (n + 1) + 1, d)
                 <=> Resulted(lg, n + 1, d) \/ (r.type = "result" /\ c = d)
    BY <1>0 DEF Resulted
  <1>4. \A d : /\ r.type = "approval" /\ c = d => Heard(lg, n + 1, d) = Heard(lg, n, d) \cup {n + 1}
               /\ ~(r.type = "approval" /\ c = d) => Heard(lg, n + 1, d) = Heard(lg, n, d)
    BY DEF Heard
  <1>5. \A d : Resulted(lg, n + 1, d) \in BOOLEAN /\ Resulted(lg, (n + 1) + 1, d) \in BOOLEAN
    BY DEF Resulted
  <1>6. \A j \in 1..n : lg[j].type # "decision" => lg[j].dec # n + 1
    <2> SUFFICES ASSUME NEW j \in 1..n, lg[j].type # "decision", lg[j].dec = n + 1
                 PROVE  FALSE
      OBVIOUS
    <2>1. Obeys(lg, j)
      OBVIOUS
    <2> QED BY <2>1 DEF Obeys
  <1>a. \A d : (Resulted(lg, n + 1, d) <=> Resulted(lg, (n + 1) + 1, d))
                 => Resulted(lg, n + 1, d) = Resulted(lg, (n + 1) + 1, d)
    BY <1>5
  <1>b. ASSUME NEW d, ~(r.type = "result" /\ c = d), ~(r.type = "approval" /\ c = d)
        PROVE  Entry(n + 1, d) = Entry(n, d)
    <2>1. Resulted(lg, n + 1, d) = Resulted(lg, (n + 1) + 1, d)
      BY <1>3, <1>a, <1>b
    <2>2. Heard(lg, n + 1, d) = Heard(lg, n, d)
      BY <1>4, <1>b
    <2> QED BY <2>1, <2>2
  <1>7. CASE r.type = "decision"
    <2>1. \A d \in D : Entry(n + 1, d) = Entry(n, d)
      <3> HIDE DEF Entry
      <3> QED BY <1>b, <1>7
    <2>2. Entry(n + 1, n + 1) = [r |-> r, resulted |-> FALSE, approval |-> {}]
      <3>1. Resulted(lg, (n + 1) + 1, n + 1) = FALSE
        <4>1. ~Resulted(lg, n + 1, n + 1)
          BY <1>0, <1>6 DEF Resulted
        <4> QED BY <4>1, <1>3, <1>5, <1>7
      <3>2. Heard(lg, n + 1, n + 1) = {}
        <4>1. Heard(lg, n, n + 1) = {}
          BY <1>6 DEF Heard
        <4> QED BY <4>1, <1>4, <1>7
      <3> QED BY <3>1, <3>2
    <2> HIDE DEF Entry
    <2>3. Decided(st, r) = [ d \in D \cup {n + 1} |->
               IF d = n + 1 THEN [r |-> r, resulted |-> FALSE, approval |-> {}] ELSE F[d] ]
      BY <1>1, <1>7 DEF Decided
    <2>4. \A d \in D : F[d] = Entry(n + 1, d)
      BY <2>1
    <2>5. Decided(st, r) = G
      BY <1>2, <1>7, <2>2, <2>3, <2>4
    <2> QED BY <1>1, <2>5
  <1>8. CASE r.type = "approval"
    <2>1. DecisionBefore(lg, n + 1, c) /\ \A j \in 1..n : ~ApprovalBefore(lg, n + 1, c, j)
      <3>1. Obeys(lg, n + 1)
        OBVIOUS
      <3> QED BY <1>0, <1>8, <3>1 DEF Obeys, ApprovalRule
    <2>2. c \in D /\ Heard(lg, n, c) = {}
      BY <1>0, <2>1 DEF DecisionBefore, ApprovalBefore, Heard
    <2>3. \A d \in D : d # c => Entry(n + 1, d) = Entry(n, d)
      <3> HIDE DEF Entry
      <3> QED BY <1>b
    <2>4. Entry(n + 1, c) = [Entry(n, c) EXCEPT !.approval = {r}]
      <3>1. Resulted(lg, n + 1, c) = Resulted(lg, (n + 1) + 1, c)
        BY <1>3, <1>a, <1>8
      <3>2. Heard(lg, n + 1, c) = {n + 1}
        BY <1>4, <1>8, <2>2
      <3>3. {lg[j] : j \in Heard(lg, n + 1, c)} = {r}
        BY <3>2
      <3> DEFINE x == Resulted(lg, n + 1, c)  y == {lg[j] : j \in Heard(lg, n, c)}
      <3>4. Entry(n, c) = [r |-> lg[c], resulted |-> x, approval |-> y]
        OBVIOUS
      <3>5. Entry(n + 1, c) = [r |-> lg[c], resulted |-> x, approval |-> {r}]
        BY <3>1, <3>3
      <3> DEFINE e == Entry(n, c)
      <3>6. e = [r |-> lg[c], resulted |-> x, approval |-> y]
        BY <3>4
      <3> HIDE DEF c, r, x, y, e
      <3>7. [e EXCEPT !.approval = {r}] = [r |-> lg[c], resulted |-> x, approval |-> {r}]
        BY ONLY <3>6
      <3> QED BY <3>5, <3>7 DEF e
    <2> HIDE DEF Entry, c
    <2>5. Decided(st, r) = [F EXCEPT ![c].approval = {r}]
      BY <1>1, <1>8 DEF Decided, c
    <2>6. Decided(st, r) = G
      BY <1>2, <1>8, <2>2, <2>3, <2>4, <2>5
    <2> QED BY <1>1, <2>6
  <1>9. CASE r.type = "result"
    <2>1. DecisionBefore(lg, n + 1, c)
      <3>1. Obeys(lg, n + 1)
        OBVIOUS
      <3> QED BY <1>0, <1>9, <3>1 DEF Obeys, ResultRule
    <2>2. c \in D
      BY <1>0, <2>1 DEF DecisionBefore
    <2>3. \A d \in D : d # c => Entry(n + 1, d) = Entry(n, d)
      <3> HIDE DEF Entry
      <3> QED BY <1>b
    <2>4. Entry(n + 1, c) = [Entry(n, c) EXCEPT !.resulted = TRUE]
      <3>1. Resulted(lg, (n + 1) + 1, c) = TRUE
        BY <1>3, <1>5, <1>9
      <3>2. Heard(lg, n + 1, c) = Heard(lg, n, c)
        BY <1>4, <1>9
      <3> DEFINE x == Resulted(lg, n + 1, c)  y == {lg[j] : j \in Heard(lg, n, c)}
      <3>4. Entry(n, c) = [r |-> lg[c], resulted |-> x, approval |-> y]
        OBVIOUS
      <3>5. Entry(n + 1, c) = [r |-> lg[c], resulted |-> TRUE, approval |-> y]
        BY <3>1, <3>2
      <3>6. \A z : [[r |-> lg[c], resulted |-> x, approval |-> y] EXCEPT !.resulted = z]
                     = [r |-> lg[c], resulted |-> z, approval |-> y]
        <4> HIDE DEF c, r, x, y
        <4> QED OBVIOUS
      <3> HIDE DEF c, r, x, y, Entry
      <3> QED BY <3>4, <3>5, <3>6, Zenon
    <2> HIDE DEF Entry, c
    <2>5. Decided(st, r) = [F EXCEPT ![c].resulted = TRUE]
      BY <1>1, <1>9 DEF Decided, c
    <2>6. Decided(st, r) = G
      BY <1>2, <1>9, <2>2, <2>3, <2>4, <2>5
    <2> QED BY <1>1, <2>6
  <1> QED BY <1>0, <1>7, <1>8, <1>9 DEF IsReceipt

\* So the verifier knows after the line what it should.
LEMMA KnowsNext ==
    ASSUME NEW lg, IsLog(lg), NEW n \in Nat, n < Len(lg), \A i \in 1..(n + 1) : Obeys(lg, i),
           NEW st, Knows(st, lg, n)
    PROVE  Knows(After(st, Chain(lg)[n + 1], "none"), lg, n + 1)
  <1> DEFINE l == Chain(lg)[n + 1]
             next == After(st, l, "none")
  <1>1. n + 1 \in 1..Len(lg) /\ n + 1 \in DOMAIN lg
    BY DEF IsLog
  <1>2. l.id = LeafHash(n + 1) /\ l.kid = TheKid /\ l.r = lg[n + 1]
    BY <1>1 DEF Chain
  <1> HIDE DEF l
  <1>3. l.r.type # "key_rotation"
    BY <1>1, <1>2 DEF IsLog, IsReceipt
  <1>4. next = [ fault |-> "none", n |-> st.n + 1, leaves |-> Append(st.leaves, l.id),
                 lastTS |-> l.r.ts, signer |-> l.kid, known |-> st.known,
                 rotations |-> st.rotations, decisions |-> Decided(st, l.r) ]
    BY <1>3 DEF After
  <1> HIDE DEF next
  <1>5. IsState(next) /\ next.fault = "none" /\ next.n = n + 1 /\ next.lastTS = lg[n + 1].ts
          /\ next.signer = TheKid /\ next.known = [k \in {TheKid} |-> k]
    BY <1>2, <1>4 DEF Knows, IsState
  <1>6. next.leaves = [i \in 1..(n + 1) |-> LeafHash(i)]
    <2>1. next.leaves = Append([i \in 1..n |-> LeafHash(i)], LeafHash(n + 1))
      BY <1>2, <1>4 DEF Knows
    <2> QED BY <2>1
  <1>7. next.decisions = Book(lg, n + 1)
    <2>1. next.decisions = Decided(st, lg[n + 1])
      BY <1>2, <1>4
    <2> QED BY <2>1, BookNext DEF Knows
  <1>8. OneApproval(lg, n + 1)
    BY OneApprovalNext DEF Knows
  <1>9. Knows(next, lg, n + 1)
    BY <1>5, <1>6, <1>7, <1>8 DEF Knows
  <1> QED BY <1>9 DEF next, l

\* The pass over a log finds no fault exactly if the rules are kept.
LEMMA PassAgrees ==
    ASSUME NEW lg, IsLog(lg), NEW P, IsPass(P, Chain(lg), [k \in {TheKid} |-> k], FALSE, {})
    PROVE  /\ P[Len(lg)].fault = "none" <=> \A i \in 1..Len(lg) : Obeys(lg, i)
           /\ P[Len(lg)].fault = "none" => Knows(P[Len(lg)], lg, Len(lg))
  <1> DEFINE Sound(n) == P[n].fault = "none"
             S == {n \in Nat : n <= Len(lg) =>
                     /\ Sound(n) <=> \A i \in 1..n : Obeys(lg, i)
                     /\ Sound(n) => Knows(P[n], lg, n)}
  <1>0. Len(lg) \in Nat /\ Len(Chain(lg)) = Len(lg)
    BY DEF IsLog, Chain
  <1>1. 0 \in S
    <2>1. P[0] = Start([k \in {TheKid} |-> k]) /\ IsState(P[0])
      BY <1>0 DEF IsPass
    <2>2. Sound(0)
      BY <2>1 DEF Start
    <2>3. P[0].leaves = [i \in 1..0 |-> LeafHash(i)]
      BY <2>1 DEF Start
    <2>4. P[0].decisions = Book(lg, 0)
      BY <2>1 DEF Start, Book
    <2>5. Knows(P[0], lg, 0)
      BY <2>1, <2>2, <2>3, <2>4 DEF Start, Knows, OneApproval
    <2> QED BY <2>2, <2>5
  <1>2. ASSUME NEW n \in Nat, n \in S PROVE n + 1 \in S
    <2> SUFFICES ASSUME n + 1 <= Len(lg)
                 PROVE  /\ Sound(n + 1) <=> \A i \in 1..(n + 1) : Obeys(lg, i)
                        /\ Sound(n + 1) => Knows(P[n + 1], lg, n + 1)
      OBVIOUS
    <2>1. n < Len(lg) /\ n \in 0..(Len(Chain(lg)) - 1)
      BY <1>0
    <2>2. /\ Sound(n) <=> \A i \in 1..n : Obeys(lg, i)
          /\ Sound(n) => Knows(P[n], lg, n)
      BY <1>2
    <2>3. /\ Sound(n + 1) <=> Sound(n) /\ Passes(P[n], Chain(lg)[n + 1], FALSE, {})
          /\ Sound(n + 1) => P[n + 1] = After(P[n], Chain(lg)[n + 1], "none")
      BY <2>1 DEF IsPass
    <2>4. Sound(n) => (Passes(P[n], Chain(lg)[n + 1], FALSE, {}) <=> Obeys(lg, n + 1))
      <3>1. (n + 1) - 1 = n
        OBVIOUS
      <3> QED BY <2>1, <2>2, <3>1, LineRules, TypeRules DEF Passes, Obeys
    <2>5. Sound(n + 1) <=> \A i \in 1..(n + 1) : Obeys(lg, i)
      <3> HIDE DEF Sound
      <3>1. (\A i \in 1..(n + 1) : Obeys(lg, i)) <=> (\A i \in 1..n : Obeys(lg, i)) /\ Obeys(lg, n + 1)
        OBVIOUS
      <3> QED BY <2>2, <2>3, <2>4, <3>1
    <2>6. Sound(n + 1) => Knows(P[n + 1], lg, n + 1)
      BY <2>1, <2>2, <2>3, <2>5, KnowsNext
    <2> QED BY <2>5, <2>6
  <1>3. Len(lg) \in S
    <2> HIDE DEF S
    <2> QED BY <1>0, <1>1, <1>2, Induction
  <1> QED BY <1>0, <1>3

\* The allowed calls without a result.
OpenDecisions(lg) ==
    { d \in 1..Len(lg) : /\ lg[d].type = "decision"
                         /\ lg[d].verdict = "allow"
                         /\ ~Resulted(lg, Len(lg) + 1, d) }

\* The verdict on a log.
LEMMA VerdictSays ==
    ASSUME NEW lg, IsLog(lg), lg # <<>>, Len(lg) # 0
    PROVE  /\ Verdict(lg).verified <=> \A i \in 1..Len(lg) : Obeys(lg, i)
           /\ Verdict(lg).verified => Verdict(lg).open = OpenDecisions(lg)
  <1> DEFINE L == Chain(lg)
             known == [k \in {TheKid} |-> k]
             P == Pass(L, known, FALSE, {})
             st == P[Len(L)]
  <1>1. Len(lg) \in Nat /\ Len(L) = Len(lg)
    BY DEF IsLog, Chain
  <1>2. IsPass(P, L, known, FALSE, {})
    BY <1>1, PassIsPass
  <1>3. Verdict(lg) = Report(st, {}, LogFault(st, {}))
    BY DEF Verdict, VerifyAll
  <1> HIDE DEF P
  <1>4. /\ st.fault = "none" <=> \A i \in 1..Len(lg) : Obeys(lg, i)
        /\ st.fault = "none" => Knows(st, lg, Len(lg))
    BY <1>1, <1>2, PassAgrees
  <1> HIDE DEF st
  <1>5. Verdict(lg).verified <=> LogFault(st, {}) = "none"
    <2> DEFINE f == LogFault(st, {})
    <2>1. Report(st, {}, f).verified = (f = "none")
      <3> HIDE DEF f
      <3> QED BY Zenon DEF Report
    <2> QED BY <1>3, <2>1
  <1>6. LogFault(st, {}) = "none" <=> st.fault = "none"
    <2>1. st.fault = "none" => st.n # 0
      BY <1>1, <1>4 DEF Knows
    <2> QED BY <2>1 DEF LogFault
  <1>7. ASSUME st.fault = "none" PROVE Verdict(lg).open = OpenDecisions(lg)
    <2>1. Verdict(lg).open = Open(Book(lg, Len(lg)))
      BY <1>3, <1>4, <1>7 DEF Report, Knows
    <2>2. \A d : Resulted(lg, Len(lg) + 1, d) \in BOOLEAN
      BY DEF Resulted
    <2>3. Open(Book(lg, Len(lg))) = OpenDecisions(lg)
      BY <2>2 DEF Open, Book, OpenDecisions
    <2> QED BY <2>1, <2>3
  <1> QED BY <1>4, <1>5, <1>6, <1>7

LogOK == log \in Seq(Decisions \cup Approvals \cup Results)

\* The log consists of receipts at all times.
LEMMA LogIsLog == Spec => []LogOK
  <1>1. Init => LogOK
    BY DEF Init, LogOK
  <1>2. LogOK /\ [Next]_vars => LogOK'
    <2> SUFFICES ASSUME LogOK, [Next]_vars PROVE LogOK'
      OBVIOUS
    <2>1. CASE AddReceipt
      <3>1. PICK r \in Decisions \cup Approvals \cup Results : log' = Append(log, r)
        BY <2>1 DEF AddReceipt
      <3> QED BY <3>1 DEF LogOK
    <2>2. CASE log' = log
      BY <2>2 DEF LogOK
    <2> QED BY <2>1, <2>2 DEF Next, vars, AddLeaf
  <1> QED BY <1>1, <1>2, PTL DEF Spec

\* A state with such a log has the two properties.
LEMMA LogAgrees == LogOK => RulesAgree /\ GapsListed
  <1> SUFFICES ASSUME LogOK, log # <<>> PROVE RulesAgree /\ GapsListed
    BY DEF RulesAgree, GapsListed
  <1>1. \A r \in Decisions \cup Approvals \cup Results : IsReceipt(r)
    <2>1. \A r \in Decisions : IsReceipt(r)
      BY LogRulesAssumption DEF Decisions, Decision, IsReceipt
    <2>2. \A r \in Approvals : IsReceipt(r)
      BY LogRulesAssumption DEF Approvals, Approval, IsReceipt
    <2>3. \A r \in Results : IsReceipt(r)
      BY LogRulesAssumption DEF Results, Result, IsReceipt
    <2> QED BY <2>1, <2>2, <2>3
  <1>2. IsLog(log) /\ Len(log) # 0 /\ DOMAIN log = 1..Len(log)
    <2> DEFINE R == Decisions \cup Approvals \cup Results
    <2>1. log \in Seq(R) /\ \A r \in R : IsReceipt(r)
      BY <1>1 DEF LogOK
    <2> HIDE DEF R
    <2> QED BY <2>1 DEF IsLog
  <1>3. \A i \in 1..Len(log) :
          Obeys(log, i) <=> /\ ValidRule(i) /\ TimeRule(log, i) /\ ApprovalRule(log, i)
                            /\ ResultRule(log, i) /\ ExpiryRule(log, i)
    BY DEF Obeys, ValidRule
  <1>4. RulesAgree
    BY <1>2, <1>3, VerdictSays DEF RulesAgree
  <1>5. GapsListed
    <2> SUFFICES ASSUME Verdict(log).verified
                 PROVE  /\ Verdict(log).open \subseteq Gaps
                        /\ Gaps \ Verdict(log).open
                             = { d \in Gaps : log[d].verdict = "require_approval" }
      BY DEF GapsListed
    <2>1. Verdict(log).open = OpenDecisions(log)
      BY <1>2, VerdictSays
    <2> QED BY <2>1 DEF OpenDecisions, Gaps, Cleared
  <1> QED BY <1>4, <1>5

\* RulesAgree: VerifyAll (verify.go, the loop and its checks by type) accepts
\* exactly the logs that keep the rules of ReceiptRules, of every length.
THEOREM RulesAgreeHolds == Spec => []RulesAgree
  BY LogIsLog, LogAgrees, PTL

\* GapsListed: the open decisions in the report of VerifyAll are the calls without a
\* result that policy allowed, and leave out those that somebody approved.
THEOREM GapsListedHolds == Spec => []GapsListed
  BY LogIsLog, LogAgrees, PTL
=============================================================================
