--------------------------- MODULE HwschedProofs ---------------------------
(***************************************************************************)
(* The safety properties of the hardware scheduler, for any number of      *)
(* contexts, threads, priorities and faults and any sizes of the queues.   *)
(***************************************************************************)
EXTENDS Hwsched, FiniteSetTheorems, SequenceTheorems, WellFoundedInduction, TLAPS

-----------------------------------------------------------------------------
(***************************************************************************)
(* Sequences: the subsequence Only(s, S).                                  *)
(***************************************************************************)
\* A set of numbers that is not empty has a least member.
LEMMA LeastMember ==
    ASSUME NEW T \in SUBSET Nat, T # {}
    PROVE  \E m \in T : \A n \in T : m <= n
<1>1. PICK x \in T : \A y \in T : ~ (<<y, x>> \in OpToRel(<, Nat))
  BY NatLessThanWellFounded, WFMin
<1>2. \A y \in T : ~ (y < x)
  BY <1>1 DEF OpToRel
<1> QED
  BY <1>2

\* f lists numbers from the smallest to the largest.
Rising(f) == \A i, j \in DOMAIN f : i < j => f[i] < f[j]

\* A finite set of numbers can be listed in increasing order.
LEMMA RisingExists ==
    ASSUME NEW S \in SUBSET Nat, IsFiniteSet(S)
    PROVE  \E f \in [1 .. Cardinality(S) -> S] : Rising(f)
<1> DEFINE Upto(x) == {y \in S : y <= x}
           rank == [x \in S |-> Cardinality(Upto(x))]
           n == Cardinality(S)
<1>1. \A x \in S : IsFiniteSet(Upto(x)) /\ rank[x] \in Nat /\ rank[x] <= n /\ rank[x] # 0
  <2> SUFFICES ASSUME NEW x \in S
               PROVE  IsFiniteSet(Upto(x)) /\ rank[x] \in Nat /\ rank[x] <= n /\ rank[x] # 0
    OBVIOUS
  <2>1. Upto(x) \in SUBSET S /\ x \in Upto(x)
    OBVIOUS
  <2>2. IsFiniteSet(Upto(x)) /\ Cardinality(Upto(x)) <= n
    BY <2>1, FS_Subset
  <2>3. Cardinality(Upto(x)) \in Nat
    BY <2>2, FS_CardinalityType
  <2>4. Cardinality(Upto(x)) # 0
    BY <2>1, <2>2, FS_EmptySet
  <2> QED BY <2>2, <2>3, <2>4
<1>2. n \in Nat
  BY FS_CardinalityType
<1>3. \A x, y \in S : x < y => rank[x] < rank[y]
  <2> SUFFICES ASSUME NEW x \in S, NEW y \in S, x < y PROVE rank[x] < rank[y]
    OBVIOUS
  <2>0. x \in Nat /\ y \in Nat
    OBVIOUS
  <2>1a. \A z \in S : z <= x => z <= y
    BY <2>0
  <2>1b. y <= y /\ ~(y <= x)
    BY <2>0
  <2>1. Upto(x) \in SUBSET Upto(y) /\ y \in Upto(y) /\ y \notin Upto(x)
    BY <2>1a, <2>1b
  <2>2. Cardinality(Upto(x)) <= Cardinality(Upto(y))
          /\ Cardinality(Upto(x)) # Cardinality(Upto(y))
    BY <2>1, <1>1, FS_Subset
  <2> QED BY <2>2, <1>1
<1>4. rank \in [S -> 1 .. n]
  BY <1>1, <1>2
<1>5. \A x, y \in S : rank[x] = rank[y] => x = y
  BY <1>3, <1>1
<1>6. rank \in Injection(S, 1 .. n)
  BY <1>4, <1>5 DEF Injection, IsInjective
<1>7. IsFiniteSet(1 .. n) /\ Cardinality(1 .. n) = n
  BY <1>2, FS_Interval
<1>8. rank \in Surjection(S, 1 .. n)
  BY <1>6, <1>7, FS_Injection
<1>9. \A k \in 1 .. n : \E x \in S : rank[x] = k
  BY <1>8 DEF Surjection
<1> DEFINE f == [k \in 1 .. n |-> CHOOSE x \in S : rank[x] = k]
<1>10. \A k \in 1 .. n : f[k] \in S /\ rank[f[k]] = k
  BY <1>9
<1>11. f \in [1 .. n -> S]
  BY <1>10
<1>12. \A i, j \in 1 .. n : i < j => f[i] < f[j]
  <2> SUFFICES ASSUME NEW i \in 1 .. n, NEW j \in 1 .. n, i < j PROVE f[i] < f[j]
    OBVIOUS
  <2>0. f[i] \in S /\ f[j] \in S /\ rank[f[i]] = i /\ rank[f[j]] = j
    BY <1>10
  <2> HIDE DEF f
  <2>1. PICK x \in S, y \in S : x = f[i] /\ y = f[j] /\ rank[x] = i /\ rank[y] = j
    BY <2>0
  <2> HIDE DEF rank
  <2>2. y < x => j < i
    BY <2>1, <1>3
  <2>3. x = y => i = j
    BY <2>1
  <2>4. x \in Nat /\ y \in Nat /\ i \in Nat /\ j \in Nat
    BY <1>2
  <2>5. x < y
    BY <2>2, <2>3, <2>4
  <2> QED BY <2>1, <2>5
<1> QED
  BY <1>11, <1>12 DEF Rising

\* What Ascending returns.
LEMMA AscendingIs ==
    ASSUME NEW S \in SUBSET Nat, IsFiniteSet(S)
    PROVE  /\ Ascending(S) \in [1 .. Cardinality(S) -> S] /\ Rising(Ascending(S))
           /\ Cardinality(S) \in Nat
           /\ \A x \in S : \E k \in 1 .. Cardinality(S) : Ascending(S)[k] = x
<1>1. \E f \in [1 .. Cardinality(S) -> S] : Rising(f)
  BY RisingExists
<1>2. Ascending(S) \in [1 .. Cardinality(S) -> S] /\ Rising(Ascending(S))
  BY <1>1 DEF Ascending, Rising
<1>3. Cardinality(S) \in Nat
  BY FS_CardinalityType
<1> DEFINE f == Ascending(S)
           n == Cardinality(S)
<1>4. \A i, j \in 1 .. n : f[i] = f[j] => i = j
  <2> SUFFICES ASSUME NEW i \in 1 .. n, NEW j \in 1 .. n, f[i] = f[j], i # j PROVE FALSE
    OBVIOUS
  <2>1. f[i] \in Nat /\ f[j] \in Nat /\ (i < j => f[i] < f[j]) /\ (j < i => f[j] < f[i])
    BY <1>2 DEF Rising
  <2> QED BY <2>1, <1>3
<1>5. f \in Injection(1 .. n, S)
  BY <1>2, <1>4 DEF Injection, IsInjective
<1>6. IsFiniteSet(1 .. n) /\ Cardinality(1 .. n) = n
  BY <1>3, FS_Interval
<1>7. f \in Surjection(1 .. n, S)
  BY <1>5, <1>6, FS_Injection
<1> QED
  BY <1>2, <1>3, <1>7 DEF Surjection

\* f lists the positions of s that hold members of S, and t is what they hold.
Enumerates(f, s, S, t) ==
    /\ f \in [1 .. Len(t) -> 1 .. Len(s)] /\ Rising(f)
    /\ \A k \in 1 .. Len(t) : t[k] = s[f[k]] /\ s[f[k]] \in S
    /\ \A i \in 1 .. Len(s) : s[i] \in S => \E k \in 1 .. Len(t) : f[k] = i

\* Only(s, S) is a sequence of what s holds, with the positions to show it.
LEMMA OnlyIs ==
    ASSUME NEW T, NEW s \in Seq(T), NEW S
    PROVE  /\ Only(s, S) \in Seq(T) /\ Len(Only(s, S)) <= Len(s)
           /\ \E f : Enumerates(f, s, S, Only(s, S))
<1> DEFINE P == {i \in DOMAIN s : s[i] \in S}
           n == Cardinality(P)
           f == Ascending(P)
           t == Only(s, S)
<1>1. DOMAIN s = 1 .. Len(s) /\ Len(s) \in Nat
  OBVIOUS
<1>2. IsFiniteSet(1 .. Len(s)) /\ Cardinality(1 .. Len(s)) = Len(s)
  BY <1>1, FS_Interval
<1>3. P \in SUBSET (1 .. Len(s))
  BY <1>1
<1>4. IsFiniteSet(P) /\ n <= Len(s)
  BY <1>2, <1>3, FS_Subset
<1>5. P \in SUBSET Nat
  BY <1>3, <1>1
<1> HIDE DEF P
<1>6. /\ f \in [1 .. n -> P] /\ Rising(f) /\ n \in Nat
      /\ \A x \in P : \E k \in 1 .. n : f[k] = x
  BY <1>4, <1>5, AscendingIs
<1>7. t = [k \in DOMAIN f |-> s[f[k]]]
  BY DEF Only, P
<1> HIDE DEF f, n, t
<1>8. DOMAIN f = 1 .. n
  BY <1>6
<1>9. t \in [1 .. n -> T]
  <2>1. \A k \in 1 .. n : s[f[k]] \in T
    <3> SUFFICES ASSUME NEW k \in 1 .. n PROVE s[f[k]] \in T
      OBVIOUS
    <3>1. f[k] \in 1 .. Len(s)
      BY <1>6, <1>3
    <3> QED BY <3>1
  <2> QED BY <2>1, <1>7, <1>8
<1>10. t \in Seq(T) /\ Len(t) = n
  BY <1>9, <1>6
<1>11. f \in [1 .. n -> 1 .. Len(s)]
  BY <1>6, <1>3
<1>12. \A k \in 1 .. n : t[k] = s[f[k]] /\ s[f[k]] \in S
  BY <1>6, <1>7, <1>8 DEF P
<1>13. \A i \in 1 .. Len(s) : s[i] \in S => \E k \in 1 .. n : f[k] = i
  BY <1>6, <1>1 DEF P
<1>14. Enumerates(f, s, S, t)
  BY <1>10, <1>11, <1>12, <1>13, <1>6 DEF Enumerates
<1>15. t \in Seq(T) /\ Len(t) <= Len(s) /\ \E g : Enumerates(g, s, S, t)
  BY <1>10, <1>4, <1>14
<1> QED
  BY <1>15 DEF t

\* Everything f takes as a value, g does.
Within(f, m, g, n) == \A k \in 1 .. m : \E l \in 1 .. n : g[l] = f[k]

\* Positions come in one order only.
LEMMA RisingUnique ==
    ASSUME NEW m \in Nat, NEW n \in Nat, NEW f \in [1 .. m -> Nat], NEW g \in [1 .. n -> Nat],
           Rising(f), Rising(g),
           Within(f, m, g, n), Within(g, n, f, m)
    PROVE  m = n /\ f = g
<1>1. \A i, j \in 1 .. m : i < j => f[i] < f[j]
  BY DEF Rising
<1>2. \A i, j \in 1 .. n : i < j => g[i] < g[j]
  BY DEF Rising
<1> DEFINE Bad == {k \in 1 .. m : ~(k \in 1 .. n /\ f[k] = g[k])}
<1>3. Bad = {}
  <2> SUFFICES ASSUME Bad # {} PROVE FALSE
    OBVIOUS
  <2>0. Bad \in SUBSET Nat
    OBVIOUS
  <2>1. PICK k \in Bad : \A j \in Bad : k <= j
    BY <2>0, LeastMember
  <2>2a. k \in 1 .. m /\ \A j \in 1 .. m : j < k => j \in 1 .. n /\ f[j] = g[j]
    BY <2>1
  <2>2. k \in 1 .. m /\ \A j \in 1 .. k - 1 : j \in 1 .. n /\ f[j] = g[j]
    BY <2>2a
  <2>3. PICK l \in 1 .. n : g[l] = f[k]
    BY <2>2 DEF Within
  <2>4. ~(l < k)
    BY <2>2, <2>3, <1>1
  <2>5. k \in 1 .. n
    BY <2>2, <2>3, <2>4
  <2>6. PICK j \in 1 .. m : f[j] = g[k]
    BY <2>5 DEF Within
  <2>7. ~(j < k)
    BY <2>2, <2>5, <2>6, <1>2
  <2>7a. j = k \/ k < j
    BY <2>7, <2>6, <2>2
  <2>7b. l = k \/ k < l
    BY <2>4, <2>3, <2>2
  <2>7c. f[k] \in Nat /\ f[j] \in Nat /\ g[k] \in Nat /\ g[l] \in Nat
    BY <2>2, <2>3, <2>5, <2>6
  <2>8a. f[k] <= f[j]
    BY <2>2, <2>6, <2>7a, <2>7c, <1>1
  <2>8b. g[k] <= g[l]
    BY <2>3, <2>5, <2>7b, <2>7c, <1>2
  <2>8. f[k] <= f[j] /\ g[k] <= g[l]
    BY <2>8a, <2>8b
  <2>9. f[k] = g[k]
    BY <2>3, <2>6, <2>7c, <2>8
  <2> QED BY <2>1, <2>5, <2>9
<1>4. \A k \in 1 .. m : k \in 1 .. n /\ f[k] = g[k]
  BY <1>3
<1>5. m <= n
  BY <1>4
<1>6. ~(m < n)
  <2> SUFFICES ASSUME m < n PROVE FALSE
    OBVIOUS
  <2>1. PICK k \in 1 .. m : f[k] = g[n]
    BY DEF Within
  <2>2. g[k] < g[n]
    BY <2>1, <1>2
  <2> QED BY <2>1, <2>2, <1>4
<1>7. m = n
  BY <1>5, <1>6
<1> QED
  BY <1>4, <1>7

\* Whatever lists the positions that hold members of S gives Only(s, S).
LEMMA OnlyUnique ==
    ASSUME NEW T, NEW s \in Seq(T), NEW S, NEW t \in Seq(T), NEW f, Enumerates(f, s, S, t)
    PROVE  t = Only(s, S)
<1>1. PICK u \in Seq(T) : u = Only(s, S)
  BY OnlyIs
<1>2. PICK g : Enumerates(g, s, S, u)
  BY <1>1, OnlyIs
<1>3. Len(t) \in Nat /\ Len(u) \in Nat /\ Len(s) \in Nat
  OBVIOUS
<1>4. /\ f \in [1 .. Len(t) -> Nat] /\ g \in [1 .. Len(u) -> Nat]
      /\ Rising(f) /\ Rising(g)
  BY <1>2, <1>3 DEF Enumerates
<1>5. Within(f, Len(t), g, Len(u))
  BY <1>2 DEF Enumerates, Within
<1>6. Within(g, Len(u), f, Len(t))
  BY <1>2 DEF Enumerates, Within
<1>7. Len(t) = Len(u) /\ f = g
  <2>1. PICK m \in Nat, n \in Nat : m = Len(t) /\ n = Len(u)
    BY <1>3
  <2>2. m = n /\ f = g
    BY <2>1, <1>4, <1>5, <1>6, RisingUnique
  <2> QED BY <2>1, <2>2
<1>8. \A k \in 1 .. Len(t) : t[k] = u[k]
  BY <1>2, <1>7 DEF Enumerates
<1>9. t = u
  BY <1>7, <1>8
<1> QED
  BY <1>1, <1>9

\* What Only keeps, in the terms the invariants use.
Filtered(t, s, S) ==
    /\ Len(t) <= Len(s)
    /\ \A k \in 1 .. Len(t) : t[k] \in S /\ \E i \in 1 .. Len(s) : t[k] = s[i]
    /\ \A i \in 1 .. Len(s) : s[i] \in S => \E k \in 1 .. Len(t) : t[k] = s[i]
    /\ \A k, l \in 1 .. Len(t) : k < l =>
        \E i, j \in 1 .. Len(s) : i < j /\ t[k] = s[i] /\ t[l] = s[j]

\* Only keeps the members of S, in their order.
LEMMA OnlyKeeps ==
    ASSUME NEW T, NEW s \in Seq(T), NEW S
    PROVE  Only(s, S) \in Seq(T) /\ Filtered(Only(s, S), s, S)
<1>0. PICK t : t = Only(s, S)
  OBVIOUS
<1>1. t \in Seq(T) /\ Len(t) <= Len(s)
  BY <1>0, OnlyIs
<1>2. PICK f : Enumerates(f, s, S, t)
  BY <1>0, OnlyIs
<1>3. /\ f \in [1 .. Len(t) -> 1 .. Len(s)]
      /\ \A i, j \in 1 .. Len(t) : i < j => f[i] < f[j]
      /\ \A k \in 1 .. Len(t) : t[k] = s[f[k]] /\ s[f[k]] \in S
      /\ \A i \in 1 .. Len(s) : s[i] \in S => \E k \in 1 .. Len(t) : f[k] = i
  BY <1>2 DEF Enumerates, Rising
<1>4. \A k \in 1 .. Len(t) : t[k] \in S /\ \E i \in 1 .. Len(s) : t[k] = s[i]
  BY <1>3
<1>5. \A i \in 1 .. Len(s) : s[i] \in S => \E k \in 1 .. Len(t) : t[k] = s[i]
  BY <1>3
<1>6. \A k, l \in 1 .. Len(t) : k < l =>
        \E i, j \in 1 .. Len(s) : i < j /\ t[k] = s[i] /\ t[l] = s[j]
  <2> SUFFICES ASSUME NEW k \in 1 .. Len(t), NEW l \in 1 .. Len(t), k < l
               PROVE  \E i, j \in 1 .. Len(s) : i < j /\ t[k] = s[i] /\ t[l] = s[j]
    OBVIOUS
  <2>1. f[k] \in 1 .. Len(s) /\ f[l] \in 1 .. Len(s) /\ f[k] < f[l]
          /\ t[k] = s[f[k]] /\ t[l] = s[f[l]]
    BY <1>3
  <2> QED BY <2>1
<1> QED
  BY <1>0, <1>1, <1>4, <1>5, <1>6 DEF Filtered

\* What is not in s does not matter.
LEMMA OnlySame ==
    ASSUME NEW T, NEW s \in Seq(T), NEW S, NEW R,
           \A i \in 1 .. Len(s) : s[i] \in S <=> s[i] \in R
    PROVE  Only(s, S) = Only(s, R)
<1>1. PICK f : Enumerates(f, s, S, Only(s, S))
  BY OnlyIs
<1>2. Only(s, S) \in Seq(T)
  BY OnlyIs
<1>3. Enumerates(f, s, R, Only(s, S))
  BY <1>1, <1>2 DEF Enumerates
<1> QED
  BY <1>2, <1>3, OnlyUnique

\* Choosing twice is choosing once.
LEMMA OnlyOnly ==
    ASSUME NEW T, NEW s \in Seq(T), NEW S, NEW R, R \subseteq S
    PROVE  Only(Only(s, S), R) = Only(s, R)
<1>1. PICK t \in Seq(T) : t = Only(s, S)
  BY OnlyIs
<1>2. PICK u \in Seq(T) : u = Only(t, R)
  BY OnlyIs
<1>3. PICK f : Enumerates(f, s, S, t)
  BY <1>1, OnlyIs
<1>4. PICK g : Enumerates(g, t, R, u)
  BY <1>2, OnlyIs
<1> DEFINE h == [k \in 1 .. Len(u) |-> f[g[k]]]
<1>5. /\ f \in [1 .. Len(t) -> 1 .. Len(s)]
      /\ \A i, j \in 1 .. Len(t) : i < j => f[i] < f[j]
      /\ \A k \in 1 .. Len(t) : t[k] = s[f[k]]
      /\ \A i \in 1 .. Len(s) : s[i] \in S => \E k \in 1 .. Len(t) : f[k] = i
  BY <1>3 DEF Enumerates, Rising
<1>6. /\ g \in [1 .. Len(u) -> 1 .. Len(t)]
      /\ \A i, j \in 1 .. Len(u) : i < j => g[i] < g[j]
      /\ \A k \in 1 .. Len(u) : u[k] = t[g[k]] /\ t[g[k]] \in R
      /\ \A i \in 1 .. Len(t) : t[i] \in R => \E k \in 1 .. Len(u) : g[k] = i
  BY <1>4 DEF Enumerates, Rising
<1>7. h \in [1 .. Len(u) -> 1 .. Len(s)]
  BY <1>5, <1>6
<1>8. \A i, j \in 1 .. Len(u) : i < j => h[i] < h[j]
  BY <1>5, <1>6
<1>9. \A k \in 1 .. Len(u) : u[k] = s[h[k]] /\ s[h[k]] \in R
  BY <1>5, <1>6
<1>10. \A i \in 1 .. Len(s) : s[i] \in R => \E k \in 1 .. Len(u) : h[k] = i
  <2> SUFFICES ASSUME NEW i \in 1 .. Len(s), s[i] \in R PROVE \E k \in 1 .. Len(u) : h[k] = i
    OBVIOUS
  <2>1. PICK j \in 1 .. Len(t) : f[j] = i
    BY <1>5
  <2>2. PICK k \in 1 .. Len(u) : g[k] = j
    BY <2>1, <1>5, <1>6
  <2> QED BY <2>1, <2>2
<1>11. Rising(h)
  BY <1>7, <1>8 DEF Rising
<1> HIDE DEF h
<1>12. Enumerates(h, s, R, u)
  BY <1>7, <1>9, <1>10, <1>11 DEF Enumerates
<1> QED
  BY <1>1, <1>2, <1>12, OnlyUnique

\* An element more at the end.
LEMMA OnlyAppend ==
    ASSUME NEW T, NEW s \in Seq(T), NEW S, NEW x \in T
    PROVE  Only(Append(s, x), S) = IF x \in S THEN Append(Only(s, S), x) ELSE Only(s, S)
<1>1. PICK t \in Seq(T) : t = Only(s, S)
  BY OnlyIs
<1>2. PICK f : Enumerates(f, s, S, t)
  BY <1>1, OnlyIs
<1>3. /\ f \in [1 .. Len(t) -> 1 .. Len(s)]
      /\ \A i, j \in 1 .. Len(t) : i < j => f[i] < f[j]
      /\ \A k \in 1 .. Len(t) : t[k] = s[f[k]] /\ s[f[k]] \in S
      /\ \A i \in 1 .. Len(s) : s[i] \in S => \E k \in 1 .. Len(t) : f[k] = i
      /\ DOMAIN f = 1 .. Len(t)
  BY <1>2 DEF Enumerates, Rising
<1>4a. Append(s, x) \in Seq(T)
  OBVIOUS
<1>4. PICK a \in Seq(T) : a = Append(s, x)
  BY <1>4a
<1>5. /\ Len(a) = Len(s) + 1 /\ a[Len(s) + 1] = x
      /\ \A i \in 1 .. Len(s) : a[i] = s[i]
  BY <1>4
<1>6. Len(s) \in Nat /\ Len(t) \in Nat
  OBVIOUS
<1>7. CASE x \notin S
  <2>1. f \in [1 .. Len(t) -> 1 .. Len(a)]
    BY <1>3, <1>5, <1>6
  <2>2. \A k \in 1 .. Len(t) : t[k] = a[f[k]] /\ a[f[k]] \in S
    BY <1>3, <1>5
  <2>3. \A i \in 1 .. Len(a) : a[i] \in S => \E k \in 1 .. Len(t) : f[k] = i
    <3> SUFFICES ASSUME NEW i \in 1 .. Len(a), a[i] \in S PROVE \E k \in 1 .. Len(t) : f[k] = i
      OBVIOUS
    <3>1. i \in 1 .. Len(s)
      BY <1>5, <1>6, <1>7
    <3> QED BY <3>1, <1>3, <1>5
  <2>4. Enumerates(f, a, S, t)
    BY <2>1, <2>2, <2>3, <1>2 DEF Enumerates
  <2>5. t = Only(a, S)
    BY <2>4, OnlyUnique
  <2> QED BY <2>5, <1>7, <1>1, <1>4
<1>8. CASE x \in S
  <2>0. Append(t, x) \in Seq(T)
    OBVIOUS
  <2>1. PICK u \in Seq(T) : u = Append(t, x)
    BY <2>0
  <2>2. /\ Len(u) = Len(t) + 1 /\ u[Len(t) + 1] = x
        /\ \A i \in 1 .. Len(t) : u[i] = t[i]
    BY <2>1
  <2> DEFINE g == [k \in 1 .. Len(u) |-> IF k = Len(u) THEN Len(a) ELSE f[k]]
  <2>3. \A k \in 1 .. Len(t) : g[k] = f[k] /\ g[k] \in 1 .. Len(s)
    BY <2>2, <1>3, <1>6
  <2>4. g[Len(u)] = Len(a) /\ DOMAIN g = 1 .. Len(u)
    BY <2>2, <1>6
  <2>4a. \A k \in 1 .. Len(u) : k \in 1 .. Len(t) \/ k = Len(u)
    BY <2>2, <1>6
  <2> HIDE DEF g
  <2>5. \A k \in 1 .. Len(u) : g[k] \in 1 .. Len(a)
    BY <2>3, <2>4, <2>4a, <1>5, <1>6
  <2>6. \A i, j \in 1 .. Len(u) : i < j => g[i] < g[j]
    <3> SUFFICES ASSUME NEW i \in 1 .. Len(u), NEW j \in 1 .. Len(u), i < j PROVE g[i] < g[j]
      OBVIOUS
    <3>1. i \in 1 .. Len(t)
      BY <2>2, <1>6
    <3>2. CASE j \in 1 .. Len(t)
      BY <3>1, <3>2, <2>3, <1>3
    <3>3. CASE j = Len(u)
      BY <3>1, <3>3, <2>3, <2>4, <1>5, <1>6
    <3> QED BY <3>2, <3>3, <2>4a
  <2>7. \A k \in 1 .. Len(u) : u[k] = a[g[k]] /\ a[g[k]] \in S
    <3> SUFFICES ASSUME NEW k \in 1 .. Len(u) PROVE u[k] = a[g[k]] /\ a[g[k]] \in S
      OBVIOUS
    <3>1. CASE k \in 1 .. Len(t)
      BY <3>1, <2>2, <2>3, <1>3, <1>5
    <3>2. CASE k = Len(u)
      BY <3>2, <2>2, <2>4, <1>5, <1>8
    <3> QED BY <3>1, <3>2, <2>4a
  <2>8. \A i \in 1 .. Len(a) : a[i] \in S => \E k \in 1 .. Len(u) : g[k] = i
    <3> SUFFICES ASSUME NEW i \in 1 .. Len(a), a[i] \in S PROVE \E k \in 1 .. Len(u) : g[k] = i
      OBVIOUS
    <3>1. CASE i = Len(a)
      BY <3>1, <2>4, <2>2, <1>6
    <3>2. CASE i # Len(a)
      <4>1. i \in 1 .. Len(s)
        BY <3>2, <1>5, <1>6
      <4>2. PICK k \in 1 .. Len(t) : f[k] = i
        BY <4>1, <1>3, <1>5
      <4> QED BY <4>2, <2>3, <2>2, <1>6
    <3> QED BY <3>1, <3>2
  <2>9. g \in [1 .. Len(u) -> 1 .. Len(a)]
    <3>1. g = [k \in 1 .. Len(u) |-> g[k]]
      BY DEF g
    <3> QED BY <3>1, <2>5
  <2>10. Enumerates(g, a, S, u)
    BY <2>4, <2>6, <2>7, <2>8, <2>9 DEF Enumerates, Rising
  <2>11. u = Only(a, S)
    BY <2>10, OnlyUnique
  <2> QED BY <2>11, <2>1, <1>8, <1>1, <1>4
<1> QED
  BY <1>7, <1>8

\* Without the first element that was chosen.
LEMMA OnlyTail ==
    ASSUME NEW T, NEW s \in Seq(T), NEW S, NEW R, Only(s, S) # <<>>,
           \A i \in 1 .. Len(s) : s[i] \in R <=> s[i] \in S /\ s[i] # Head(Only(s, S)),
           \A i, j \in 1 .. Len(s) : s[i] \in S /\ s[i] = s[j] => i = j
    PROVE  Only(s, R) = Tail(Only(s, S))
<1>1. PICK t \in Seq(T) : t = Only(s, S)
  BY OnlyIs
<1>2. PICK f : Enumerates(f, s, S, t)
  BY <1>1, OnlyIs
<1>3. /\ f \in [1 .. Len(t) -> 1 .. Len(s)]
      /\ \A i, j \in 1 .. Len(t) : i < j => f[i] < f[j]
      /\ \A k \in 1 .. Len(t) : t[k] = s[f[k]] /\ s[f[k]] \in S
      /\ \A i \in 1 .. Len(s) : s[i] \in S => \E k \in 1 .. Len(t) : f[k] = i
  BY <1>2 DEF Enumerates, Rising
<1>4a. Tail(t) \in Seq(T)
  BY <1>1
<1>4. PICK u \in Seq(T) : u = Tail(t)
  BY <1>4a
<1>5. Len(t) \in Nat /\ Len(t) > 0 /\ Len(s) \in Nat
  BY <1>1
<1>6. Len(u) = Len(t) - 1 /\ \A k \in 1 .. Len(u) : u[k] = t[k + 1]
  BY <1>4, <1>5
<1> DEFINE g == [k \in 1 .. Len(u) |-> f[k + 1]]
<1>7a. \A k \in 1 .. Len(u) : k + 1 \in 1 .. Len(t)
  BY <1>5, <1>6
<1>7. \A k \in 1 .. Len(u) : k + 1 \in 1 .. Len(t) /\ g[k] = f[k + 1] /\ f[k + 1] \in 1 .. Len(s)
  BY <1>3, <1>7a
<1>8. g \in [1 .. Len(u) -> 1 .. Len(s)]
  BY <1>7
<1> HIDE DEF g
<1>9. \A i, j \in 1 .. Len(u) : i < j => g[i] < g[j]
  <2> SUFFICES ASSUME NEW i \in 1 .. Len(u), NEW j \in 1 .. Len(u), i < j PROVE g[i] < g[j]
    OBVIOUS
  <2>1. i + 1 \in 1 .. Len(t) /\ j + 1 \in 1 .. Len(t) /\ i + 1 < j + 1
    BY <1>7
  <2> QED BY <2>1, <1>3, <1>7
<1>10. Head(t) = t[1] /\ 1 \in 1 .. Len(t)
  BY <1>5
<1>11. \A k \in 1 .. Len(u) : u[k] = s[g[k]] /\ s[g[k]] \in R
  <2> SUFFICES ASSUME NEW k \in 1 .. Len(u) PROVE u[k] = s[g[k]] /\ s[g[k]] \in R
    OBVIOUS
  <2>1. k + 1 \in 1 .. Len(t) /\ g[k] = f[k + 1] /\ 1 < k + 1
    BY <1>7
  <2>2. f[1] < f[k + 1]
    BY <2>1, <1>3, <1>10
  <2>3. f[1] \in 1 .. Len(s) /\ f[k + 1] \in 1 .. Len(s) /\ s[f[1]] \in S /\ s[f[k + 1]] \in S
    BY <2>1, <1>3, <1>10
  <2>4. s[f[1]] # s[f[k + 1]]
    BY <2>2, <2>3
  <2>5. s[f[k + 1]] \in R
    BY <2>3, <2>4, <1>1, <1>3, <1>10
  <2> QED BY <2>1, <2>5, <1>3, <1>6
<1>12. \A i \in 1 .. Len(s) : s[i] \in R => \E k \in 1 .. Len(u) : g[k] = i
  <2> SUFFICES ASSUME NEW i \in 1 .. Len(s), s[i] \in R PROVE \E k \in 1 .. Len(u) : g[k] = i
    OBVIOUS
  <2>1. s[i] \in S /\ s[i] # t[1]
    BY <1>1, <1>10
  <2>2. PICK k \in 1 .. Len(t) : f[k] = i
    BY <2>1, <1>3
  <2>3. k # 1
    BY <2>1, <2>2, <1>3
  <2>4. k - 1 \in 1 .. Len(u) /\ (k - 1) + 1 = k
    BY <2>3, <1>5, <1>6
  <2> QED BY <2>2, <2>4, <1>7
<1>13. Enumerates(g, s, R, u)
  <2>1. DOMAIN g = 1 .. Len(u)
    BY <1>8
  <2> QED BY <2>1, <1>8, <1>9, <1>11, <1>12 DEF Enumerates, Rising
<1>14. u = Only(s, R)
  BY <1>13, OnlyUnique
<1> QED
  BY <1>1, <1>4, <1>14

-----------------------------------------------------------------------------
(***************************************************************************)
(* The invariants.                                                         *)
(***************************************************************************)
Popped(c) == disp.ctx = c /\ disp.obj # None
Aux(o) == o.type \in {"bind", "timeline"}

\* Where the dispatcher is and what it has in its hands.
ControlOf(d, m) ==
    /\ m = None <=> d.pc = "off"
    /\ d.obj # None <=> d.pc \in {"send", "back"}
    /\ d.ctx # None <=> d.pc \in {"next", "send", "back", "end"}
    /\ d.held = TRUE => d.pc = "next"
    /\ d.pc = "back" => d.ret \in {"ENOSPC", "EBUSY", "EINVAL"}
    /\ d.lvl <= NLevels
    /\ d.pc \notin {"off", "level"} => d.lvl < NLevels
    /\ d.pc \in {"off", "level"} => d.list = <<>>

Control ==
    /\ ControlOf(disp, mutex)
    /\ disp.pc = "end" /\ disp.ret = "ENOENT" => bits[disp.ctx] # {}

\* Jobs are on the lists of their level.
JobLevels ==
    /\ \A l \in Levels : \A i \in 1 .. Len(jobs[l]) : Level[jobs[l][i]] = l
    /\ \A l \in Levels : \A i \in 1 .. Len(requeue[l]) : Level[requeue[l][i]] = l
    /\ \A i \in 1 .. Len(disp.list) : Level[disp.list[i]] = disp.lvl
    /\ disp.ctx # None => Level[disp.ctx] = disp.lvl

\* The thread that holds the mutex dispatches.
Holder == \A p \in Threads : mutex = p => pc[p] = "issuing"

\* JobListed, where the dispatcher's list and its current context count only
\* when it is going to look at the queue again.
In(c, s) == \E i \in 1 .. Len(s) : s[i] = c
InHand(c, d) == d.ctx = c /\ ~(d.pc = "end" /\ (d.ret = "ENOENT" \/ (d.ret = "none" /\ d.count = 0)))

Listed(c) ==
    \/ In(c, jobs[Level[c]]) \/ In(c, requeue[Level[c]])
    \/ In(c, disp.list) /\ c \notin disp.seen
    \/ InHand(c, disp)
    \/ \E p \in Threads : CtxOf(p) = c /\ pc[p] = "queued"

WorkListed == \A c \in Ctx : bits[c] = {} /\ queue[c] # <<>> => Listed(c)

\* What a thread that waits is going to queue.
BatchShape(os) ==
    /\ Len(os) \in 1 .. DrawqueueSize - 2
    /\ \A i \in 1 .. Len(os) - 1 : os[i].type = "sync"
    /\ \A i \in 1 .. Len(os) : os[i].ts = 0 /\ os[i].state = "wait"
    /\ Aux(os[Len(os)]) => Len(os) > 1

BatchesKept ==
    \A p \in Threads : pc[p] \in {"queue", "sleep", "woken"} => BatchShape(batch[p])

\* The queue is not longer than its counter.
QueuedCounts == \A c \in Ctx : Len(queue[c]) <= queued[c]

\* A context is marked before it is detached.
Marked == \A c \in Ctx : "DETACHED" \in bits[c] <=> dpc[c] # "live"

\* The queue of a context that is drained or invalid is empty.
Drained ==
    \A c \in Ctx : dpc[c] \in {"drained", "done"} \/ "INVALID" \in bits[c] => queue[c] = <<>>

\* The GMU runs nothing of a context that is gone, unless the reset is on its way.
Stopped ==
    /\ \A c \in Ctx : dpc[c] = "done" /\ gmu[c] # <<>> => fault # {}
    /\ fault # {} => work

\* Without hardware fences no expired marker is sent.
NoExpired ==
    TRUE \notin HwFence =>
        /\ \A c \in Ctx : \A j \in 1 .. Len(queue[c]) : queue[c][j].state # "expired"
        /\ disp.obj # None => disp.obj.state # "expired"

\* What is counted, and the idle gate.
Gate ==
    /\ Len(cmdList) <= inflight
    /\ TRUE \notin HwFence => inflight = Len(cmdList)
    /\ inflight > 0 => power /\ active
    /\ ipc \in {"queued", "flush", "gate", "gated"} => halt
    /\ ipc \in {"gated", "idle"} => inflight = 0

-----------------------------------------------------------------------------
(***************************************************************************)
(* What the operations do.                                                 *)
(***************************************************************************)
\* The job the dispatcher takes next.
Wanted(c, seen) == ~kgsl_context_is_bad(c) /\ c \notin seen

TakesNone(list, seen, d) ==
    /\ \A i \in 1 .. Len(list) : ~Wanted(list[i], seen)
    /\ d = [NoDisp EXCEPT !.pc = "level", !.lvl = disp.lvl + 1]

Takes(list, seen, d) ==
    \E i \in 1 .. Len(list) :
        /\ Wanted(list[i], seen) /\ \A j \in 1 .. i - 1 : ~Wanted(list[j], seen)
        /\ d = [NoDisp EXCEPT !.pc = "next", !.lvl = disp.lvl, !.ctx = list[i],
                              !.list = SubSeq(list, i + 1, Len(list)),
                              !.seen = seen \cup {list[i]}]

\* NextJob drops jobs of bad and of seen contexts and takes the first other one.
LEMMA NextJobTakes ==
    ASSUME NEW list \in Seq(Ctx), NEW seen
    PROVE  TakesNone(list, seen, NextJob(list, seen)) \/ Takes(list, seen, NextJob(list, seen))
<1> DEFINE I == {i \in 1 .. Len(list) : Wanted(list[i], seen)}
           n == IF I # {} THEN Min(I) ELSE 0
<1>1. NextJob(list, seen) =
        IF n = 0
        THEN [NoDisp EXCEPT !.pc = "level", !.lvl = disp.lvl + 1]
        ELSE [NoDisp EXCEPT !.pc = "next", !.lvl = disp.lvl, !.ctx = list[n],
                            !.list = SubSeq(list, n + 1, Len(list)),
                            !.seen = seen \cup {list[n]}]
  BY DEF NextJob, SelectInSeq, Wanted
<1>2. I \in SUBSET Nat /\ Len(list) \in Nat
  OBVIOUS
<1>3. CASE I = {}
  BY <1>1, <1>3 DEF TakesNone
<1>4. CASE I # {}
  <2>1. \E m \in I : \A k \in I : m <= k
    BY <1>2, <1>4, LeastMember
  <2>2. Min(I) \in I /\ \A k \in I : Min(I) <= k
    BY <2>1 DEF Min
  <2>3. n \in I /\ \A k \in I : n <= k
    BY <2>2, <1>4
  <2> HIDE DEF n
  <2>4. n \in 1 .. Len(list) /\ Wanted(list[n], seen)
    BY <2>3
  <2>5. \A j \in 1 .. n - 1 : ~Wanted(list[j], seen)
    <3> SUFFICES ASSUME NEW j \in 1 .. n - 1, Wanted(list[j], seen) PROVE FALSE
      OBVIOUS
    <3>1. j \in 1 .. Len(list) /\ ~(n <= j)
      BY <2>4, <1>2
    <3>2. j \in I
      BY <3>1
    <3> QED BY <3>1, <3>2, <2>3
  <2>6. n # 0
    BY <2>4
  <2> QED BY <1>1, <2>4, <2>5, <2>6 DEF Takes
<1> QED
  BY <1>3, <1>4

\* What a submitting thread leaves alone.
SubmitRest ==
    UNCHANGED <<listVars, mutex, work, disp, schedVars, faultVars, halt, dpc, ipc, boundVars>>

\* The context is bad: nothing is queued.
Refused(p) == Return(p) /\ UNCHANGED <<ctxVars, gpuVars>>

\* There is no room.
Sleeps(p, os) ==
    /\ pc' = [pc EXCEPT ![p] = "sleep"]
    /\ batch' = [batch EXCEPT ![p] = os]
    /\ sig' = [sig EXCEPT ![p] = TRUE]
    /\ UNCHANGED <<ctxVars, gpuVars>>

\* A marker retires at once.
Fast(p) ==
    /\ Good(CtxOf(p)) /\ queued[CtxOf(p)] = 0 /\ eop[CtxOf(p)] >= queuedTs[CtxOf(p)]
    /\ FastMarker(p)

\* o is q, but for the skip bit.
Alike(o, q) == o.type = q.type /\ o.ts = q.ts /\ o.mts = q.mts /\ o.state = q.state

\* o is the object k of those that a thread queues on context c.
Fresh(c, o, os, k) ==
    /\ k \in 1 .. Len(os) /\ o.type = os[k].type /\ o.state = "wait"
    /\ k < Len(os) => o.type = "sync"
    /\ o.type = "sync" => o.ts = 0 /\ o.mts = os[k].mts
    /\ o.type # "sync" => o.ts = timestamp[c] + 1
    /\ o.type = "marker" => o.mts = queuedTs[c]

\* The objects os go to the tail of the ring of c, of which d objects are lost.
Tailed(c, os, r, d) ==
    /\ r \in Seq(Objects) /\ d \in {0, DrawqueueSize}
    /\ Len(r) = Len(queue[c]) + Len(os) - d
    /\ d = 0 <=> Len(queue[c]) + Len(os) < DrawqueueSize
    /\ \A j \in 1 .. Len(r) :
        /\ j + d <= Len(queue[c]) => Alike(r[j], queue[c][j + d])
        /\ j + d > Len(queue[c]) => Fresh(c, r[j], os, j + d - Len(queue[c]))

Stamp(c, os) == IF os[Len(os)].type = "sync" THEN 0 ELSE timestamp[c] + 1

Enqueues(p, os) ==
    LET c == CtxOf(p) IN
    /\ Good(c)
    /\ pc[p] = "woken" \/ queued[c] + Len(os) <= DrawqueueSize - 2
    /\ \E r, d : Tailed(c, os, r, d) /\ queue' = [queue EXCEPT ![c] = r]
    /\ queued' = [queued EXCEPT ![c] = @ + Len(os)]
    /\ IF Stamp(c, os) = 0
       THEN UNCHANGED <<timestamp, queuedTs>>
       ELSE /\ timestamp' = [timestamp EXCEPT ![c] = @ + 1]
            /\ queuedTs' = [queuedTs EXCEPT ![c] = timestamp[c] + 1]
    /\ pc' = [pc EXCEPT ![p] = "queued"]
    /\ batch' = [batch EXCEPT ![p] = <<>>]
    /\ sig' = [sig EXCEPT ![p] = FALSE]
    /\ UNCHANGED <<bits, gpuVars>>

\* The ring after the objects have been put at its tail.
LEMMA PutTailIs ==
    ASSUME NEW c \in Ctx, NEW q \in Seq(Objects), q = queue[c],
           NEW os \in Seq(Objects), BatchShape(os), timestamp[c] \in Nat, queuedTs[c] \in Nat,
           NEW old \in Seq(Objects), Len(old) = Len(q),
           \A i \in 1 .. Len(q) : Alike(old[i], q[i]),
           NEW new \in Seq(Objects), Len(new) = Len(os),
           \A k \in 1 .. Len(os) : Fresh(c, new[k], os, k)
    PROVE  \E d : Tailed(c, os, PutTail(old, new), d)
<1> DEFINE n == Len(os)
           m == Len(q)
           D == DrawqueueSize
<1>1. D \in Nat /\ D > 2 /\ n \in Nat /\ m \in Nat /\ n >= 1 /\ n <= D - 2
  BY HwschedAssumption DEF BatchShape
<1>2. PICK full \in Seq(Objects) : full = old \o new
  <2>1. old \o new \in Seq(Objects)
    OBVIOUS
  <2> QED BY <2>1
<1>3. /\ Len(full) = m + n
      /\ \A i \in 1 .. m : full[i] = old[i]
      /\ \A i \in 1 .. m + n : i > m => full[i] = new[i - m]
  <2>1. Len(old) = m /\ Len(new) = n
    OBVIOUS
  <2>2. Len(full) = Len(old) + Len(new)
    BY <1>2, ConcatProperties
  <2>3. \A i \in 1 .. Len(old) + Len(new) : full[i] = IF i <= Len(old) THEN old[i] ELSE new[i - Len(old)]
    BY <1>2
  <2> HIDE DEF m, n
  <2>4. \A i \in 1 .. m + n : full[i] = IF i <= m THEN old[i] ELSE new[i - m]
    BY <2>1, <2>3
  <2>5. /\ \A i \in 1 .. m : i \in 1 .. m + n /\ i <= m
        /\ \A i \in 1 .. m + n : i > m => ~(i <= m)
    BY <1>1
  <2> QED BY <2>1, <2>2, <2>4, <2>5
<1>4. \A i \in 1 .. m + n :
        /\ i <= m => Alike(full[i], q[i])
        /\ i > m => Fresh(c, full[i], os, i - m)
  <2> SUFFICES ASSUME NEW i \in 1 .. m + n
               PROVE  /\ i <= m => Alike(full[i], q[i])
                      /\ i > m => Fresh(c, full[i], os, i - m)
    OBVIOUS
  <2>1. i <= m => i \in 1 .. m
    OBVIOUS
  <2>2. i > m => i - m \in 1 .. n
    BY <1>1
  <2> QED BY <2>1, <2>2, <1>3
<1>5. CASE m + n < D
  <2>1. PutTail(old, new) = full
    BY <1>2, <1>5 DEF PutTail
  <2>2. \A j \in 1 .. m + n : j + 0 = j
    BY <1>1
  <2>3. Tailed(c, os, full, 0)
    BY <1>1, <1>3, <1>4, <1>5, <2>2 DEF Tailed
  <2> QED BY <2>1, <2>3
<1>6. CASE ~(m + n < D)
  <2>1. PICK r : r = SubSeq(full, D + 1, m + n)
    OBVIOUS
  <2>2. PutTail(old, new) = r
    BY <1>2, <1>6, <2>1 DEF PutTail
  <2>3. r \in Seq(Objects) /\ Len(r) = m + n - D /\ \A j \in 1 .. Len(r) : r[j] = full[j + D]
    BY <1>1, <1>3, <1>6, <2>1
  <2>4. \A j \in 1 .. Len(r) : j + D \in 1 .. m + n
    BY <1>1, <2>3
  <2>5. \A j \in 1 .. Len(r) :
          /\ j + D <= m => Alike(r[j], q[j + D])
          /\ j + D > m => Fresh(c, r[j], os, j + D - m)
    <3> SUFFICES ASSUME NEW j \in 1 .. Len(r)
                 PROVE  /\ j + D <= m => Alike(r[j], q[j + D])
                        /\ j + D > m => Fresh(c, r[j], os, j + D - m)
      OBVIOUS
    <3>1. PICK i \in 1 .. m + n : i = j + D
      BY <2>4
    <3>2. r[j] = full[i]
      BY <2>3, <3>1
    <3>3. /\ i <= m => Alike(full[i], q[i])
          /\ i > m => Fresh(c, full[i], os, i - m)
      BY <1>4
    <3>4. j + D = i /\ j + D - m = i - m
      BY <3>1, <1>1
    <3> QED BY <3>2, <3>3, <3>4
  <2>6. Tailed(c, os, r, D)
    <3>1. /\ Len(r) = Len(queue[c]) + Len(os) - D
          /\ D = 0 <=> Len(queue[c]) + Len(os) < D
      BY <1>1, <1>6, <2>3
    <3>2. \A j \in 1 .. Len(r) :
            /\ j + D <= Len(queue[c]) => Alike(r[j], queue[c][j + D])
            /\ j + D > Len(queue[c]) => Fresh(c, r[j], os, j + D - Len(queue[c]))
      BY <2>5
    <3> QED BY <2>3, <3>1, <3>2 DEF Tailed
  <2> QED BY <2>2, <2>6
<1> QED
  BY <1>5, <1>6

\* What _queue_drawobj does for the objects of a thread.
LEMMA QueueObjsIs ==
    ASSUME TypeOK, NEW c \in Ctx, NEW os \in Seq(Objects), BatchShape(os), QueueObjs(c, os)
    PROVE  /\ \E r, d : Tailed(c, os, r, d) /\ queue' = [queue EXCEPT ![c] = r]
           /\ queued' = [queued EXCEPT ![c] = @ + Len(os)]
           /\ IF Stamp(c, os) = 0
              THEN UNCHANGED <<timestamp, queuedTs>>
              ELSE /\ timestamp' = [timestamp EXCEPT ![c] = @ + 1]
                   /\ queuedTs' = [queuedTs EXCEPT ![c] = timestamp[c] + 1]
<1> DEFINE q == queue[c]
           ts == IF Last(os).type = "sync" THEN 0 ELSE timestamp[c] + 1
           old == IF Last(os).type \in {"cmd", "big"}
                  THEN [i \in DOMAIN q |->
                          IF q[i].type = "marker" THEN [q[i] EXCEPT !.skip = TRUE] ELSE q[i]]
                  ELSE q
           new == [i \in DOMAIN os |->
                     CASE os[i].type = "sync" -> os[i]
                       [] os[i].type = "marker" -> Obj("marker", ts, queuedTs[c])
                       [] OTHER -> [os[i] EXCEPT !.ts = ts]]
<1>1. /\ q \in Seq(Objects) /\ Len(q) \in Nat /\ DOMAIN q = 1 .. Len(q)
      /\ timestamp[c] \in Nat /\ queuedTs[c] \in Nat
      /\ Len(os) \in Nat /\ DOMAIN os = 1 .. Len(os)
  <2>1. /\ queue \in [Ctx -> Seq(Objects)]
        /\ timestamp \in [Ctx -> Nat] /\ queuedTs \in [Ctx -> Nat]
    BY DEF TypeOK
  <2>2. q \in Seq(Objects) /\ timestamp[c] \in Nat /\ queuedTs[c] \in Nat
    BY <2>1
  <2> HIDE DEF q
  <2> QED BY <2>2
<1>2. ts = Stamp(c, os) /\ ts \in Nat
  BY <1>1 DEF Last, Stamp
<1>3. /\ queue' = [queue EXCEPT ![c] = PutTail(old, new)]
      /\ queued' = [queued EXCEPT ![c] = @ + Len(new)]
      /\ IF ts = 0
         THEN UNCHANGED <<timestamp, queuedTs>>
         ELSE /\ timestamp' = [timestamp EXCEPT ![c] = ts]
              /\ queuedTs' = [queuedTs EXCEPT ![c] = ts]
  BY DEF QueueObjs
<1>4. old \in Seq(Objects) /\ Len(old) = Len(q) /\ \A i \in 1 .. Len(q) : Alike(old[i], q[i])
  <2> DEFINE f == [i \in 1 .. Len(q) |->
                     IF q[i].type = "marker" THEN [q[i] EXCEPT !.skip = TRUE] ELSE q[i]]
  <2>1. \A i \in 1 .. Len(q) : q[i] \in Objects
    BY <1>1
  <2>2. \A i \in 1 .. Len(q) : f[i] \in Objects /\ Alike(f[i], q[i])
    BY <2>1 DEF Objects, Alike
  <2>3. f \in Seq(Objects) /\ Len(f) = Len(q)
    <3>1. f \in [1 .. Len(q) -> Objects]
      BY <2>2
    <3> HIDE DEF f
    <3> QED BY <1>1, <3>1
  <2>4. old = f \/ old = q
    BY <1>1
  <2>5. \A i \in 1 .. Len(q) : Alike(q[i], q[i])
    BY DEF Alike
  <2> QED BY <1>1, <2>2, <2>3, <2>4, <2>5
<1>5. new \in Seq(Objects) /\ Len(new) = Len(os) /\ \A k \in 1 .. Len(os) : Fresh(c, new[k], os, k)
  <2>1. \A k \in 1 .. Len(os) : os[k] \in Objects
    BY <1>1
  <2>2. os[Len(os)].type # "sync" => ts = timestamp[c] + 1
    BY DEF Last
  <2> HIDE DEF ts
  <2>3. \A k \in 1 .. Len(os) : new[k] \in Objects /\ Fresh(c, new[k], os, k)
    <3> SUFFICES ASSUME NEW k \in 1 .. Len(os) PROVE new[k] \in Objects /\ Fresh(c, new[k], os, k)
      OBVIOUS
    <3>1. os[k] \in Objects /\ os[k].ts = 0 /\ os[k].state = "wait"
      BY <2>1 DEF BatchShape
    <3>2. k < Len(os) => os[k].type = "sync"
      BY <1>1 DEF BatchShape
    <3>3. os[k].type # "sync" => ts = timestamp[c] + 1
      BY <1>1, <2>2, <3>2
    <3>4. CASE os[k].type = "sync"
      BY <1>1, <3>1, <3>4 DEF Fresh
    <3>5. CASE os[k].type = "marker"
      <4>1. new[k] = Obj("marker", ts, queuedTs[c])
        BY <1>1, <3>5
      <4>2. new[k] \in Objects
        BY <4>1, <1>1, <1>2, <3>1 DEF Obj, Objects, Types
      <4> QED BY <1>1, <3>2, <3>3, <3>5, <4>1, <4>2 DEF Fresh, Obj
    <3>6. CASE os[k].type \notin {"sync", "marker"}
      <4>1. new[k] = [os[k] EXCEPT !.ts = ts]
        BY <1>1, <3>6
      <4>2. new[k] \in Objects
        <5>1. PICK o \in Objects : o = os[k]
          BY <3>1
        <5>2. [o EXCEPT !.ts = ts] \in Objects
          BY <1>2 DEF Objects
        <5> QED BY <4>1, <5>1, <5>2
      <4>3. /\ new[k].type = os[k].type /\ new[k].ts = ts /\ new[k].mts = os[k].mts
            /\ new[k].state = os[k].state
        BY <4>1, <3>1 DEF Objects
      <4> QED BY <1>1, <3>1, <3>2, <3>3, <3>6, <4>2, <4>3 DEF Fresh
    <3> QED BY <3>4, <3>5, <3>6
  <2>4. new \in Seq(Objects) /\ Len(new) = Len(os)
    BY <1>1, <2>3
  <2> QED BY <2>3, <2>4
<1>6. PICK d : Tailed(c, os, PutTail(old, new), d)
  <2> HIDE DEF old, new, q
  <2>1. q = queue[c]
    BY DEF q
  <2> QED BY <2>1, <1>1, <1>4, <1>5, PutTailIs
<1> HIDE DEF old, new
<1>7. ts # 0 => ts = timestamp[c] + 1
  OBVIOUS
<1> QED
  BY <1>2, <1>3, <1>5, <1>6, <1>7

\* With room in the queue, a marker retires at once or the objects are queued.
LEMMA QueueCmdsCases ==
    ASSUME TypeOK, NEW p \in Threads, NEW os \in Seq(Objects), BatchShape(os),
           Good(CtxOf(p)),
           pc[p] = "woken" \/ queued[CtxOf(p)] + Len(os) <= DrawqueueSize - 2,
           QueueCmds(p, os)
    PROVE  Fast(p) \/ Enqueues(p, os)
<1>1. CtxOf(p) \in Ctx
  BY DEF CtxOf, Threads
<1>2. CASE os[1].type = "marker" /\ queued[CtxOf(p)] = 0 /\ kgsl_check_timestamp(CtxOf(p), queuedTs[CtxOf(p)])
  BY <1>2 DEF QueueCmds, Fast, kgsl_check_timestamp
<1>3. CASE ~(os[1].type = "marker" /\ queued[CtxOf(p)] = 0 /\ kgsl_check_timestamp(CtxOf(p), queuedTs[CtxOf(p)]))
  <2>1. /\ QueueObjs(CtxOf(p), os)
        /\ pc' = [pc EXCEPT ![p] = "queued"]
        /\ batch' = [batch EXCEPT ![p] = <<>>]
        /\ sig' = [sig EXCEPT ![p] = FALSE]
        /\ UNCHANGED <<bits, gpuVars>>
    BY <1>3 DEF QueueCmds
  <2> QED BY <1>1, <2>1, QueueObjsIs DEF Enqueues
<1> QED
  BY <1>2, <1>3

\* What a thread brings: the batch it has waited with, or a new one.
Offers(p, os) ==
    /\ os \in Seq(Objects) /\ BatchShape(os)
    /\ \/ pc[p] \in {"queue", "woken"} /\ os = batch[p]
       \/ pc[p] = "idle" /\ ~Aux(os[Len(os)]) /\ \A i \in 1 .. Len(os) : os[i].mts = 0

SubmitOutcome(p) ==
    /\ CtxOf(p) \in Ctx /\ LockFree(CtxOf(p)) /\ SubmitRest
    /\ pc[p] \in {"idle", "queue", "woken"}
    /\ \/ Refused(p)
       \/ \E os : Offers(p, os) /\ pc[p] # "woken" /\ Sleeps(p, os)
       \/ Fast(p)
       \/ \E os : Offers(p, os) /\ Enqueues(p, os)

\* The outcomes of adreno_hwsched_queue_cmds ...
LEMMA QueueCmdsOutcome ==
    ASSUME TypeOK, NEW p \in Threads, NEW os, Offers(p, os), pc[p] # "woken",
           adreno_hwsched_queue_cmds(p, os)
    PROVE  SubmitOutcome(p)
<1>1. CtxOf(p) \in Ctx
  BY DEF CtxOf, Threads
<1>2. LockFree(CtxOf(p)) /\ SubmitRest
  BY DEF adreno_hwsched_queue_cmds, SubmitRest
<1>3. pc[p] \in {"idle", "queue", "woken"}
  BY DEF Offers
<1>4. CASE kgsl_context_is_bad(CtxOf(p))
  <2>1. Refused(p)
    BY <1>4 DEF adreno_hwsched_queue_cmds, Refused
  <2> QED BY <1>1, <1>2, <1>3, <2>1 DEF SubmitOutcome
<1>5. CASE ~kgsl_context_is_bad(CtxOf(p)) /\ queued[CtxOf(p)] + Len(os) > _context_drawqueue_size - 1
  <2>1. Sleeps(p, os)
    BY <1>5 DEF adreno_hwsched_queue_cmds, Sleeps
  <2> QED BY <1>1, <1>2, <1>3, <2>1 DEF SubmitOutcome
<1>6. CASE ~kgsl_context_is_bad(CtxOf(p)) /\ ~(queued[CtxOf(p)] + Len(os) > _context_drawqueue_size - 1)
  <2>1. QueueCmds(p, os)
    BY <1>6 DEF adreno_hwsched_queue_cmds
  <2>2. queued[CtxOf(p)] + Len(os) <= DrawqueueSize - 2
    <3>1. queued[CtxOf(p)] \in Nat /\ Len(os) \in Nat
      BY <1>1 DEF TypeOK, Offers
    <3> QED BY <1>6, <3>1, HwschedAssumption DEF _context_drawqueue_size
  <2>3. Fast(p) \/ Enqueues(p, os)
    BY <1>6, <2>1, <2>2, QueueCmdsCases DEF Good, Offers
  <2> QED BY <1>1, <1>2, <1>3, <2>3 DEF SubmitOutcome
<1> QED
  BY <1>4, <1>5, <1>6

\* ... for the ioctl of commands,
LEMMA CommandOutcome ==
    ASSUME TypeOK, NEW p \in Threads, kgsl_ioctl_gpu_command(p)
    PROVE  SubmitOutcome(p)
<1>1. PICK b \in Batches : ~IsAux(b) /\ adreno_hwsched_queue_cmds(p, [i \in DOMAIN b |-> Obj(b[i], 0, 0)])
  BY DEF kgsl_ioctl_gpu_command
<1>2. PICK os : os = [i \in DOMAIN b |-> Obj(b[i], 0, 0)]
  OBVIOUS
<1>3. /\ b \in Seq(Types) /\ Len(b) \in 1 .. DrawqueueSize - 2
      /\ \A i \in 1 .. Len(b) - 1 : b[i] = "sync"
  BY HwschedAssumption
<1>4. os \in Seq(Objects) /\ Len(os) = Len(b) /\ \A i \in 1 .. Len(b) : os[i] = Obj(b[i], 0, 0)
  <2>1. \A i \in 1 .. Len(b) : Obj(b[i], 0, 0) \in Objects
    BY <1>3 DEF Obj, Objects
  <2> QED BY <1>2, <1>3, <2>1
<1>5. BatchShape(os) /\ ~Aux(os[Len(os)])
  <2>1. ~Aux(os[Len(os)])
    BY <1>1, <1>3, <1>4 DEF Aux, Obj, IsAux, Last
  <2>2. /\ \A i \in 1 .. Len(os) - 1 : os[i].type = "sync"
        /\ \A i \in 1 .. Len(os) : os[i].ts = 0 /\ os[i].state = "wait"
    <3>1. \A i \in 1 .. Len(b) - 1 : i \in 1 .. Len(b)
      BY <1>3
    <3>2. ASSUME NEW i \in 1 .. Len(b)
          PROVE  os[i].type = b[i] /\ os[i].ts = 0 /\ os[i].state = "wait"
      <4>1. os[i] = Obj(b[i], 0, 0)
        BY <1>4
      <4> QED BY <4>1 DEF Obj
    <3> QED BY <1>3, <1>4, <3>1, <3>2
  <2> QED BY <1>3, <1>4, <2>1, <2>2 DEF BatchShape
<1>6. pc[p] = "idle"
  BY DEF kgsl_ioctl_gpu_command, Submits
<1>8. \A i \in 1 .. Len(os) : os[i].mts = 0
  <2>1. \A i \in 1 .. Len(b) : Obj(b[i], 0, 0).mts = 0
    BY DEF Obj
  <2> QED BY <1>4, <2>1
<1>7. Offers(p, os)
  BY <1>4, <1>5, <1>6, <1>8 DEF Offers
<1> QED
  BY <1>1, <1>2, <1>6, <1>7, QueueCmdsOutcome

\* ... for a bind or a timeline object,
LEMMA QueueAuxOutcome ==
    ASSUME TypeOK, BatchesKept, NEW p \in Threads, QueueAuxCmds(p)
    PROVE  SubmitOutcome(p)
<1>1. pc[p] = "queue" /\ adreno_hwsched_queue_cmds(p, batch[p])
  BY DEF QueueAuxCmds
<1>2. Offers(p, batch[p])
  BY <1>1 DEF Offers, BatchesKept, TypeOK
<1> QED
  BY <1>1, <1>2, QueueCmdsOutcome

\* ... and for a thread that has waited for room.
LEMMA WokenOutcome ==
    ASSUME TypeOK, BatchesKept, NEW p \in Threads, WokenUp(p)
    PROVE  SubmitOutcome(p)
<1>1. CtxOf(p) \in Ctx
  BY DEF CtxOf, Threads
<1>2. pc[p] = "woken" /\ LockFree(CtxOf(p)) /\ SubmitRest
  BY DEF WokenUp, SubmitRest
<1>3. Offers(p, batch[p])
  BY <1>2 DEF Offers, BatchesKept, TypeOK
<1>4. CASE kgsl_context_is_bad(CtxOf(p))
  <2>1. Refused(p)
    BY <1>4 DEF WokenUp, Refused
  <2> QED BY <1>1, <1>2, <2>1 DEF SubmitOutcome
<1>5. CASE ~kgsl_context_is_bad(CtxOf(p))
  <2>1. QueueCmds(p, batch[p])
    BY <1>5 DEF WokenUp
  <2>2. Fast(p) \/ Enqueues(p, batch[p])
    BY <1>2, <1>3, <1>5, <2>1, QueueCmdsCases DEF Good, Offers
  <2> QED BY <1>1, <1>2, <1>3, <2>2 DEF SubmitOutcome
<1> QED
  BY <1>4, <1>5

\* The head of the queue of c is o, and it is popped.
Pops(c, o) ==
    /\ queue[c] # <<>> /\ o \in Objects /\ o = queue[c][1]
    /\ \E r \in Seq(Objects) :
        /\ Len(r) = Len(queue[c]) - 1
        /\ \A j \in 1 .. Len(r) : r[j] = queue[c][j + 1]
        /\ queue' = [queue EXCEPT ![c] = r]
    /\ queued' = [queued EXCEPT ![c] = @ - 1]

\* r is queue q, but for the state of the object i.
Stated(r, q, i, s) ==
    /\ r \in Seq(Objects) /\ Len(r) = Len(q) /\ i \in 1 .. Len(q)
    /\ \A j \in 1 .. Len(q) :
        /\ r[j].type = q[j].type /\ r[j].ts = q[j].ts /\ r[j].mts = q[j].mts
        /\ r[j].state = IF j = i THEN s ELSE q[j].state

\* The outcomes of one step of the walk over a queue.
WalkEnds(c) ==
    /\ \E r \in {"none", "ENOSPC", "EAGAIN"} : (r = "none" <=> queue[c] = <<>>) /\ Stop(r)
    /\ UNCHANGED <<queue, queued, sop, eop>>

WalkSends(c) ==
    /\ \E o : /\ Pops(c, o) /\ o.type \in {"cmd", "big", "marker"}
              /\ o.type = "big" => bigObj = None
              /\ o.type = "marker" => ~kgsl_check_timestamp(c, o.mts)
              /\ SendNext(o)
    /\ UNCHANGED <<sop, eop>>

WalkExpires(c) ==
    /\ TRUE \in HwFence
    /\ \E o : /\ Pops(c, o) /\ o.type = "marker" /\ kgsl_check_timestamp(c, o.mts)
              /\ RetireTimestamp(c, o.ts)
              /\ SendNext([o EXCEPT !.state = "expired"])

WalkSyncs(c) ==
    /\ \E o : Pops(c, o) /\ o.type = "sync" /\ o.state = "ready"
    /\ disp' = [disp EXCEPT !.held = TRUE]
    /\ UNCHANGED <<sop, eop>>

WalkRetires(c) ==
    /\ \E o : /\ Pops(c, o)
              /\ \/ o.type = "marker" /\ kgsl_check_timestamp(c, o.mts)
                 \/ Aux(o)
              /\ RetireTimestamp(c, o.ts)
    /\ disp' = [disp EXCEPT !.held = TRUE]

WalkBinds(c) ==
    /\ queue[c] # <<>> /\ queue[c][1].type = "bind"
    /\ \E r : Stated(r, queue[c], 1, "go") /\ queue' = [queue EXCEPT ![c] = r]
    /\ Stop("EAGAIN")
    /\ UNCHANGED <<queued, sop, eop>>

WalkRest ==
    UNCHANGED <<timestamp, queuedTs, bits, listVars, mutex, work, schedVars, gmu, irq,
                faultVars, halt, threadVars, dpc, ipc, boundVars>>

WalkOutcome ==
    /\ disp.pc = "next" /\ disp.ctx \in Ctx /\ WalkRest
    /\ \/ WalkEnds(disp.ctx) \/ WalkSends(disp.ctx) \/ WalkExpires(disp.ctx)
       \/ WalkSyncs(disp.ctx) \/ WalkRetires(disp.ctx) \/ WalkBinds(disp.ctx)

\* Pop takes the first object.
LEMMA PopIs ==
    ASSUME TypeOK, NEW c \in Ctx, queue[c] # <<>>, Pop(c)
    PROVE  Pops(c, Head(queue[c]))
<1>1. queue[c] \in Seq(Objects)
  BY DEF TypeOK
<1>2. PICK q \in Seq(Objects) : q = queue[c]
  BY <1>1
<1>3. q # <<>>
  BY <1>2
<1>4. PICK r \in Seq(Objects) : r = Tail(q)
  <2>1. Tail(q) \in Seq(Objects)
    BY <1>3, HeadTailProperties
  <2> QED BY <2>1
<1>5. Len(r) = Len(q) - 1 /\ \A j \in 1 .. Len(r) : r[j] = q[j + 1]
  BY <1>3, <1>4, HeadTailProperties
<1>6. Head(q) = q[1] /\ Head(q) \in Objects
  BY <1>3
<1>7. queue' = [queue EXCEPT ![c] = r] /\ queued' = [queued EXCEPT ![c] = @ - 1]
  BY <1>2, <1>4 DEF Pop
<1> QED
  BY <1>2, <1>3, <1>5, <1>6, <1>7 DEF Pops

\* One object of a queue changes its state.
LEMMA StatedIs ==
    ASSUME TypeOK, NEW c \in Ctx, NEW i \in 1 .. Len(queue[c]),
           NEW s \in {"wait", "go", "ready", "expired"},
           queue' = [queue EXCEPT ![c][i].state = s]
    PROVE  \E r : Stated(r, queue[c], i, s) /\ queue' = [queue EXCEPT ![c] = r]
<1>1. queue[c] \in Seq(Objects) /\ queue \in [Ctx -> Seq(Objects)]
  BY DEF TypeOK
<1>2. PICK q \in Seq(Objects) : q = queue[c]
  BY <1>1
<1>3. \A j \in 1 .. Len(q) : q[j] \in Objects
  OBVIOUS
<1>4. PICK r : r = [q EXCEPT ![i] = [q[i] EXCEPT !.state = s]]
  OBVIOUS
<1>5. \A j \in 1 .. Len(q) : r[j] = IF j = i THEN [q[i] EXCEPT !.state = s] ELSE q[j]
  BY <1>4
<1>6. ASSUME NEW j \in 1 .. Len(q)
      PROVE  /\ r[j] \in Objects
             /\ r[j].type = q[j].type /\ r[j].ts = q[j].ts /\ r[j].mts = q[j].mts
             /\ r[j].state = IF j = i THEN s ELSE q[j].state
  <2>1. q[j] \in Objects
    BY <1>3
  <2>2. CASE j = i
    BY <1>5, <2>1, <2>2 DEF Objects
  <2>3. CASE j # i
    BY <1>5, <2>1, <2>3
  <2> QED BY <2>2, <2>3
<1>7. r \in Seq(Objects) /\ Len(r) = Len(q)
  <2>1. r \in [1 .. Len(q) -> Objects]
    <3>1. DOMAIN q = 1 .. Len(q)
      OBVIOUS
    <3>2. \A j \in 1 .. Len(q) : r[j] \in Objects
      BY <1>6
    <3> QED BY <1>4, <3>1, <3>2
  <2> QED BY <2>1
<1>8. Stated(r, q, i, s)
  BY <1>2, <1>6, <1>7 DEF Stated
<1>9. queue' = [queue EXCEPT ![c] = r]
  BY <1>1, <1>2, <1>4
<1> QED
  BY <1>2, <1>8, <1>9

\* One step of the walk has one of the outcomes above.
LEMMA WalkCases ==
    ASSUME TypeOK, Control, _process_drawqueue_get_next_drawobj
    PROVE  WalkOutcome
<1>1. disp.pc = "next" /\ disp.ctx \in Ctx /\ WalkRest
  BY DEF _process_drawqueue_get_next_drawobj, WalkRest, Control, ControlOf, TypeOK
<1>2. PICK c \in Ctx : c = disp.ctx
  BY <1>1
<1>3. PICK o : o = Head(queue[c])
  OBVIOUS
<1>4. ASSUME queue[c] # <<>>
      PROVE  /\ o = queue[c][1] /\ 1 \in 1 .. Len(queue[c]) /\ queue[c] \in Seq(Objects)
             /\ Pop(c) => Pops(c, o)
  <2>1. queue[c] \in Seq(Objects)
    BY DEF TypeOK
  <2>2. PICK q \in Seq(Objects) : q = queue[c]
    BY <2>1
  <2>3. q # <<>>
    BY <2>2, <1>4
  <2>4. Head(q) = q[1] /\ 1 \in 1 .. Len(q)
    BY <2>3
  <2> QED BY <1>3, <1>4, <2>1, <2>2, <2>4, PopIs
<1>5. CASE queue[c] = <<>> /\ Stop("none") /\ UNCHANGED <<queue, queued, sop, eop>>
  <2>1. WalkEnds(c)
    BY <1>5 DEF WalkEnds
  <2> QED BY <1>1, <1>2, <2>1 DEF WalkOutcome
<1>6. CASE /\ queue[c] # <<>> /\ o.type \in {"cmd", "big"}
           /\ IF o.type = "big" /\ bigObj # None
              THEN Stop("ENOSPC") /\ UNCHANGED <<queue, queued>>
              ELSE Pop(c) /\ SendNext(o)
           /\ UNCHANGED <<sop, eop>>
  <2>1. WalkEnds(c) \/ WalkSends(c)
    BY <1>4, <1>6 DEF WalkEnds, WalkSends
  <2> QED BY <1>1, <1>2, <2>1 DEF WalkOutcome
<1>7. CASE /\ queue[c] # <<>> /\ o.type = "sync"
           /\ IF o.state = "ready" THEN Pop(c) /\ disp' = [disp EXCEPT !.held = TRUE]
              ELSE Stop("EAGAIN") /\ UNCHANGED <<queue, queued>>
           /\ UNCHANGED <<sop, eop>>
  <2>1. WalkEnds(c) \/ WalkSyncs(c)
    BY <1>4, <1>7 DEF WalkEnds, WalkSyncs
  <2> QED BY <1>1, <1>2, <2>1 DEF WalkOutcome
<1>8. CASE /\ queue[c] # <<>> /\ o.type = "marker"
           /\ IF _marker_expired(c, o)
              THEN /\ RetireTimestamp(c, o.ts) /\ Pop(c)
                   /\ \/ TRUE \in HwFence /\ SendNext([o EXCEPT !.state = "expired"])
                      \/ FALSE \in HwFence /\ disp' = [disp EXCEPT !.held = TRUE]
              ELSE /\ IF o.skip THEN Pop(c) /\ SendNext(o)
                      ELSE Stop("EAGAIN") /\ UNCHANGED <<queue, queued>>
                   /\ UNCHANGED <<sop, eop>>
  <2>1. CASE _marker_expired(c, o)
    <3>1. WalkExpires(c) \/ WalkRetires(c)
      BY <1>4, <1>8, <2>1 DEF WalkExpires, WalkRetires, _marker_expired
    <3> QED BY <1>1, <1>2, <3>1 DEF WalkOutcome
  <2>2. CASE ~_marker_expired(c, o)
    <3>1. WalkEnds(c) \/ WalkSends(c)
      BY <1>4, <1>8, <2>2 DEF WalkEnds, WalkSends, _marker_expired
    <3> QED BY <1>1, <1>2, <3>1 DEF WalkOutcome
  <2> QED BY <2>1, <2>2
<1>9. CASE /\ queue[c] # <<>> /\ o.type = "timeline"
           /\ Pop(c) /\ RetireTimestamp(c, o.ts) /\ disp' = [disp EXCEPT !.held = TRUE]
  <2>1. WalkRetires(c)
    BY <1>4, <1>9 DEF WalkRetires, Aux
  <2> QED BY <1>1, <1>2, <2>1 DEF WalkOutcome
<1>10. CASE /\ queue[c] # <<>> /\ o.type = "bind"
            /\ IF o.state = "ready"
               THEN Pop(c) /\ RetireTimestamp(c, o.ts) /\ disp' = [disp EXCEPT !.held = TRUE]
               ELSE /\ queue' = [queue EXCEPT ![c][1].state = "go"]
                    /\ Stop("EAGAIN")
                    /\ UNCHANGED <<queued, sop, eop>>
  <2>1. CASE o.state = "ready"
    <3>1. WalkRetires(c)
      BY <1>4, <1>10, <2>1 DEF WalkRetires, Aux
    <3> QED BY <1>1, <1>2, <3>1 DEF WalkOutcome
  <2>2. CASE o.state # "ready"
    <3>1. \E r : Stated(r, queue[c], 1, "go") /\ queue' = [queue EXCEPT ![c] = r]
      BY <1>4, <1>10, <2>2, StatedIs
    <3>2. WalkBinds(c)
      <4>1. queue[c] # <<>> /\ queue[c][1].type = "bind"
        BY <1>4, <1>10
      <4>2. Stop("EAGAIN") /\ UNCHANGED <<queued, sop, eop>>
        BY <1>10, <2>2
      <4> QED BY <3>1, <4>1, <4>2 DEF WalkBinds
    <3> QED BY <1>1, <1>2, <3>2 DEF WalkOutcome
  <2> QED BY <2>1, <2>2
<1> QED
  <2> USE DEF _process_drawqueue_get_next_drawobj
  <2> QED BY <1>2, <1>3, <1>5, <1>6, <1>7, <1>8, <1>9, <1>10

Entries == [ctx : Ctx, obj : Objects]

\* The outcomes of hwsched_sendcmd.
SendDone(c, o) ==
    /\ ~halt /\ fault = {} /\ ~kgsl_context_detached(c)
    /\ Submit(c, o)
    /\ disp' = [disp EXCEPT !.pc = "next", !.obj = None, !.count = 1, !.ret = "none"]
    /\ UNCHANGED <<errs, faults, fault, work>>

SendGone(c) ==
    /\ kgsl_context_detached(c)
    /\ disp' = [disp EXCEPT !.pc = "end", !.obj = None, !.ret = "ENOENT"]
    /\ UNCHANGED <<schedVars, gmu, errs, faults, fault, work>>

SendFails ==
    /\ \E r \in {"ENOSPC", "EBUSY", "EINVAL"} : disp' = [disp EXCEPT !.pc = "back", !.ret = r]
    /\ power' = power \/ (power' = FALSE /\ inflight = 0)
    /\ UNCHANGED <<cmdList, inflight, active, bigObj, gmu>>
    /\ (UNCHANGED <<fault, work>>) \/ (fault' = fault \cup {"hard"} /\ work' = TRUE)
    /\ faults' \in Nat /\ errs' \in Nat

SendRest ==
    UNCHANGED <<ctxVars, listVars, mutex, sop, eop, irq, ctxtBad, halt, threadVars, dpc, ipc, idles>>

SendOutcome ==
    /\ disp.pc = "send" /\ disp.ctx \in Ctx /\ disp.obj \in Objects /\ DeviceMutexFree /\ SendRest
    /\ SendDone(disp.ctx, disp.obj) \/ SendGone(disp.ctx) \/ SendFails

\* hwsched_sendcmd has one of the outcomes above.
LEMMA SendCases ==
    ASSUME TypeOK, Control, hwsched_sendcmd
    PROVE  SendOutcome
<1> DEFINE c == disp.ctx
           o == disp.obj
           r == SendRefused(c, o)
<1>1. disp.pc = "send" /\ DeviceMutexFree /\ SendRest
  BY DEF hwsched_sendcmd, SendRest
<1>2. c \in Ctx /\ o \in Objects
  BY <1>1 DEF Control, ControlOf, TypeOK
<1>3. /\ r \in {"none", "EBUSY", "ENOENT", "ENOSPC"}
      /\ r = "none" => ~halt /\ fault = {} /\ ~kgsl_context_detached(c)
      /\ r = "ENOENT" => kgsl_context_detached(c)
  BY DEF SendRefused
<1>4. faults \in Nat /\ errs \in Nat /\ power \in BOOLEAN
  BY DEF TypeOK
<1>5. ASSUME NEW x \in {"ENOSPC", "EBUSY", "EINVAL"}, Sent(x)
      PROVE  disp' = [disp EXCEPT !.pc = "back", !.ret = x]
  <2>1. disp' = [disp EXCEPT !.pc = "back", !.obj = disp.obj, !.count = disp.count, !.ret = x]
    BY <1>5 DEF Sent
  <2> QED BY <2>1 DEF TypeOK
<1>6. SubmitFailed =>
        /\ power' = power \/ (power' = FALSE /\ inflight = 0)
        /\ UNCHANGED <<cmdList, inflight, active, bigObj, gmu>>
  BY DEF SubmitFailed
<1> HIDE DEF r
<1>7. CASE r = "none" /\ Submit(c, o) /\ Sent("none") /\ UNCHANGED <<errs, faults, fault, work>>
  <2>1. disp' = [disp EXCEPT !.pc = "next", !.obj = None, !.count = 1, !.ret = "none"]
    BY <1>7 DEF Sent
  <2>2. SendDone(c, o)
    BY <1>3, <1>7, <2>1 DEF SendDone
  <2> QED BY <1>1, <1>2, <2>2 DEF SendOutcome
<1>8. CASE /\ r # "none"
           /\ IF r = "ENOSPC" THEN SubmitFailed ELSE UNCHANGED <<schedVars, gmu>>
           /\ Sent(r)
           /\ UNCHANGED <<errs, faults, fault, work>>
  <2>1. CASE r = "ENOENT"
    <3>1. disp' = [disp EXCEPT !.pc = "end", !.obj = None, !.count = disp.count, !.ret = "ENOENT"]
      BY <1>8, <2>1 DEF Sent
    <3>2. disp' = [disp EXCEPT !.pc = "end", !.obj = None, !.ret = "ENOENT"]
      BY <3>1 DEF TypeOK
    <3>3. SendGone(c)
      BY <1>3, <1>8, <2>1, <3>2 DEF SendGone
    <3> QED BY <1>1, <1>2, <3>3 DEF SendOutcome
  <2>2. CASE r # "ENOENT"
    <3>1. r \in {"EBUSY", "ENOSPC"}
      BY <1>3, <1>8, <2>2
    <3>2. disp' = [disp EXCEPT !.pc = "back", !.ret = r]
      BY <3>1, <1>5, <1>8
    <3>3. SendFails
      BY <1>4, <1>6, <1>8, <3>1, <3>2 DEF SendFails, schedVars
    <3> QED BY <1>1, <1>2, <3>3 DEF SendOutcome
  <2> QED BY <2>1, <2>2
<1>9. CASE /\ errs' = errs + 1 /\ SubmitFailed /\ Sent("EINVAL")
           /\ UNCHANGED <<faults, fault, work>>
  <2>1. SendFails
    BY <1>4, <1>5, <1>6, <1>9 DEF SendFails
  <2> QED BY <1>1, <1>2, <2>1 DEF SendOutcome
<1>10. CASE /\ faults' = faults + 1 /\ fault' = fault \cup {"hard"} /\ work' = TRUE
            /\ SubmitFailed /\ Sent("EINVAL")
            /\ UNCHANGED errs
  <2>1. SendFails
    BY <1>4, <1>5, <1>6, <1>10 DEF SendFails
  <2> QED BY <1>1, <1>2, <2>1 DEF SendOutcome
<1> QED
  BY <1>7, <1>8, <1>9, <1>10 DEF hwsched_sendcmd, r

\* o goes to the head of the ring of c, which is lost when the ring is full.
Headed(c, o, r) ==
    /\ r \in Seq(Objects)
    /\ IF Len(queue[c]) + 1 < DrawqueueSize
       THEN /\ Len(r) = Len(queue[c]) + 1 /\ r[1] = o
            /\ \A j \in 2 .. Len(r) : r[j] = queue[c][j - 1]
       ELSE r = <<>>

PutsBack(c) ==
    /\ Good(c)
    /\ \E r : Headed(c, disp.obj, r) /\ queue' = [queue EXCEPT ![c] = r]
    /\ queued' = [queued EXCEPT ![c] = @ + 1]
    /\ disp' = [disp EXCEPT !.pc = "end", !.obj = None]

Drops(c) ==
    /\ ~Good(c)
    /\ disp' = [disp EXCEPT !.pc = "end", !.obj = None, !.ret = "ENOENT"]
    /\ UNCHANGED <<queue, queued>>

RequeueOutcome ==
    /\ disp.pc = "back" /\ disp.ctx \in Ctx /\ disp.obj \in Objects
    /\ PutsBack(disp.ctx) \/ Drops(disp.ctx)
    /\ UNCHANGED <<timestamp, queuedTs, bits, listVars, mutex, work, schedVars,
                   gpuVars, faultVars, halt, threadVars, dpc, ipc, boundVars>>

\* The object that was not sent is put back, or dropped with its context.
LEMMA RequeueCases ==
    ASSUME TypeOK, Control, hwsched_dispatcher_requeue_drawobj
    PROVE  RequeueOutcome
<1>1. disp.pc = "back"
  BY DEF hwsched_dispatcher_requeue_drawobj
<1>2. disp.ctx \in Ctx /\ disp.obj \in Objects
  BY <1>1 DEF Control, ControlOf, TypeOK
<1>3. UNCHANGED <<timestamp, queuedTs, bits, listVars, mutex, work, schedVars,
                  gpuVars, faultVars, halt, threadVars, dpc, ipc, boundVars>>
  BY DEF hwsched_dispatcher_requeue_drawobj
<1>4. CASE kgsl_context_is_bad(disp.ctx)
  <2>1. Drops(disp.ctx)
    BY <1>4 DEF hwsched_dispatcher_requeue_drawobj, Drops, Good
  <2> QED BY <1>1, <1>2, <1>3, <2>1 DEF RequeueOutcome
<1>5. CASE ~kgsl_context_is_bad(disp.ctx)
  <2>1. /\ queue' = [queue EXCEPT ![disp.ctx] = PutHead(@, disp.obj)]
        /\ queued' = [queued EXCEPT ![disp.ctx] = @ + 1]
        /\ disp' = [disp EXCEPT !.pc = "end", !.obj = None]
    BY <1>5 DEF hwsched_dispatcher_requeue_drawobj
  <2>2. PICK o \in Objects : o = disp.obj
    BY <1>2
  <2>3. PICK q \in Seq(Objects) : q = queue[disp.ctx]
    BY <1>2 DEF TypeOK
  <2>4. PICK r : r = PutHead(q, o)
    OBVIOUS
  <2>5. Headed(disp.ctx, o, r)
    <3>1. CASE Len(q) + 1 < DrawqueueSize
      <4>1. r = <<o>> \o q
        BY <2>4, <3>1 DEF PutHead
      <4>2. <<o>> \in Seq(Objects) /\ Len(<<o>>) = 1 /\ <<o>>[1] = o
        OBVIOUS
      <4>3. PICK u \in Seq(Objects) : u = <<o>>
        BY <4>2
      <4>4. /\ r \in Seq(Objects) /\ Len(r) = Len(u) + Len(q)
            /\ \A i \in 1 .. Len(u) + Len(q) : r[i] = IF i <= Len(u) THEN u[i] ELSE q[i - Len(u)]
        BY <4>1, <4>3, ConcatProperties
      <4>5. Len(u) = 1 /\ u[1] = o
        BY <4>2, <4>3
      <4> QED BY <2>3, <3>1, <4>4, <4>5 DEF Headed
    <3>2. CASE ~(Len(q) + 1 < DrawqueueSize)
      <4>1. r = <<>>
        BY <2>4, <3>2 DEF PutHead
      <4> QED BY <2>3, <3>2, <4>1 DEF Headed
    <3> QED BY <3>1, <3>2
  <2>6. PutsBack(disp.ctx)
    BY <1>5, <2>1, <2>2, <2>3, <2>4, <2>5 DEF PutsBack, Good
  <2> QED BY <1>1, <1>2, <1>3, <2>6 DEF RequeueOutcome
<1> QED
  BY <1>4, <1>5

\* The contexts that a fault invalidates, and the memstore after it.
Blames(cs, m) ==
    \/ cs = {} /\ m = Memstore
    \/ \E i \in FaultedCmd :
        /\ i \in 1 .. Len(cmdList)
        /\ cs \in {{}, {cmdList[i].ctx}}
        /\ m = [sop |-> [sop EXCEPT ![cmdList[i].ctx] = cmdList[i].obj.ts],
                eop |-> [eop EXCEPT ![cmdList[i].ctx] = cmdList[i].obj.ts]]

FaultOutcome ==
    /\ work /\ mutex = None /\ fault # {} /\ DeviceMutexFree
    /\ ipc' = IF ipc = "queued" THEN "flush" ELSE ipc
    /\ \E cs, m : Blames(cs, m) /\ adreno_drawctxt_invalidate(cs, m)
    /\ ctxtBad' = None \/ (~power /\ ctxtBad' = ctxtBad)
    /\ irq' \in BOOLEAN
    /\ adreno_hwsched_replay
    /\ work' = TRUE
    /\ UNCHANGED <<listVars, mutex, disp, power, active, halt, pc, batch, dpc,
                   errs, idles>>

\* What the recovery from a fault does.
LEMMA FaultCases ==
    ASSUME TypeOK, adreno_hwsched_do_fault
    PROVE  FaultOutcome
<1>1. PICK awake \in BOOLEAN : (power => awake) /\ adreno_hwsched_reset_and_snapshot(awake)
  BY DEF adreno_hwsched_do_fault
<1>2. (ctxtBad' = None \/ (~power /\ ctxtBad' = ctxtBad)) /\ irq' \in BOOLEAN
  BY <1>1 DEF adreno_hwsched_reset_and_snapshot, TypeOK
<1>3. FaultedCmd \subseteq 1 .. Len(cmdList)
  <2>1. DOMAIN cmdList = 1 .. Len(cmdList)
    BY DEF TypeOK
  <2> QED BY <2>1 DEF FaultedCmd, FaultCmdobj, ActiveCmdobj
<1>4. \E cs, m : Blames(cs, m) /\ adreno_drawctxt_invalidate(cs, m)
  <2>1. CASE \E i \in FaultedCmd, guilty \in BOOLEAN :
              adreno_drawctxt_invalidate(IF guilty THEN {cmdList[i].ctx} ELSE {},
                [sop |-> [sop EXCEPT ![cmdList[i].ctx] = cmdList[i].obj.ts],
                 eop |-> [eop EXCEPT ![cmdList[i].ctx] = cmdList[i].obj.ts]])
    <3>1. PICK i \in FaultedCmd, guilty \in BOOLEAN :
              adreno_drawctxt_invalidate(IF guilty THEN {cmdList[i].ctx} ELSE {},
                [sop |-> [sop EXCEPT ![cmdList[i].ctx] = cmdList[i].obj.ts],
                 eop |-> [eop EXCEPT ![cmdList[i].ctx] = cmdList[i].obj.ts]])
      BY <2>1
    <3>2. Blames(IF guilty THEN {cmdList[i].ctx} ELSE {},
                [sop |-> [sop EXCEPT ![cmdList[i].ctx] = cmdList[i].obj.ts],
                 eop |-> [eop EXCEPT ![cmdList[i].ctx] = cmdList[i].obj.ts]])
      BY <1>3 DEF Blames
    <3> QED BY <3>1, <3>2
  <2>2. CASE UNCHANGED <<ctxVars, sop, eop, sig>>
    <3>1. Blames({}, Memstore)
      BY DEF Blames
    <3>2. /\ bits = [c \in Ctx |-> bits[c]] /\ queue = [c \in Ctx |-> queue[c]]
          /\ sop = [c \in Ctx |-> sop[c]] /\ eop = [c \in Ctx |-> eop[c]]
      BY DEF TypeOK
    <3>3. sig = [p \in Threads |-> sig[p]] /\ sig \in [Threads -> BOOLEAN]
      BY DEF TypeOK
    <3>4. sig = [p \in Threads |-> sig[p] \/ (CtxOf(p) \in {} /\ pc[p] = "sleep")]
      BY <3>3
    <3>5. adreno_drawctxt_invalidate({}, Memstore)
      BY <2>2, <3>2, <3>4 DEF adreno_drawctxt_invalidate, Memstore, ctxVars
    <3> QED BY <3>1, <3>5
  <2> QED BY <1>1, <2>1, <2>2 DEF adreno_hwsched_reset_and_snapshot
<1> QED
  BY <1>2, <1>4 DEF adreno_hwsched_do_fault, FaultOutcome, WorkerLocks

\* The steps, with what they do in place of how they do it.
Step ==
    \/ \E p \in Threads :
        \/ SubmitOutcome(p) \/ kgsl_ioctl_gpu_aux_command(p)
        \/ _wait_for_room_in_context_queue(p) \/ WaitTimeout(p)
        \/ QueueJob(p) \/ adreno_hwsched_issuecmds(p) \/ IssuedByThread(p)
    \/ hwsched_handle_jobs \/ hwsched_handle_jobs_list
    \/ WalkOutcome \/ SendOutcome \/ RequeueOutcome \/ SendcmdsDone \/ IssuedByWorker
    \/ retire_cmd_list \/ FaultOutcome \/ TsRetire
    \/ \E c \in Ctx :
        \/ GpuStart(c) \/ GpuRetire(c) \/ adreno_hwsched_fault(c)
        \/ adreno_hwsched_queue_context(c)
        \/ kgsl_context_detach(c) \/ drawctxt_detach_drawobjs(c)
        \/ gen7_hwsched_context_detach(c) \/ UnregisterTimeout(c)
    \/ IdleHalt \/ IdleFlush \/ IdleGate \/ IdleUnhalt \/ IdleDone

\* Every step of the specification is one of these.
LEMMA NextIsStep ==
    ASSUME TypeOK, Control, BatchesKept, Next
    PROVE  Step
<1>1. ASSUME NEW p \in Threads, kgsl_ioctl_gpu_command(p) PROVE Step
  BY <1>1, CommandOutcome DEF Step
<1>2. ASSUME NEW p \in Threads, kgsl_ioctl_gpu_aux_command(p) \/ WaitTimeout(p) PROVE Step
  BY <1>2 DEF Step
<1>3. ASSUME NEW p \in Threads, Submitter(p) PROVE Step
  <2>1. CASE QueueAuxCmds(p)
    BY <2>1, QueueAuxOutcome DEF Step
  <2>2. CASE WokenUp(p)
    BY <2>2, WokenOutcome DEF Step
  <2> QED BY <1>3, <2>1, <2>2 DEF Step, Submitter
<1>4. CASE Dispatch
  <2>1. CASE _process_drawqueue_get_next_drawobj
    BY <2>1, WalkCases DEF Step
  <2>2. CASE hwsched_sendcmd
    BY <2>2, SendCases DEF Step
  <2>3. CASE hwsched_dispatcher_requeue_drawobj
    BY <2>3, RequeueCases DEF Step
  <2> QED BY <1>4, <2>1, <2>2, <2>3 DEF Step, Dispatch
<1>5. CASE Worker
  BY <1>5, FaultCases DEF Step, Worker
<1>6. ASSUME NEW c \in Ctx, GpuStart(c) \/ GpuRetire(c) \/ adreno_hwsched_fault(c)
                              \/ adreno_hwsched_queue_context(c)
                              \/ kgsl_context_detach(c) \/ Detach(c) \/ UnregisterTimeout(c)
      PROVE  Step
  BY <1>6 DEF Step, Detach
<1>7. CASE TsRetire \/ IdleHalt \/ IdleFlush \/ IdleGate \/ IdleUnhalt \/ IdleDone
  BY <1>7 DEF Step
<1> QED
  BY <1>1, <1>2, <1>3, <1>4, <1>5, <1>6, <1>7 DEF Next

DispType ==
    [pc : {"off", "level", "job", "next", "send", "back", "end"},
     lvl : Nat, list : Seq(Ctx), seen : SUBSET Ctx, ctx : Ctx \cup {None},
     obj : Objects \cup {None}, held : BOOLEAN, count : {0, 1},
     ret : {"none", "ENOSPC", "EAGAIN", "EBUSY", "ENOENT", "EINVAL"}]

\* A dispatcher without an object, which has just got to its context or level.
AtRest(d) ==
    d \in DispType /\ d.obj = None /\ d.held = FALSE /\ d.count = 0 /\ d.ret = "none"

NoJob(list, seen, d) ==
    /\ \A i \in 1 .. Len(list) : ~Wanted(list[i], seen)
    /\ d.pc = "level" /\ d.lvl = disp.lvl + 1 /\ d.list = <<>> /\ d.seen = {} /\ d.ctx = None

Job(list, seen, d) ==
    \E i \in 1 .. Len(list) :
        /\ Wanted(list[i], seen) /\ \A j \in 1 .. i - 1 : ~Wanted(list[j], seen)
        /\ d.pc = "next" /\ d.lvl = disp.lvl /\ d.ctx = list[i] /\ d.ctx \in Ctx
        /\ Len(d.list) = Len(list) - i
        /\ \A k \in 1 .. Len(d.list) : d.list[k] = list[i + k]
        /\ d.seen = seen \cup {list[i]}

\* NextJob, in the terms of NoJob and Job.
LEMMA NextJobIs ==
    ASSUME NEW list \in Seq(Ctx), NEW seen \in SUBSET Ctx, disp.lvl \in Nat,
           NEW d, d = NextJob(list, seen)
    PROVE  AtRest(d) /\ (NoJob(list, seen, d) \/ Job(list, seen, d))
<1>1. CASE TakesNone(list, seen, d)
  <2>1. d = [NoDisp EXCEPT !.pc = "level", !.lvl = disp.lvl + 1]
    BY <1>1 DEF TakesNone
  <2>2. <<>> \in Seq(Ctx) /\ disp.lvl + 1 \in Nat
    OBVIOUS
  <2>3. AtRest(d)
    <3>1. d = [pc |-> "level", lvl |-> disp.lvl + 1, list |-> <<>>, seen |-> {}, ctx |-> None,
               obj |-> None, held |-> FALSE, count |-> 0, ret |-> "none"]
      BY <2>1 DEF NoDisp
    <3>2. d \in DispType
      BY <2>2, <3>1 DEF DispType
    <3> QED BY <3>1, <3>2 DEF AtRest
  <2>4. NoJob(list, seen, d)
    BY <1>1, <2>1 DEF TakesNone, NoJob, NoDisp
  <2> QED BY <2>3, <2>4
<1>2. CASE Takes(list, seen, d)
  <2>1. PICK i \in 1 .. Len(list) :
          /\ Wanted(list[i], seen) /\ \A j \in 1 .. i - 1 : ~Wanted(list[j], seen)
          /\ d = [NoDisp EXCEPT !.pc = "next", !.lvl = disp.lvl, !.ctx = list[i],
                                !.list = SubSeq(list, i + 1, Len(list)),
                                !.seen = seen \cup {list[i]}]
    BY <1>2 DEF Takes
  <2>2. PICK u : u = SubSeq(list, i + 1, Len(list))
    OBVIOUS
  <2>3. u \in Seq(Ctx) /\ Len(u) = Len(list) - i /\ \A k \in 1 .. Len(u) : u[k] = list[i + k]
    BY <2>2
  <2>4. PICK x \in Ctx : x = list[i]
    OBVIOUS
  <2>5. d = [NoDisp EXCEPT !.pc = "next", !.lvl = disp.lvl, !.ctx = x,
                           !.list = u, !.seen = seen \cup {x}]
    BY <2>1, <2>2, <2>4
  <2>6. AtRest(d)
    <3>1. d = [pc |-> "next", lvl |-> disp.lvl, list |-> u, seen |-> seen \cup {x}, ctx |-> x,
               obj |-> None, held |-> FALSE, count |-> 0, ret |-> "none"]
      BY <2>5 DEF NoDisp
    <3>2. d \in DispType
      BY <2>3, <3>1 DEF DispType
    <3> QED BY <3>1, <3>2 DEF AtRest
  <2>7. d.pc = "next" /\ d.lvl = disp.lvl /\ d.ctx = x /\ d.list = u /\ d.seen = seen \cup {x}
    BY <2>5 DEF NoDisp
  <2>8. Job(list, seen, d)
    BY <2>1, <2>3, <2>4, <2>7 DEF Job
  <2> QED BY <2>6, <2>8
<1> QED
  BY <1>1, <1>2, NextJobTakes

\* The levels are numbered from 0.
LEMMA NLevelsIs ==
    NLevels \in Nat /\ \A c \in Ctx : Level[c] \in Levels
<1>1. IsFiniteSet({Level[c] : c \in Ctx})
  <2>1. IsFiniteSet(Ctx)
    BY HwschedAssumption
  <2>2. Level \in [Ctx -> {Level[c] : c \in Ctx}]
    BY HwschedAssumption
  <2>3. Level \in Surjection(Ctx, {Level[c] : c \in Ctx})
    BY <2>2 DEF Surjection
  <2> QED BY <2>1, <2>3, FS_Surjection
<1> QED
  BY <1>1, FS_CardinalityType, HwschedAssumption DEF NLevels, Levels

\* The values that differ.
LEMMA Nones ==
    /\ None \notin Ctx /\ None \notin Threads /\ None \notin Objects /\ None \notin Ctx \X Nat
    /\ worker # None /\ worker \notin Threads
    /\ DrawqueueSize \in Nat /\ DrawqueueSize > 2
  BY HwschedAssumption

\* What the dispatcher takes at a new level, and after a job.
LEMMA JobsTaken ==
    ASSUME TypeOK, hwsched_handle_jobs
    PROVE  /\ disp.lvl \in Levels /\ requeue[disp.lvl] \in Seq(Ctx) /\ jobs[disp.lvl] \in Seq(Ctx)
           /\ AtRest(disp')
           /\ \E list \in Seq(Ctx) :
                /\ list = requeue[disp.lvl] \o jobs[disp.lvl]
                /\ NoJob(list, {}, disp') \/ Job(list, {}, disp')
<1>1. disp.lvl \in Nat /\ disp.lvl < NLevels
  BY DEF TypeOK, hwsched_handle_jobs
<1>2. disp.lvl \in Levels
  BY <1>1, NLevelsIs DEF Levels
<1>3. requeue[disp.lvl] \in Seq(Ctx) /\ jobs[disp.lvl] \in Seq(Ctx)
  BY <1>2 DEF TypeOK
<1>4. PICK list \in Seq(Ctx) : list = requeue[disp.lvl] \o jobs[disp.lvl]
  <2>1. requeue[disp.lvl] \o jobs[disp.lvl] \in Seq(Ctx)
    BY <1>3, ConcatProperties
  <2> QED BY <2>1
<1>5. disp' = NextJob(list, {})
  BY <1>4 DEF hwsched_handle_jobs
<1>6. AtRest(disp') /\ (NoJob(list, {}, disp') \/ Job(list, {}, disp'))
  BY <1>1, <1>5, NextJobIs
<1> QED
  BY <1>2, <1>3, <1>4, <1>6

\* The next job of the list of the dispatcher.
LEMMA JobTaken ==
    ASSUME TypeOK, hwsched_handle_jobs_list
    PROVE  AtRest(disp') /\ (NoJob(disp.list, disp.seen, disp') \/ Job(disp.list, disp.seen, disp'))
<1>1. disp.lvl \in Nat /\ disp.list \in Seq(Ctx) /\ disp.seen \in SUBSET Ctx
  BY DEF TypeOK
<1>2. disp' = NextJob(disp.list, disp.seen)
  BY DEF hwsched_handle_jobs_list
<1> QED
  BY <1>1, <1>2, NextJobIs

\* The dispatcher after the end of a job.
JobEnds ==
    /\ disp' \in DispType
    /\ disp'.ctx = None /\ disp'.obj = None /\ disp'.held = FALSE /\ disp'.ret = "none"
    /\ \/ /\ disp.list = <<>> /\ disp'.pc = "level" /\ disp'.lvl = disp.lvl + 1
          /\ disp'.list = <<>>
       \/ /\ disp.list # <<>> /\ disp'.pc = "job" /\ disp'.lvl = disp.lvl
          /\ disp'.list = disp.list /\ disp'.seen = disp.seen

\* The end of a job.
LEMMA JobDone ==
    ASSUME TypeOK, Control, SendcmdsDone
    PROVE  disp.ctx \in Ctx /\ disp.lvl \in Levels /\ JobEnds
<1>1. disp \in DispType /\ disp.pc = "end"
  BY DEF TypeOK, DispType, SendcmdsDone
<1>2. /\ disp.ctx \in Ctx /\ disp.lvl \in Levels /\ disp.obj = None /\ disp.held = FALSE
  <2>1. disp.ctx \in Ctx /\ disp.obj = None /\ disp.lvl \in Nat /\ disp.lvl < NLevels
    BY <1>1 DEF Control, ControlOf, DispType
  <2>2. disp.held = FALSE
    BY <1>1 DEF Control, ControlOf, DispType
  <2> QED BY <2>1, <2>2, NLevelsIs DEF Levels
<1>3. CASE disp.list = <<>>
  <2>1. disp' = NextJob(<<>>, {})
    BY <1>3 DEF SendcmdsDone
  <2>2. disp.lvl \in Nat /\ <<>> \in Seq(Ctx)
    BY <1>1 DEF DispType
  <2>3. AtRest(disp') /\ (NoJob(<<>>, {}, disp') \/ Job(<<>>, {}, disp'))
    BY <2>1, <2>2, NextJobIs
  <2>4. ~Job(<<>>, {}, disp')
    BY DEF Job
  <2> QED BY <1>2, <1>3, <2>3, <2>4 DEF AtRest, NoJob, JobEnds
<1>4. CASE disp.list # <<>>
  <2>1. disp' = [disp EXCEPT !.pc = "job", !.ctx = None, !.count = 0, !.ret = "none"]
    BY <1>4 DEF SendcmdsDone
  <2>2. disp' \in DispType
    BY <1>1, <2>1 DEF DispType
  <2>3. /\ disp'.pc = "job" /\ disp'.ctx = None /\ disp'.ret = "none" /\ disp'.lvl = disp.lvl
        /\ disp'.list = disp.list /\ disp'.seen = disp.seen /\ disp'.obj = disp.obj
        /\ disp'.held = disp.held
    BY <1>1, <2>1 DEF DispType
  <2> QED BY <1>2, <1>4, <2>2, <2>3 DEF JobEnds
<1> QED
  BY <1>3, <1>4

\* The dispatcher after it has looked for a job.
Arrives ==
    \/ disp'.pc = "level" /\ disp'.lvl = disp.lvl + 1 /\ disp'.list = <<>> /\ disp'.ctx = None
    \/ disp'.pc = "next" /\ disp'.lvl = disp.lvl /\ disp'.ctx \in Ctx

\* Either way the dispatcher has a context to look at or the level is done.
LEMMA JobArrives ==
    ASSUME TypeOK, hwsched_handle_jobs \/ hwsched_handle_jobs_list
    PROVE  AtRest(disp') /\ Arrives /\ mutex' = mutex /\ bits' = bits
<1>1. CASE hwsched_handle_jobs
  <2>1. AtRest(disp') /\ \E list : NoJob(list, {}, disp') \/ Job(list, {}, disp')
    BY <1>1, JobsTaken
  <2>2. Arrives
    BY <2>1 DEF NoJob, Job, Arrives
  <2> QED BY <1>1, <2>1, <2>2 DEF hwsched_handle_jobs, ctxVars
<1>2. CASE hwsched_handle_jobs_list
  <2>1. AtRest(disp') /\ (NoJob(disp.list, disp.seen, disp') \/ Job(disp.list, disp.seen, disp'))
    BY <1>2, JobTaken
  <2>2. Arrives
    BY <2>1 DEF NoJob, Job, Arrives
  <2> QED BY <1>2, <2>1, <2>2 DEF hwsched_handle_jobs_list, ctxVars
<1> QED
  BY <1>1, <1>2

\* The dispatcher goes on with the same job.
SameJob ==
    /\ disp' \in DispType
    /\ disp'.ctx = disp.ctx /\ disp'.lvl = disp.lvl
    /\ disp'.list = disp.list /\ disp'.seen = disp.seen

\* The dispatcher after a step of the walk, and after hwsched_sendcmd.
LEMMA WalkDisp ==
    ASSUME TypeOK, WalkOutcome
    PROVE  /\ mutex' = mutex /\ bits' = bits /\ SameJob /\ disp'.count = disp.count
           /\ \/ /\ disp'.pc = "end" /\ disp'.obj = disp.obj /\ disp'.held = FALSE
                 /\ \E r \in {"none", "ENOSPC", "EAGAIN"} :
                        disp'.ret = r /\ (r = "none" => queue[disp.ctx] = <<>>)
              \/ /\ disp'.pc = "send" /\ disp'.obj \in Objects /\ disp'.held = FALSE
                 /\ disp'.ret = disp.ret
              \/ /\ disp'.pc = disp.pc /\ disp'.obj = disp.obj /\ disp'.held = TRUE
                 /\ disp'.ret = disp.ret
<1>1. mutex' = mutex /\ bits' = bits /\ disp \in DispType
  BY DEF WalkOutcome, WalkRest, TypeOK, DispType
<1>2. ASSUME NEW r \in {"none", "ENOSPC", "EAGAIN"}, Stop(r)
      PROVE  /\ SameJob /\ disp'.count = disp.count
             /\ disp'.pc = "end" /\ disp'.obj = disp.obj /\ disp'.held = FALSE /\ disp'.ret = r
  BY <1>1, <1>2 DEF Stop, SameJob, DispType
<1>3. ASSUME NEW o \in Objects, SendNext(o)
      PROVE  /\ SameJob /\ disp'.count = disp.count
             /\ disp'.pc = "send" /\ disp'.obj \in Objects /\ disp'.held = FALSE
             /\ disp'.ret = disp.ret
  BY <1>1, <1>3 DEF SendNext, SameJob, DispType
<1>4. ASSUME disp' = [disp EXCEPT !.held = TRUE]
      PROVE  /\ SameJob /\ disp'.count = disp.count
             /\ disp'.pc = disp.pc /\ disp'.obj = disp.obj /\ disp'.held = TRUE
             /\ disp'.ret = disp.ret
  BY <1>1, <1>4 DEF SameJob, DispType
<1>5. CASE WalkEnds(disp.ctx)
  <2>1. PICK r \in {"none", "ENOSPC", "EAGAIN"} : (r = "none" <=> queue[disp.ctx] = <<>>) /\ Stop(r)
    BY <1>5 DEF WalkEnds
  <2> QED BY <1>1, <1>2, <2>1
<1>6. CASE WalkBinds(disp.ctx)
  BY <1>1, <1>2, <1>6 DEF WalkBinds
<1>7. CASE WalkSends(disp.ctx)
  BY <1>1, <1>3, <1>7 DEF WalkSends, Pops
<1>8. CASE WalkExpires(disp.ctx)
  <2>1. PICK o : Pops(disp.ctx, o) /\ SendNext([o EXCEPT !.state = "expired"])
    BY <1>8 DEF WalkExpires
  <2>2. [o EXCEPT !.state = "expired"] \in Objects
    BY <2>1 DEF Pops, Objects
  <2> QED BY <1>1, <1>3, <2>1, <2>2
<1>9. CASE WalkSyncs(disp.ctx) \/ WalkRetires(disp.ctx)
  BY <1>1, <1>4, <1>9 DEF WalkSyncs, WalkRetires
<1> QED
  BY <1>5, <1>6, <1>7, <1>8, <1>9 DEF WalkOutcome

\* The dispatcher after hwsched_sendcmd.
LEMMA SendDisp ==
    ASSUME TypeOK, SendOutcome
    PROVE  /\ mutex' = mutex /\ bits' = bits /\ SameJob /\ disp'.held = disp.held
           /\ \/ /\ SendDone(disp.ctx, disp.obj)
                 /\ disp'.pc = "next" /\ disp'.obj = None /\ disp'.count = 1 /\ disp'.ret = "none"
              \/ /\ SendGone(disp.ctx)
                 /\ disp'.pc = "end" /\ disp'.obj = None /\ disp'.ret = "ENOENT"
                 /\ bits[disp.ctx] # {}
              \/ /\ SendFails
                 /\ disp'.pc = "back" /\ disp'.obj = disp.obj /\ disp'.count = disp.count
                 /\ disp'.ret \in {"ENOSPC", "EBUSY", "EINVAL"}
<1>1. mutex' = mutex /\ bits' = bits /\ disp \in DispType
  BY DEF SendOutcome, SendRest, TypeOK, DispType, ctxVars
<1>2. CASE SendDone(disp.ctx, disp.obj)
  <2>1. disp' = [disp EXCEPT !.pc = "next", !.obj = None, !.count = 1, !.ret = "none"]
    BY <1>2 DEF SendDone
  <2>2. SameJob
    BY <1>1, <2>1 DEF DispType, SameJob
  <2> QED BY <1>1, <1>2, <2>1, <2>2 DEF DispType
<1>3. CASE SendGone(disp.ctx)
  <2>1. disp' = [disp EXCEPT !.pc = "end", !.obj = None, !.ret = "ENOENT"]
    BY <1>3 DEF SendGone
  <2>2. SameJob
    BY <1>1, <2>1 DEF DispType, SameJob
  <2>3. bits[disp.ctx] # {}
    BY <1>3 DEF SendGone, kgsl_context_detached
  <2> QED BY <1>1, <1>3, <2>1, <2>2, <2>3 DEF DispType
<1>4. CASE SendFails
  <2>1. PICK r \in {"ENOSPC", "EBUSY", "EINVAL"} : disp' = [disp EXCEPT !.pc = "back", !.ret = r]
    BY <1>4 DEF SendFails
  <2>2. SameJob
    BY <1>1, <2>1 DEF DispType, SameJob
  <2> QED BY <1>1, <1>4, <2>1, <2>2 DEF DispType
<1> QED
  BY <1>2, <1>3, <1>4 DEF SendOutcome

\* The dispatcher stays where it can be.
LEMMA ControlStep ==
    ASSUME TypeOK, Control, Step
    PROVE  Control'
<1>a. /\ disp \in DispType /\ mutex \in Threads \cup {worker, None}
      /\ bits \in [Ctx -> SUBSET {"INVALID", "DETACHED"}]
  BY DEF TypeOK, DispType
<1>1. ASSUME UNCHANGED <<mutex, disp, bits>> PROVE Control'
  BY <1>1 DEF Control, ControlOf
<1>2. ASSUME NEW p \in Threads, SubmitOutcome(p) \/ kgsl_ioctl_gpu_aux_command(p)
              \/ _wait_for_room_in_context_queue(p) \/ WaitTimeout(p) \/ QueueJob(p)
      PROVE  Control'
  BY <1>1, <1>2 DEF SubmitOutcome, kgsl_ioctl_gpu_aux_command, _wait_for_room_in_context_queue,
    WaitTimeout, QueueJob, SubmitRest, Refused, Sleeps, Fast, FastMarker, Enqueues, Return,
    AddJob, ctxVars, listVars, schedVars, gpuVars, faultVars, threadVars, boundVars
<1>3. ASSUME NEW c \in Ctx, GpuStart(c) \/ GpuRetire(c) \/ adreno_hwsched_fault(c)
              \/ adreno_hwsched_queue_context(c) \/ drawctxt_detach_drawobjs(c)
              \/ gen7_hwsched_context_detach(c)
      PROVE  Control'
  BY <1>1, <1>3 DEF GpuStart, GpuRetire, adreno_hwsched_fault, adreno_hwsched_queue_context,
    drawctxt_detach_drawobjs, gen7_hwsched_context_detach, AddJob, RetireTimestamp,
    wake_up_all, ctxVars, listVars, schedVars, gpuVars, faultVars, threadVars, boundVars
<1>4. CASE TsRetire \/ IdleHalt \/ IdleFlush \/ IdleGate \/ IdleUnhalt \/ IdleDone
  BY <1>1, <1>4 DEF TsRetire, IdleHalt, IdleFlush, IdleGate, IdleUnhalt, IdleDone, ctxVars,
    listVars, schedVars, gpuVars, faultVars, threadVars, boundVars
<1>5. ASSUME NEW p \in Threads, adreno_hwsched_issuecmds(p)
      PROVE  Control'
  BY <1>5, <1>a, Nones, NLevelsIs DEF adreno_hwsched_issuecmds, ctxVars, listVars, schedVars,
    gpuVars, faultVars, threadVars, boundVars, Control, ControlOf, DispType, NoDisp
<1>6. ASSUME NEW p \in Threads, IssuedByThread(p)
      PROVE  Control'
  BY <1>6, <1>a, Nones, NLevelsIs DEF IssuedByThread, Return, ctxVars, listVars, schedVars,
    gpuVars, faultVars, threadVars, boundVars, Control, ControlOf, DispType, NoDisp
<1>7. CASE hwsched_handle_jobs
  <2>1. AtRest(disp') /\ Arrives /\ mutex' = mutex /\ bits' = bits
    BY <1>7, JobArrives
  <2>2. disp.lvl < NLevels /\ disp.pc # "off"
    BY <1>7 DEF hwsched_handle_jobs, Control, ControlOf
  <2> QED BY <1>a, <2>1, <2>2, Nones, NLevelsIs DEF AtRest, Arrives, DispType, Control, ControlOf
<1>8. CASE hwsched_handle_jobs_list
  <2>1. AtRest(disp') /\ Arrives /\ mutex' = mutex /\ bits' = bits
    BY <1>8, JobArrives
  <2>2. disp.lvl < NLevels /\ disp.pc # "off"
    BY <1>8 DEF hwsched_handle_jobs_list, Control, ControlOf
  <2> QED BY <1>a, <2>1, <2>2, Nones, NLevelsIs DEF AtRest, Arrives, DispType, Control, ControlOf
<1>9. CASE WalkOutcome
  <2>1. disp.pc = "next"
    BY <1>9 DEF WalkOutcome
  <2> QED BY <1>9, <1>a, <2>1, WalkDisp, Nones DEF SameJob, Control, ControlOf
<1>10. CASE SendOutcome
  <2>1. disp.pc = "send"
    BY <1>10 DEF SendOutcome
  <2> QED BY <1>10, <1>a, <2>1, SendDisp, Nones DEF SameJob, Control, ControlOf
<1>11. CASE RequeueOutcome
  BY <1>11, <1>a, Nones, NLevelsIs DEF RequeueOutcome, PutsBack, Drops, ctxVars, listVars,
    schedVars, gpuVars, faultVars, threadVars, boundVars, Control, ControlOf, DispType, Good,
    kgsl_context_is_bad
<1>12. CASE SendcmdsDone
  <2>1. mutex' = mutex /\ bits' = bits /\ disp.pc = "end"
    BY <1>12 DEF SendcmdsDone, ctxVars
  <2>2. JobEnds /\ disp.lvl \in Levels
    BY <1>12, JobDone
  <2>3. disp.lvl \in Nat /\ disp.lvl < NLevels
    BY <2>2, NLevelsIs DEF Levels
  <2>4. mutex # None
    BY <2>1 DEF Control, ControlOf
  <2> QED BY <2>1, <2>2, <2>3, <2>4, Nones, NLevelsIs DEF JobEnds, Control, ControlOf
<1>13. CASE IssuedByWorker
  BY <1>13, <1>a, Nones, NLevelsIs DEF IssuedByWorker, ctxVars, listVars, schedVars, gpuVars,
    faultVars, threadVars, boundVars, Control, ControlOf, DispType, NoDisp
<1>14. CASE retire_cmd_list
  BY <1>14, <1>a, Nones, NLevelsIs DEF retire_cmd_list, WorkerLocks, Reap, ctxVars, listVars,
    schedVars, gpuVars, faultVars, threadVars, boundVars, Control, ControlOf, DispType, NoDisp
<1>15. CASE FaultOutcome
  BY <1>15, <1>a, Nones, NLevelsIs DEF FaultOutcome, adreno_hwsched_replay, Reap,
    adreno_drawctxt_invalidate, ctxVars, listVars, schedVars, gpuVars, faultVars, threadVars,
    boundVars, Control, ControlOf, DispType
<1>16. ASSUME NEW c \in Ctx, kgsl_context_detach(c)
      PROVE  Control'
  BY <1>16, <1>a, Nones, NLevelsIs DEF kgsl_context_detach, ctxVars, listVars, schedVars,
    gpuVars, faultVars, threadVars, boundVars, Control, ControlOf, DispType
<1>17. ASSUME NEW c \in Ctx, UnregisterTimeout(c)
      PROVE  Control'
  BY <1>17, <1>a, Nones, NLevelsIs DEF UnregisterTimeout, adreno_drawctxt_invalidate, ctxVars,
    listVars, schedVars, gpuVars, faultVars, threadVars, boundVars, Control, ControlOf, DispType
<1> QED
  BY <1>1, <1>2, <1>3, <1>4, <1>5, <1>6, <1>7, <1>8, <1>9, <1>10, <1>11, <1>12, <1>13, <1>14,
     <1>15, <1>16, <1>17 DEF Step

-----------------------------------------------------------------------------
(***************************************************************************)
(* Type correctness, in groups of variables.                               *)
(***************************************************************************)
CtxTypes ==
    /\ queue \in [Ctx -> Seq(Objects)] /\ queued \in [Ctx -> Nat]
    /\ timestamp \in [Ctx -> Nat] /\ queuedTs \in [Ctx -> Nat]
    /\ bits \in [Ctx -> SUBSET {"INVALID", "DETACHED"}]

ListTypes == jobs \in [Levels -> Seq(Ctx)] /\ requeue \in [Levels -> Seq(Ctx)]

DispTypes == mutex \in Threads \cup {worker, None} /\ disp \in DispType

SchedTypes ==
    /\ cmdList \in Seq(Entries) /\ inflight \in Nat
    /\ bigObj \in (Ctx \X Nat) \cup {None}
    /\ power \in BOOLEAN /\ active \in BOOLEAN

GpuTypes ==
    /\ gmu \in [Ctx -> Seq(Nat)] /\ irq \in BOOLEAN
    /\ sop \in [Ctx -> Nat] /\ eop \in [Ctx -> Nat]

ThreadTypes ==
    /\ pc \in [Threads -> {"idle", "queue", "sleep", "woken", "queued", "issue", "issuing"}]
    /\ batch \in [Threads -> Seq(Objects)] /\ sig \in [Threads -> BOOLEAN]

RestTypes ==
    /\ work \in BOOLEAN /\ halt \in BOOLEAN
    /\ fault \subseteq {"hard", "page", "gmu"}
    /\ ctxtBad \in (Ctx \X Nat) \cup {None}
    /\ dpc \in [Ctx -> {"live", "marked", "drained", "done"}]
    /\ ipc \in {"off", "queued", "flush", "gate", "gated", "idle"}
    /\ faults \in Nat /\ errs \in Nat /\ idles \in Nat

\* The groups make up TypeOK.
LEMMA TypesAre ==
    TypeOK <=> /\ CtxTypes /\ ListTypes /\ DispTypes /\ SchedTypes
               /\ GpuTypes /\ ThreadTypes /\ RestTypes
  BY DEF TypeOK, CtxTypes, ListTypes, DispTypes, SchedTypes, GpuTypes, ThreadTypes,
         RestTypes, DispType, Entries

\* An invalidation keeps the types of the contexts.
LEMMA InvalidateTypes ==
    ASSUME CtxTypes, NEW cs, NEW m, adreno_drawctxt_invalidate(cs, m)
    PROVE  CtxTypes'
<1>1. queue' = [c \in Ctx |-> IF c \in cs THEN <<>> ELSE queue[c]] /\ UNCHANGED <<queued, timestamp, queuedTs>>
  BY DEF adreno_drawctxt_invalidate
<1>2. queue' \in [Ctx -> Seq(Objects)]
  <2>1. \A c \in Ctx : (IF c \in cs THEN <<>> ELSE queue[c]) \in Seq(Objects)
    BY DEF CtxTypes
  <2> QED BY <1>1, <2>1
<1>3. bits' \in [Ctx -> SUBSET {"INVALID", "DETACHED"}]
  <2>1. bits' = [c \in Ctx |-> IF c \in cs THEN bits[c] \cup {"INVALID"} ELSE bits[c]]
    BY DEF adreno_drawctxt_invalidate
  <2> QED BY <2>1 DEF CtxTypes
<1> QED
  BY <1>1, <1>2, <1>3 DEF CtxTypes

\* The contexts.
LEMMA CtxTypesStep ==
    ASSUME TypeOK, QueuedCounts, Step
    PROVE  CtxTypes'
<1>a. CtxTypes
  BY TypesAre
<1>1. ASSUME UNCHANGED <<ctxVars>> PROVE CtxTypes'
  BY <1>1, <1>a DEF CtxTypes, ctxVars
<1>2. ASSUME NEW p \in Threads, kgsl_ioctl_gpu_aux_command(p)
              \/ _wait_for_room_in_context_queue(p) \/ WaitTimeout(p) \/ QueueJob(p)
              \/ adreno_hwsched_issuecmds(p) \/ IssuedByThread(p)
      PROVE  CtxTypes'
  BY <1>1, <1>2 DEF kgsl_ioctl_gpu_aux_command, _wait_for_room_in_context_queue, WaitTimeout,
    QueueJob, adreno_hwsched_issuecmds, IssuedByThread, Return, AddJob, ctxVars, listVars,
    schedVars, gpuVars, faultVars, threadVars, boundVars
<1>3. ASSUME NEW c \in Ctx, GpuStart(c) \/ GpuRetire(c) \/ adreno_hwsched_fault(c)
              \/ gen7_hwsched_context_detach(c)
      PROVE  CtxTypes'
  BY <1>1, <1>3 DEF GpuStart, GpuRetire, adreno_hwsched_fault, gen7_hwsched_context_detach,
    RetireTimestamp, wake_up_all, ctxVars, listVars, schedVars, gpuVars, faultVars, threadVars,
    boundVars
<1>4. CASE hwsched_handle_jobs \/ hwsched_handle_jobs_list \/ SendOutcome \/ SendcmdsDone
              \/ IssuedByWorker \/ retire_cmd_list \/ TsRetire \/ IdleHalt \/ IdleFlush
              \/ IdleGate \/ IdleUnhalt \/ IdleDone
  BY <1>1, <1>4 DEF hwsched_handle_jobs, hwsched_handle_jobs_list, SendOutcome, SendcmdsDone,
    IssuedByWorker, retire_cmd_list, TsRetire, IdleHalt, IdleFlush, IdleGate, IdleUnhalt,
    IdleDone, SendRest, SendDone, SendGone, SendFails, Submit, WakeSnoozing, wake_up_all,
    WorkerLocks, Reap, ctxVars, listVars, schedVars, gpuVars, faultVars, threadVars, boundVars
<1>5. ASSUME NEW p \in Threads, SubmitOutcome(p)
      PROVE  CtxTypes'
  <2>1. CASE Refused(p) \/ \E os : Sleeps(p, os)
    BY <1>1, <2>1 DEF Refused, Sleeps
  <2>3. CASE Fast(p)
    BY <1>5, <1>a, <2>3 DEF Fast, FastMarker, SubmitOutcome, CtxTypes
  <2>2. ASSUME NEW os, Offers(p, os), Enqueues(p, os)
        PROVE  CtxTypes'
    <3>1. CtxOf(p) \in Ctx /\ Len(os) \in Nat
      BY <1>5, <2>2 DEF SubmitOutcome, Offers
    <3>2. PICK c \in Ctx : c = CtxOf(p)
      BY <3>1
    <3>3. PICK n \in Nat : n = Len(os)
      BY <3>1
    <3>4. timestamp' \in [Ctx -> Nat] /\ queuedTs' \in [Ctx -> Nat]
      <4>1. timestamp[c] + 1 \in Nat
        BY <1>a DEF CtxTypes
      <4>2. \/ UNCHANGED <<timestamp, queuedTs>>
            \/ /\ timestamp' = [timestamp EXCEPT ![c] = timestamp[c] + 1]
               /\ queuedTs' = [queuedTs EXCEPT ![c] = timestamp[c] + 1]
        BY <2>2, <3>2 DEF Enqueues
      <4> QED BY <1>a, <4>1, <4>2 DEF CtxTypes
    <3>5. PICK r \in Seq(Objects) : queue' = [queue EXCEPT ![c] = r]
      BY <2>2, <3>2 DEF Enqueues, Tailed
    <3>6. queued' = [queued EXCEPT ![c] = queued[c] + n] /\ bits' = bits
      BY <2>2, <3>2, <3>3 DEF Enqueues
    <3>7. queued[c] + n \in Nat
      BY <1>a DEF CtxTypes
    <3> QED BY <1>a, <3>4, <3>5, <3>6, <3>7 DEF CtxTypes
  <2> QED BY <1>5, <2>1, <2>2, <2>3 DEF SubmitOutcome
<1>6. CASE WalkOutcome
  <2>1. disp.ctx \in Ctx /\ timestamp' = timestamp /\ queuedTs' = queuedTs /\ bits' = bits
    BY <1>6 DEF WalkOutcome, WalkRest
  <2>2. ASSUME NEW x, Pops(disp.ctx, x)
        PROVE  CtxTypes'
    <3>1. Len(queue[disp.ctx]) # 0 /\ Len(queue[disp.ctx]) \in Nat
      BY <1>a, <2>1, <2>2 DEF Pops, CtxTypes
    <3>2. queued[disp.ctx] - 1 \in Nat
      BY <1>a, <2>1, <3>1 DEF QueuedCounts, CtxTypes
    <3> QED BY <1>a, <2>1, <2>2, <3>2 DEF Pops, CtxTypes
  <2>3. CASE WalkEnds(disp.ctx)
    BY <1>a, <2>1, <2>3 DEF WalkEnds, CtxTypes
  <2>4. CASE WalkBinds(disp.ctx)
    BY <1>a, <2>1, <2>4 DEF WalkBinds, Stated, CtxTypes
  <2> QED BY <1>6, <2>2, <2>3, <2>4
          DEF WalkOutcome, WalkSends, WalkExpires, WalkSyncs, WalkRetires
<1>7. CASE RequeueOutcome
  <2>1. UNCHANGED <<timestamp, queuedTs, bits>> /\ disp.ctx \in Ctx
    BY <1>7 DEF RequeueOutcome
  <2>2. CASE Drops(disp.ctx)
    BY <1>a, <2>1, <2>2 DEF Drops, CtxTypes
  <2>3. CASE PutsBack(disp.ctx)
    <3>1. PICK r \in Seq(Objects) : queue' = [queue EXCEPT ![disp.ctx] = r]
      BY <2>3 DEF PutsBack, Headed
    <3>2. queued' = [queued EXCEPT ![disp.ctx] = queued[disp.ctx] + 1]
      BY <2>3 DEF PutsBack
    <3> QED BY <1>a, <2>1, <3>1, <3>2 DEF CtxTypes
  <2> QED BY <1>7, <2>2, <2>3 DEF RequeueOutcome
<1>8. CASE FaultOutcome
  <2>1. PICK cs, m : adreno_drawctxt_invalidate(cs, m)
    BY <1>8 DEF FaultOutcome
  <2> QED BY <1>a, <2>1, InvalidateTypes
<1>9. ASSUME NEW c \in Ctx, adreno_hwsched_queue_context(c)
      PROVE  CtxTypes'
  <2>1. UNCHANGED <<queued, timestamp, queuedTs, bits>>
    BY <1>9 DEF adreno_hwsched_queue_context
  <2>2. \E i \in 1 .. Len(queue[c]) : queue' = [queue EXCEPT ![c][i].state = "ready"]
    <3>1. DOMAIN queue[c] = 1 .. Len(queue[c])
      BY <1>a DEF CtxTypes
    <3> QED BY <1>9, <3>1 DEF adreno_hwsched_queue_context
  <2>3. \E r : r \in Seq(Objects) /\ queue' = [queue EXCEPT ![c] = r]
    <3>1. \E i, r : Stated(r, queue[c], i, "ready") /\ queue' = [queue EXCEPT ![c] = r]
      BY <2>2, StatedIs
    <3> QED BY <3>1 DEF Stated
  <2> QED BY <1>a, <2>1, <2>3 DEF CtxTypes
<1>10. ASSUME NEW c \in Ctx, kgsl_context_detach(c)
      PROVE  CtxTypes'
  BY <1>10, <1>a DEF kgsl_context_detach, ctxVars, listVars, schedVars, gpuVars, faultVars,
    threadVars, boundVars, CtxTypes
<1>11. ASSUME NEW c \in Ctx, drawctxt_detach_drawobjs(c)
      PROVE  CtxTypes'
  BY <1>11, <1>a DEF drawctxt_detach_drawobjs, ctxVars, listVars, schedVars, gpuVars,
    faultVars, threadVars, boundVars, CtxTypes
<1>12. ASSUME NEW c \in Ctx, UnregisterTimeout(c)
      PROVE  CtxTypes'
  <2>1. adreno_drawctxt_invalidate({c}, Memstore)
    BY <1>12 DEF UnregisterTimeout
  <2> QED BY <1>a, <2>1, InvalidateTypes
<1> QED
  BY <1>1, <1>2, <1>3, <1>4, <1>5, <1>6, <1>7, <1>8, <1>9, <1>10, <1>11, <1>12 DEF Step

\* The lists of jobs.
LEMMA ListTypesStep ==
    ASSUME TypeOK, Control, Step
    PROVE  ListTypes'
<1>a. ListTypes
  BY TypesAre
<1>1. ASSUME UNCHANGED <<jobs, requeue>> PROVE ListTypes'
  BY <1>1, <1>a DEF ListTypes
<1>2. ASSUME NEW p \in Threads, SubmitOutcome(p) \/ kgsl_ioctl_gpu_aux_command(p)
              \/ _wait_for_room_in_context_queue(p) \/ WaitTimeout(p)
              \/ adreno_hwsched_issuecmds(p) \/ IssuedByThread(p)
      PROVE  ListTypes'
  BY <1>1, <1>2 DEF SubmitOutcome, kgsl_ioctl_gpu_aux_command, _wait_for_room_in_context_queue,
    WaitTimeout, adreno_hwsched_issuecmds, IssuedByThread, SubmitRest, Refused, Sleeps, Fast,
    FastMarker, Enqueues, Return, ctxVars, listVars, schedVars, gpuVars, faultVars, threadVars,
    boundVars
<1>3. ASSUME NEW c \in Ctx, GpuStart(c) \/ GpuRetire(c) \/ adreno_hwsched_fault(c)
              \/ kgsl_context_detach(c) \/ drawctxt_detach_drawobjs(c)
              \/ gen7_hwsched_context_detach(c) \/ UnregisterTimeout(c)
      PROVE  ListTypes'
  BY <1>1, <1>3 DEF GpuStart, GpuRetire, adreno_hwsched_fault, kgsl_context_detach,
    drawctxt_detach_drawobjs, gen7_hwsched_context_detach, UnregisterTimeout, RetireTimestamp,
    wake_up_all, adreno_drawctxt_invalidate, ctxVars, listVars, schedVars, gpuVars, faultVars,
    threadVars, boundVars
<1>4. CASE hwsched_handle_jobs_list \/ WalkOutcome \/ SendOutcome \/ RequeueOutcome
              \/ IssuedByWorker \/ retire_cmd_list \/ FaultOutcome \/ TsRetire \/ IdleHalt
              \/ IdleFlush \/ IdleGate \/ IdleUnhalt \/ IdleDone
  BY <1>1, <1>4 DEF hwsched_handle_jobs_list, WalkOutcome, SendOutcome, RequeueOutcome,
    IssuedByWorker, retire_cmd_list, FaultOutcome, TsRetire, IdleHalt, IdleFlush, IdleGate,
    IdleUnhalt, IdleDone, WalkRest, WalkEnds, WalkSends, WalkExpires, WalkSyncs, WalkRetires,
    WalkBinds, Stop, SendNext, Pops, RetireTimestamp, SendRest, SendDone, SendGone, SendFails,
    Submit, PutsBack, Drops, WorkerLocks, Reap, adreno_hwsched_replay,
    adreno_drawctxt_invalidate, ctxVars, listVars, schedVars, gpuVars, faultVars, threadVars,
    boundVars
<1>5. ASSUME NEW p \in Threads, QueueJob(p)
      PROVE  ListTypes'
  BY <1>5, <1>a, NLevelsIs DEF QueueJob, AddJob, ctxVars, listVars, schedVars, gpuVars,
    faultVars, threadVars, boundVars, ListTypes, CtxOf, Threads
<1>6. CASE hwsched_handle_jobs
  <2>1. <<>> \in Seq(Ctx)
    OBVIOUS
  <2> QED BY <1>6, <1>a, <2>1 DEF hwsched_handle_jobs, ListTypes
<1>7. CASE SendcmdsDone
  <2>1. disp.ctx \in Ctx /\ disp.lvl \in Levels
    BY <1>7, JobDone
  <2>2. PICK c \in Ctx, l \in Levels : c = disp.ctx /\ l = disp.lvl
    BY <2>1
  <2>3. Append(jobs[l], c) \in Seq(Ctx) /\ Append(requeue[l], c) \in Seq(Ctx)
    BY <1>a DEF ListTypes
  <2>4. \/ UNCHANGED <<jobs, requeue>>
        \/ requeue' = [requeue EXCEPT ![l] = Append(requeue[l], c)] /\ UNCHANGED jobs
        \/ jobs' = [jobs EXCEPT ![l] = Append(jobs[l], c)] /\ UNCHANGED requeue
    BY <1>7, <2>2 DEF SendcmdsDone, listVars
  <2> QED BY <1>a, <2>3, <2>4 DEF ListTypes
<1>8. ASSUME NEW c \in Ctx, adreno_hwsched_queue_context(c)
      PROVE  ListTypes'
  <2>1. PICK l \in Levels : l = Level[c]
    BY NLevelsIs
  <2>2. Append(jobs[l], c) \in Seq(Ctx)
    BY <1>a DEF ListTypes
  <2>3. UNCHANGED requeue /\ (jobs' = jobs \/ jobs' = [jobs EXCEPT ![l] = Append(jobs[l], c)])
    BY <1>8, <2>1 DEF adreno_hwsched_queue_context, AddJob
  <2> QED BY <1>a, <2>2, <2>3 DEF ListTypes
<1> QED
  BY <1>1, <1>2, <1>3, <1>4, <1>5, <1>6, <1>7, <1>8 DEF Step

\* The dispatcher.
LEMMA DispTypesStep ==
    ASSUME TypeOK, Control, Step
    PROVE  DispTypes'
<1>a. DispTypes
  BY TypesAre
<1>b. NoDisp \in DispType /\ [NoDisp EXCEPT !.pc = "level"] \in DispType
  <2>1. <<>> \in Seq(Ctx) /\ {} \in SUBSET Ctx
    OBVIOUS
  <2> QED BY <2>1 DEF NoDisp, DispType
<1>1. ASSUME UNCHANGED <<mutex, disp>> PROVE DispTypes'
  BY <1>1, <1>a DEF DispTypes
<1>2. ASSUME NEW p \in Threads, SubmitOutcome(p) \/ kgsl_ioctl_gpu_aux_command(p)
              \/ _wait_for_room_in_context_queue(p) \/ WaitTimeout(p) \/ QueueJob(p)
      PROVE  DispTypes'
  BY <1>1, <1>2 DEF SubmitOutcome, kgsl_ioctl_gpu_aux_command, _wait_for_room_in_context_queue,
    WaitTimeout, QueueJob, SubmitRest, Refused, Sleeps, Fast, FastMarker, Enqueues, Return,
    AddJob, ctxVars, listVars, schedVars, gpuVars, faultVars, threadVars, boundVars
<1>3. ASSUME NEW c \in Ctx, GpuStart(c) \/ GpuRetire(c) \/ adreno_hwsched_fault(c)
              \/ adreno_hwsched_queue_context(c) \/ kgsl_context_detach(c)
              \/ drawctxt_detach_drawobjs(c) \/ gen7_hwsched_context_detach(c)
              \/ UnregisterTimeout(c)
      PROVE  DispTypes'
  BY <1>1, <1>3 DEF GpuStart, GpuRetire, adreno_hwsched_fault, adreno_hwsched_queue_context,
    kgsl_context_detach, drawctxt_detach_drawobjs, gen7_hwsched_context_detach,
    UnregisterTimeout, AddJob, RetireTimestamp, wake_up_all, adreno_drawctxt_invalidate,
    ctxVars, listVars, schedVars, gpuVars, faultVars, threadVars, boundVars
<1>4. CASE FaultOutcome \/ TsRetire \/ IdleHalt \/ IdleFlush \/ IdleGate \/ IdleUnhalt
              \/ IdleDone
  BY <1>1, <1>4 DEF FaultOutcome, TsRetire, IdleHalt, IdleFlush, IdleGate, IdleUnhalt,
    IdleDone, adreno_hwsched_replay, Reap, adreno_drawctxt_invalidate, ctxVars, listVars,
    schedVars, gpuVars, faultVars, threadVars, boundVars
<1>5. ASSUME NEW p \in Threads, adreno_hwsched_issuecmds(p)
      PROVE  DispTypes'
  <2>1. CASE disp' = [NoDisp EXCEPT !.pc = "level"] /\ mutex' = p
    BY <1>b, <2>1 DEF DispTypes
  <2> QED BY <1>5, <1>a, <2>1 DEF adreno_hwsched_issuecmds, DispTypes
<1>6. ASSUME NEW p \in Threads, IssuedByThread(p)
      PROVE  DispTypes'
  BY <1>6, <1>b DEF IssuedByThread, Return, ctxVars, listVars, schedVars, gpuVars, faultVars,
    threadVars, boundVars, DispTypes
<1>7. CASE hwsched_handle_jobs
  BY <1>7, <1>a, JobArrives DEF hwsched_handle_jobs, ctxVars, listVars, schedVars, gpuVars,
    faultVars, threadVars, boundVars, DispTypes, AtRest
<1>8. CASE hwsched_handle_jobs_list
  BY <1>8, <1>a, JobArrives DEF hwsched_handle_jobs_list, ctxVars, listVars, schedVars,
    gpuVars, faultVars, threadVars, boundVars, DispTypes, AtRest
<1>9. CASE WalkOutcome
  BY <1>9, <1>a, WalkDisp DEF SameJob, DispTypes
<1>10. CASE SendOutcome
  BY <1>10, <1>a, SendDisp DEF SameJob, DispTypes
<1>11. CASE RequeueOutcome
  BY <1>11, <1>a DEF RequeueOutcome, PutsBack, Drops, ctxVars, listVars, schedVars, gpuVars,
    faultVars, threadVars, boundVars, DispTypes, DispType
<1>12. CASE SendcmdsDone
  BY <1>12, <1>a, JobDone DEF JobEnds, SendcmdsDone, DispTypes
<1>13. CASE IssuedByWorker
  BY <1>13, <1>b DEF IssuedByWorker, ctxVars, listVars, schedVars, gpuVars, faultVars,
    threadVars, boundVars, DispTypes
<1>14. CASE retire_cmd_list
  BY <1>14, <1>b DEF retire_cmd_list, WorkerLocks, Reap, ctxVars, listVars, schedVars, gpuVars,
    faultVars, threadVars, boundVars, DispTypes
<1> QED
  BY <1>1, <1>2, <1>3, <1>4, <1>5, <1>6, <1>7, <1>8, <1>9, <1>10, <1>11, <1>12, <1>13, <1>14 DEF Step

\* What reaping leaves of cmd_list.
LEMMA ReapIs ==
    ASSUME SchedTypes, NEW done, Reap(done)
    PROVE  /\ cmdList' \in Seq(Entries) /\ Len(cmdList') \in Nat /\ Len(cmdList') <= Len(cmdList)
           /\ \A k \in 1 .. Len(cmdList') :
                cmdList'[k] \notin done /\ \E i \in 1 .. Len(cmdList) : cmdList'[k] = cmdList[i]
           /\ \A i \in 1 .. Len(cmdList) :
                cmdList[i] \notin done => \E k \in 1 .. Len(cmdList') : cmdList'[k] = cmdList[i]
           /\ \A k, l \in 1 .. Len(cmdList') : k < l =>
                \E i, j \in 1 .. Len(cmdList) : i < j /\ cmdList'[k] = cmdList[i] /\ cmdList'[l] = cmdList[j]
           /\ inflight' = inflight - (Len(cmdList) - Len(cmdList'))
           /\ bigObj' \in {bigObj, None}
<1>1. cmdList \in Seq(Entries)
  BY DEF SchedTypes
<1>2. PICK s \in Seq(Entries) : s = cmdList
  BY <1>1
<1>3. PICK t \in Seq(Entries) : t = Only(s, ToSet(s) \ done)
  BY OnlyIs
<1>4. cmdList' = t
  BY <1>2, <1>3 DEF Reap
<1>5. \A i \in 1 .. Len(s) : s[i] \in ToSet(s)
  BY DEF ToSet
<1>6. /\ Len(t) <= Len(s)
      /\ \A k \in 1 .. Len(t) : t[k] \in ToSet(s) \ done /\ \E i \in 1 .. Len(s) : t[k] = s[i]
      /\ \A i \in 1 .. Len(s) : s[i] \in ToSet(s) \ done => \E k \in 1 .. Len(t) : t[k] = s[i]
      /\ \A k, l \in 1 .. Len(t) : k < l =>
            \E i, j \in 1 .. Len(s) : i < j /\ t[k] = s[i] /\ t[l] = s[j]
  <2>1. Filtered(t, s, ToSet(s) \ done)
    BY <1>3, OnlyKeeps
  <2> QED BY <2>1 DEF Filtered
<1>7. inflight' = inflight - (Len(s) - Len(t)) /\ bigObj' \in {bigObj, None}
  BY <1>2, <1>4 DEF Reap
<1>8. Len(t) \in Nat
  OBVIOUS
<1> QED
  BY <1>2, <1>4, <1>5, <1>6, <1>7, <1>8

\* Reaping keeps the types of the commands.
LEMMA ReapTypes ==
    ASSUME SchedTypes, Len(cmdList) <= inflight, NEW done, Reap(done)
    PROVE  /\ cmdList' \in Seq(Entries) /\ inflight' \in Nat
           /\ bigObj' \in (Ctx \X Nat) \cup {None}
<1>1. cmdList' \in Seq(Entries) /\ bigObj' \in (Ctx \X Nat) \cup {None}
  BY ReapIs DEF SchedTypes
<1>2. inflight \in Nat /\ Len(cmdList) \in Nat
  BY DEF SchedTypes
<1>3. /\ Len(cmdList') \in Nat /\ Len(cmdList') <= Len(cmdList)
      /\ inflight' = inflight - (Len(cmdList) - Len(cmdList'))
  BY ReapIs
<1> QED
  BY <1>1, <1>2, <1>3

\* The commands of the scheduler.
LEMMA SchedTypesStep ==
    ASSUME TypeOK, Control, Gate, Step
    PROVE  SchedTypes'
<1>a. SchedTypes
  BY TypesAre
<1>1. ASSUME UNCHANGED <<schedVars>> PROVE SchedTypes'
  BY <1>1, <1>a DEF SchedTypes, schedVars
<1>2. ASSUME NEW p \in Threads, SubmitOutcome(p) \/ kgsl_ioctl_gpu_aux_command(p)
              \/ _wait_for_room_in_context_queue(p) \/ WaitTimeout(p) \/ QueueJob(p)
              \/ adreno_hwsched_issuecmds(p) \/ IssuedByThread(p)
      PROVE  SchedTypes'
  BY <1>1, <1>2 DEF SubmitOutcome, kgsl_ioctl_gpu_aux_command, _wait_for_room_in_context_queue,
    WaitTimeout, QueueJob, adreno_hwsched_issuecmds, IssuedByThread, SubmitRest, Refused,
    Sleeps, Fast, FastMarker, Enqueues, Return, AddJob, ctxVars, listVars, schedVars, gpuVars,
    faultVars, threadVars, boundVars
<1>3. ASSUME NEW c \in Ctx, GpuStart(c) \/ GpuRetire(c) \/ adreno_hwsched_fault(c)
              \/ adreno_hwsched_queue_context(c) \/ kgsl_context_detach(c)
              \/ drawctxt_detach_drawobjs(c) \/ gen7_hwsched_context_detach(c)
              \/ UnregisterTimeout(c)
      PROVE  SchedTypes'
  BY <1>1, <1>3 DEF GpuStart, GpuRetire, adreno_hwsched_fault, adreno_hwsched_queue_context,
    kgsl_context_detach, drawctxt_detach_drawobjs, gen7_hwsched_context_detach,
    UnregisterTimeout, AddJob, RetireTimestamp, wake_up_all, adreno_drawctxt_invalidate,
    ctxVars, listVars, schedVars, gpuVars, faultVars, threadVars, boundVars
<1>4. CASE hwsched_handle_jobs \/ hwsched_handle_jobs_list \/ WalkOutcome \/ RequeueOutcome
              \/ SendcmdsDone \/ TsRetire \/ IdleHalt \/ IdleFlush \/ IdleGate \/ IdleUnhalt
              \/ IdleDone
  BY <1>1, <1>4 DEF hwsched_handle_jobs, hwsched_handle_jobs_list, WalkOutcome, RequeueOutcome,
    SendcmdsDone, TsRetire, IdleHalt, IdleFlush, IdleGate, IdleUnhalt, IdleDone, WalkRest,
    WalkEnds, WalkSends, WalkExpires, WalkSyncs, WalkRetires, WalkBinds, Stop, SendNext, Pops,
    RetireTimestamp, PutsBack, Drops, WakeSnoozing, wake_up_all, ctxVars, listVars, schedVars,
    gpuVars, faultVars, threadVars, boundVars
<1>5. CASE SendOutcome
  <2>1. disp.ctx \in Ctx /\ disp.obj \in Objects
    BY <1>5 DEF SendOutcome
  <2>2. CASE SendFails \/ SendGone(disp.ctx)
    BY <1>a, <2>2 DEF SendFails, SendGone, SchedTypes, schedVars
  <2>3. CASE SendDone(disp.ctx, disp.obj)
    <3>1. PICK c \in Ctx, x \in Objects : c = disp.ctx /\ x = disp.obj
      BY <2>1
    <3>2. Submit(c, x)
      BY <2>3, <3>1 DEF SendDone
    <3>3. <<c, x.ts>> \in Ctx \X Nat /\ [ctx |-> c, obj |-> x] \in Entries
      BY DEF Objects, Entries
    <3>4. Append(cmdList, [ctx |-> c, obj |-> x]) \in Seq(Entries)
      BY <1>a, <3>3 DEF SchedTypes
    <3>5. cmdList' \in Seq(Entries)
      BY <1>a, <3>2, <3>4 DEF Submit, SchedTypes
    <3>6. bigObj' \in (Ctx \X Nat) \cup {None}
      BY <1>a, <3>2, <3>3 DEF Submit, SchedTypes
    <3>7. inflight' \in Nat
      BY <1>a, <3>2 DEF Submit, SchedTypes
    <3>8. power' \in BOOLEAN /\ active' \in BOOLEAN
      BY <3>2 DEF Submit
    <3> QED BY <3>5, <3>6, <3>7, <3>8 DEF SchedTypes
  <2> QED BY <1>5, <2>2, <2>3 DEF SendOutcome
<1>6. CASE IssuedByWorker
  BY <1>6, <1>a DEF IssuedByWorker, ctxVars, listVars, schedVars, gpuVars, faultVars,
    threadVars, boundVars, SchedTypes
<1>7. CASE retire_cmd_list
  <2>1. PICK done : Reap(done)
    BY <1>7 DEF retire_cmd_list
  <2>2. UNCHANGED <<power, active>>
    BY <1>7 DEF retire_cmd_list
  <2> QED BY <1>a, <2>1, <2>2, ReapTypes DEF Gate, SchedTypes
<1>8. CASE FaultOutcome
  <2>1. PICK done : Reap(done)
    BY <1>8 DEF FaultOutcome, adreno_hwsched_replay
  <2>2. UNCHANGED <<power, active>>
    BY <1>8 DEF FaultOutcome
  <2> QED BY <1>a, <2>1, <2>2, ReapTypes DEF Gate, SchedTypes
<1> QED
  BY <1>1, <1>2, <1>3, <1>4, <1>5, <1>6, <1>7, <1>8 DEF Step

\* The memstore after an invalidation.
LEMMA InvalidateMemstore ==
    ASSUME TypeOK, NEW cs, NEW m, Blames(cs, m), adreno_drawctxt_invalidate(cs, m)
    PROVE  sop' \in [Ctx -> Nat] /\ eop' \in [Ctx -> Nat]
<1>1. GpuTypes /\ SchedTypes /\ CtxTypes
  BY TypesAre
<1>2. m.sop \in [Ctx -> Nat] /\ m.eop \in [Ctx -> Nat]
  <2>1. CASE m = Memstore
    BY <1>1, <2>1 DEF Memstore, GpuTypes
  <2>2. ASSUME NEW i \in 1 .. Len(cmdList),
               m = [sop |-> [sop EXCEPT ![cmdList[i].ctx] = cmdList[i].obj.ts],
                    eop |-> [eop EXCEPT ![cmdList[i].ctx] = cmdList[i].obj.ts]]
        PROVE  m.sop \in [Ctx -> Nat] /\ m.eop \in [Ctx -> Nat]
    <3>1. cmdList[i] \in Entries
      BY <1>1 DEF SchedTypes
    <3>2. cmdList[i].ctx \in Ctx /\ cmdList[i].obj.ts \in Nat
      BY <3>1 DEF Entries, Objects
    <3> QED BY <1>1, <2>2, <3>2 DEF GpuTypes
  <2> QED BY <2>1, <2>2 DEF Blames
<1>3. /\ sop' = [c \in Ctx |-> IF c \in cs THEN timestamp[c] ELSE m.sop[c]]
      /\ eop' = [c \in Ctx |-> IF c \in cs THEN timestamp[c] ELSE m.eop[c]]
  BY DEF adreno_drawctxt_invalidate
<1> QED
  BY <1>1, <1>2, <1>3 DEF CtxTypes

\* The GPU.
LEMMA GpuTypesStep ==
    ASSUME TypeOK, Control, Gate, Step
    PROVE  GpuTypes'
<1>a. GpuTypes
  BY TypesAre
<1>b. CtxTypes
  BY TypesAre
<1>1. ASSUME UNCHANGED <<gpuVars>> PROVE GpuTypes'
  BY <1>1, <1>a DEF GpuTypes, gpuVars
<1>2. ASSUME NEW p \in Threads, kgsl_ioctl_gpu_aux_command(p)
              \/ _wait_for_room_in_context_queue(p) \/ WaitTimeout(p) \/ QueueJob(p)
              \/ adreno_hwsched_issuecmds(p) \/ IssuedByThread(p)
      PROVE  GpuTypes'
  BY <1>1, <1>2 DEF kgsl_ioctl_gpu_aux_command, _wait_for_room_in_context_queue, WaitTimeout,
    QueueJob, adreno_hwsched_issuecmds, IssuedByThread, Return, AddJob, ctxVars, listVars,
    schedVars, gpuVars, faultVars, threadVars, boundVars
<1>3. ASSUME NEW c \in Ctx, adreno_hwsched_fault(c) \/ adreno_hwsched_queue_context(c)
              \/ kgsl_context_detach(c) \/ drawctxt_detach_drawobjs(c)
      PROVE  GpuTypes'
  BY <1>1, <1>3 DEF adreno_hwsched_fault, adreno_hwsched_queue_context, kgsl_context_detach,
    drawctxt_detach_drawobjs, AddJob, ctxVars, listVars, schedVars, gpuVars, faultVars,
    threadVars, boundVars
<1>4. CASE hwsched_handle_jobs \/ hwsched_handle_jobs_list \/ RequeueOutcome \/ SendcmdsDone
              \/ IssuedByWorker \/ retire_cmd_list \/ IdleHalt \/ IdleFlush \/ IdleGate
              \/ IdleUnhalt \/ IdleDone
  BY <1>1, <1>4 DEF hwsched_handle_jobs, hwsched_handle_jobs_list, RequeueOutcome,
    SendcmdsDone, IssuedByWorker, retire_cmd_list, IdleHalt, IdleFlush, IdleGate, IdleUnhalt,
    IdleDone, PutsBack, Drops, WakeSnoozing, wake_up_all, WorkerLocks, Reap, ctxVars, listVars,
    schedVars, gpuVars, faultVars, threadVars, boundVars
<1>5. ASSUME NEW p \in Threads, SubmitOutcome(p)
      PROVE  GpuTypes'
  <2>1. CASE Refused(p) \/ (\E os : Sleeps(p, os)) \/ (\E os : Enqueues(p, os))
    BY <1>1, <2>1 DEF Refused, Sleeps, Enqueues
  <2>2. CASE Fast(p)
    <3>1. CtxOf(p) \in Ctx
      BY <1>5 DEF SubmitOutcome
    <3>2. PICK c \in Ctx : c = CtxOf(p)
      BY <3>1
    <3>3. /\ sop' = [sop EXCEPT ![c] = timestamp[c] + 1] /\ eop' = [eop EXCEPT ![c] = timestamp[c] + 1]
          /\ UNCHANGED <<gmu, irq>>
      BY <2>2, <3>2 DEF Fast, FastMarker
    <3>4. timestamp[c] + 1 \in Nat
      BY <1>b DEF CtxTypes
    <3> QED BY <1>a, <3>3, <3>4 DEF GpuTypes
  <2> QED BY <1>5, <2>1, <2>2 DEF SubmitOutcome
<1>6. CASE WalkOutcome
  <2>1. disp.ctx \in Ctx /\ UNCHANGED <<gmu, irq>>
    BY <1>6 DEF WalkOutcome, WalkRest
  <2>2. ASSUME NEW x, Pops(disp.ctx, x), RetireTimestamp(disp.ctx, x.ts)
        PROVE  GpuTypes'
    <3>1. x.ts \in Nat
      BY <2>2 DEF Pops, Objects
    <3> QED BY <1>a, <2>1, <2>2, <3>1 DEF RetireTimestamp, GpuTypes
  <2>3. CASE UNCHANGED <<sop, eop>>
    BY <1>a, <2>1, <2>3 DEF GpuTypes
  <2> QED BY <1>6, <2>2, <2>3
          DEF WalkOutcome, WalkEnds, WalkSends, WalkExpires, WalkSyncs, WalkRetires, WalkBinds
<1>7. CASE SendOutcome
  <2>1. disp.ctx \in Ctx /\ disp.obj \in Objects /\ UNCHANGED <<sop, eop, irq>>
    BY <1>7 DEF SendOutcome, SendRest
  <2>2. disp.obj.ts \in Nat
    BY <2>1 DEF Objects
  <2>3. Append(gmu[disp.ctx], disp.obj.ts) \in Seq(Nat)
    BY <1>a, <2>1, <2>2 DEF GpuTypes
  <2>4. gmu' = gmu \/ gmu' = [gmu EXCEPT ![disp.ctx] = Append(gmu[disp.ctx], disp.obj.ts)]
    BY <1>7 DEF SendOutcome, SendDone, SendGone, SendFails, Submit
  <2> QED BY <1>a, <2>1, <2>3, <2>4 DEF GpuTypes
<1>8. CASE FaultOutcome
  <2>1. sop' \in [Ctx -> Nat] /\ eop' \in [Ctx -> Nat] /\ irq' \in BOOLEAN
    BY <1>8, InvalidateMemstore DEF FaultOutcome
  <2>2. gmu' \in [Ctx -> Seq(Nat)]
    <3>1. adreno_hwsched_replay
      BY <1>8 DEF FaultOutcome
    <3>2. SchedTypes /\ Len(cmdList) <= inflight
      BY TypesAre DEF Gate
    <3>3. cmdList' \in Seq(Entries)
      BY <3>1, <3>2, ReapIs DEF adreno_hwsched_replay
    <3>4. ASSUME NEW c \in Ctx, NEW S
          PROVE  [i \in DOMAIN Only(cmdList', S) |-> Only(cmdList', S)[i].obj.ts] \in Seq(Nat)
      <4>1. PICK u \in Seq(Entries) : u = Only(cmdList', S)
        BY <3>3, OnlyIs
      <4>2. \A i \in DOMAIN u : u[i] \in Entries
        OBVIOUS
      <4>3. \A i \in DOMAIN u : u[i].obj.ts \in Nat
        BY <4>2 DEF Entries, Objects
      <4>4. [i \in DOMAIN u |-> u[i].obj.ts] \in Seq(Nat)
        BY <4>3
      <4> QED BY <4>1, <4>4
    <3>5. <<>> \in Seq(Nat)
      OBVIOUS
    <3>6. CASE gmu' = [c \in Ctx |-> <<>>]
      BY <3>5, <3>6
    <3>7. CASE ~(gmu' = [c \in Ctx |-> <<>>])
      <4>1. gmu' = [c \in Ctx |->
                      [i \in DOMAIN Only(cmdList', {e \in ToSet(cmdList') : e.ctx = c}) |->
                        Only(cmdList', {e \in ToSet(cmdList') : e.ctx = c})[i].obj.ts]]
        BY <3>1, <3>7 DEF adreno_hwsched_replay
      <4> QED BY <3>4, <4>1
    <3> QED BY <3>6, <3>7
  <2> QED BY <2>1, <2>2 DEF GpuTypes
<1>9. CASE TsRetire
  BY <1>9, <1>a DEF TsRetire, ctxVars, listVars, schedVars, gpuVars, faultVars, threadVars,
    boundVars, GpuTypes
<1>10. ASSUME NEW c \in Ctx, GpuStart(c)
      PROVE  GpuTypes'
  <2>1. gmu[c] \in Seq(Nat) /\ gmu[c] # <<>>
    BY <1>10, <1>a DEF GpuStart, GpuTypes
  <2>2. PICK g \in Seq(Nat) : g = gmu[c] /\ g # <<>>
    BY <2>1
  <2>3. Head(g) \in Nat /\ Tail(g) \in Seq(Nat)
    BY <2>2, HeadTailProperties
  <2> QED BY <1>10, <1>a, <2>2, <2>3 DEF GpuStart, GpuTypes
<1>11. ASSUME NEW c \in Ctx, GpuRetire(c)
      PROVE  GpuTypes'
  <2>1. gmu[c] \in Seq(Nat) /\ gmu[c] # <<>>
    BY <1>11, <1>a DEF GpuRetire, GpuTypes
  <2>2. PICK g \in Seq(Nat) : g = gmu[c] /\ g # <<>>
    BY <2>1
  <2>3. Head(g) \in Nat /\ Tail(g) \in Seq(Nat)
    BY <2>2, HeadTailProperties
  <2> QED BY <1>11, <1>a, <2>2, <2>3 DEF GpuRetire, GpuTypes
<1>12. ASSUME NEW c \in Ctx, gen7_hwsched_context_detach(c)
      PROVE  GpuTypes'
  <2>1. timestamp[c] \in Nat
    BY <1>b DEF CtxTypes
  <2> QED BY <1>12, <1>a, <2>1 DEF gen7_hwsched_context_detach, RetireTimestamp, GpuTypes
<1>13. ASSUME NEW c \in Ctx, UnregisterTimeout(c)
      PROVE  GpuTypes'
  <2>1. adreno_drawctxt_invalidate({c}, Memstore) /\ UNCHANGED <<gmu, irq>>
    BY <1>13 DEF UnregisterTimeout
  <2>2. /\ sop' = [d \in Ctx |-> IF d \in {c} THEN timestamp[d] ELSE sop[d]]
        /\ eop' = [d \in Ctx |-> IF d \in {c} THEN timestamp[d] ELSE eop[d]]
    BY <2>1 DEF adreno_drawctxt_invalidate, Memstore
  <2> QED BY <1>a, <1>b, <2>1, <2>2 DEF GpuTypes, CtxTypes
<1> QED
  BY <1>1, <1>2, <1>3, <1>4, <1>5, <1>6, <1>7, <1>8, <1>9, <1>10, <1>11, <1>12, <1>13 DEF Step

\* The threads.
LEMMA ThreadTypesStep ==
    ASSUME TypeOK, Control, Step
    PROVE  ThreadTypes'
<1>a. ThreadTypes
  BY TypesAre
<1>1. ASSUME UNCHANGED <<threadVars>> PROVE ThreadTypes'
  BY <1>1, <1>a DEF ThreadTypes, threadVars
<1>2. ASSUME NEW c \in Ctx, GpuStart(c) \/ GpuRetire(c) \/ adreno_hwsched_fault(c)
              \/ adreno_hwsched_queue_context(c) \/ kgsl_context_detach(c)
              \/ drawctxt_detach_drawobjs(c)
      PROVE  ThreadTypes'
  BY <1>1, <1>2 DEF GpuStart, GpuRetire, adreno_hwsched_fault, adreno_hwsched_queue_context,
    kgsl_context_detach, drawctxt_detach_drawobjs, AddJob, ctxVars, listVars, schedVars,
    gpuVars, faultVars, threadVars, boundVars
<1>3. CASE hwsched_handle_jobs \/ hwsched_handle_jobs_list \/ WalkOutcome \/ SendOutcome
              \/ RequeueOutcome \/ IssuedByWorker \/ retire_cmd_list \/ TsRetire \/ IdleHalt
              \/ IdleFlush \/ IdleGate \/ IdleUnhalt \/ IdleDone
  BY <1>1, <1>3 DEF hwsched_handle_jobs, hwsched_handle_jobs_list, WalkOutcome, SendOutcome,
    RequeueOutcome, IssuedByWorker, retire_cmd_list, TsRetire, IdleHalt, IdleFlush, IdleGate,
    IdleUnhalt, IdleDone, WalkRest, WalkEnds, WalkSends, WalkExpires, WalkSyncs, WalkRetires,
    WalkBinds, Stop, SendNext, Pops, RetireTimestamp, SendRest, SendDone, SendGone, SendFails,
    Submit, PutsBack, Drops, WorkerLocks, Reap, ctxVars, listVars, schedVars, gpuVars,
    faultVars, threadVars, boundVars
<1>4. ASSUME NEW p \in Threads, SubmitOutcome(p)
      PROVE  ThreadTypes'
  <2>1. <<>> \in Seq(Objects)
    OBVIOUS
  <2>2. CASE Refused(p) \/ Fast(p)
    BY <1>a, <2>1, <2>2 DEF Refused, Fast, FastMarker, Return, ThreadTypes
  <2>3. CASE \E os : Offers(p, os) /\ Sleeps(p, os)
    BY <1>a, <2>3 DEF Offers, Sleeps, ThreadTypes
  <2>4. CASE \E os : Enqueues(p, os)
    BY <1>a, <2>1, <2>4 DEF Enqueues, ThreadTypes
  <2> QED BY <1>4, <2>2, <2>3, <2>4 DEF SubmitOutcome
<1>5. ASSUME NEW p \in Threads, kgsl_ioctl_gpu_aux_command(p)
      PROVE  ThreadTypes'
  <2>1. CtxOf(p) \in Ctx
    BY DEF CtxOf, Threads
  <2>2. queuedTs[CtxOf(p)] \in Nat
    BY <2>1, TypesAre DEF CtxTypes
  <2>3. PICK b \in Batches : batch' = [batch EXCEPT ![p] =
            [i \in DOMAIN b |-> Obj(b[i], 0, IF b[i] = "sync" THEN queuedTs[CtxOf(p)] ELSE 0)]]
    BY <1>5 DEF kgsl_ioctl_gpu_aux_command
  <2>4. b \in Seq(Types)
    BY HwschedAssumption
  <2>5. \A i \in DOMAIN b : Obj(b[i], 0, IF b[i] = "sync" THEN queuedTs[CtxOf(p)] ELSE 0) \in Objects
    BY <2>2, <2>4 DEF Obj, Objects
  <2>6. [i \in DOMAIN b |-> Obj(b[i], 0, IF b[i] = "sync" THEN queuedTs[CtxOf(p)] ELSE 0)] \in Seq(Objects)
    BY <2>4, <2>5
  <2>7. batch' \in [Threads -> Seq(Objects)]
    BY <1>a, <2>3, <2>6 DEF ThreadTypes
  <2> QED BY <1>5, <1>a, <2>7 DEF kgsl_ioctl_gpu_aux_command, ThreadTypes
<1>6. ASSUME NEW p \in Threads, _wait_for_room_in_context_queue(p)
      PROVE  ThreadTypes'
  BY <1>6, <1>a DEF _wait_for_room_in_context_queue, ctxVars, listVars, schedVars, gpuVars,
    faultVars, threadVars, boundVars, ThreadTypes
<1>7. ASSUME NEW p \in Threads, WaitTimeout(p)
      PROVE  ThreadTypes'
  <2>1. <<>> \in Seq(Objects)
    OBVIOUS
  <2> QED BY <1>7, <1>a, <2>1 DEF WaitTimeout, Return, ThreadTypes
<1>8. ASSUME NEW p \in Threads, QueueJob(p)
      PROVE  ThreadTypes'
  BY <1>8, <1>a DEF QueueJob, AddJob, ctxVars, listVars, schedVars, gpuVars, faultVars,
    threadVars, boundVars, ThreadTypes
<1>9. ASSUME NEW p \in Threads, adreno_hwsched_issuecmds(p)
      PROVE  ThreadTypes'
  BY <1>9, <1>a DEF adreno_hwsched_issuecmds, ctxVars, listVars, schedVars, gpuVars, faultVars,
    threadVars, boundVars, ThreadTypes
<1>10. ASSUME NEW p \in Threads, IssuedByThread(p)
      PROVE  ThreadTypes'
  <2>1. <<>> \in Seq(Objects)
    OBVIOUS
  <2> QED BY <1>10, <1>a, <2>1 DEF IssuedByThread, Return, ThreadTypes
<1>11. CASE SendcmdsDone
  BY <1>11, <1>a DEF SendcmdsDone, WakeSnoozing, wake_up_all, ctxVars, listVars, schedVars,
    gpuVars, faultVars, threadVars, boundVars, ThreadTypes
<1>12. CASE FaultOutcome
  BY <1>12, <1>a DEF FaultOutcome, adreno_hwsched_replay, Reap, adreno_drawctxt_invalidate,
    ctxVars, listVars, schedVars, gpuVars, faultVars, threadVars, boundVars, ThreadTypes
<1>13. ASSUME NEW c \in Ctx, gen7_hwsched_context_detach(c)
      PROVE  ThreadTypes'
  BY <1>13, <1>a DEF gen7_hwsched_context_detach, RetireTimestamp, wake_up_all, ctxVars,
    listVars, schedVars, gpuVars, faultVars, threadVars, boundVars, ThreadTypes
<1>14. ASSUME NEW c \in Ctx, UnregisterTimeout(c)
      PROVE  ThreadTypes'
  BY <1>14, <1>a DEF UnregisterTimeout, adreno_drawctxt_invalidate, ctxVars, listVars,
    schedVars, gpuVars, faultVars, threadVars, boundVars, ThreadTypes
<1> QED
  BY <1>1, <1>2, <1>3, <1>4, <1>5, <1>6, <1>7, <1>8, <1>9, <1>10, <1>11, <1>12, <1>13, <1>14 DEF Step

\* The rest.
LEMMA RestTypesStep ==
    ASSUME TypeOK, Control, Step
    PROVE  RestTypes'
<1>a. RestTypes
  BY TypesAre
<1>1. ASSUME UNCHANGED <<work, halt, faultVars, dpc, ipc, boundVars>> PROVE RestTypes'
  BY <1>1, <1>a DEF RestTypes, faultVars, boundVars
<1>2. ASSUME NEW p \in Threads, SubmitOutcome(p) \/ kgsl_ioctl_gpu_aux_command(p)
              \/ _wait_for_room_in_context_queue(p) \/ WaitTimeout(p) \/ QueueJob(p)
              \/ IssuedByThread(p)
      PROVE  RestTypes'
  BY <1>1, <1>2 DEF SubmitOutcome, kgsl_ioctl_gpu_aux_command, _wait_for_room_in_context_queue,
    WaitTimeout, QueueJob, IssuedByThread, SubmitRest, Refused, Sleeps, Fast, FastMarker,
    Enqueues, Return, AddJob, ctxVars, listVars, schedVars, gpuVars, faultVars, threadVars,
    boundVars
<1>3. ASSUME NEW c \in Ctx, GpuStart(c) \/ GpuRetire(c)
      PROVE  RestTypes'
  BY <1>1, <1>3 DEF GpuStart, GpuRetire, ctxVars, listVars, schedVars, gpuVars, faultVars,
    threadVars, boundVars
<1>4. CASE hwsched_handle_jobs \/ hwsched_handle_jobs_list \/ WalkOutcome \/ RequeueOutcome
              \/ SendcmdsDone \/ IssuedByWorker
  BY <1>1, <1>4 DEF hwsched_handle_jobs, hwsched_handle_jobs_list, WalkOutcome, RequeueOutcome,
    SendcmdsDone, IssuedByWorker, WalkRest, WalkEnds, WalkSends, WalkExpires, WalkSyncs,
    WalkRetires, WalkBinds, Stop, SendNext, Pops, RetireTimestamp, PutsBack, Drops,
    WakeSnoozing, wake_up_all, ctxVars, listVars, schedVars, gpuVars, faultVars, threadVars,
    boundVars
<1>5. ASSUME NEW p \in Threads, adreno_hwsched_issuecmds(p)
      PROVE  RestTypes'
  BY <1>5, <1>a DEF adreno_hwsched_issuecmds, ctxVars, listVars, schedVars, gpuVars, faultVars,
    threadVars, boundVars, RestTypes
<1>6. CASE SendOutcome
  BY <1>6, <1>a DEF SendOutcome, SendRest, SendDone, SendGone, SendFails, Submit, ctxVars,
    listVars, schedVars, gpuVars, faultVars, threadVars, boundVars, RestTypes
<1>7. CASE retire_cmd_list
  BY <1>7, <1>a DEF retire_cmd_list, WorkerLocks, Reap, ctxVars, listVars, schedVars, gpuVars,
    faultVars, threadVars, boundVars, RestTypes
<1>8. CASE FaultOutcome
  <2>1. fault' \in {{}, {"hard"}} /\ (faults' = faults \/ faults' = faults + 1)
    BY <1>8 DEF FaultOutcome, adreno_hwsched_replay
  <2>2. /\ work' = TRUE /\ ctxtBad' \in {ctxtBad, None} /\ ipc' \in {ipc, "flush"}
        /\ UNCHANGED <<halt, dpc, errs, idles>>
    BY <1>8 DEF FaultOutcome
  <2> QED BY <1>a, <2>1, <2>2 DEF RestTypes
<1>9. CASE TsRetire
  BY <1>9, <1>a DEF TsRetire, ctxVars, listVars, schedVars, gpuVars, faultVars, threadVars,
    boundVars, RestTypes
<1>10. CASE IdleHalt
  BY <1>10, <1>a DEF IdleHalt, ctxVars, listVars, schedVars, gpuVars, faultVars, threadVars,
    boundVars, RestTypes
<1>11. CASE IdleFlush
  BY <1>11, <1>a DEF IdleFlush, ctxVars, listVars, schedVars, gpuVars, faultVars, threadVars,
    boundVars, RestTypes
<1>12. CASE IdleGate
  BY <1>12, <1>a DEF IdleGate, ctxVars, listVars, schedVars, gpuVars, faultVars, threadVars,
    boundVars, RestTypes
<1>13. CASE IdleUnhalt
  BY <1>13, <1>a DEF IdleUnhalt, ctxVars, listVars, schedVars, gpuVars, faultVars, threadVars,
    boundVars, RestTypes
<1>14. CASE IdleDone
  BY <1>14, <1>a DEF IdleDone, ctxVars, listVars, schedVars, gpuVars, faultVars, threadVars,
    boundVars, RestTypes
<1>15. ASSUME NEW c \in Ctx, adreno_hwsched_fault(c)
      PROVE  RestTypes'
  <2>1. gmu[c] \in Seq(Nat) /\ gmu[c] # <<>>
    BY <1>15, TypesAre DEF adreno_hwsched_fault, GpuTypes
  <2>2. PICK g \in Seq(Nat) : g = gmu[c] /\ g # <<>>
    BY <2>1
  <2>3. Head(g) \in Nat
    BY <2>2, HeadTailProperties
  <2>4. ctxtBad' \in (Ctx \X Nat) \cup {None}
    BY <1>15, <1>a, <2>2, <2>3 DEF adreno_hwsched_fault, RestTypes
  <2>5. PICK k \in FaultKinds : fault' = {k}
    BY <1>15 DEF adreno_hwsched_fault
  <2>6. fault' \subseteq {"hard", "page", "gmu"}
    BY <2>5, HwschedAssumption
  <2> QED BY <1>15, <1>a, <2>4, <2>6 DEF adreno_hwsched_fault, RestTypes
<1>16. ASSUME NEW c \in Ctx, adreno_hwsched_queue_context(c)
      PROVE  RestTypes'
  BY <1>16, <1>a DEF adreno_hwsched_queue_context, AddJob, ctxVars, listVars, schedVars,
    gpuVars, faultVars, threadVars, boundVars, RestTypes
<1>17. ASSUME NEW c \in Ctx, kgsl_context_detach(c)
      PROVE  RestTypes'
  BY <1>17, <1>a DEF kgsl_context_detach, ctxVars, listVars, schedVars, gpuVars, faultVars,
    threadVars, boundVars, RestTypes
<1>18. ASSUME NEW c \in Ctx, drawctxt_detach_drawobjs(c)
      PROVE  RestTypes'
  BY <1>18, <1>a DEF drawctxt_detach_drawobjs, ctxVars, listVars, schedVars, gpuVars,
    faultVars, threadVars, boundVars, RestTypes
<1>19. ASSUME NEW c \in Ctx, gen7_hwsched_context_detach(c)
      PROVE  RestTypes'
  BY <1>19, <1>a DEF gen7_hwsched_context_detach, RetireTimestamp, wake_up_all, ctxVars,
    listVars, schedVars, gpuVars, faultVars, threadVars, boundVars, RestTypes
<1>20. ASSUME NEW c \in Ctx, UnregisterTimeout(c)
      PROVE  RestTypes'
  BY <1>20, <1>a DEF UnregisterTimeout, adreno_drawctxt_invalidate, ctxVars, listVars,
    schedVars, gpuVars, faultVars, threadVars, boundVars, RestTypes
<1> QED
  BY <1>1, <1>2, <1>3, <1>4, <1>5, <1>6, <1>7, <1>8, <1>9, <1>10, <1>11, <1>12, <1>13, <1>14,
     <1>15, <1>16, <1>17, <1>18, <1>19, <1>20 DEF Step

-----------------------------------------------------------------------------
(***************************************************************************)
(* The other parts of the invariant, one lemma for each.                   *)
(***************************************************************************)
\* A sync point signals or a bind operation ends.
LEMMA SignalIs ==
    ASSUME TypeOK, NEW c \in Ctx, adreno_hwsched_queue_context(c)
    PROVE  \E i \in 1 .. Len(queue[c]) : \E r :
            /\ Stated(r, queue[c], i, "ready") /\ queue' = [queue EXCEPT ![c] = r]
            /\ \/ queue[c][i].type = "sync" /\ eop[c] >= queue[c][i].mts
               \/ queue[c][i].type = "bind"
<1>1. DOMAIN queue[c] = 1 .. Len(queue[c])
  BY DEF TypeOK
<1>2. PICK i \in 1 .. Len(queue[c]) :
        /\ queue' = [queue EXCEPT ![c][i].state = "ready"]
        /\ \/ queue[c][i].type = "sync" /\ eop[c] >= queue[c][i].mts
           \/ queue[c][i].type = "bind"
  BY <1>1 DEF adreno_hwsched_queue_context
<1>3. \E r : Stated(r, queue[c], i, "ready") /\ queue' = [queue EXCEPT ![c] = r]
  BY <1>2, StatedIs
<1> QED
  BY <1>2, <1>3

\* What threads wait with.
LEMMA BatchesStep ==
    ASSUME TypeOK, BatchesKept, Step
    PROVE  BatchesKept'
<1>a. ThreadTypes
  BY TypesAre
<1>1. ASSUME UNCHANGED <<pc, batch>> PROVE BatchesKept'
  BY <1>1 DEF BatchesKept
<1>2. ASSUME NEW c \in Ctx, GpuStart(c) \/ GpuRetire(c) \/ adreno_hwsched_fault(c)
              \/ adreno_hwsched_queue_context(c) \/ kgsl_context_detach(c)
              \/ drawctxt_detach_drawobjs(c) \/ gen7_hwsched_context_detach(c)
              \/ UnregisterTimeout(c)
      PROVE  BatchesKept'
  BY <1>1, <1>2 DEF GpuStart, GpuRetire, adreno_hwsched_fault, adreno_hwsched_queue_context,
    kgsl_context_detach, drawctxt_detach_drawobjs, gen7_hwsched_context_detach,
    UnregisterTimeout, AddJob, RetireTimestamp, wake_up_all, adreno_drawctxt_invalidate,
    ctxVars, listVars, schedVars, gpuVars, faultVars, threadVars, boundVars
<1>3. CASE hwsched_handle_jobs \/ hwsched_handle_jobs_list \/ WalkOutcome \/ SendOutcome
              \/ RequeueOutcome \/ SendcmdsDone \/ IssuedByWorker \/ retire_cmd_list
              \/ FaultOutcome \/ TsRetire \/ IdleHalt \/ IdleFlush \/ IdleGate \/ IdleUnhalt
              \/ IdleDone
  BY <1>1, <1>3 DEF hwsched_handle_jobs, hwsched_handle_jobs_list, WalkOutcome, SendOutcome,
    RequeueOutcome, SendcmdsDone, IssuedByWorker, retire_cmd_list, FaultOutcome, TsRetire,
    IdleHalt, IdleFlush, IdleGate, IdleUnhalt, IdleDone, WalkRest, WalkEnds, WalkSends,
    WalkExpires, WalkSyncs, WalkRetires, WalkBinds, Stop, SendNext, Pops, RetireTimestamp,
    SendRest, SendDone, SendGone, SendFails, Submit, PutsBack, Drops, WakeSnoozing,
    wake_up_all, WorkerLocks, Reap, adreno_hwsched_replay, adreno_drawctxt_invalidate, ctxVars,
    listVars, schedVars, gpuVars, faultVars, threadVars, boundVars
<1>4. ASSUME NEW p \in Threads, SubmitOutcome(p)
      PROVE  BatchesKept'
  <2>1. CASE Refused(p) \/ Fast(p) \/ \E os : Enqueues(p, os)
    BY <1>4, <1>a, <2>1 DEF Refused, Fast, FastMarker, Return, Enqueues, BatchesKept, ThreadTypes
  <2>2. CASE \E os : Offers(p, os) /\ Sleeps(p, os)
    BY <1>4, <1>a, <2>2 DEF Offers, Sleeps, BatchesKept, ThreadTypes
  <2> QED BY <1>4, <2>1, <2>2 DEF SubmitOutcome
<1>5. ASSUME NEW p \in Threads, kgsl_ioctl_gpu_aux_command(p)
      PROVE  BatchesKept'
  <2>1. PICK b \in Batches :
            /\ IsAux(b)
            /\ batch' = [batch EXCEPT ![p] =
                 [i \in DOMAIN b |-> Obj(b[i], 0, IF b[i] = "sync" THEN queuedTs[CtxOf(p)] ELSE 0)]]
    BY <1>5 DEF kgsl_ioctl_gpu_aux_command
  <2>2. PICK os : os = [i \in DOMAIN b |-> Obj(b[i], 0, IF b[i] = "sync" THEN queuedTs[CtxOf(p)] ELSE 0)]
    OBVIOUS
  <2>3. /\ b \in Seq(Types) /\ Len(b) \in 1 .. DrawqueueSize - 2
        /\ \A i \in 1 .. Len(b) - 1 : b[i] = "sync"
        /\ Len(b) > 1
    BY <2>1, HwschedAssumption
  <2>4. Len(os) = Len(b) /\ \A i \in 1 .. Len(b) : os[i].type = b[i] /\ os[i].ts = 0 /\ os[i].state = "wait"
    <3>1. DOMAIN b = 1 .. Len(b) /\ Len(b) \in Nat
      BY <2>3
    <3>2. Len(os) = Len(b)
      BY <2>2, <3>1
    <3>3. ASSUME NEW i \in 1 .. Len(b)
          PROVE  os[i].type = b[i] /\ os[i].ts = 0 /\ os[i].state = "wait"
      <4>1. os[i] = Obj(b[i], 0, IF b[i] = "sync" THEN queuedTs[CtxOf(p)] ELSE 0)
        BY <2>2, <3>1
      <4> QED BY <4>1 DEF Obj
    <3> QED BY <3>2, <3>3
  <2>5. BatchShape(os)
    <3>1. \A i \in 1 .. Len(b) - 1 : i \in 1 .. Len(b)
      BY <2>3
    <3>2. \A i \in 1 .. Len(os) - 1 : os[i].type = "sync"
      BY <2>3, <2>4, <3>1
    <3> QED BY <2>3, <2>4, <3>2 DEF BatchShape
  <2>6. batch' = [batch EXCEPT ![p] = os]
    BY <2>1, <2>2
  <2> QED BY <1>5, <1>a, <2>5, <2>6 DEF kgsl_ioctl_gpu_aux_command, BatchesKept, ThreadTypes
<1>6. ASSUME NEW p \in Threads, _wait_for_room_in_context_queue(p)
      PROVE  BatchesKept'
  BY <1>6, <1>a DEF _wait_for_room_in_context_queue, ctxVars, listVars, schedVars, gpuVars,
    faultVars, threadVars, boundVars, BatchesKept, ThreadTypes
<1>7. ASSUME NEW p \in Threads, WaitTimeout(p)
      PROVE  BatchesKept'
  BY <1>7, <1>a DEF WaitTimeout, Return, ctxVars, listVars, schedVars, gpuVars, faultVars,
    threadVars, boundVars, BatchesKept, ThreadTypes
<1>8. ASSUME NEW p \in Threads, QueueJob(p)
      PROVE  BatchesKept'
  BY <1>8, <1>a DEF QueueJob, AddJob, ctxVars, listVars, schedVars, gpuVars, faultVars,
    threadVars, boundVars, BatchesKept, ThreadTypes
<1>9. ASSUME NEW p \in Threads, adreno_hwsched_issuecmds(p)
      PROVE  BatchesKept'
  BY <1>9, <1>a DEF adreno_hwsched_issuecmds, ctxVars, listVars, schedVars, gpuVars, faultVars,
    threadVars, boundVars, BatchesKept, ThreadTypes
<1>10. ASSUME NEW p \in Threads, IssuedByThread(p)
      PROVE  BatchesKept'
  BY <1>10, <1>a DEF IssuedByThread, Return, ctxVars, listVars, schedVars, gpuVars, faultVars,
    threadVars, boundVars, BatchesKept, ThreadTypes
<1> QED
  BY <1>1, <1>2, <1>3, <1>4, <1>5, <1>6, <1>7, <1>8, <1>9, <1>10 DEF Step

\* The holder of the mutex.
LEMMA HolderStep ==
    ASSUME TypeOK, Holder, Step
    PROVE  Holder'
<1>a. ThreadTypes
  BY TypesAre
<1>1. ASSUME UNCHANGED <<mutex, pc>> PROVE Holder'
  BY <1>1 DEF Holder
<1>2. ASSUME NEW c \in Ctx, GpuStart(c) \/ GpuRetire(c) \/ adreno_hwsched_fault(c)
              \/ adreno_hwsched_queue_context(c) \/ kgsl_context_detach(c)
              \/ drawctxt_detach_drawobjs(c) \/ gen7_hwsched_context_detach(c)
              \/ UnregisterTimeout(c)
      PROVE  Holder'
  BY <1>1, <1>2 DEF GpuStart, GpuRetire, adreno_hwsched_fault, adreno_hwsched_queue_context,
    kgsl_context_detach, drawctxt_detach_drawobjs, gen7_hwsched_context_detach,
    UnregisterTimeout, AddJob, RetireTimestamp, wake_up_all, adreno_drawctxt_invalidate,
    ctxVars, listVars, schedVars, gpuVars, faultVars, threadVars, boundVars
<1>3. CASE hwsched_handle_jobs \/ hwsched_handle_jobs_list \/ WalkOutcome \/ SendOutcome
              \/ RequeueOutcome \/ SendcmdsDone \/ FaultOutcome \/ TsRetire \/ IdleHalt
              \/ IdleFlush \/ IdleGate \/ IdleUnhalt \/ IdleDone
  BY <1>1, <1>3 DEF hwsched_handle_jobs, hwsched_handle_jobs_list, WalkOutcome, SendOutcome,
    RequeueOutcome, SendcmdsDone, FaultOutcome, TsRetire, IdleHalt, IdleFlush, IdleGate,
    IdleUnhalt, IdleDone, WalkRest, WalkEnds, WalkSends, WalkExpires, WalkSyncs, WalkRetires,
    WalkBinds, Stop, SendNext, Pops, RetireTimestamp, SendRest, SendDone, SendGone, SendFails,
    Submit, PutsBack, Drops, WakeSnoozing, wake_up_all, adreno_hwsched_replay, Reap,
    adreno_drawctxt_invalidate, ctxVars, listVars, schedVars, gpuVars, faultVars, threadVars,
    boundVars
<1>4. ASSUME NEW p \in Threads, SubmitOutcome(p)
      PROVE  Holder'
  BY <1>4, <1>a DEF SubmitOutcome, SubmitRest, Refused, Return, Sleeps, Fast, FastMarker, Enqueues, Holder, ThreadTypes
<1>5. ASSUME NEW p \in Threads, kgsl_ioctl_gpu_aux_command(p)
      PROVE  Holder'
  BY <1>5, <1>a, Nones DEF kgsl_ioctl_gpu_aux_command, Submits, ctxVars, listVars, schedVars, gpuVars,
    faultVars, threadVars, boundVars, Holder, ThreadTypes
<1>6. ASSUME NEW p \in Threads, _wait_for_room_in_context_queue(p)
      PROVE  Holder'
  BY <1>6, <1>a, Nones DEF _wait_for_room_in_context_queue, ctxVars, listVars, schedVars,
    gpuVars, faultVars, threadVars, boundVars, Holder, ThreadTypes
<1>7. ASSUME NEW p \in Threads, WaitTimeout(p)
      PROVE  Holder'
  BY <1>7, <1>a, Nones DEF WaitTimeout, Return, ctxVars, listVars, schedVars, gpuVars,
    faultVars, threadVars, boundVars, Holder, ThreadTypes
<1>8. ASSUME NEW p \in Threads, QueueJob(p)
      PROVE  Holder'
  BY <1>8, <1>a, Nones DEF QueueJob, AddJob, ctxVars, listVars, schedVars, gpuVars, faultVars,
    threadVars, boundVars, Holder, ThreadTypes
<1>9. ASSUME NEW p \in Threads, adreno_hwsched_issuecmds(p)
      PROVE  Holder'
  BY <1>9, <1>a, Nones DEF adreno_hwsched_issuecmds, ctxVars, listVars, schedVars, gpuVars,
    faultVars, threadVars, boundVars, Holder, ThreadTypes
<1>10. ASSUME NEW p \in Threads, IssuedByThread(p)
      PROVE  Holder'
  BY <1>10, <1>a, Nones DEF IssuedByThread, Return, ctxVars, listVars, schedVars, gpuVars,
    faultVars, threadVars, boundVars, Holder, ThreadTypes
<1>11. CASE IssuedByWorker
  BY <1>11, <1>a, Nones DEF IssuedByWorker, ctxVars, listVars, schedVars, gpuVars, faultVars,
    threadVars, boundVars, Holder, ThreadTypes
<1>12. CASE retire_cmd_list
  BY <1>12, <1>a, Nones DEF retire_cmd_list, WorkerLocks, Reap, ctxVars, listVars, schedVars,
    gpuVars, faultVars, threadVars, boundVars, Holder, ThreadTypes
<1> QED
  BY <1>1, <1>2, <1>3, <1>4, <1>5, <1>6, <1>7, <1>8, <1>9, <1>10, <1>11, <1>12 DEF Step

\* The counter of the queue.
LEMMA QueuedCountsStep ==
    ASSUME TypeOK, QueuedCounts, Step
    PROVE  QueuedCounts'
<1>a. CtxTypes
  BY TypesAre
<1>1. ASSUME UNCHANGED <<queue, queued>> PROVE QueuedCounts'
  BY <1>1 DEF QueuedCounts
<1>2. ASSUME NEW p \in Threads, kgsl_ioctl_gpu_aux_command(p)
              \/ _wait_for_room_in_context_queue(p) \/ WaitTimeout(p) \/ QueueJob(p)
              \/ adreno_hwsched_issuecmds(p) \/ IssuedByThread(p)
      PROVE  QueuedCounts'
  BY <1>1, <1>2 DEF kgsl_ioctl_gpu_aux_command, _wait_for_room_in_context_queue, WaitTimeout,
    QueueJob, adreno_hwsched_issuecmds, IssuedByThread, Return, AddJob, ctxVars, listVars,
    schedVars, gpuVars, faultVars, threadVars, boundVars
<1>3. ASSUME NEW c \in Ctx, GpuStart(c) \/ GpuRetire(c) \/ adreno_hwsched_fault(c)
              \/ kgsl_context_detach(c) \/ gen7_hwsched_context_detach(c)
      PROVE  QueuedCounts'
  BY <1>1, <1>3 DEF GpuStart, GpuRetire, adreno_hwsched_fault, kgsl_context_detach,
    gen7_hwsched_context_detach, RetireTimestamp, wake_up_all, ctxVars, listVars, schedVars,
    gpuVars, faultVars, threadVars, boundVars
<1>4. CASE hwsched_handle_jobs \/ hwsched_handle_jobs_list \/ SendOutcome \/ SendcmdsDone
              \/ IssuedByWorker \/ retire_cmd_list \/ TsRetire \/ IdleHalt \/ IdleFlush
              \/ IdleGate \/ IdleUnhalt \/ IdleDone
  BY <1>1, <1>4 DEF hwsched_handle_jobs, hwsched_handle_jobs_list, SendOutcome, SendcmdsDone,
    IssuedByWorker, retire_cmd_list, TsRetire, IdleHalt, IdleFlush, IdleGate, IdleUnhalt,
    IdleDone, SendRest, SendDone, SendGone, SendFails, Submit, WakeSnoozing, wake_up_all,
    WorkerLocks, Reap, ctxVars, listVars, schedVars, gpuVars, faultVars, threadVars, boundVars
<1>5. ASSUME NEW p \in Threads, SubmitOutcome(p)
      PROVE  QueuedCounts'
  <2>1. CASE Refused(p) \/ Fast(p) \/ \E os : Sleeps(p, os)
    BY <1>1, <2>1 DEF Refused, Fast, FastMarker, Sleeps, ctxVars
  <2>2. ASSUME NEW os, Offers(p, os), Enqueues(p, os)
        PROVE  QueuedCounts'
    <3>1. CtxOf(p) \in Ctx /\ Len(os) \in Nat
      BY <1>5, <2>2 DEF SubmitOutcome, Offers
    <3>2. PICK c \in Ctx : c = CtxOf(p)
      BY <3>1
    <3>3. PICK r, d : Tailed(c, os, r, d) /\ queue' = [queue EXCEPT ![c] = r]
      BY <2>2, <3>2 DEF Enqueues
    <3>4. queued' = [queued EXCEPT ![c] = @ + Len(os)]
      BY <2>2, <3>2 DEF Enqueues
    <3>5. Len(r) <= queued[c] + Len(os)
      <4>1. Len(r) = Len(queue[c]) + Len(os) - d /\ d \in Nat
        BY <3>3, Nones DEF Tailed
      <4>2. Len(queue[c]) \in Nat /\ queued[c] \in Nat /\ Len(queue[c]) <= queued[c]
        BY <1>a DEF CtxTypes, QueuedCounts
      <4> QED BY <3>1, <4>1, <4>2
    <3> QED BY <1>a, <3>3, <3>4, <3>5 DEF QueuedCounts, CtxTypes
  <2> QED BY <1>5, <2>1, <2>2 DEF SubmitOutcome
<1>6. CASE WalkOutcome
  <2>1. disp.ctx \in Ctx
    BY <1>6 DEF WalkOutcome
  <2>2. ASSUME NEW x, Pops(disp.ctx, x)
        PROVE  QueuedCounts'
    <3>1. PICK r \in Seq(Objects) : Len(r) = Len(queue[disp.ctx]) - 1 /\ queue' = [queue EXCEPT ![disp.ctx] = r]
      BY <2>2 DEF Pops
    <3>2. queued' = [queued EXCEPT ![disp.ctx] = @ - 1]
      BY <2>2 DEF Pops
    <3>3. Len(queue[disp.ctx]) \in Nat /\ queued[disp.ctx] \in Nat
      BY <1>a, <2>1 DEF CtxTypes
    <3> QED BY <1>a, <2>1, <3>1, <3>2, <3>3 DEF QueuedCounts, CtxTypes
  <2>3. CASE WalkEnds(disp.ctx)
    BY <1>1, <2>3 DEF WalkEnds
  <2>4. CASE WalkBinds(disp.ctx)
    BY <1>a, <2>1, <2>4 DEF WalkBinds, Stated, CtxTypes, QueuedCounts
  <2> QED BY <1>6, <2>2, <2>3, <2>4
          DEF WalkOutcome, WalkSends, WalkExpires, WalkSyncs, WalkRetires
<1>7. CASE RequeueOutcome
  <2>1. disp.ctx \in Ctx
    BY <1>7 DEF RequeueOutcome
  <2>2. CASE Drops(disp.ctx)
    BY <1>1, <2>2 DEF Drops
  <2>3. CASE PutsBack(disp.ctx)
    <3>1. PICK r : Headed(disp.ctx, disp.obj, r) /\ queue' = [queue EXCEPT ![disp.ctx] = r]
      BY <2>3 DEF PutsBack
    <3>2. queued' = [queued EXCEPT ![disp.ctx] = @ + 1]
      BY <2>3 DEF PutsBack
    <3>3. Len(queue[disp.ctx]) \in Nat /\ queued[disp.ctx] \in Nat /\ Len(queue[disp.ctx]) <= queued[disp.ctx]
      BY <1>a, <2>1 DEF CtxTypes, QueuedCounts
    <3>4. Len(r) <= queued[disp.ctx] + 1
      <4>1. Len(r) = Len(queue[disp.ctx]) + 1 \/ r = <<>>
        BY <3>1 DEF Headed
      <4> QED BY <3>3, <4>1
    <3> QED BY <1>a, <2>1, <3>1, <3>2, <3>4 DEF QueuedCounts, CtxTypes
  <2> QED BY <1>7, <2>2, <2>3 DEF RequeueOutcome
<1>8. CASE FaultOutcome
  <2>1. PICK cs, m : adreno_drawctxt_invalidate(cs, m)
    BY <1>8 DEF FaultOutcome
  <2> QED BY <1>a, <2>1 DEF adreno_drawctxt_invalidate, QueuedCounts, CtxTypes
<1>9. ASSUME NEW c \in Ctx, adreno_hwsched_queue_context(c)
      PROVE  QueuedCounts'
  <2>1. \E i, r : Stated(r, queue[c], i, "ready") /\ queue' = [queue EXCEPT ![c] = r]
    BY <1>9, SignalIs
  <2>2. queued' = queued
    BY <1>9 DEF adreno_hwsched_queue_context
  <2> QED BY <1>a, <2>1, <2>2 DEF Stated, QueuedCounts, CtxTypes
<1>10. ASSUME NEW c \in Ctx, drawctxt_detach_drawobjs(c)
      PROVE  QueuedCounts'
  BY <1>10, <1>a DEF drawctxt_detach_drawobjs, ctxVars, listVars, schedVars, gpuVars,
    faultVars, threadVars, boundVars, QueuedCounts, CtxTypes
<1>11. ASSUME NEW c \in Ctx, UnregisterTimeout(c)
      PROVE  QueuedCounts'
  <2>1. adreno_drawctxt_invalidate({c}, Memstore)
    BY <1>11 DEF UnregisterTimeout
  <2> QED BY <1>a, <2>1 DEF adreno_drawctxt_invalidate, QueuedCounts, CtxTypes
<1> QED
  BY <1>1, <1>2, <1>3, <1>4, <1>5, <1>6, <1>7, <1>8, <1>9, <1>10, <1>11 DEF Step

\* The jobs in the hands of a dispatcher are those of its level.
JobsAt(d) ==
    /\ \A i \in 1 .. Len(d.list) : Level[d.list[i]] = d.lvl
    /\ d.ctx # None => Level[d.ctx] = d.lvl

\* What is left of a list of jobs of one level.
LEMMA JobsFrom ==
    ASSUME NEW list \in Seq(Ctx), NEW seen, NEW d, NoJob(list, seen, d) \/ Job(list, seen, d),
           \A i \in 1 .. Len(list) : Level[list[i]] = disp.lvl
    PROVE  JobsAt(d)
<1>1. CASE NoJob(list, seen, d)
  BY <1>1 DEF NoJob, JobsAt
<1>2. CASE Job(list, seen, d)
  <2>1. PICK i \in 1 .. Len(list) :
          /\ d.lvl = disp.lvl /\ d.ctx = list[i]
          /\ Len(d.list) = Len(list) - i
          /\ \A k \in 1 .. Len(d.list) : d.list[k] = list[i + k]
    BY <1>2 DEF Job
  <2>2. \A k \in 1 .. Len(d.list) : i + k \in 1 .. Len(list)
    BY <2>1
  <2> QED BY <2>1, <2>2 DEF JobsAt
<1> QED
  BY <1>1, <1>2

\* A job goes to the list of its level.
LEMMA AddJobLevels ==
    ASSUME TypeOK, JobLevels, NEW c \in Ctx, AddJob(c), UNCHANGED <<requeue, disp>>
    PROVE  JobLevels'
<1>1. PICK l \in Levels : l = Level[c]
  BY NLevelsIs
<1>2. PICK s \in Seq(Ctx) : s = jobs[l]
  BY TypesAre DEF ListTypes
<1>3. PICK t : t = Append(s, c)
  OBVIOUS
<1>4. Len(t) = Len(s) + 1 /\ t[Len(s) + 1] = c /\ \A i \in 1 .. Len(s) : t[i] = s[i]
  BY <1>3
<1>5. \A i \in 1 .. Len(s) : Level[s[i]] = l
  BY <1>2 DEF JobLevels
<1>6. \A i \in 1 .. Len(t) : Level[t[i]] = l
  BY <1>1, <1>4, <1>5
<1>7. jobs' = [jobs EXCEPT ![l] = t] /\ jobs \in [Levels -> Seq(Ctx)]
  BY <1>1, <1>2, <1>3, TypesAre DEF AddJob, ListTypes
<1>8. \A k \in Levels : \A i \in 1 .. Len(jobs'[k]) : Level[jobs'[k][i]] = k
  BY <1>6, <1>7 DEF JobLevels
<1> QED
  BY <1>8 DEF JobLevels

\* The dispatcher after an object has been put back or dropped.
LEMMA RequeueDisp ==
    ASSUME TypeOK, RequeueOutcome
    PROVE  /\ SameJob /\ disp'.pc = "end" /\ disp'.obj = None /\ disp'.held = disp.held
           /\ disp'.count = disp.count
           /\ disp'.ret = IF Good(disp.ctx) THEN disp.ret ELSE "ENOENT"
<1>1. disp \in DispType
  BY TypesAre DEF DispTypes
<1>2. CASE PutsBack(disp.ctx)
  <2>1. disp' = [disp EXCEPT !.pc = "end", !.obj = None] /\ Good(disp.ctx)
    BY <1>2 DEF PutsBack
  <2> QED BY <1>1, <2>1 DEF DispType, SameJob
<1>3. CASE Drops(disp.ctx)
  <2>1. disp' = [disp EXCEPT !.pc = "end", !.obj = None, !.ret = "ENOENT"] /\ ~Good(disp.ctx)
    BY <1>3 DEF Drops
  <2> QED BY <1>1, <2>1 DEF DispType, SameJob
<1> QED
  BY <1>2, <1>3 DEF RequeueOutcome

\* Jobs stay on their level.
LEMMA JobLevelsStep ==
    ASSUME TypeOK, Control, JobLevels, Step
    PROVE  JobLevels'
<1>a. ListTypes /\ DispTypes /\ CtxTypes /\ ThreadTypes
  BY TypesAre
<1>b. NoDisp.list = <<>> /\ NoDisp.ctx = None /\ [NoDisp EXCEPT !.pc = "level"].list = <<>>
        /\ [NoDisp EXCEPT !.pc = "level"].ctx = None
  BY DEF NoDisp
<1>1. ASSUME UNCHANGED <<jobs, requeue, disp>> PROVE JobLevels'
  BY <1>1 DEF JobLevels
<1>2. ASSUME NEW p \in Threads, SubmitOutcome(p) \/ kgsl_ioctl_gpu_aux_command(p)
              \/ _wait_for_room_in_context_queue(p) \/ WaitTimeout(p)
      PROVE  JobLevels'
  BY <1>1, <1>2 DEF SubmitOutcome, kgsl_ioctl_gpu_aux_command, _wait_for_room_in_context_queue,
    WaitTimeout, SubmitRest, Refused, Sleeps, Fast, FastMarker, Enqueues, Return, ctxVars,
    listVars, schedVars, gpuVars, faultVars, threadVars, boundVars
<1>3. ASSUME NEW c \in Ctx, GpuStart(c) \/ GpuRetire(c) \/ adreno_hwsched_fault(c)
              \/ kgsl_context_detach(c) \/ drawctxt_detach_drawobjs(c)
              \/ gen7_hwsched_context_detach(c) \/ UnregisterTimeout(c)
      PROVE  JobLevels'
  BY <1>1, <1>3 DEF GpuStart, GpuRetire, adreno_hwsched_fault, kgsl_context_detach,
    drawctxt_detach_drawobjs, gen7_hwsched_context_detach, UnregisterTimeout, RetireTimestamp,
    wake_up_all, adreno_drawctxt_invalidate, ctxVars, listVars, schedVars, gpuVars, faultVars,
    threadVars, boundVars
<1>4. CASE FaultOutcome \/ TsRetire \/ IdleHalt \/ IdleFlush \/ IdleGate \/ IdleUnhalt
              \/ IdleDone
  BY <1>1, <1>4 DEF FaultOutcome, TsRetire, IdleHalt, IdleFlush, IdleGate, IdleUnhalt,
    IdleDone, adreno_hwsched_replay, Reap, adreno_drawctxt_invalidate, ctxVars, listVars,
    schedVars, gpuVars, faultVars, threadVars, boundVars
<1>5. ASSUME NEW p \in Threads, QueueJob(p)
      PROVE  JobLevels'
  <2>1. CtxOf(p) \in Ctx
    BY DEF CtxOf, Threads
  <2> QED BY <1>5, <2>1, AddJobLevels DEF QueueJob, listVars
<1>6. ASSUME NEW p \in Threads, adreno_hwsched_issuecmds(p)
      PROVE  JobLevels'
  <2>1. UNCHANGED <<jobs, requeue>>
    BY <1>6 DEF adreno_hwsched_issuecmds, listVars
  <2>2. disp' = disp \/ disp' = [NoDisp EXCEPT !.pc = "level"]
    BY <1>6 DEF adreno_hwsched_issuecmds
  <2>3. CASE disp' = disp
    BY <1>1, <2>1, <2>3
  <2>4. CASE disp' = [NoDisp EXCEPT !.pc = "level"]
    BY <1>b, <2>1, <2>4 DEF JobLevels
  <2> QED BY <2>2, <2>3, <2>4
<1>7. ASSUME NEW p \in Threads, IssuedByThread(p)
      PROVE  JobLevels'
  BY <1>b, <1>7 DEF IssuedByThread, JobLevels, listVars
<1>8. CASE hwsched_handle_jobs
  <2>1. disp.lvl \in Levels /\ requeue[disp.lvl] \in Seq(Ctx) /\ jobs[disp.lvl] \in Seq(Ctx)
    BY <1>8, JobsTaken
  <2>2. PICK l \in Levels : l = disp.lvl
    BY <2>1
  <2>3. PICK u \in Seq(Ctx), v \in Seq(Ctx) : u = requeue[l] /\ v = jobs[l]
    BY <2>1, <2>2
  <2>4. PICK list \in Seq(Ctx) : list = u \o v /\ (NoJob(list, {}, disp') \/ Job(list, {}, disp'))
    BY <1>8, <2>2, <2>3, JobsTaken
  <2>5. \A i \in 1 .. Len(list) : Level[list[i]] = l
    <3>1. /\ Len(list) = Len(u) + Len(v)
          /\ \A i \in 1 .. Len(u) + Len(v) : list[i] = IF i <= Len(u) THEN u[i] ELSE v[i - Len(u)]
      BY <2>4, ConcatProperties
    <3>2. (\A i \in 1 .. Len(u) : Level[u[i]] = l) /\ \A i \in 1 .. Len(v) : Level[v[i]] = l
      BY <2>3 DEF JobLevels
    <3> SUFFICES ASSUME NEW i \in 1 .. Len(list) PROVE Level[list[i]] = l
      OBVIOUS
    <3>3. i <= Len(u) => i \in 1 .. Len(u)
      OBVIOUS
    <3>4. ~(i <= Len(u)) => i - Len(u) \in 1 .. Len(v)
      BY <3>1
    <3> QED BY <3>1, <3>2, <3>3, <3>4
  <2>6. /\ jobs' = [jobs EXCEPT ![l] = <<>>] /\ requeue' = [requeue EXCEPT ![l] = <<>>]
    BY <1>8, <2>2 DEF hwsched_handle_jobs
  <2>7. /\ \A k \in Levels : \A i \in 1 .. Len(jobs'[k]) : Level[jobs'[k][i]] = k
        /\ \A k \in Levels : \A i \in 1 .. Len(requeue'[k]) : Level[requeue'[k][i]] = k
    BY <1>a, <2>6 DEF JobLevels, ListTypes
  <2>8. JobsAt(disp')
    BY <2>2, <2>4, <2>5, JobsFrom
  <2> QED BY <2>7, <2>8 DEF JobsAt, JobLevels
<1>9. CASE hwsched_handle_jobs_list
  <2>1. NoJob(disp.list, disp.seen, disp') \/ Job(disp.list, disp.seen, disp')
    BY <1>9, JobTaken
  <2>2. disp.list \in Seq(Ctx)
    BY <1>a DEF DispTypes, DispType
  <2>3. JobsAt(disp')
    BY <2>1, <2>2, JobsFrom DEF JobLevels
  <2>4. UNCHANGED <<jobs, requeue>>
    BY <1>9 DEF hwsched_handle_jobs_list, listVars
  <2> QED BY <2>3, <2>4 DEF JobsAt, JobLevels
<1>10. CASE WalkOutcome
  <2>1. SameJob /\ UNCHANGED <<jobs, requeue>>
    BY <1>10, WalkDisp DEF WalkOutcome, WalkRest, listVars
  <2> QED BY <2>1 DEF SameJob, JobLevels
<1>11. CASE SendOutcome
  <2>1. SameJob /\ UNCHANGED <<jobs, requeue>>
    BY <1>11, SendDisp DEF SendOutcome, SendRest, listVars
  <2> QED BY <2>1 DEF SameJob, JobLevels
<1>12. CASE RequeueOutcome
  <2>1. SameJob
    BY <1>12, RequeueDisp
  <2>2. UNCHANGED <<jobs, requeue>>
    BY <1>12 DEF RequeueOutcome, listVars
  <2> QED BY <2>1, <2>2 DEF SameJob, JobLevels
<1>13. CASE SendcmdsDone
  <2>1. disp.ctx \in Ctx /\ disp.lvl \in Levels /\ JobEnds /\ disp.ctx # None
    BY <1>13, JobDone, Nones
  <2>2. PICK c \in Ctx, l \in Levels : c = disp.ctx /\ l = disp.lvl /\ Level[c] = l
    BY <2>1 DEF JobLevels
  <2>3. JobsAt(disp')
    BY <2>1 DEF JobEnds, JobsAt, JobLevels
  <2>4. jobs[l] \in Seq(Ctx) /\ requeue[l] \in Seq(Ctx)
    BY <1>a DEF ListTypes
  <2>5. ASSUME NEW s \in Seq(Ctx), \A i \in 1 .. Len(s) : Level[s[i]] = l
        PROVE  \A i \in 1 .. Len(Append(s, c)) : Level[Append(s, c)[i]] = l
    BY <2>2, <2>5, AppendProperties
  <2>6. \/ UNCHANGED <<jobs, requeue>>
        \/ requeue' = [requeue EXCEPT ![l] = Append(requeue[l], c)] /\ UNCHANGED jobs
        \/ jobs' = [jobs EXCEPT ![l] = Append(jobs[l], c)] /\ UNCHANGED requeue
    BY <1>13, <2>2 DEF SendcmdsDone, listVars
  <2>7. /\ \A i \in 1 .. Len(Append(jobs[l], c)) : Level[Append(jobs[l], c)[i]] = l
        /\ \A i \in 1 .. Len(Append(requeue[l], c)) : Level[Append(requeue[l], c)[i]] = l
    BY <2>4, <2>5 DEF JobLevels
  <2>8. /\ \A k \in Levels : \A i \in 1 .. Len(jobs'[k]) : Level[jobs'[k][i]] = k
        /\ \A k \in Levels : \A i \in 1 .. Len(requeue'[k]) : Level[requeue'[k][i]] = k
    BY <1>a, <2>6, <2>7 DEF JobLevels, ListTypes
  <2> QED BY <2>3, <2>8 DEF JobsAt, JobLevels
<1>14. CASE IssuedByWorker
  BY <1>b, <1>14 DEF IssuedByWorker, JobLevels, listVars
<1>15. CASE retire_cmd_list
  BY <1>b, <1>15 DEF retire_cmd_list, JobLevels, listVars
<1>16. ASSUME NEW c \in Ctx, adreno_hwsched_queue_context(c)
      PROVE  JobLevels'
  <2>1. CASE UNCHANGED jobs
    BY <1>16, <1>1, <2>1 DEF adreno_hwsched_queue_context
  <2>2. CASE AddJob(c)
    BY <1>16, <2>2, AddJobLevels DEF adreno_hwsched_queue_context
  <2> QED BY <1>16, <2>1, <2>2 DEF adreno_hwsched_queue_context
<1> QED
  BY <1>1, <1>2, <1>3, <1>4, <1>5, <1>6, <1>7, <1>8, <1>9, <1>10, <1>11, <1>12, <1>13, <1>14,
     <1>15, <1>16 DEF Step

\* Membership in a longer list.
LEMMA InAppend ==
    ASSUME NEW s \in Seq(Ctx), NEW x \in Ctx
    PROVE  \A c : In(c, s) \/ c = x => In(c, Append(s, x))
<1>1. PICK t : t = Append(s, x)
  OBVIOUS
<1>2. Len(t) = Len(s) + 1 /\ t[Len(s) + 1] = x /\ \A i \in 1 .. Len(s) : t[i] = s[i]
  BY <1>1
<1>3. \A c : In(c, s) \/ c = x => In(c, t)
  BY <1>2 DEF In
<1> QED
  BY <1>1, <1>3

\* Membership in two lists joined.
LEMMA InConcat ==
    ASSUME NEW s \in Seq(Ctx), NEW t \in Seq(Ctx)
    PROVE  \A c : In(c, s) \/ In(c, t) => In(c, s \o t)
<1>1. PICK u : u = s \o t
  OBVIOUS
<1>2. Len(u) = Len(s) + Len(t) /\ \A i \in 1 .. Len(s) + Len(t) : u[i] = IF i <= Len(s) THEN s[i] ELSE t[i - Len(s)]
  BY <1>1, ConcatProperties
<1>3. ASSUME NEW c, In(c, s) PROVE In(c, u)
  BY <1>2, <1>3 DEF In
<1>4. ASSUME NEW c, In(c, t) PROVE In(c, u)
  <2>1. PICK i \in 1 .. Len(t) : t[i] = c
    BY <1>4 DEF In
  <2>2. Len(s) + i \in 1 .. Len(u) /\ ~(Len(s) + i <= Len(s)) /\ Len(s) + i - Len(s) = i
    BY <1>2
  <2>3. u[Len(s) + i] = c
    BY <1>2, <2>1, <2>2
  <2> QED BY <2>2, <2>3 DEF In
<1> QED
  BY <1>1, <1>3, <1>4

\* A context that is wanted is taken or stays on the list.
LEMMA JobKept ==
    ASSUME NEW list \in Seq(Ctx), NEW seen, NEW d, NoJob(list, seen, d) \/ Job(list, seen, d),
           NEW c, In(c, list), c \notin seen, bits[c] = {}
    PROVE  InHand(c, d) \/ (In(c, d.list) /\ c \notin d.seen)
<1>1. PICK j \in 1 .. Len(list) : list[j] = c
  BY DEF In
<1>2. Wanted(list[j], seen)
  BY <1>1 DEF Wanted, kgsl_context_is_bad
<1>3. ~NoJob(list, seen, d)
  BY <1>2 DEF NoJob
<1>4. PICK i \in 1 .. Len(list) :
        /\ \A k \in 1 .. i - 1 : ~Wanted(list[k], seen)
        /\ d.pc = "next" /\ d.ctx = list[i]
        /\ Len(d.list) = Len(list) - i
        /\ \A k \in 1 .. Len(d.list) : d.list[k] = list[i + k]
        /\ d.seen = seen \cup {list[i]}
  BY <1>3 DEF Job
<1>5. i <= j
  BY <1>2, <1>4
<1>6. CASE list[i] = c
  BY <1>4, <1>6 DEF InHand
<1>7. CASE list[i] # c
  <2>1. i # j /\ c \notin d.seen
    BY <1>1, <1>4, <1>7
  <2>2. j - i \in 1 .. Len(d.list) /\ i + (j - i) = j
    BY <1>4, <1>5, <2>1
  <2>3. d.list[j - i] = c
    BY <1>1, <1>4, <2>2
  <2> QED BY <2>1, <2>2, <2>3 DEF In
<1> QED
  BY <1>6, <1>7

\* A new job drops none.
LEMMA AddJobKeeps ==
    ASSUME TypeOK, NEW x \in Ctx, AddJob(x)
    PROVE  \A c \in Ctx : In(c, jobs[Level[c]]) \/ c = x => In(c, jobs'[Level[c]])
<1>1. ListTypes
  BY TypesAre
<1>2. PICK l \in Levels : l = Level[x]
  BY NLevelsIs
<1>3. jobs' = [jobs EXCEPT ![l] = Append(jobs[l], x)] /\ jobs[l] \in Seq(Ctx)
  BY <1>1, <1>2 DEF AddJob, ListTypes
<1>4. \A c \in Ctx : In(c, jobs[l]) \/ c = x => In(c, Append(jobs[l], x))
  BY <1>3, InAppend
<1> QED
  BY <1>1, <1>2, <1>3, <1>4, NLevelsIs DEF ListTypes

\* No context with work is forgotten.
LEMMA WorkListedStep ==
    ASSUME TypeOK, Control, Holder, JobLevels, WorkListed, Step
    PROVE  WorkListed'
<1>a. ListTypes /\ DispTypes /\ CtxTypes /\ ThreadTypes
  BY TypesAre
<1>b. [NoDisp EXCEPT !.pc = "level"].list = <<>> /\ [NoDisp EXCEPT !.pc = "level"].ctx = None
  BY DEF NoDisp
<1>1. ASSUME UNCHANGED <<bits, queue, jobs, requeue, disp, pc>> PROVE WorkListed'
  BY <1>1 DEF WorkListed, Listed
<1>2. ASSUME NEW c \in Ctx, GpuStart(c) \/ GpuRetire(c) \/ adreno_hwsched_fault(c)
              \/ gen7_hwsched_context_detach(c)
      PROVE  WorkListed'
  BY <1>1, <1>2 DEF GpuStart, GpuRetire, adreno_hwsched_fault, gen7_hwsched_context_detach,
    RetireTimestamp, wake_up_all, ctxVars, listVars, schedVars, gpuVars, faultVars, threadVars,
    boundVars
<1>3. CASE TsRetire \/ IdleHalt \/ IdleFlush \/ IdleGate \/ IdleUnhalt \/ IdleDone
  BY <1>1, <1>3 DEF TsRetire, IdleHalt, IdleFlush, IdleGate, IdleUnhalt, IdleDone, ctxVars,
    listVars, schedVars, gpuVars, faultVars, threadVars, boundVars
<1>4. ASSUME NEW p \in Threads, SubmitOutcome(p)
      PROVE  WorkListed'
  <2>1. UNCHANGED <<bits, jobs, requeue, disp>>
    BY <1>4 DEF SubmitOutcome, SubmitRest, Refused, Sleeps, Fast, FastMarker, Enqueues, ctxVars, listVars
  <2>2. \A q \in Threads : pc[q] = "queued" => pc'[q] = "queued"
    BY <1>4, <1>a DEF SubmitOutcome, Refused, Return, Sleeps, Fast, FastMarker, Enqueues, ThreadTypes
  <2>3. \A c \in Ctx : Listed(c) => Listed(c)'
    BY <2>1, <2>2 DEF Listed
  <2>4. CASE UNCHANGED queue
    BY <2>1, <2>3, <2>4 DEF WorkListed
  <2>5. CASE \E os : Enqueues(p, os)
    <3>1. pc' = [pc EXCEPT ![p] = "queued"] /\ \E r : queue' = [queue EXCEPT ![CtxOf(p)] = r]
      BY <2>5 DEF Enqueues
    <3>2. Listed(CtxOf(p))'
      BY <1>a, <3>1 DEF Listed, ThreadTypes
    <3>3. \A c \in Ctx : c # CtxOf(p) => queue'[c] = queue[c]
      BY <1>a, <3>1 DEF CtxTypes
    <3> QED BY <2>1, <2>3, <3>2, <3>3 DEF WorkListed
  <2> QED BY <1>4, <2>4, <2>5 DEF SubmitOutcome, Refused, Sleeps, Fast, FastMarker, ctxVars
<1>5. ASSUME NEW p \in Threads, kgsl_ioctl_gpu_aux_command(p)
      PROVE  WorkListed'
  BY <1>5, <1>a DEF kgsl_ioctl_gpu_aux_command, ctxVars, listVars, schedVars, gpuVars,
    faultVars, threadVars, boundVars, WorkListed, Listed, ThreadTypes, Submits
<1>6. ASSUME NEW p \in Threads, _wait_for_room_in_context_queue(p)
      PROVE  WorkListed'
  BY <1>6, <1>a DEF _wait_for_room_in_context_queue, ctxVars, listVars, schedVars, gpuVars,
    faultVars, threadVars, boundVars, WorkListed, Listed, ThreadTypes
<1>7. ASSUME NEW p \in Threads, WaitTimeout(p)
      PROVE  WorkListed'
  BY <1>7, <1>a DEF WaitTimeout, Return, ctxVars, listVars, schedVars, gpuVars, faultVars,
    threadVars, boundVars, WorkListed, Listed, ThreadTypes
<1>8. ASSUME NEW p \in Threads, QueueJob(p)
      PROVE  WorkListed'
  <2>1. CtxOf(p) \in Ctx
    BY DEF CtxOf, Threads
  <2>2. UNCHANGED <<queue, bits, requeue, disp>> /\ pc' = [pc EXCEPT ![p] = "issue"] /\ AddJob(CtxOf(p))
    BY <1>8 DEF QueueJob, ctxVars
  <2>3. \A c \in Ctx : In(c, jobs[Level[c]]) \/ c = CtxOf(p) => In(c, jobs'[Level[c]])
    BY <2>1, <2>2, AddJobKeeps
  <2>4. \A c \in Ctx : Listed(c) => Listed(c)'
    BY <1>a, <2>2, <2>3 DEF Listed, ThreadTypes
  <2> QED BY <2>2, <2>4 DEF WorkListed
<1>9. ASSUME NEW p \in Threads, adreno_hwsched_issuecmds(p)
      PROVE  WorkListed'
  <2>1. UNCHANGED <<queue, bits, jobs, requeue>>
    BY <1>9 DEF adreno_hwsched_issuecmds, ctxVars, listVars
  <2>2. \A q \in Threads : pc[q] = "queued" => pc'[q] = "queued"
    BY <1>9, <1>a DEF adreno_hwsched_issuecmds, ThreadTypes
  <2>3. CASE disp' = disp
    BY <2>1, <2>2, <2>3 DEF Listed, WorkListed
  <2>4. CASE mutex = None
    <3>1. disp.list = <<>> /\ disp.ctx = None
      BY <2>4 DEF Control, ControlOf
    <3>2. \A c \in Ctx : ~InHand(c, disp) /\ ~In(c, disp.list)
      BY <3>1, Nones DEF InHand, In
    <3> QED BY <2>1, <2>2, <3>2 DEF Listed, WorkListed
  <2> QED BY <1>9, <2>3, <2>4 DEF adreno_hwsched_issuecmds
<1>10. ASSUME NEW p \in Threads, IssuedByThread(p)
      PROVE  WorkListed'
  <2>1. UNCHANGED <<queue, bits, jobs, requeue>>
    BY <1>10 DEF IssuedByThread, ctxVars, listVars
  <2>2. disp.list = <<>> /\ disp.ctx = None
    BY <1>10, Nones DEF IssuedByThread, Issued, Control, ControlOf
  <2>3. \A c \in Ctx : ~InHand(c, disp) /\ ~In(c, disp.list)
    BY <2>2, Nones DEF InHand, In
  <2>4. \A q \in Threads : pc[q] = "queued" => pc'[q] = "queued"
    BY <1>10, <1>a DEF IssuedByThread, threadVars, Return, Holder, ThreadTypes
  <2> QED BY <2>1, <2>3, <2>4 DEF Listed, WorkListed
<1>11. CASE hwsched_handle_jobs
  <2>1. UNCHANGED <<queue, bits, pc>> /\ disp.pc = "level"
    BY <1>11 DEF hwsched_handle_jobs, ctxVars, threadVars
  <2>2. disp.lvl \in Levels /\ requeue[disp.lvl] \in Seq(Ctx) /\ jobs[disp.lvl] \in Seq(Ctx)
    BY <1>11, JobsTaken
  <2>3. PICK l \in Levels : l = disp.lvl
    BY <2>2
  <2>4. PICK list \in Seq(Ctx) : list = requeue[l] \o jobs[l] /\ (NoJob(list, {}, disp') \/ Job(list, {}, disp'))
    BY <1>11, <2>3, JobsTaken
  <2>5. \A c \in Ctx : In(c, requeue[l]) \/ In(c, jobs[l]) => In(c, list)
    BY <2>2, <2>3, <2>4, InConcat
  <2>6. \A c \in Ctx : ~InHand(c, disp) /\ ~In(c, disp.list)
    <3>1. disp.list = <<>> /\ disp.ctx = None
      BY <2>1 DEF Control, ControlOf
    <3> QED BY <3>1, Nones DEF InHand, In
  <2>7. /\ jobs' = [jobs EXCEPT ![l] = <<>>] /\ requeue' = [requeue EXCEPT ![l] = <<>>]
    BY <1>11, <2>3 DEF hwsched_handle_jobs
  <2>8. ASSUME NEW c \in Ctx, bits[c] = {}, Listed(c)
        PROVE  Listed(c)'
    <3>1. CASE In(c, list)
      BY <2>4, <2>8, <3>1, JobKept DEF Listed
    <3>2. CASE ~In(c, list)
      <4>1. Level[c] \in Levels
        BY NLevelsIs
      <4>2. Level[c] # l => jobs'[Level[c]] = jobs[Level[c]] /\ requeue'[Level[c]] = requeue[Level[c]]
        BY <1>a, <2>7, <4>1 DEF ListTypes
      <4> QED BY <2>1, <2>5, <2>6, <2>8, <3>2, <4>2 DEF Listed
    <3> QED BY <3>1, <3>2
  <2> QED BY <2>1, <2>8 DEF WorkListed
<1>12. CASE hwsched_handle_jobs_list
  <2>1. UNCHANGED <<queue, bits, pc, jobs, requeue>> /\ disp.pc = "job"
    BY <1>12 DEF hwsched_handle_jobs_list, ctxVars, listVars, threadVars
  <2>2. NoJob(disp.list, disp.seen, disp') \/ Job(disp.list, disp.seen, disp')
    BY <1>12, JobTaken
  <2>3. disp.list \in Seq(Ctx)
    BY <1>a DEF DispTypes, DispType
  <2>4. \A c \in Ctx : ~InHand(c, disp)
    BY <2>1, Nones DEF InHand, Control, ControlOf
  <2>5. ASSUME NEW c \in Ctx, bits[c] = {}, Listed(c)
        PROVE  Listed(c)'
    <3>1. CASE In(c, disp.list) /\ c \notin disp.seen
      BY <2>2, <2>3, <2>5, <3>1, JobKept DEF Listed
    <3>2. CASE ~(In(c, disp.list) /\ c \notin disp.seen)
      BY <2>1, <2>4, <2>5, <3>2 DEF Listed
    <3> QED BY <3>1, <3>2
  <2> QED BY <2>1, <2>5 DEF WorkListed
<1>13. CASE WalkOutcome
  <2>1. disp.ctx \in Ctx /\ disp.pc = "next" /\ UNCHANGED <<bits, jobs, requeue, pc>>
    BY <1>13 DEF WalkOutcome, WalkRest, listVars, threadVars
  <2>2. \A c \in Ctx : c # disp.ctx => queue'[c] = queue[c]
    BY <1>13, <1>a, <2>1 DEF WalkOutcome, WalkEnds, WalkSends, WalkExpires, WalkSyncs, WalkRetires,
      WalkBinds, Pops, CtxTypes
  <2>3. SameJob
    BY <1>13, WalkDisp
  <2>4. \A c \in Ctx : c # disp.ctx /\ Listed(c) => Listed(c)'
    BY <2>1, <2>3 DEF SameJob, Listed, InHand
  <2>5. InHand(disp.ctx, disp') \/ queue[disp.ctx] = <<>>
    BY <1>13, <2>1, <2>3, WalkDisp DEF SameJob, InHand
  <2>6. queue[disp.ctx] = <<>> => queue'[disp.ctx] = <<>>
    BY <1>13, <1>a DEF WalkOutcome, WalkEnds, WalkSends, WalkExpires, WalkSyncs, WalkRetires,
      WalkBinds, Pops
  <2>7. PICK x \in Ctx : x = disp.ctx
    BY <2>1
  <2>8. queue'[x] # <<>> => Listed(x)'
    BY <2>5, <2>6, <2>7 DEF Listed
  <2> QED BY <2>1, <2>2, <2>4, <2>7, <2>8 DEF WorkListed
<1>14. CASE SendOutcome
  <2>1. disp.ctx \in Ctx /\ disp.pc = "send" /\ UNCHANGED <<queue, bits, jobs, requeue, pc>>
    BY <1>14 DEF SendOutcome, SendRest, ctxVars, listVars, threadVars
  <2>2. SameJob /\ (disp'.pc # "end" \/ bits[disp.ctx] # {})
    BY <1>14, SendDisp
  <2>3. \A c \in Ctx : bits[c] = {} /\ Listed(c) => Listed(c)'
    BY <2>1, <2>2 DEF SameJob, Listed, InHand
  <2> QED BY <2>1, <2>3 DEF WorkListed
<1>15. CASE RequeueOutcome
  <2>1. disp.ctx \in Ctx /\ disp.pc = "back" /\ UNCHANGED <<bits, jobs, requeue, pc>>
    BY <1>15 DEF RequeueOutcome, listVars, threadVars
  <2>2. \A c \in Ctx : c # disp.ctx => queue'[c] = queue[c]
    BY <1>15, <1>a, <2>1 DEF RequeueOutcome, PutsBack, Drops, CtxTypes
  <2>3. SameJob
    BY <1>15, RequeueDisp
  <2>4. \A c \in Ctx : c # disp.ctx /\ Listed(c) => Listed(c)'
    BY <2>1, <2>3 DEF SameJob, Listed, InHand
  <2>5. bits[disp.ctx] = {} => InHand(disp.ctx, disp')
    <3>1. disp.ret \in {"ENOSPC", "EBUSY", "EINVAL"}
      BY <2>1 DEF Control, ControlOf
    <3>2. bits[disp.ctx] = {} => disp'.ret = disp.ret
      BY <1>15, RequeueDisp DEF Good, kgsl_context_is_bad
    <3> QED BY <2>3, <3>1, <3>2 DEF SameJob, InHand
  <2> QED BY <2>1, <2>2, <2>4, <2>5 DEF WorkListed, Listed
<1>16. CASE SendcmdsDone
  <2>1. disp.ctx \in Ctx /\ disp.lvl \in Levels /\ JobEnds /\ disp.ctx # None
    BY <1>16, JobDone, Nones
  <2>2. PICK x \in Ctx, l \in Levels : x = disp.ctx /\ l = disp.lvl /\ Level[x] = l
    BY <2>1 DEF JobLevels
  <2>3. UNCHANGED <<queue, bits, pc>> /\ disp.pc = "end"
    BY <1>16 DEF SendcmdsDone, ctxVars
  <2>4. \/ DropJob /\ UNCHANGED <<jobs, requeue>>
        \/ requeue' = [requeue EXCEPT ![l] = Append(requeue[l], x)] /\ UNCHANGED jobs
        \/ jobs' = [jobs EXCEPT ![l] = Append(jobs[l], x)] /\ UNCHANGED requeue
    BY <1>16, <2>2 DEF SendcmdsDone, listVars
  <2>5. jobs[l] \in Seq(Ctx) /\ requeue[l] \in Seq(Ctx)
    BY <1>a DEF ListTypes
  <2>6. \A c \in Ctx : /\ In(c, jobs[l]) \/ c = x => In(c, Append(jobs[l], x))
                       /\ In(c, requeue[l]) \/ c = x => In(c, Append(requeue[l], x))
    BY <2>5, InAppend
  <2>7. ASSUME NEW c \in Ctx, Listed(c)
        PROVE  Listed(c)'
    <3>1. CASE In(c, jobs[Level[c]]) \/ In(c, requeue[Level[c]])
      <4>1. In(c, jobs'[Level[c]]) \/ In(c, requeue'[Level[c]])
        BY <1>a, <2>4, <2>6, <3>1, NLevelsIs DEF ListTypes
      <4> QED BY <4>1 DEF Listed
    <3>2. CASE In(c, disp.list) /\ c \notin disp.seen
      <4>1. disp.list # <<>>
        BY <3>2 DEF In
      <4> QED BY <2>1, <3>2, <4>1 DEF JobEnds, Listed
    <3>3. CASE InHand(c, disp)
      <4>1. ~DropJob /\ c = x
        BY <2>2, <2>3, <3>3 DEF InHand, DropJob
      <4>2. In(c, jobs'[Level[c]]) \/ In(c, requeue'[Level[c]])
        BY <1>a, <2>2, <2>4, <2>6, <4>1 DEF ListTypes
      <4> QED BY <4>2 DEF Listed
    <3>4. CASE \E p \in Threads : CtxOf(p) = c /\ pc[p] = "queued"
      BY <2>3, <3>4 DEF Listed
    <3> QED BY <2>7, <3>1, <3>2, <3>3, <3>4 DEF Listed
  <2> QED BY <2>3, <2>7 DEF WorkListed
<1>17. CASE IssuedByWorker
  <2>1. UNCHANGED <<queue, bits, jobs, requeue>>
    BY <1>17 DEF IssuedByWorker, ctxVars, listVars
  <2>2. disp.list = <<>> /\ disp.ctx = None
    BY <1>17, Nones DEF IssuedByWorker, Issued, Control, ControlOf
  <2>3. \A c \in Ctx : ~InHand(c, disp) /\ ~In(c, disp.list)
    BY <2>2, Nones DEF InHand, In
  <2>4. \A q \in Threads : pc[q] = "queued" => pc'[q] = "queued"
    BY <1>17, <1>a DEF IssuedByWorker, threadVars, Return, Holder, ThreadTypes
  <2> QED BY <2>1, <2>3, <2>4 DEF Listed, WorkListed
<1>18. CASE retire_cmd_list
  <2>1. UNCHANGED <<queue, bits, jobs, requeue>>
    BY <1>18 DEF retire_cmd_list, ctxVars, listVars
  <2>2. disp.list = <<>> /\ disp.ctx = None
    BY <1>18, Nones DEF retire_cmd_list, WorkerLocks, Control, ControlOf
  <2>3. \A c \in Ctx : ~InHand(c, disp) /\ ~In(c, disp.list)
    BY <2>2, Nones DEF InHand, In
  <2>4. \A q \in Threads : pc[q] = "queued" => pc'[q] = "queued"
    BY <1>18, <1>a DEF retire_cmd_list, threadVars, Return, Holder, ThreadTypes
  <2> QED BY <2>1, <2>3, <2>4 DEF Listed, WorkListed
<1>19. CASE FaultOutcome
  <2>1. PICK cs, m : adreno_drawctxt_invalidate(cs, m)
    BY <1>19 DEF FaultOutcome
  <2>2. UNCHANGED <<jobs, requeue, disp, pc>>
    BY <1>19 DEF FaultOutcome, listVars
  <2>3. \A c \in Ctx : bits'[c] = {} => bits[c] = {} /\ (queue'[c] # <<>> => queue[c] # <<>>)
    BY <1>a, <2>1 DEF adreno_drawctxt_invalidate, CtxTypes
  <2> QED BY <2>2, <2>3 DEF WorkListed, Listed
<1>20. ASSUME NEW c \in Ctx, adreno_hwsched_queue_context(c)
      PROVE  WorkListed'
  <2>1. PICK i, r : Stated(r, queue[c], i, "ready") /\ queue' = [queue EXCEPT ![c] = r]
    BY <1>20, SignalIs
  <2>2. UNCHANGED <<bits, requeue, disp, pc>> /\ (UNCHANGED jobs \/ AddJob(c))
    BY <1>20 DEF adreno_hwsched_queue_context, threadVars
  <2>3. queue[c] # <<>>
    BY <2>1 DEF Stated
  <2>4. \A x \in Ctx : queue'[x] # <<>> => queue[x] # <<>>
    BY <1>a, <2>1, <2>3 DEF CtxTypes
  <2>5. \A x \in Ctx : In(x, jobs[Level[x]]) => In(x, jobs'[Level[x]])
    BY <2>2, AddJobKeeps
  <2> QED BY <2>2, <2>4, <2>5 DEF WorkListed, Listed
<1>21. ASSUME NEW c \in Ctx, kgsl_context_detach(c)
      PROVE  WorkListed'
  <2>1. UNCHANGED <<queue, jobs, requeue, disp, pc>> /\ \A x \in Ctx : bits'[x] = {} => bits[x] = {}
    BY <1>21, <1>a DEF kgsl_context_detach, listVars, threadVars, CtxTypes
  <2> QED BY <2>1 DEF WorkListed, Listed
<1>22. ASSUME NEW c \in Ctx, drawctxt_detach_drawobjs(c)
      PROVE  WorkListed'
  <2>1. UNCHANGED <<bits, jobs, requeue, disp, pc>> /\ \A x \in Ctx : queue'[x] # <<>> => queue'[x] = queue[x]
    BY <1>22, <1>a DEF drawctxt_detach_drawobjs, listVars, threadVars, CtxTypes
  <2> QED BY <2>1 DEF WorkListed, Listed
<1>23. ASSUME NEW c \in Ctx, UnregisterTimeout(c)
      PROVE  WorkListed'
  <2>1. adreno_drawctxt_invalidate({c}, Memstore)
    BY <1>23 DEF UnregisterTimeout
  <2>2. UNCHANGED <<jobs, requeue, disp, pc>>
    BY <1>23 DEF UnregisterTimeout, listVars
  <2>3. \A x \in Ctx : bits'[x] = {} => bits[x] = {} /\ (queue'[x] # <<>> => queue[x] # <<>>)
    BY <1>a, <2>1 DEF adreno_drawctxt_invalidate, CtxTypes
  <2> QED BY <2>2, <2>3 DEF WorkListed, Listed
<1> QED
  BY <1>1, <1>2, <1>3, <1>4, <1>5, <1>6, <1>7, <1>8, <1>9, <1>10, <1>11, <1>12, <1>13, <1>14,
     <1>15, <1>16, <1>17, <1>18, <1>19, <1>20, <1>21, <1>22, <1>23 DEF Step

\* Without hardware fences no expired marker is sent.
LEMMA NoExpiredStep ==
    ASSUME TypeOK, Control, NoExpired, Step
    PROVE  NoExpired'
<1>a. /\ DispTypes /\ CtxTypes /\ GpuTypes /\ RestTypes
  BY TypesAre
<1>1. ASSUME UNCHANGED <<queue, disp>> PROVE NoExpired'
  BY <1>1 DEF NoExpired
<1>2. ASSUME NEW p \in Threads, kgsl_ioctl_gpu_aux_command(p)
              \/ _wait_for_room_in_context_queue(p) \/ WaitTimeout(p) \/ QueueJob(p)
      PROVE  NoExpired'
  BY <1>1, <1>2 DEF kgsl_ioctl_gpu_aux_command, _wait_for_room_in_context_queue, WaitTimeout,
    QueueJob, Return, AddJob, ctxVars, listVars, schedVars, gpuVars, faultVars, threadVars,
    boundVars
<1>3. ASSUME NEW c \in Ctx, GpuStart(c) \/ GpuRetire(c) \/ adreno_hwsched_fault(c)
              \/ kgsl_context_detach(c) \/ gen7_hwsched_context_detach(c)
      PROVE  NoExpired'
  BY <1>1, <1>3 DEF GpuStart, GpuRetire, adreno_hwsched_fault, kgsl_context_detach,
    gen7_hwsched_context_detach, RetireTimestamp, wake_up_all, ctxVars, listVars, schedVars,
    gpuVars, faultVars, threadVars, boundVars
<1>4. CASE TsRetire \/ IdleHalt \/ IdleFlush \/ IdleGate \/ IdleUnhalt \/ IdleDone
  BY <1>1, <1>4 DEF TsRetire, IdleHalt, IdleFlush, IdleGate, IdleUnhalt, IdleDone, ctxVars,
    listVars, schedVars, gpuVars, faultVars, threadVars, boundVars
<1>5. ASSUME NEW p \in Threads, SubmitOutcome(p)
      PROVE  NoExpired'
  <2>1. disp' = disp
    BY <1>5 DEF SubmitOutcome, SubmitRest
  <2>2. CASE UNCHANGED queue
    BY <1>1, <2>1, <2>2
  <2>3. ASSUME NEW os, Enqueues(p, os)
        PROVE  NoExpired'
    <3>1. PICK c \in Ctx : c = CtxOf(p)
      BY <1>5 DEF SubmitOutcome
    <3>2. PICK r, d : Tailed(c, os, r, d) /\ queue' = [queue EXCEPT ![c] = r]
      BY <2>3, <3>1 DEF Enqueues
    <3>3. ASSUME TRUE \notin HwFence, NEW j \in 1 .. Len(r)
          PROVE  r[j].state # "expired"
      <4>1. d \in Nat /\ r \in Seq(Objects) /\ Len(queue[c]) \in Nat
        BY <1>a, <3>2, Nones DEF Tailed, CtxTypes
      <4>2. CASE j + d <= Len(queue[c])
        <5>1. Alike(r[j], queue[c][j + d])
          BY <3>2, <4>2 DEF Tailed
        <5>2. j \in Nat /\ j >= 1
          BY <4>1
        <5>3. PICK i \in 1 .. Len(queue[c]) : i = j + d
          BY <4>1, <4>2, <5>2
        <5>4. queue[c][i].state # "expired"
          BY <3>3 DEF NoExpired
        <5> QED BY <5>1, <5>3, <5>4 DEF Alike
      <4>3. CASE j + d > Len(queue[c])
        <5>1. Fresh(c, r[j], os, j + d - Len(queue[c]))
          BY <3>2, <4>3 DEF Tailed
        <5> QED BY <5>1 DEF Fresh
      <4> QED BY <4>1, <4>2, <4>3
    <3> QED BY <1>a, <2>1, <3>2, <3>3 DEF NoExpired, CtxTypes
  <2> QED BY <1>5, <2>2, <2>3 DEF SubmitOutcome, Refused, Sleeps, Fast, FastMarker, ctxVars
<1>6. ASSUME NEW p \in Threads, adreno_hwsched_issuecmds(p)
      PROVE  NoExpired'
  BY <1>6, <1>a, Nones DEF adreno_hwsched_issuecmds, ctxVars, listVars, schedVars, gpuVars,
    faultVars, threadVars, boundVars, NoExpired, NoDisp
<1>7. ASSUME NEW p \in Threads, IssuedByThread(p)
      PROVE  NoExpired'
  BY <1>7, <1>a, Nones DEF IssuedByThread, Return, ctxVars, listVars, schedVars, gpuVars,
    faultVars, threadVars, boundVars, NoExpired, NoDisp
<1>8. CASE hwsched_handle_jobs
  <2>1. disp'.obj = None /\ queue' = queue
    BY <1>8, JobArrives DEF AtRest, hwsched_handle_jobs, ctxVars
  <2> QED BY <2>1 DEF NoExpired
<1>9. CASE hwsched_handle_jobs_list
  <2>1. disp'.obj = None /\ queue' = queue
    BY <1>9, JobArrives DEF AtRest, hwsched_handle_jobs_list, ctxVars
  <2> QED BY <2>1 DEF NoExpired
<1>10. CASE WalkOutcome
  <2> SUFFICES ASSUME TRUE \notin HwFence
               PROVE  NoExpired'
    BY DEF NoExpired
  <2>1. disp.ctx \in Ctx /\ disp.pc = "next" /\ disp.obj = None
    BY <1>10 DEF WalkOutcome, Control, ControlOf
  <2>2. ASSUME NEW x, Pops(disp.ctx, x)
        PROVE  /\ x.state # "expired"
               /\ \A c \in Ctx : \A j \in 1 .. Len(queue'[c]) : queue'[c][j].state # "expired"
    <3>1. Len(queue[disp.ctx]) \in Nat /\ Len(queue[disp.ctx]) >= 1 /\ x = queue[disp.ctx][1]
      BY <1>a, <2>1, <2>2 DEF Pops, CtxTypes
    <3>2. PICK r \in Seq(Objects) :
            /\ Len(r) = Len(queue[disp.ctx]) - 1
            /\ \A j \in 1 .. Len(r) : r[j] = queue[disp.ctx][j + 1]
            /\ queue' = [queue EXCEPT ![disp.ctx] = r]
      BY <2>2 DEF Pops
    <3>3. \A j \in 1 .. Len(r) : j + 1 \in 1 .. Len(queue[disp.ctx])
      BY <3>1, <3>2
    <3>4. \A j \in 1 .. Len(r) : r[j].state # "expired"
      BY <2>1, <3>2, <3>3 DEF NoExpired
    <3>5. x.state # "expired"
      BY <2>1, <3>1 DEF NoExpired
    <3> QED BY <1>a, <2>1, <3>2, <3>4, <3>5 DEF CtxTypes, NoExpired
  <2>3. disp \in DispType
    BY <1>a DEF DispTypes
  <2>4. CASE WalkEnds(disp.ctx)
    BY <2>1, <2>3, <2>4 DEF WalkEnds, Stop, NoExpired, DispType
  <2>5. CASE WalkBinds(disp.ctx)
    <3>1. PICK r : Stated(r, queue[disp.ctx], 1, "go") /\ queue' = [queue EXCEPT ![disp.ctx] = r]
      BY <2>5 DEF WalkBinds
    <3>2. \A j \in 1 .. Len(r) : r[j].state # "expired"
      BY <2>1, <3>1 DEF Stated, NoExpired
    <3>3. disp'.obj = disp.obj
      BY <2>3, <2>5 DEF WalkBinds, Stop, DispType
    <3> QED BY <1>a, <2>1, <3>1, <3>2, <3>3 DEF NoExpired, CtxTypes
  <2>6. CASE WalkSends(disp.ctx)
    BY <2>2, <2>3, <2>6 DEF WalkSends, SendNext, NoExpired, DispType
  <2>7. CASE WalkSyncs(disp.ctx) \/ WalkRetires(disp.ctx)
    BY <2>1, <2>2, <2>3, <2>7 DEF WalkSyncs, WalkRetires, NoExpired, DispType
  <2> QED BY <1>10, <2>4, <2>5, <2>6, <2>7 DEF WalkOutcome, WalkExpires
<1>11. CASE SendOutcome
  <2>1. (disp'.obj = None \/ disp'.obj = disp.obj) /\ queue' = queue
    BY <1>11, SendDisp DEF SendOutcome, SendRest, ctxVars
  <2> QED BY <2>1 DEF NoExpired
<1>12. CASE RequeueOutcome
  <2> SUFFICES ASSUME TRUE \notin HwFence
               PROVE  NoExpired'
    BY DEF NoExpired
  <2>1. disp.ctx \in Ctx /\ disp.obj \in Objects
    BY <1>12 DEF RequeueOutcome
  <2>2. disp'.obj = None
    BY <1>12, RequeueDisp
  <2>3. CASE Drops(disp.ctx)
    BY <2>2, <2>3 DEF Drops, NoExpired
  <2>4. CASE PutsBack(disp.ctx)
    <3>1. PICK r : Headed(disp.ctx, disp.obj, r) /\ queue' = [queue EXCEPT ![disp.ctx] = r]
      BY <2>4 DEF PutsBack
    <3>2. disp.obj.state # "expired"
      BY <2>1, Nones DEF NoExpired
    <3>3. ASSUME NEW j \in 1 .. Len(r) PROVE r[j].state # "expired"
      <4>1. r \in Seq(Objects) /\ Len(queue[disp.ctx]) \in Nat
        BY <1>a, <2>1, <3>1 DEF Headed, CtxTypes
      <4>2. r # <<>>
        BY <4>1
      <4>3. Len(r) = Len(queue[disp.ctx]) + 1 /\ r[1] = disp.obj /\ \A k \in 2 .. Len(r) : r[k] = queue[disp.ctx][k - 1]
        BY <3>1, <4>2 DEF Headed
      <4>4. CASE j = 1
        BY <3>2, <4>3, <4>4
      <4>5. CASE j # 1
        <5>1. j \in 2 .. Len(r) /\ j - 1 \in 1 .. Len(queue[disp.ctx])
          BY <4>1, <4>3, <4>5
        <5> QED BY <2>1, <4>3, <5>1 DEF NoExpired
      <4> QED BY <4>4, <4>5
    <3> QED BY <1>a, <2>1, <2>2, <3>1, <3>3 DEF NoExpired, CtxTypes
  <2> QED BY <1>12, <2>3, <2>4 DEF RequeueOutcome
<1>13. CASE SendcmdsDone
  <2>1. disp'.obj = None /\ queue' = queue
    BY <1>13, JobDone DEF JobEnds, SendcmdsDone, ctxVars
  <2> QED BY <2>1 DEF NoExpired
<1>14. CASE IssuedByWorker
  BY <1>14, <1>a, Nones DEF IssuedByWorker, ctxVars, listVars, schedVars, gpuVars, faultVars,
    threadVars, boundVars, NoExpired, NoDisp
<1>15. CASE retire_cmd_list
  BY <1>15, <1>a, Nones DEF retire_cmd_list, WorkerLocks, Reap, ctxVars, listVars, schedVars,
    gpuVars, faultVars, threadVars, boundVars, NoExpired, NoDisp
<1>16. CASE FaultOutcome
  <2>1. PICK cs, m : adreno_drawctxt_invalidate(cs, m)
    BY <1>16 DEF FaultOutcome
  <2>2. disp' = disp
    BY <1>16 DEF FaultOutcome
  <2> QED BY <1>a, <2>1, <2>2 DEF adreno_drawctxt_invalidate, NoExpired, CtxTypes
<1>17. ASSUME NEW c \in Ctx, adreno_hwsched_queue_context(c)
      PROVE  NoExpired'
  <2>1. PICK i, r : Stated(r, queue[c], i, "ready") /\ queue' = [queue EXCEPT ![c] = r]
    BY <1>17, SignalIs
  <2>2. disp' = disp
    BY <1>17 DEF adreno_hwsched_queue_context
  <2>3. TRUE \notin HwFence => \A j \in 1 .. Len(r) : r[j].state # "expired"
    BY <2>1 DEF Stated, NoExpired
  <2> QED BY <1>a, <2>1, <2>2, <2>3 DEF NoExpired, CtxTypes
<1>18. ASSUME NEW c \in Ctx, drawctxt_detach_drawobjs(c)
      PROVE  NoExpired'
  BY <1>18, <1>a DEF drawctxt_detach_drawobjs, ctxVars, listVars, schedVars, gpuVars,
    faultVars, threadVars, boundVars, NoExpired, CtxTypes
<1>19. ASSUME NEW c \in Ctx, UnregisterTimeout(c)
      PROVE  NoExpired'
  <2>1. adreno_drawctxt_invalidate({c}, Memstore) /\ disp' = disp
    BY <1>19 DEF UnregisterTimeout
  <2> QED BY <1>a, <2>1 DEF adreno_drawctxt_invalidate, NoExpired, CtxTypes
<1> QED
  BY <1>1, <1>2, <1>3, <1>4, <1>5, <1>6, <1>7, <1>8, <1>9, <1>10, <1>11, <1>12, <1>13, <1>14,
     <1>15, <1>16, <1>17, <1>18, <1>19 DEF Step

\* The count of what is in flight and the idle gate.
LEMMA GateStep ==
    ASSUME TypeOK, Control, NoExpired, Gate, Step
    PROVE  Gate'
<1>a. SchedTypes /\ Len(cmdList) \in Nat
  BY TypesAre DEF SchedTypes
<1>1. ASSUME UNCHANGED <<cmdList, inflight, power, active, ipc, halt>> PROVE Gate'
  BY <1>1 DEF Gate
<1>2. ASSUME NEW p \in Threads, SubmitOutcome(p) \/ kgsl_ioctl_gpu_aux_command(p)
              \/ _wait_for_room_in_context_queue(p) \/ WaitTimeout(p) \/ QueueJob(p)
              \/ adreno_hwsched_issuecmds(p) \/ IssuedByThread(p)
      PROVE  Gate'
  BY <1>1, <1>2 DEF SubmitOutcome, kgsl_ioctl_gpu_aux_command, _wait_for_room_in_context_queue,
    WaitTimeout, QueueJob, adreno_hwsched_issuecmds, IssuedByThread, SubmitRest, Refused,
    Sleeps, Fast, FastMarker, Enqueues, Return, AddJob, ctxVars, listVars, schedVars, gpuVars,
    faultVars, threadVars, boundVars
<1>3. ASSUME NEW c \in Ctx, GpuStart(c) \/ GpuRetire(c) \/ adreno_hwsched_fault(c)
              \/ adreno_hwsched_queue_context(c) \/ kgsl_context_detach(c)
              \/ drawctxt_detach_drawobjs(c) \/ gen7_hwsched_context_detach(c)
              \/ UnregisterTimeout(c)
      PROVE  Gate'
  BY <1>1, <1>3 DEF GpuStart, GpuRetire, adreno_hwsched_fault, adreno_hwsched_queue_context,
    kgsl_context_detach, drawctxt_detach_drawobjs, gen7_hwsched_context_detach,
    UnregisterTimeout, AddJob, RetireTimestamp, wake_up_all, adreno_drawctxt_invalidate,
    ctxVars, listVars, schedVars, gpuVars, faultVars, threadVars, boundVars
<1>4. CASE hwsched_handle_jobs \/ hwsched_handle_jobs_list \/ WalkOutcome \/ RequeueOutcome
              \/ SendcmdsDone \/ TsRetire
  BY <1>1, <1>4 DEF hwsched_handle_jobs, hwsched_handle_jobs_list, WalkOutcome, RequeueOutcome,
    SendcmdsDone, TsRetire, WalkRest, WalkEnds, WalkSends, WalkExpires, WalkSyncs, WalkRetires,
    WalkBinds, Stop, SendNext, Pops, RetireTimestamp, PutsBack, Drops, WakeSnoozing,
    wake_up_all, ctxVars, listVars, schedVars, gpuVars, faultVars, threadVars, boundVars
<1>5. CASE SendOutcome
  <2>1. disp.obj \in Objects /\ UNCHANGED <<ipc, halt>> /\ ipc # "idle" /\ inflight \in Nat
    BY <1>5, <1>a DEF SendOutcome, SendRest, DeviceMutexFree, SchedTypes
  <2>2. CASE SendFails \/ SendGone(disp.ctx)
    <3>1. UNCHANGED <<cmdList, inflight, active>> /\ (power' = power \/ inflight = 0)
      BY <2>2 DEF SendFails, SendGone, schedVars
    <3>2. inflight > 0 => inflight # 0
      BY <2>1
    <3>3. inflight' > 0 => power' /\ active'
      BY <3>1, <3>2 DEF Gate
    <3> QED BY <2>1, <3>1, <3>3 DEF Gate
  <2>3. CASE SendDone(disp.ctx, disp.obj)
    <3>1. ~halt /\ Submit(disp.ctx, disp.obj)
      BY <2>3 DEF SendDone
    <3>2. inflight' = inflight + 1 /\ power' = TRUE /\ active' = (active \/ inflight = 0)
      BY <3>1 DEF Submit
    <3>3. IF disp.obj.state = "expired" THEN Len(cmdList') = Len(cmdList) ELSE Len(cmdList') = Len(cmdList) + 1
      BY <1>a, <3>1 DEF Submit, SchedTypes
    <3>4. TRUE \notin HwFence => disp.obj.state # "expired"
      BY <2>1, Nones DEF NoExpired
    <3>5. ipc' \notin {"queued", "flush", "gate", "gated", "idle"}
      BY <2>1, <3>1 DEF Gate
    <3>6. inflight' > 0 => power' /\ active'
      <4>1. CASE inflight = 0
        BY <3>2, <4>1
      <4>2. CASE inflight # 0
        <5>1. inflight > 0
          BY <2>1, <4>2
        <5>2. active
          BY <5>1 DEF Gate
        <5> QED BY <3>2, <5>2
      <4> QED BY <4>1, <4>2
    <3>7. Len(cmdList') <= inflight' /\ (TRUE \notin HwFence => inflight' = Len(cmdList'))
      <4>0. inflight' = inflight + 1 /\ inflight \in Nat /\ Len(cmdList) \in Nat
        BY <1>a, <2>1, <3>2
      <4>1. Len(cmdList) <= inflight
        BY DEF Gate
      <4>2. Len(cmdList') = Len(cmdList) \/ Len(cmdList') = Len(cmdList) + 1
        BY <3>3
      <4>3. Len(cmdList') <= inflight'
        BY <4>0, <4>1, <4>2
      <4>4. ASSUME TRUE \notin HwFence PROVE inflight = Len(cmdList) /\ Len(cmdList') = Len(cmdList) + 1
        BY <3>3, <3>4, <4>4 DEF Gate
      <4>5. (inflight = Len(cmdList) /\ Len(cmdList') = Len(cmdList) + 1) => inflight' = Len(cmdList')
        BY <4>0
      <4> QED BY <4>3, <4>4, <4>5
    <3> QED BY <3>5, <3>6, <3>7 DEF Gate
  <2> QED BY <1>5, <2>2, <2>3 DEF SendOutcome
<1>6. CASE IssuedByWorker
  <2>1. UNCHANGED <<cmdList, inflight, ipc, halt>> /\ inflight \in Nat
    BY <1>6, <1>a DEF IssuedByWorker, SchedTypes
  <2>2. inflight # 0 => UNCHANGED <<power, active>>
    BY <1>6 DEF IssuedByWorker
  <2>3. inflight' > 0 => inflight # 0 /\ inflight > 0
    BY <2>1
  <2>4. inflight' > 0 => power' /\ active'
    BY <2>2, <2>3 DEF Gate
  <2> QED BY <2>1, <2>4 DEF Gate
<1>7. CASE retire_cmd_list
  <2>1. PICK done : Reap(done)
    BY <1>7 DEF retire_cmd_list
  <2>2. Len(cmdList') \in Nat /\ Len(cmdList') <= Len(cmdList) /\ inflight' = inflight - (Len(cmdList) - Len(cmdList'))
    BY <1>a, <2>1, ReapIs
  <2>3. UNCHANGED <<power, active, halt>> /\ ipc' = IF ipc = "queued" THEN "flush" ELSE ipc
    BY <1>7 DEF retire_cmd_list, WorkerLocks
  <2>4. inflight \in Nat
    BY <1>a DEF SchedTypes
  <2>5. Len(cmdList') <= inflight' /\ (inflight' > 0 => inflight > 0) /\ (inflight = 0 => inflight' = 0)
    BY <1>a, <2>2, <2>4 DEF Gate
  <2>6. inflight = Len(cmdList) => inflight' = Len(cmdList')
    BY <1>a, <2>2, <2>4
  <2> QED BY <2>3, <2>5, <2>6 DEF Gate
<1>8. CASE FaultOutcome
  <2>1. PICK done : Reap(done)
    BY <1>8 DEF FaultOutcome, adreno_hwsched_replay
  <2>2. Len(cmdList') \in Nat /\ Len(cmdList') <= Len(cmdList) /\ inflight' = inflight - (Len(cmdList) - Len(cmdList'))
    BY <1>a, <2>1, ReapIs
  <2>3. UNCHANGED <<power, active, halt>> /\ ipc' = IF ipc = "queued" THEN "flush" ELSE ipc
    BY <1>8 DEF FaultOutcome
  <2>4. inflight \in Nat
    BY <1>a DEF SchedTypes
  <2>5. Len(cmdList') <= inflight' /\ (inflight' > 0 => inflight > 0) /\ (inflight = 0 => inflight' = 0)
    BY <1>a, <2>2, <2>4 DEF Gate
  <2>6. inflight = Len(cmdList) => inflight' = Len(cmdList')
    BY <1>a, <2>2, <2>4
  <2> QED BY <2>3, <2>5, <2>6 DEF Gate
<1>9. CASE IdleHalt
  BY <1>9, <1>a DEF IdleHalt, ctxVars, listVars, schedVars, gpuVars, faultVars, threadVars,
    boundVars, Gate
<1>10. CASE IdleFlush
  BY <1>10, <1>a DEF IdleFlush, ctxVars, listVars, schedVars, gpuVars, faultVars, threadVars,
    boundVars, Gate
<1>11. CASE IdleGate
  <2>1. UNCHANGED <<cmdList, inflight, power, active, halt>> /\ inflight \in Nat /\ ~active
    BY <1>11, <1>a DEF IdleGate, SchedTypes, schedVars
  <2>2. ~(inflight > 0)
    BY <2>1 DEF Gate
  <2>3. inflight = 0
    BY <2>1, <2>2
  <2>4. ipc = "gate" /\ ipc' = "gated"
    BY <1>11 DEF IdleGate
  <2> QED BY <2>1, <2>3, <2>4 DEF Gate
<1>12. CASE IdleUnhalt
  BY <1>12, <1>a DEF IdleUnhalt, ctxVars, listVars, schedVars, gpuVars, faultVars, threadVars,
    boundVars, Gate
<1>13. CASE IdleDone
  BY <1>13, <1>a DEF IdleDone, ctxVars, listVars, schedVars, gpuVars, faultVars, threadVars,
    boundVars, Gate
<1> QED
  BY <1>1, <1>2, <1>3, <1>4, <1>5, <1>6, <1>7, <1>8, <1>9, <1>10, <1>11, <1>12, <1>13 DEF Step

\* The mark of a detached context.
LEMMA MarkedStep ==
    ASSUME TypeOK, Marked, Step
    PROVE  Marked'
<1>a. CtxTypes /\ RestTypes /\ GpuTypes
  BY TypesAre
<1>1. ASSUME UNCHANGED <<bits, dpc>> PROVE Marked'
  BY <1>1 DEF Marked
<1>2. ASSUME NEW p \in Threads, SubmitOutcome(p) \/ kgsl_ioctl_gpu_aux_command(p)
              \/ _wait_for_room_in_context_queue(p) \/ WaitTimeout(p) \/ QueueJob(p)
              \/ adreno_hwsched_issuecmds(p) \/ IssuedByThread(p)
      PROVE  Marked'
  BY <1>1, <1>2 DEF SubmitOutcome, kgsl_ioctl_gpu_aux_command, _wait_for_room_in_context_queue,
    WaitTimeout, QueueJob, adreno_hwsched_issuecmds, IssuedByThread, SubmitRest, Refused,
    Sleeps, Fast, FastMarker, Enqueues, Return, AddJob, ctxVars, listVars, schedVars, gpuVars,
    faultVars, threadVars, boundVars
<1>3. ASSUME NEW c \in Ctx, GpuStart(c) \/ GpuRetire(c) \/ adreno_hwsched_fault(c)
              \/ adreno_hwsched_queue_context(c)
      PROVE  Marked'
  BY <1>1, <1>3 DEF GpuStart, GpuRetire, adreno_hwsched_fault, adreno_hwsched_queue_context,
    AddJob, ctxVars, listVars, schedVars, gpuVars, faultVars, threadVars, boundVars
<1>4. CASE hwsched_handle_jobs \/ hwsched_handle_jobs_list \/ WalkOutcome \/ SendOutcome
              \/ RequeueOutcome \/ SendcmdsDone \/ IssuedByWorker \/ retire_cmd_list \/ TsRetire
              \/ IdleHalt \/ IdleFlush \/ IdleGate \/ IdleUnhalt \/ IdleDone
  BY <1>1, <1>4 DEF hwsched_handle_jobs, hwsched_handle_jobs_list, WalkOutcome, SendOutcome,
    RequeueOutcome, SendcmdsDone, IssuedByWorker, retire_cmd_list, TsRetire, IdleHalt,
    IdleFlush, IdleGate, IdleUnhalt, IdleDone, WalkRest, WalkEnds, WalkSends, WalkExpires,
    WalkSyncs, WalkRetires, WalkBinds, Stop, SendNext, Pops, RetireTimestamp, SendRest,
    SendDone, SendGone, SendFails, Submit, PutsBack, Drops, WakeSnoozing, wake_up_all,
    WorkerLocks, Reap, ctxVars, listVars, schedVars, gpuVars, faultVars, threadVars, boundVars
<1>5. CASE FaultOutcome
  <2>1. PICK cs, m : adreno_drawctxt_invalidate(cs, m)
    BY <1>5 DEF FaultOutcome
  <2>2. \A c \in Ctx : "DETACHED" \in bits'[c] <=> "DETACHED" \in bits[c]
    BY <1>a, <2>1 DEF adreno_drawctxt_invalidate, CtxTypes
  <2>3. dpc' = dpc
    BY <1>5 DEF FaultOutcome
  <2> QED BY <2>2, <2>3 DEF Marked
<1>6. ASSUME NEW c \in Ctx, kgsl_context_detach(c)
      PROVE  Marked'
  BY <1>6, <1>a DEF kgsl_context_detach, ctxVars, listVars, schedVars, gpuVars, faultVars,
    threadVars, boundVars, Marked, CtxTypes, RestTypes
<1>7. ASSUME NEW c \in Ctx, drawctxt_detach_drawobjs(c)
      PROVE  Marked'
  BY <1>7, <1>a DEF drawctxt_detach_drawobjs, ctxVars, listVars, schedVars, gpuVars, faultVars,
    threadVars, boundVars, Marked, CtxTypes, RestTypes
<1>8. ASSUME NEW c \in Ctx, gen7_hwsched_context_detach(c)
      PROVE  Marked'
  BY <1>8, <1>a DEF gen7_hwsched_context_detach, RetireTimestamp, wake_up_all, ctxVars,
    listVars, schedVars, gpuVars, faultVars, threadVars, boundVars, Marked, CtxTypes, RestTypes
<1>9. ASSUME NEW c \in Ctx, UnregisterTimeout(c)
      PROVE  Marked'
  <2>1. adreno_drawctxt_invalidate({c}, Memstore)
    BY <1>9 DEF UnregisterTimeout
  <2>2. \A x \in Ctx : "DETACHED" \in bits'[x] <=> "DETACHED" \in bits[x]
    BY <1>a, <2>1 DEF adreno_drawctxt_invalidate, CtxTypes
  <2>3. dpc' = [dpc EXCEPT ![c] = "done"] /\ dpc[c] = "drained"
    BY <1>9 DEF UnregisterTimeout
  <2> QED BY <1>a, <2>2, <2>3 DEF Marked, RestTypes
<1> QED
  BY <1>1, <1>2, <1>3, <1>4, <1>5, <1>6, <1>7, <1>8, <1>9 DEF Step

\* The queue of a context that is gone.
LEMMA DrainedStep ==
    ASSUME TypeOK, Marked, Drained, Step
    PROVE  Drained'
<1>a. CtxTypes /\ RestTypes /\ GpuTypes
  BY TypesAre
<1>1. ASSUME UNCHANGED <<queue, bits, dpc>> PROVE Drained'
  BY <1>1 DEF Drained
<1>2. ASSUME NEW p \in Threads, kgsl_ioctl_gpu_aux_command(p)
              \/ _wait_for_room_in_context_queue(p) \/ WaitTimeout(p) \/ QueueJob(p)
              \/ adreno_hwsched_issuecmds(p) \/ IssuedByThread(p)
      PROVE  Drained'
  BY <1>1, <1>2 DEF kgsl_ioctl_gpu_aux_command, _wait_for_room_in_context_queue, WaitTimeout,
    QueueJob, adreno_hwsched_issuecmds, IssuedByThread, Return, AddJob, ctxVars, listVars,
    schedVars, gpuVars, faultVars, threadVars, boundVars
<1>3. ASSUME NEW c \in Ctx, GpuStart(c) \/ GpuRetire(c) \/ adreno_hwsched_fault(c)
      PROVE  Drained'
  BY <1>1, <1>3 DEF GpuStart, GpuRetire, adreno_hwsched_fault, ctxVars, listVars, schedVars,
    gpuVars, faultVars, threadVars, boundVars
<1>4. CASE hwsched_handle_jobs \/ hwsched_handle_jobs_list \/ SendOutcome \/ SendcmdsDone
              \/ IssuedByWorker \/ retire_cmd_list \/ TsRetire \/ IdleHalt \/ IdleFlush
              \/ IdleGate \/ IdleUnhalt \/ IdleDone
  BY <1>1, <1>4 DEF hwsched_handle_jobs, hwsched_handle_jobs_list, SendOutcome, SendcmdsDone,
    IssuedByWorker, retire_cmd_list, TsRetire, IdleHalt, IdleFlush, IdleGate, IdleUnhalt,
    IdleDone, SendRest, SendDone, SendGone, SendFails, Submit, WakeSnoozing, wake_up_all,
    WorkerLocks, Reap, ctxVars, listVars, schedVars, gpuVars, faultVars, threadVars, boundVars
<1>5. ASSUME NEW p \in Threads, SubmitOutcome(p)
      PROVE  Drained'
  <2>1. UNCHANGED <<bits, dpc>>
    BY <1>5 DEF SubmitOutcome, SubmitRest, Refused, Sleeps, Fast, FastMarker, Enqueues, ctxVars
  <2>2. CASE UNCHANGED queue
    BY <1>1, <2>1, <2>2
  <2>3. ASSUME NEW os, Enqueues(p, os)
        PROVE  Drained'
    <3>1. PICK c \in Ctx : c = CtxOf(p)
      BY <1>5 DEF SubmitOutcome
    <3>2. bits[c] = {} /\ \E r : queue' = [queue EXCEPT ![c] = r]
      BY <2>3, <3>1 DEF Enqueues, Good, kgsl_context_is_bad
    <3>3. dpc[c] = "live"
      BY <3>2 DEF Marked
    <3> QED BY <1>a, <2>1, <3>2, <3>3 DEF Drained, CtxTypes
  <2> QED BY <1>5, <2>2, <2>3 DEF SubmitOutcome, Refused, Sleeps, Fast, FastMarker, ctxVars
<1>6. CASE WalkOutcome
  <2>1. UNCHANGED <<bits, dpc>> /\ disp.ctx \in Ctx
    BY <1>6 DEF WalkOutcome, WalkRest
  <2>2. CASE UNCHANGED queue
    BY <1>1, <2>1, <2>2
  <2>3. CASE queue[disp.ctx] # <<>> /\ \E r : queue' = [queue EXCEPT ![disp.ctx] = r]
    BY <1>a, <2>1, <2>3 DEF Drained, CtxTypes
  <2>4. (UNCHANGED queue) \/ (queue[disp.ctx] # <<>> /\ \E r : queue' = [queue EXCEPT ![disp.ctx] = r])
    BY <1>6 DEF WalkOutcome, WalkEnds, WalkSends, WalkExpires, WalkSyncs, WalkRetires, WalkBinds, Pops
  <2> QED BY <2>2, <2>3, <2>4
<1>7. CASE RequeueOutcome
  <2>1. UNCHANGED <<bits, dpc>> /\ disp.ctx \in Ctx
    BY <1>7 DEF RequeueOutcome
  <2>2. CASE UNCHANGED queue
    BY <1>1, <2>1, <2>2
  <2>3. CASE bits[disp.ctx] = {} /\ \E r : queue' = [queue EXCEPT ![disp.ctx] = r]
    <3>1. dpc[disp.ctx] = "live"
      BY <2>1, <2>3 DEF Marked
    <3> QED BY <1>a, <2>1, <2>3, <3>1 DEF Drained, CtxTypes
  <2>4. (UNCHANGED queue) \/ (bits[disp.ctx] = {} /\ \E r : queue' = [queue EXCEPT ![disp.ctx] = r])
    BY <1>7 DEF RequeueOutcome, PutsBack, Drops, Good, kgsl_context_is_bad
  <2> QED BY <2>2, <2>3, <2>4
<1>8. CASE FaultOutcome
  <2>1. PICK cs, m : adreno_drawctxt_invalidate(cs, m)
    BY <1>8 DEF FaultOutcome
  <2>2. dpc' = dpc
    BY <1>8 DEF FaultOutcome
  <2> QED BY <1>a, <2>1, <2>2 DEF adreno_drawctxt_invalidate, Drained, CtxTypes
<1>9. ASSUME NEW c \in Ctx, adreno_hwsched_queue_context(c)
      PROVE  Drained'
  <2>1. PICK i, r : Stated(r, queue[c], i, "ready") /\ queue' = [queue EXCEPT ![c] = r]
    BY <1>9, SignalIs
  <2>2. UNCHANGED <<bits, dpc>>
    BY <1>9 DEF adreno_hwsched_queue_context
  <2>3. queue[c] # <<>>
    BY <2>1 DEF Stated
  <2> QED BY <1>a, <2>1, <2>2, <2>3 DEF Drained, CtxTypes
<1>10. ASSUME NEW c \in Ctx, kgsl_context_detach(c)
      PROVE  Drained'
  BY <1>10, <1>a DEF kgsl_context_detach, ctxVars, listVars, schedVars, gpuVars, faultVars,
    threadVars, boundVars, Drained, CtxTypes, RestTypes
<1>11. ASSUME NEW c \in Ctx, drawctxt_detach_drawobjs(c)
      PROVE  Drained'
  BY <1>11, <1>a DEF drawctxt_detach_drawobjs, ctxVars, listVars, schedVars, gpuVars,
    faultVars, threadVars, boundVars, Drained, CtxTypes, RestTypes
<1>12. ASSUME NEW c \in Ctx, gen7_hwsched_context_detach(c)
      PROVE  Drained'
  BY <1>12, <1>a DEF gen7_hwsched_context_detach, RetireTimestamp, wake_up_all, ctxVars,
    listVars, schedVars, gpuVars, faultVars, threadVars, boundVars, Drained, CtxTypes, RestTypes
<1>13. ASSUME NEW c \in Ctx, UnregisterTimeout(c)
      PROVE  Drained'
  <2>1. adreno_drawctxt_invalidate({c}, Memstore)
    BY <1>13 DEF UnregisterTimeout
  <2>2. dpc' = [dpc EXCEPT ![c] = "done"]
    BY <1>13 DEF UnregisterTimeout
  <2> QED BY <1>a, <2>1, <2>2 DEF adreno_drawctxt_invalidate, Drained, CtxTypes, RestTypes
<1> QED
  BY <1>1, <1>2, <1>3, <1>4, <1>5, <1>6, <1>7, <1>8, <1>9, <1>10, <1>11, <1>12, <1>13 DEF Step

\* A context whose entries are all reaped is not replayed.
LEMMA NoneLeft ==
    ASSUME SchedTypes, adreno_hwsched_replay, NEW c \in Ctx, bits'[c] # {}
    PROVE  gmu'[c] = <<>>
<1>1. CASE gmu' = [x \in Ctx |-> <<>>]
  BY <1>1
<1>2. ASSUME gmu' = [x \in Ctx |->
                [i \in DOMAIN Only(cmdList', {e \in ToSet(cmdList') : e.ctx = x})
                    |-> Only(cmdList', {e \in ToSet(cmdList') : e.ctx = x})[i].obj.ts]]
      PROVE  gmu'[c] = <<>>
  <2>1. PICK done : done = {e \in ToSet(cmdList) : eop'[e.ctx] >= e.obj.ts \/ bits'[e.ctx] # {}}
    OBVIOUS
  <2>2. Reap(done)
    BY <2>1 DEF adreno_hwsched_replay
  <2>3. /\ cmdList' \in Seq(Entries)
        /\ \A k \in 1 .. Len(cmdList') :
             cmdList'[k] \notin done /\ \E i \in 1 .. Len(cmdList) : cmdList'[k] = cmdList[i]
    BY <2>2, ReapIs
  <2>4. PICK t \in Seq(Entries) : t = cmdList'
    BY <2>3
  <2>5. \A i \in 1 .. Len(cmdList) : cmdList[i] \in ToSet(cmdList)
    BY DEF ToSet, SchedTypes
  <2>6. ASSUME NEW k \in 1 .. Len(t) PROVE t[k].ctx # c
    <3>1. PICK i \in 1 .. Len(cmdList) : t[k] = cmdList[i] /\ t[k] \notin done
      BY <2>3, <2>4
    <3> QED BY <2>1, <2>5, <3>1
  <2>7. PICK S : S = {e \in ToSet(t) : e.ctx = c}
    OBVIOUS
  <2>8. Filtered(Only(t, S), t, S) /\ Only(t, S) \in Seq(Entries)
    BY OnlyKeeps
  <2>9. PICK u \in Seq(Entries) : u = Only(t, S)
    BY <2>8
  <2>10. \A k \in 1 .. Len(u) : u[k] \in S /\ \E i \in 1 .. Len(t) : u[k] = t[i]
    BY <2>8, <2>9 DEF Filtered
  <2>11. \A k \in 1 .. Len(u) : FALSE
    BY <2>6, <2>7, <2>10
  <2>12. DOMAIN u = 1 .. 0
    BY <2>11
  <2>13. gmu'[c] = [i \in DOMAIN u |-> u[i].obj.ts]
    BY <1>2, <2>4, <2>7, <2>9
  <2> QED BY <2>12, <2>13
<1> QED
  BY <1>1, <1>2 DEF adreno_hwsched_replay

\* What the GMU holds of a context that is gone.
LEMMA StoppedStep ==
    ASSUME TypeOK, Marked, Stopped, Step
    PROVE  Stopped'
<1>a. CtxTypes /\ RestTypes /\ GpuTypes
  BY TypesAre
<1>1. ASSUME UNCHANGED <<dpc, gmu, fault, work>> PROVE Stopped'
  BY <1>1 DEF Stopped
<1>2. ASSUME NEW p \in Threads, SubmitOutcome(p) \/ kgsl_ioctl_gpu_aux_command(p)
              \/ _wait_for_room_in_context_queue(p) \/ WaitTimeout(p) \/ QueueJob(p)
              \/ IssuedByThread(p)
      PROVE  Stopped'
  BY <1>1, <1>2 DEF SubmitOutcome, kgsl_ioctl_gpu_aux_command, _wait_for_room_in_context_queue,
    WaitTimeout, QueueJob, IssuedByThread, SubmitRest, Refused, Sleeps, Fast, FastMarker,
    Enqueues, Return, AddJob, ctxVars, listVars, schedVars, gpuVars, faultVars, threadVars,
    boundVars
<1>3. ASSUME NEW c \in Ctx, GpuStart(c)
      PROVE  Stopped'
  BY <1>1, <1>3 DEF GpuStart, ctxVars, listVars, schedVars, gpuVars, faultVars, threadVars,
    boundVars
<1>4. CASE hwsched_handle_jobs \/ hwsched_handle_jobs_list \/ WalkOutcome \/ RequeueOutcome
              \/ SendcmdsDone \/ IssuedByWorker \/ IdleHalt \/ IdleFlush \/ IdleGate \/ IdleDone
  BY <1>1, <1>4 DEF hwsched_handle_jobs, hwsched_handle_jobs_list, WalkOutcome, RequeueOutcome,
    SendcmdsDone, IssuedByWorker, IdleHalt, IdleFlush, IdleGate, IdleDone, WalkRest, WalkEnds,
    WalkSends, WalkExpires, WalkSyncs, WalkRetires, WalkBinds, Stop, SendNext, Pops,
    RetireTimestamp, PutsBack, Drops, WakeSnoozing, wake_up_all, ctxVars, listVars, schedVars,
    gpuVars, faultVars, threadVars, boundVars
<1>5. ASSUME NEW p \in Threads, adreno_hwsched_issuecmds(p)
      PROVE  Stopped'
  BY <1>5, <1>a DEF adreno_hwsched_issuecmds, ctxVars, listVars, schedVars, gpuVars, faultVars,
    threadVars, boundVars, Stopped
<1>6. CASE SendOutcome
  <2>1. UNCHANGED <<bits, dpc>> /\ disp.ctx \in Ctx
    BY <1>6 DEF SendOutcome, SendRest, ctxVars
  <2>2. CASE SendFails \/ SendGone(disp.ctx)
    BY <2>1, <2>2 DEF SendFails, SendGone, Stopped
  <2>3. CASE SendDone(disp.ctx, disp.obj)
    <3>1. dpc[disp.ctx] = "live"
      BY <2>1, <2>3 DEF SendDone, kgsl_context_detached, Marked
    <3>2. \A c \in Ctx : c # disp.ctx => gmu'[c] = gmu[c]
      BY <1>a, <2>1, <2>3 DEF SendDone, Submit, GpuTypes
    <3>3. UNCHANGED <<fault, work>>
      BY <2>3 DEF SendDone
    <3> QED BY <2>1, <3>1, <3>2, <3>3 DEF Stopped
  <2> QED BY <1>6, <2>2, <2>3 DEF SendOutcome
<1>7. CASE retire_cmd_list
  BY <1>7, <1>a DEF retire_cmd_list, WorkerLocks, Reap, ctxVars, listVars, schedVars, gpuVars,
    faultVars, threadVars, boundVars, Stopped
<1>8. CASE FaultOutcome
  <2>1. work' = TRUE /\ dpc' = dpc /\ adreno_hwsched_replay
    BY <1>8 DEF FaultOutcome
  <2>2. PICK cs, m : adreno_drawctxt_invalidate(cs, m)
    BY <1>8 DEF FaultOutcome
  <2>3. ASSUME NEW c \in Ctx, dpc[c] = "done" PROVE gmu'[c] = <<>>
    <3>1. bits'[c] # {}
      BY <1>a, <2>2, <2>3 DEF adreno_drawctxt_invalidate, Marked, CtxTypes
    <3>2. SchedTypes
      BY TypesAre
    <3> QED BY <2>1, <3>1, <3>2, NoneLeft
  <2> QED BY <2>1, <2>3 DEF Stopped
<1>9. CASE TsRetire
  BY <1>9 DEF TsRetire, ctxVars, listVars, schedVars, gpuVars, faultVars, threadVars,
    boundVars, Stopped
<1>10. CASE IdleUnhalt
  BY <1>10 DEF IdleUnhalt, ctxVars, listVars, schedVars, gpuVars, faultVars, threadVars,
    boundVars, Stopped
<1>11. ASSUME NEW c \in Ctx, GpuRetire(c)
      PROVE  Stopped'
  BY <1>11, <1>a DEF GpuRetire, ctxVars, listVars, schedVars, gpuVars, faultVars, threadVars,
    boundVars, Stopped, GpuTypes
<1>12. ASSUME NEW c \in Ctx, adreno_hwsched_fault(c)
      PROVE  Stopped'
  BY <1>12, <1>a DEF adreno_hwsched_fault, ctxVars, listVars, schedVars, gpuVars, faultVars,
    threadVars, boundVars, Stopped
<1>13. ASSUME NEW c \in Ctx, adreno_hwsched_queue_context(c)
      PROVE  Stopped'
  BY <1>13 DEF adreno_hwsched_queue_context, AddJob, ctxVars, listVars, schedVars, gpuVars,
    faultVars, threadVars, boundVars, Stopped
<1>14. ASSUME NEW c \in Ctx, kgsl_context_detach(c)
      PROVE  Stopped'
  BY <1>14, <1>a DEF kgsl_context_detach, ctxVars, listVars, schedVars, gpuVars, faultVars,
    threadVars, boundVars, Stopped, RestTypes
<1>15. ASSUME NEW c \in Ctx, drawctxt_detach_drawobjs(c)
      PROVE  Stopped'
  BY <1>15, <1>a DEF drawctxt_detach_drawobjs, ctxVars, listVars, schedVars, gpuVars,
    faultVars, threadVars, boundVars, Stopped, RestTypes
<1>16. ASSUME NEW c \in Ctx, gen7_hwsched_context_detach(c)
      PROVE  Stopped'
  BY <1>16, <1>a DEF gen7_hwsched_context_detach, RetireTimestamp, wake_up_all, ctxVars,
    listVars, schedVars, gpuVars, faultVars, threadVars, boundVars, Stopped, RestTypes
<1>17. ASSUME NEW c \in Ctx, UnregisterTimeout(c)
      PROVE  Stopped'
  BY <1>17, <1>a DEF UnregisterTimeout, adreno_drawctxt_invalidate, ctxVars, listVars,
    schedVars, gpuVars, faultVars, threadVars, boundVars, Stopped, RestTypes
<1> QED
  BY <1>1, <1>2, <1>3, <1>4, <1>5, <1>6, <1>7, <1>8, <1>9, <1>10, <1>11, <1>12, <1>13, <1>14,
     <1>15, <1>16, <1>17 DEF Step

-----------------------------------------------------------------------------
(***************************************************************************)
(* The invariant that holds whoever submits.                               *)
(***************************************************************************)
Base ==
    /\ TypeOK /\ Control /\ BatchesKept /\ Holder /\ QueuedCounts /\ JobLevels
    /\ WorkListed /\ NoExpired /\ Gate /\ Marked /\ Drained /\ Stopped

\* Base holds at the start ...
LEMMA BaseInit == Init => Base
<1> SUFFICES ASSUME Init PROVE Base
  OBVIOUS
<1> USE DEF Init
<1>1. NLevels \in Nat
  BY NLevelsIs
<1>2. NoDisp \in DispType
  BY Nones DEF NoDisp, DispType
<1>3. CtxTypes /\ ListTypes /\ GpuTypes /\ ThreadTypes /\ RestTypes
  <2>1. CtxTypes
    BY DEF CtxTypes
  <2>2. ListTypes
    BY DEF ListTypes
  <2>3. GpuTypes
    <3>1. <<>> \in Seq(Nat) /\ 0 \in Nat
      OBVIOUS
    <3>2. gmu \in [Ctx -> Seq(Nat)]
      BY <3>1
    <3>3. sop \in [Ctx -> Nat] /\ eop \in [Ctx -> Nat]
      BY <3>1
    <3>4. irq \in BOOLEAN
      OBVIOUS
    <3> QED BY <3>2, <3>3, <3>4 DEF GpuTypes
  <2>4. ThreadTypes
    BY DEF ThreadTypes
  <2>5. RestTypes
    BY DEF RestTypes
  <2> QED BY <2>1, <2>2, <2>3, <2>4, <2>5
<1>4. DispTypes
  BY <1>2 DEF DispTypes
<1>5. SchedTypes
  <2>1. cmdList \in Seq(Entries) /\ inflight \in Nat
    OBVIOUS
  <2>2. power \in BOOLEAN /\ active \in BOOLEAN /\ bigObj = None
    OBVIOUS
  <2> QED BY <2>1, <2>2 DEF SchedTypes
<1>6. TypeOK
  BY <1>3, <1>4, <1>5, TypesAre
<1>7. Control
  BY <1>1 DEF Control, ControlOf, NoDisp
<1>8. BatchesKept /\ Holder
  <2>1. \A p \in Threads : pc[p] = "idle"
    OBVIOUS
  <2>2. \A p \in Threads : mutex # p
    BY Nones, HwschedAssumption
  <2> QED BY <2>1, <2>2 DEF BatchesKept, Holder
<1>9. QueuedCounts /\ JobLevels /\ WorkListed
  BY DEF QueuedCounts, JobLevels, WorkListed, NoDisp
<1>10. NoExpired /\ Gate
  BY DEF NoExpired, Gate, NoDisp
<1>11. Marked /\ Drained /\ Stopped
  BY DEF Marked, Drained, Stopped
<1> QED
  BY <1>6, <1>7, <1>8, <1>9, <1>10, <1>11 DEF Base

\* ... every step keeps it ...
LEMMA BaseStep ==
    ASSUME Base, Step
    PROVE  Base'
<1>1. /\ TypeOK /\ Control /\ BatchesKept /\ Holder /\ QueuedCounts /\ JobLevels
      /\ WorkListed /\ NoExpired /\ Gate /\ Marked /\ Drained /\ Stopped
  BY DEF Base
<1>2. /\ CtxTypes' /\ ListTypes' /\ DispTypes' /\ SchedTypes'
      /\ GpuTypes' /\ ThreadTypes' /\ RestTypes'
  BY <1>1, CtxTypesStep, ListTypesStep, DispTypesStep, SchedTypesStep, GpuTypesStep,
     ThreadTypesStep, RestTypesStep
<1>3. TypeOK'
  BY <1>2, TypesAre, PTL
<1>4. Control' /\ BatchesKept' /\ Holder' /\ QueuedCounts'
  BY <1>1, ControlStep, BatchesStep, HolderStep, QueuedCountsStep
<1>5. JobLevels' /\ WorkListed' /\ NoExpired' /\ Gate'
  BY <1>1, JobLevelsStep, WorkListedStep, NoExpiredStep, GateStep
<1>6. Marked' /\ Drained' /\ Stopped'
  BY <1>1, MarkedStep, DrainedStep, StoppedStep
<1> QED
  BY <1>3, <1>4, <1>5, <1>6 DEF Base

\* ... and so does a step that changes nothing.
LEMMA BaseStutter ==
    ASSUME Base, UNCHANGED vars
    PROVE  Base'
<1> USE DEF vars, ctxVars, listVars, schedVars, gpuVars, faultVars, threadVars, boundVars
<1>1. TypeOK'
  <2>1. /\ CtxTypes /\ ListTypes /\ DispTypes /\ SchedTypes
        /\ GpuTypes /\ ThreadTypes /\ RestTypes
    BY TypesAre DEF Base
  <2>2. CtxTypes' /\ ListTypes' /\ DispTypes'
    BY <2>1 DEF CtxTypes, ListTypes, DispTypes
  <2>3. SchedTypes' /\ GpuTypes'
    BY <2>1 DEF SchedTypes, GpuTypes
  <2>4. ThreadTypes' /\ RestTypes'
    BY <2>1 DEF ThreadTypes, RestTypes
  <2> QED BY <2>2, <2>3, <2>4, TypesAre, PTL
<1>2. Control' /\ BatchesKept' /\ Holder' /\ QueuedCounts'
  BY DEF Base, Control, BatchesKept, Holder, QueuedCounts
<1>3. JobLevels'
  BY DEF Base, JobLevels
<1>4. WorkListed'
  BY DEF Base, WorkListed, Listed
<1>5. NoExpired' /\ Gate'
  BY DEF Base, NoExpired, Gate
<1>6. Marked' /\ Drained' /\ Stopped'
  BY DEF Base, Marked, Drained, Stopped
<1> QED
  BY <1>1, <1>2, <1>3, <1>4, <1>5, <1>6 DEF Base

\* Base is an invariant of the scheduler.
THEOREM HwschedBase == Spec => []Base
<1>1. Init => Base
  BY BaseInit
<1>2. Base /\ [Next]_vars => Base'
  <2> SUFFICES ASSUME Base, [Next]_vars PROVE Base'
    OBVIOUS
  <2>1. CASE Next
    <3>1. Step
      BY <2>1, NextIsStep DEF Base
    <3> QED BY <3>1, BaseStep
  <2>2. CASE UNCHANGED vars
    BY <2>2, BaseStutter
  <2> QED BY <2>1, <2>2
<1> QED
  BY <1>1, <1>2, PTL DEF Spec

\* The types of the hardware scheduler.
THEOREM HwschedTypes == Spec => []TypeOK
<1>1. Base => TypeOK
  BY DEF Base
<1> QED
  BY <1>1, HwschedBase, PTL

\* A queue that detach or a fault emptied stays empty, and a context that is
\* detached has nothing in the GMU or a reset of the GPU is on its way.
THEOREM HwschedDetachedIsQuiet == Spec => []DetachedIsQuiet
<1>1. Base => DetachedIsQuiet
  BY DEF Base, Drained, Stopped, DetachedIsQuiet, kgsl_context_invalid
<1> QED
  BY <1>1, HwschedBase, PTL

\* No context with something in its queue is lost by the lists of jobs.
THEOREM HwschedJobListed == Spec => []JobListed
<1>1. Base => JobListed
  <2> SUFFICES ASSUME Base, NEW c \in Ctx, Good(c), queue[c] # <<>>
               PROVE  \/ c \in Range(jobs[Level[c]]) \cup Range(requeue[Level[c]])
                      \/ c \in Range(disp.list)
                      \/ disp.ctx = c
                      \/ \E p \in Threads : CtxOf(p) = c /\ pc[p] = "queued"
    BY DEF JobListed
  <2>1. Listed(c)
    BY DEF Base, WorkListed, Good, kgsl_context_is_bad
  <2>2. ASSUME NEW s \in Seq(Ctx), In(c, s) PROVE c \in Range(s)
    BY <2>2 DEF In, Range
  <2>3. ListTypes /\ DispTypes
    BY TypesAre DEF Base
  <2>4. Level[c] \in Levels
    BY HwschedAssumption DEF Levels
  <2>5. jobs[Level[c]] \in Seq(Ctx) /\ requeue[Level[c]] \in Seq(Ctx) /\ disp.list \in Seq(Ctx)
    BY <2>3, <2>4 DEF ListTypes, DispTypes, DispType
  <2> QED BY <2>1, <2>2, <2>5 DEF Listed, InHand
<1> QED
  BY <1>1, HwschedBase, PTL

\* hwsched->inflight counts cmd_list when hardware fences are off (with them it
\* is at least its length); while something is in flight the scheduler holds an
\* active count and the idle gate is shut, and when the gate has let
\* adreno_hwsched_idle pass nothing is in flight until it returns.
InflightCounts ==
    /\ Len(cmdList) <= inflight
    /\ TRUE \notin HwFence => inflight = Len(cmdList)
    /\ inflight > 0 => power /\ active
    /\ ipc \in {"gated", "idle"} => inflight = 0

\* InflightCounts, for the code of hwsched_sendcmd, the retirement and the idle gate.
THEOREM HwschedInflight == Spec => []InflightCounts
<1>1. Base => InflightCounts
  BY DEF Base, Gate, InflightCounts
<1> QED
  BY <1>1, HwschedBase, PTL

-----------------------------------------------------------------------------
(***************************************************************************)
(* Room in the queues, when each context has one thread that submits.      *)
(***************************************************************************)

\* The slots of context c that are taken or kept for the object the dispatcher
\* has in its hands.
Slots(c) == queued[c] + IF disp.ctx = c /\ disp.obj # None THEN 1 ELSE 0

SlotsKept == \A c \in Ctx : Slots(c) <= DrawqueueSize - 1

\* A thread that has been told that there is room finds it.
Roomy ==
    \A p \in Threads : pc[p] = "woken" =>
        Slots(CtxOf(p)) + Len(batch[p]) <= DrawqueueSize - 1

\* The counter counts the queue of a context that is not bad.
Counted == \A c \in Ctx : bits[c] = {} => queued[c] = Len(queue[c])

\* The taken slots are a number, at most one more than the counter.
LEMMA SlotsAre ==
    ASSUME TypeOK, NEW c \in Ctx
    PROVE  /\ Slots(c) \in Nat /\ queued[c] \in Nat
           /\ queued[c] <= Slots(c) /\ Slots(c) <= queued[c] + 1
<1>1. queued[c] \in Nat
  BY TypesAre DEF CtxTypes
<1> QED
  BY <1>1 DEF Slots

\* Only a thread that queues objects takes slots.
NoMore == \A c \in Ctx : Slots(c)' <= Slots(c)
Queues == \E p \in Threads : SubmitOutcome(p) /\ \E os : Offers(p, os) /\ Enqueues(p, os)

\* The slots that are taken.
LEMMA SlotsStep ==
    ASSUME TypeOK, Control, QueuedCounts, Step
    PROVE  NoMore \/ Queues
<1>a. CtxTypes /\ \A c \in Ctx : queued[c] \in Nat
  BY TypesAre DEF CtxTypes
<1>b. ASSUME queued' = queued, disp'.obj = None PROVE NoMore
  BY <1>a, <1>b DEF NoMore, Slots
<1>c. ASSUME queued' = queued, disp'.ctx = disp.ctx, disp'.obj = disp.obj PROVE NoMore
  BY <1>a, <1>c DEF NoMore, Slots
<1>1. ASSUME UNCHANGED <<queued, disp>> PROVE NoMore \/ Queues
  BY <1>1, <1>a DEF NoMore, Slots
<1>2. ASSUME NEW p \in Threads, kgsl_ioctl_gpu_aux_command(p)
              \/ _wait_for_room_in_context_queue(p) \/ WaitTimeout(p) \/ QueueJob(p)
      PROVE  NoMore \/ Queues
  BY <1>1, <1>2 DEF kgsl_ioctl_gpu_aux_command, _wait_for_room_in_context_queue, WaitTimeout,
    QueueJob, Return, AddJob, ctxVars, listVars, schedVars, gpuVars, faultVars, threadVars,
    boundVars
<1>3. ASSUME NEW c \in Ctx, GpuStart(c) \/ GpuRetire(c) \/ adreno_hwsched_fault(c)
              \/ adreno_hwsched_queue_context(c) \/ kgsl_context_detach(c)
              \/ drawctxt_detach_drawobjs(c) \/ gen7_hwsched_context_detach(c)
              \/ UnregisterTimeout(c)
      PROVE  NoMore \/ Queues
  BY <1>1, <1>3 DEF GpuStart, GpuRetire, adreno_hwsched_fault, adreno_hwsched_queue_context,
    kgsl_context_detach, drawctxt_detach_drawobjs, gen7_hwsched_context_detach,
    UnregisterTimeout, AddJob, RetireTimestamp, wake_up_all, adreno_drawctxt_invalidate,
    ctxVars, listVars, schedVars, gpuVars, faultVars, threadVars, boundVars
<1>4. CASE TsRetire \/ IdleHalt \/ IdleFlush \/ IdleGate \/ IdleUnhalt \/ IdleDone
  BY <1>1, <1>4 DEF TsRetire, IdleHalt, IdleFlush, IdleGate, IdleUnhalt, IdleDone, ctxVars,
    listVars, schedVars, gpuVars, faultVars, threadVars, boundVars
<1>5. ASSUME NEW p \in Threads, SubmitOutcome(p)
      PROVE  NoMore \/ Queues
  <2>1. (UNCHANGED <<queued, disp>>) \/ \E os : Offers(p, os) /\ Enqueues(p, os)
    BY <1>5 DEF SubmitOutcome, SubmitRest, Refused, Sleeps, Fast, FastMarker, ctxVars
  <2> QED BY <1>1, <1>5, <2>1 DEF Queues
<1>6. ASSUME NEW p \in Threads, adreno_hwsched_issuecmds(p)
      PROVE  NoMore \/ Queues
  <2>1. queued' = queued /\ (disp' = disp \/ disp'.obj = None)
    BY <1>6 DEF adreno_hwsched_issuecmds, NoDisp, ctxVars
  <2> QED BY <1>b, <1>c, <2>1
<1>7. ASSUME NEW p \in Threads, IssuedByThread(p)
      PROVE  NoMore \/ Queues
  <2>1. queued' = queued /\ disp'.obj = None
    BY <1>7 DEF IssuedByThread, NoDisp, ctxVars
  <2> QED BY <1>b, <2>1
<1>8. CASE hwsched_handle_jobs
  <2>1. disp'.obj = None /\ queued' = queued
    BY <1>8, JobArrives DEF AtRest, hwsched_handle_jobs, ctxVars
  <2> QED BY <1>b, <2>1
<1>9. CASE hwsched_handle_jobs_list
  <2>1. disp'.obj = None /\ queued' = queued
    BY <1>9, JobArrives DEF AtRest, hwsched_handle_jobs_list, ctxVars
  <2> QED BY <1>b, <2>1
<1>10. CASE WalkOutcome
  <2>1. disp.ctx \in Ctx /\ disp.obj = None /\ disp'.ctx = disp.ctx
    BY <1>10, WalkDisp DEF WalkOutcome, Control, ControlOf, SameJob
  <2>2. CASE queued' = queued /\ disp'.obj = disp.obj
    BY <1>c, <2>1, <2>2
  <2>3. CASE queued' = [queued EXCEPT ![disp.ctx] = @ - 1]
    <3>1. \A c \in Ctx : c # disp.ctx => queued'[c] = queued[c]
      BY <1>a, <2>3 DEF CtxTypes
    <3>2. \A c \in Ctx : c # disp.ctx => Slots(c)' = Slots(c)
      BY <2>1, <3>1 DEF Slots
    <3>3. PICK c \in Ctx : c = disp.ctx
      BY <2>1
    <3>4. queued'[c] = queued[c] - 1 /\ queued[c] \in Nat
      BY <1>a, <2>3, <3>3 DEF CtxTypes
    <3>5. Slots(c)' <= Slots(c)
      BY <2>1, <3>3, <3>4 DEF Slots
    <3>6. \A x \in Ctx : Slots(x) \in Nat
      BY SlotsAre
    <3> QED BY <3>2, <3>3, <3>5, <3>6 DEF NoMore
  <2>4. (queued' = queued /\ disp'.obj = disp.obj) \/ queued' = [queued EXCEPT ![disp.ctx] = @ - 1]
    <3>1. disp \in DispType
      BY TypesAre DEF DispTypes
    <3> QED BY <1>10, <3>1 DEF WalkOutcome, WalkEnds, WalkSends, WalkExpires, WalkSyncs, WalkRetires,
              WalkBinds, Pops, Stop, DispType
  <2> QED BY <2>2, <2>3, <2>4
<1>11. CASE SendOutcome
  <2>1. queued' = queued /\ disp'.ctx = disp.ctx /\ (disp'.obj = None \/ disp'.obj = disp.obj)
    BY <1>11, SendDisp DEF SendOutcome, SendRest, SameJob, ctxVars
  <2> QED BY <1>b, <1>c, <2>1
<1>12. CASE RequeueOutcome
  <2>1. disp.ctx \in Ctx /\ disp.obj \in Objects /\ disp'.ctx = disp.ctx /\ disp'.obj = None
    BY <1>12, RequeueDisp DEF RequeueOutcome, SameJob
  <2>2. CASE Drops(disp.ctx)
    BY <1>b, <2>1, <2>2 DEF Drops
  <2>3. CASE PutsBack(disp.ctx)
    <3>1. queued' = [queued EXCEPT ![disp.ctx] = @ + 1]
      BY <2>3 DEF PutsBack
    <3>2. \A c \in Ctx : c # disp.ctx => queued'[c] = queued[c]
      BY <1>a, <3>1 DEF CtxTypes
    <3>3. \A c \in Ctx : c # disp.ctx => Slots(c)' = Slots(c)
      BY <2>1, <3>2 DEF Slots
    <3>4. PICK c \in Ctx : c = disp.ctx
      BY <2>1
    <3>5. queued'[c] = queued[c] + 1 /\ queued[c] \in Nat
      BY <1>a, <3>1, <3>4 DEF CtxTypes
    <3>6. Slots(c)' <= Slots(c)
      BY <2>1, <3>4, <3>5, Nones DEF Slots
    <3>7. \A x \in Ctx : Slots(x) \in Nat
      BY SlotsAre
    <3> QED BY <3>3, <3>4, <3>6, <3>7 DEF NoMore
  <2> QED BY <1>12, <2>2, <2>3 DEF RequeueOutcome
<1>13. CASE SendcmdsDone
  <2>1. disp'.obj = None /\ queued' = queued
    BY <1>13, JobDone DEF JobEnds, SendcmdsDone, ctxVars
  <2> QED BY <1>b, <2>1
<1>14. CASE IssuedByWorker
  <2>1. queued' = queued /\ disp'.obj = None
    BY <1>14 DEF IssuedByWorker, NoDisp, ctxVars
  <2> QED BY <1>b, <2>1
<1>15. CASE retire_cmd_list
  <2>1. queued' = queued /\ disp'.obj = None
    BY <1>15 DEF retire_cmd_list, NoDisp, ctxVars
  <2> QED BY <1>b, <2>1
<1>16. CASE FaultOutcome
  <2>1. UNCHANGED <<queued, disp>>
    BY <1>16 DEF FaultOutcome, adreno_drawctxt_invalidate
  <2> QED BY <1>1, <2>1
<1> QED
  BY <1>1, <1>2, <1>3, <1>4, <1>5, <1>6, <1>7, <1>8, <1>9, <1>10, <1>11, <1>12, <1>13, <1>14,
     <1>15, <1>16 DEF Step

\* The threads that find room.
Wakes ==
    \A p \in Threads : pc'[p] = "woken" =>
        /\ batch'[p] = batch[p]
        /\ pc[p] = "woken" \/ _check_context_queue(CtxOf(p), Len(batch[p]))

\* A thread that is told of room has been told so by the test.
LEMMA WakesStep ==
    ASSUME TypeOK, Step
    PROVE  Wakes
<1>a. ThreadTypes
  BY TypesAre
<1>1. ASSUME UNCHANGED <<pc, batch>> PROVE Wakes
  BY <1>1 DEF Wakes
<1>2. ASSUME NEW c \in Ctx, GpuStart(c) \/ GpuRetire(c) \/ adreno_hwsched_fault(c)
              \/ adreno_hwsched_queue_context(c) \/ kgsl_context_detach(c)
              \/ drawctxt_detach_drawobjs(c) \/ gen7_hwsched_context_detach(c)
              \/ UnregisterTimeout(c)
      PROVE  Wakes
  BY <1>1, <1>2 DEF GpuStart, GpuRetire, adreno_hwsched_fault, adreno_hwsched_queue_context,
    kgsl_context_detach, drawctxt_detach_drawobjs, gen7_hwsched_context_detach,
    UnregisterTimeout, AddJob, RetireTimestamp, wake_up_all, adreno_drawctxt_invalidate,
    ctxVars, listVars, schedVars, gpuVars, faultVars, threadVars, boundVars
<1>3. CASE hwsched_handle_jobs \/ hwsched_handle_jobs_list \/ WalkOutcome \/ SendOutcome
              \/ RequeueOutcome \/ SendcmdsDone \/ IssuedByWorker \/ retire_cmd_list
              \/ FaultOutcome \/ TsRetire \/ IdleHalt \/ IdleFlush \/ IdleGate \/ IdleUnhalt
              \/ IdleDone
  BY <1>1, <1>3 DEF hwsched_handle_jobs, hwsched_handle_jobs_list, WalkOutcome, SendOutcome,
    RequeueOutcome, SendcmdsDone, IssuedByWorker, retire_cmd_list, FaultOutcome, TsRetire,
    IdleHalt, IdleFlush, IdleGate, IdleUnhalt, IdleDone, WalkRest, WalkEnds, WalkSends,
    WalkExpires, WalkSyncs, WalkRetires, WalkBinds, Stop, SendNext, Pops, RetireTimestamp,
    SendRest, SendDone, SendGone, SendFails, Submit, PutsBack, Drops, WakeSnoozing,
    wake_up_all, WorkerLocks, Reap, adreno_hwsched_replay, adreno_drawctxt_invalidate, ctxVars,
    listVars, schedVars, gpuVars, faultVars, threadVars, boundVars
<1>4. ASSUME NEW p \in Threads, SubmitOutcome(p)
      PROVE  Wakes
  <2>1. pc'[p] # "woken" /\ \A q \in Threads : q # p => pc'[q] = pc[q] /\ batch'[q] = batch[q]
    BY <1>4, <1>a DEF SubmitOutcome, Refused, Sleeps, Fast, FastMarker, Enqueues, Return, ThreadTypes
  <2> QED BY <2>1 DEF Wakes
<1>5. ASSUME NEW p \in Threads, kgsl_ioctl_gpu_aux_command(p)
      PROVE  Wakes
  <2>1. pc'[p] # "woken" /\ \A q \in Threads : q # p => pc'[q] = pc[q] /\ batch'[q] = batch[q]
    BY <1>5, <1>a DEF kgsl_ioctl_gpu_aux_command, ThreadTypes
  <2> QED BY <2>1 DEF Wakes
<1>6. ASSUME NEW p \in Threads, _wait_for_room_in_context_queue(p)
      PROVE  Wakes
  BY <1>6, <1>a DEF _wait_for_room_in_context_queue, ctxVars, listVars, schedVars, gpuVars,
    faultVars, threadVars, boundVars, Wakes, ThreadTypes
<1>7. ASSUME NEW p \in Threads, WaitTimeout(p)
      PROVE  Wakes
  BY <1>7, <1>a DEF WaitTimeout, Return, ctxVars, listVars, schedVars, gpuVars, faultVars,
    threadVars, boundVars, Wakes, ThreadTypes
<1>8. ASSUME NEW p \in Threads, QueueJob(p)
      PROVE  Wakes
  BY <1>8, <1>a DEF QueueJob, AddJob, ctxVars, listVars, schedVars, gpuVars, faultVars,
    threadVars, boundVars, Wakes, ThreadTypes
<1>9. ASSUME NEW p \in Threads, adreno_hwsched_issuecmds(p)
      PROVE  Wakes
  BY <1>9, <1>a DEF adreno_hwsched_issuecmds, ctxVars, listVars, schedVars, gpuVars, faultVars,
    threadVars, boundVars, Wakes, ThreadTypes
<1>10. ASSUME NEW p \in Threads, IssuedByThread(p)
      PROVE  Wakes
  BY <1>10, <1>a DEF IssuedByThread, Return, ctxVars, listVars, schedVars, gpuVars, faultVars,
    threadVars, boundVars, Wakes, ThreadTypes
<1> QED
  BY <1>1, <1>2, <1>3, <1>4, <1>5, <1>6, <1>7, <1>8, <1>9, <1>10 DEF Step

\* What a thread that queues objects takes.
LEMMA QueuesTakes ==
    ASSUME TypeOK, SlotsKept, Roomy, NEW p \in Threads, SubmitOutcome(p), NEW os,
           Offers(p, os), Enqueues(p, os)
    PROVE  /\ Slots(CtxOf(p)) + Len(os) <= DrawqueueSize - 1 /\ Len(os) \in Nat
           /\ \A c \in Ctx : Slots(c)' = IF c = CtxOf(p) THEN Slots(c) + Len(os) ELSE Slots(c)
           /\ pc'[p] = "queued"
<1>1. PICK c \in Ctx : c = CtxOf(p)
  BY DEF SubmitOutcome
<1>2. Len(os) \in Nat
  BY DEF Offers
<1>3. disp' = disp /\ queued' = [queued EXCEPT ![c] = @ + Len(os)]
  BY <1>1 DEF SubmitOutcome, SubmitRest, Enqueues
<1>4. \A x \in Ctx : queued'[x] = IF x = c THEN queued[x] + Len(os) ELSE queued[x]
  BY <1>3, TypesAre DEF CtxTypes
<1>5. \A x \in Ctx : Slots(x)' = IF x = c THEN Slots(x) + Len(os) ELSE Slots(x)
  <2> SUFFICES ASSUME NEW x \in Ctx
               PROVE  Slots(x)' = IF x = c THEN Slots(x) + Len(os) ELSE Slots(x)
    OBVIOUS
  <2>1. queued[x] \in Nat
    BY SlotsAre
  <2> QED BY <1>2, <1>3, <1>4, <2>1 DEF Slots
<1>6. Slots(c) + Len(os) <= DrawqueueSize - 1
  <2>1. /\ Slots(c) \in Nat /\ queued[c] \in Nat /\ Slots(c) <= queued[c] + 1
        /\ DrawqueueSize \in Nat
    BY SlotsAre, Nones
  <2>2. CASE pc[p] = "woken"
    BY <1>1, <2>2 DEF Offers, Roomy
  <2>3. CASE queued[c] + Len(os) <= DrawqueueSize - 2
    BY <1>2, <2>1, <2>3
  <2> QED BY <1>1, <2>2, <2>3 DEF Enqueues
<1>7. pc'[p] = "queued"
  BY TypesAre DEF Enqueues, ThreadTypes
<1> QED
  BY <1>1, <1>2, <1>5, <1>6, <1>7

\* No step takes the last slot.
LEMMA SlotsKeptStep ==
    ASSUME TypeOK, Control, QueuedCounts, SlotsKept, Roomy, Step
    PROVE  SlotsKept'
<1>1. CASE NoMore
  <2> SUFFICES ASSUME NEW c \in Ctx PROVE Slots(c)' <= DrawqueueSize - 1
    BY DEF SlotsKept
  <2>1. Slots(c)' <= Slots(c) /\ Slots(c) <= DrawqueueSize - 1
    BY <1>1 DEF NoMore, SlotsKept
  <2>2. Slots(c) \in Nat /\ queued'[c] \in Nat /\ DrawqueueSize \in Nat
    BY SlotsAre, CtxTypesStep, Nones DEF CtxTypes
  <2>3. Slots(c)' \in Nat
    BY <2>2 DEF Slots
  <2> QED BY <2>1, <2>2, <2>3
<1>2. CASE Queues
  <2>1. PICK p, os : p \in Threads /\ SubmitOutcome(p) /\ Offers(p, os) /\ Enqueues(p, os)
    BY <1>2 DEF Queues
  <2> QED BY <2>1, QueuesTakes DEF SlotsKept
<1> QED
  BY <1>1, <1>2, SlotsStep

\* No step takes the room a woken thread has been told of.
LEMMA RoomyStep ==
    ASSUME Submitters = 1, TypeOK, Control, QueuedCounts, SlotsKept, Roomy, Step
    PROVE  Roomy'
<1> SUFFICES ASSUME NEW p \in Threads, pc'[p] = "woken"
             PROVE  Slots(CtxOf(p))' + Len(batch'[p]) <= DrawqueueSize - 1
  BY DEF Roomy, CtxOf
<1>1. /\ batch'[p] = batch[p]
      /\ pc[p] = "woken" \/ _check_context_queue(CtxOf(p), Len(batch[p]))
  BY WakesStep DEF Wakes
<1>2. PICK c \in Ctx : c = CtxOf(p)
  BY DEF CtxOf, Threads
<1>3. PICK n \in Nat : n = Len(batch[p])
  BY TypesAre DEF ThreadTypes
<1>4. /\ Slots(c) \in Nat /\ queued[c] \in Nat /\ Slots(c) <= queued[c] + 1
      /\ DrawqueueSize \in Nat
  BY SlotsAre, Nones
<1>5. Slots(c) + n <= DrawqueueSize - 1
  <2>1. CASE pc[p] = "woken"
    BY <1>2, <1>3, <2>1 DEF Roomy
  <2>2. CASE _check_context_queue(CtxOf(p), Len(batch[p]))
    <3>1. queued[c] + n < DrawqueueSize - 1
      BY <1>2, <1>3, <2>2 DEF _check_context_queue, _context_drawqueue_size
    <3> QED BY <1>3, <1>4, <3>1
  <2> QED BY <1>1, <2>1, <2>2
<1>6. Slots(c)' <= Slots(c)
  <2>1. CASE NoMore
    BY <2>1 DEF NoMore
  <2>2. CASE Queues
    <3>1. PICK q, os : q \in Threads /\ SubmitOutcome(q) /\ Offers(q, os) /\ Enqueues(q, os)
      BY <2>2 DEF Queues
    <3>2. pc'[q] = "queued"
      BY <3>1, QueuesTakes
    <3>3. CtxOf(q) # c
      <4>1. p # q
        BY <3>2
      <4>2. p = <<p[1], 1>> /\ q = <<q[1], 1>>
        BY <3>1 DEF Threads
      <4> QED BY <1>2, <4>1, <4>2 DEF CtxOf
    <3>4. Slots(c)' = Slots(c)
      BY <3>1, <3>3, QueuesTakes
    <3> QED BY <1>4, <3>4
  <2> QED BY <2>1, <2>2, SlotsStep
<1>7. Slots(c)' \in Nat
  <2>1. queued'[c] \in Nat
    BY CtxTypesStep DEF CtxTypes
  <2> QED BY <2>1 DEF Slots
<1>8. Slots(CtxOf(p))' = Slots(c)'
  BY <1>2 DEF CtxOf
<1> QED
  BY <1>1, <1>3, <1>4, <1>5, <1>6, <1>7, <1>8

\* The counter of a queue counts it.
LEMMA CountedStep ==
    ASSUME TypeOK, Control, QueuedCounts, Marked, SlotsKept, Roomy, Counted, Step
    PROVE  Counted'
<1>a. CtxTypes
  BY TypesAre
<1>1. ASSUME UNCHANGED <<queue, queued, bits>> PROVE Counted'
  BY <1>1 DEF Counted
<1>2. ASSUME NEW p \in Threads, kgsl_ioctl_gpu_aux_command(p)
              \/ _wait_for_room_in_context_queue(p) \/ WaitTimeout(p) \/ QueueJob(p)
              \/ adreno_hwsched_issuecmds(p) \/ IssuedByThread(p)
      PROVE  Counted'
  BY <1>1, <1>2 DEF kgsl_ioctl_gpu_aux_command, _wait_for_room_in_context_queue, WaitTimeout,
    QueueJob, adreno_hwsched_issuecmds, IssuedByThread, Return, AddJob, ctxVars, listVars,
    schedVars, gpuVars, faultVars, threadVars, boundVars
<1>3. ASSUME NEW c \in Ctx, GpuStart(c) \/ GpuRetire(c) \/ adreno_hwsched_fault(c)
              \/ gen7_hwsched_context_detach(c)
      PROVE  Counted'
  BY <1>1, <1>3 DEF GpuStart, GpuRetire, adreno_hwsched_fault, gen7_hwsched_context_detach,
    RetireTimestamp, wake_up_all, ctxVars, listVars, schedVars, gpuVars, faultVars, threadVars,
    boundVars
<1>4. CASE hwsched_handle_jobs \/ hwsched_handle_jobs_list \/ SendOutcome \/ SendcmdsDone
              \/ IssuedByWorker \/ retire_cmd_list \/ TsRetire \/ IdleHalt \/ IdleFlush
              \/ IdleGate \/ IdleUnhalt \/ IdleDone
  BY <1>1, <1>4 DEF hwsched_handle_jobs, hwsched_handle_jobs_list, SendOutcome, SendcmdsDone,
    IssuedByWorker, retire_cmd_list, TsRetire, IdleHalt, IdleFlush, IdleGate, IdleUnhalt,
    IdleDone, SendRest, SendDone, SendGone, SendFails, Submit, WakeSnoozing, wake_up_all,
    WorkerLocks, Reap, ctxVars, listVars, schedVars, gpuVars, faultVars, threadVars, boundVars
<1>5. ASSUME NEW p \in Threads, SubmitOutcome(p)
      PROVE  Counted'
  <2>1. CASE UNCHANGED <<queue, queued, bits>>
    BY <1>1, <2>1
  <2>2. ASSUME NEW os, Offers(p, os), Enqueues(p, os)
        PROVE  Counted'
    <3>1. PICK c \in Ctx : c = CtxOf(p)
      BY <1>5 DEF SubmitOutcome
    <3>2. bits[c] = {} /\ UNCHANGED bits /\ queued' = [queued EXCEPT ![c] = @ + Len(os)]
      BY <2>2, <3>1 DEF Enqueues, Good, kgsl_context_is_bad
    <3>3. PICK r, d : Tailed(c, os, r, d) /\ queue' = [queue EXCEPT ![c] = r]
      BY <2>2, <3>1 DEF Enqueues
    <3>4. Slots(c) + Len(os) <= DrawqueueSize - 1 /\ Len(os) \in Nat
      BY <1>5, <2>2, <3>1, QueuesTakes
    <3>5. /\ Slots(c) \in Nat /\ queued[c] \in Nat /\ queued[c] <= Slots(c)
          /\ DrawqueueSize \in Nat /\ DrawqueueSize > 2
      BY SlotsAre, Nones
    <3>6. queued[c] = Len(queue[c])
      BY <3>2 DEF Counted
    <3>7. Len(queue[c]) + Len(os) < DrawqueueSize
      BY <3>4, <3>5, <3>6
    <3>8. Len(r) = Len(queue[c]) + Len(os) - d /\ d = 0
      BY <3>3, <3>7 DEF Tailed
    <3>9. Len(r) = queued[c] + Len(os)
      BY <3>4, <3>5, <3>6, <3>8
    <3> QED BY <1>a, <3>2, <3>3, <3>9 DEF Counted, CtxTypes
  <2> QED BY <1>5, <2>1, <2>2 DEF SubmitOutcome, Refused, Sleeps, Fast, FastMarker, ctxVars
<1>6. CASE WalkOutcome
  <2>1. UNCHANGED bits /\ disp.ctx \in Ctx
    BY <1>6 DEF WalkOutcome, WalkRest
  <2>2. ASSUME NEW x, Pops(disp.ctx, x)
        PROVE  Counted'
    <3>1. PICK r \in Seq(Objects) : Len(r) = Len(queue[disp.ctx]) - 1 /\ queue' = [queue EXCEPT ![disp.ctx] = r]
      BY <2>2 DEF Pops
    <3>2. queued' = [queued EXCEPT ![disp.ctx] = @ - 1]
      BY <2>2 DEF Pops
    <3> QED BY <1>a, <2>1, <3>1, <3>2 DEF Counted, CtxTypes
  <2>3. CASE WalkEnds(disp.ctx)
    BY <1>1, <2>1, <2>3 DEF WalkEnds
  <2>4. CASE WalkBinds(disp.ctx)
    BY <1>a, <2>1, <2>4 DEF WalkBinds, Stated, CtxTypes, Counted
  <2> QED BY <1>6, <2>2, <2>3, <2>4
          DEF WalkOutcome, WalkSends, WalkExpires, WalkSyncs, WalkRetires
<1>7. CASE RequeueOutcome
  <2>1. disp.ctx \in Ctx /\ disp.obj \in Objects /\ UNCHANGED bits
    BY <1>7 DEF RequeueOutcome
  <2>2. CASE Drops(disp.ctx)
    BY <1>1, <2>1, <2>2 DEF Drops
  <2>3. CASE PutsBack(disp.ctx)
    <3>1. PICK r : Headed(disp.ctx, disp.obj, r) /\ queue' = [queue EXCEPT ![disp.ctx] = r]
      BY <2>3 DEF PutsBack
    <3>2. queued' = [queued EXCEPT ![disp.ctx] = @ + 1] /\ bits[disp.ctx] = {}
      BY <2>3 DEF PutsBack, Good, kgsl_context_is_bad
    <3>3. queued[disp.ctx] = Len(queue[disp.ctx]) /\ queued[disp.ctx] \in Nat
      BY <1>a, <2>1, <3>2 DEF Counted, CtxTypes
    <3>4. PICK c \in Ctx : c = disp.ctx
      BY <2>1
    <3>5. Slots(c) = queued[c] + 1
      BY <2>1, <3>4, Nones DEF Slots
    <3>6. Slots(c) <= DrawqueueSize - 1 /\ DrawqueueSize \in Nat
      BY Nones DEF SlotsKept
    <3>7. Len(queue[disp.ctx]) + 1 < DrawqueueSize
      BY <3>3, <3>4, <3>5, <3>6
    <3>8. Len(r) = queued[disp.ctx] + 1
      BY <3>1, <3>3, <3>7 DEF Headed
    <3> QED BY <1>a, <2>1, <3>1, <3>2, <3>8 DEF Counted, CtxTypes
  <2> QED BY <1>7, <2>2, <2>3 DEF RequeueOutcome
<1>8. CASE FaultOutcome
  <2>1. PICK cs, m : adreno_drawctxt_invalidate(cs, m)
    BY <1>8 DEF FaultOutcome
  <2> QED BY <1>a, <2>1 DEF adreno_drawctxt_invalidate, Counted, CtxTypes
<1>9. ASSUME NEW c \in Ctx, adreno_hwsched_queue_context(c)
      PROVE  Counted'
  <2>1. \E i, r : Stated(r, queue[c], i, "ready") /\ queue' = [queue EXCEPT ![c] = r]
    BY <1>9, SignalIs
  <2>2. UNCHANGED <<queued, bits>>
    BY <1>9 DEF adreno_hwsched_queue_context
  <2> QED BY <1>a, <2>1, <2>2 DEF Stated, Counted, CtxTypes
<1>10. ASSUME NEW c \in Ctx, kgsl_context_detach(c)
      PROVE  Counted'
  BY <1>10, <1>a DEF kgsl_context_detach, ctxVars, listVars, schedVars, gpuVars, faultVars,
    threadVars, boundVars, Counted, CtxTypes
<1>11. ASSUME NEW c \in Ctx, drawctxt_detach_drawobjs(c)
      PROVE  Counted'
  <2>1. bits[c] # {}
    BY <1>11 DEF drawctxt_detach_drawobjs, Marked
  <2> QED BY <1>11, <1>a, <2>1 DEF drawctxt_detach_drawobjs, Counted, CtxTypes
<1>12. ASSUME NEW c \in Ctx, UnregisterTimeout(c)
      PROVE  Counted'
  <2>1. adreno_drawctxt_invalidate({c}, Memstore)
    BY <1>12 DEF UnregisterTimeout
  <2> QED BY <1>a, <2>1 DEF adreno_drawctxt_invalidate, Counted, CtxTypes
<1> QED
  BY <1>1, <1>2, <1>3, <1>4, <1>5, <1>6, <1>7, <1>8, <1>9, <1>10, <1>11, <1>12 DEF Step

\* Room is kept, and the queues are counted.
Room == SlotsKept /\ Roomy /\ Counted

\* There is room at the start ...
LEMMA RoomInit ==
    ASSUME Init
    PROVE  Room
<1>1. \A c \in Ctx : Slots(c) = 0
  BY DEF Init, Slots, NoDisp
<1>2. SlotsKept
  BY <1>1, Nones DEF SlotsKept
<1>3. Roomy /\ Counted
  BY DEF Init, Roomy, Counted
<1> QED
  BY <1>2, <1>3 DEF Room

\* ... every step leaves it when one thread submits to each context ...
LEMMA RoomStep ==
    ASSUME Submitters = 1, Base, Room, Step
    PROVE  Room'
<1>1. TypeOK /\ Control /\ QueuedCounts /\ Marked /\ SlotsKept /\ Roomy /\ Counted
  BY DEF Base, Room
<1>2. SlotsKept' /\ Roomy' /\ Counted'
  BY <1>1, SlotsKeptStep, RoomyStep, CountedStep
<1> QED
  BY <1>2 DEF Room

\* ... and so does a step that changes nothing.
LEMMA RoomStutter ==
    ASSUME Room, UNCHANGED vars
    PROVE  Room'
<1>1. UNCHANGED <<queued, disp, pc, batch, bits, queue>>
  BY DEF vars, ctxVars, threadVars
<1> QED
  BY <1>1 DEF Room, SlotsKept, Roomy, Counted, Slots

\* When one thread submits to each context, the counter of a queue never exceeds
\* its limit, so that the dispatcher always finds the slot of the object it puts
\* back, and counts the queue of a context that is not bad.
THEOREM HwschedQueueNeverOverflows ==
    ASSUME Submitters = 1
    PROVE  Spec => []QueueNeverOverflows
<1>1. Init => Base /\ Room
  BY BaseInit, RoomInit
<1>2. Base /\ Room /\ [Next]_vars => Base' /\ Room'
  <2> SUFFICES ASSUME Base, Room, [Next]_vars PROVE Base' /\ Room'
    OBVIOUS
  <2>1. CASE Next
    <3>1. Step
      BY <2>1, NextIsStep DEF Base
    <3> QED BY <3>1, BaseStep, RoomStep
  <2>2. CASE UNCHANGED vars
    BY <2>2, BaseStutter, RoomStutter
  <2> QED BY <2>1, <2>2
<1>3. Base /\ Room => QueueNeverOverflows
  <2> SUFFICES ASSUME Base, Room, NEW c \in Ctx
               PROVE  queued[c] <= _context_drawqueue_size /\ (Good(c) => queued[c] = Len(queue[c]))
    BY DEF QueueNeverOverflows
  <2>1. Slots(c) \in Nat /\ queued[c] \in Nat /\ queued[c] <= Slots(c) /\ DrawqueueSize \in Nat
    BY SlotsAre, Nones DEF Base
  <2>2. Slots(c) <= DrawqueueSize - 1
    BY DEF Room, SlotsKept
  <2>3. queued[c] <= DrawqueueSize - 1
    BY <2>1, <2>2
  <2>4. Good(c) => queued[c] = Len(queue[c])
    BY DEF Room, Counted, Good, kgsl_context_is_bad
  <2> QED BY <2>3, <2>4 DEF _context_drawqueue_size
<1> QED
  BY <1>1, <1>2, <1>3, PTL DEF Spec
=============================================================================
