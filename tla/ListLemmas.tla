----------------------------- MODULE ListLemmas -----------------------------
(***************************************************************************)
(* Facts about naturals and sequences the proofs share: least and greatest *)
(* members, listing a finite set of positions in order, removing a member  *)
(* of a sequence, counting a value in it, and what a loop of n rounds       *)
(* computes.  Those that need induction argue from a least counterexample.  *)
(***************************************************************************)
EXTENDS ItemPrices, FiniteSetTheorems, SequenceTheorems, WellFoundedInduction, TLAPS

\* A set of naturals with a member has a least one.
LEMMA LeastNatural ==
    ASSUME NEW T, T \subseteq Nat, T # {}
    PROVE  \E m \in T : \A n \in T : m <= n
<1> DEFINE R == OpToRel(<, Nat)
<1>1. \A x, y \in Nat : <<y, x>> \in R <=> y < x
    BY DEF OpToRel
<1>2. IsWellFoundedOn(R, Nat)
    BY NatLessThanWellFounded
<1> HIDE DEF R
<1>3. PICK m \in T : \A n \in T : ~(<<n, m>> \in R)
    BY <1>2, WFMin
<1>4. \A n \in T : ~(n < m)
    BY <1>1, <1>3
<1>5. m \in Nat /\ \A n \in T : n \in Nat
    OBVIOUS
<1>6. \A n \in T : m <= n
    BY <1>4, <1>5
<1> QED
    BY <1>6

\* A set of naturals with a member and an upper bound has a greatest member:
\* the last match of the scans in functions.swift and investmentOverview.swift.
LEMMA GreatestNatural ==
    ASSUME NEW T, T \subseteq Nat, T # {}, NEW u \in Nat, \A n \in T : n <= u
    PROVE  \E m \in T : \A n \in T : n <= m
<1> DEFINE U == {v \in Nat : \A n \in T : n <= v}
<1>1. U \subseteq Nat /\ U # {}
    OBVIOUS
<1>2. PICK m \in U : \A v \in U : m <= v
    BY <1>1, LeastNatural
<1>3. m \in T
    <2> SUFFICES ASSUME m \notin T PROVE FALSE
        OBVIOUS
    <2>1. \A n \in T : n < m
        BY <1>2
    <2>2. PICK n \in T : TRUE
        OBVIOUS
    <2>3. m \in Nat /\ m # 0
        BY <2>1, <2>2
    <2>4. m - 1 \in Nat /\ \A k \in T : k <= m - 1
        BY <2>1, <2>3
    <2> QED
        BY <2>3, <2>4, <1>2
<1> QED
    BY <1>2, <1>3

\* A bound of all but the last value of a list gives one of the list.
LEMMA ListBoundExtends ==
    ASSUME NEW n \in Nat, n # 0, NEW h \in [1..n -> Nat],
           NEW u \in Nat, \A i \in 1..(n-1) : h[i] <= u
    PROVE  \E w \in Nat : \A i \in 1..n : h[i] <= w
<1> DEFINE last == h[n]
           w == u + last
<1>1. last \in Nat
    OBVIOUS
<1>2. \A i \in 1..n : i = n \/ i \in 1..(n-1)
    OBVIOUS
<1>3. \A i \in 1..n : h[i] \in Nat
    OBVIOUS
<1> HIDE DEF last
<1>4. \A i \in 1..(n-1) : h[i] <= w
    BY <1>1, <1>3
<1>5. h[n] <= w
    BY <1>1 DEF last
<1>6. w \in Nat
    BY <1>1
<1> HIDE DEF w
<1> QED
    BY <1>2, <1>4, <1>5, <1>6

\* The values of a finite list of naturals have an upper bound.
LEMMA ListBounded ==
    ASSUME NEW k \in Nat, NEW g \in [1..k -> Nat]
    PROVE  \E u \in Nat : \A i \in 1..k : g[i] <= u
<1> DEFINE Bounded(n, h) == \E u \in Nat : \A i \in 1..n : h[i] <= u
           T == {n \in Nat : \E h \in [1..n -> Nat] : ~Bounded(n, h)}
<1>1. SUFFICES ASSUME T # {} PROVE FALSE
    OBVIOUS
<1>2. PICK n \in T : \A m \in T : n <= m
    BY <1>1, LeastNatural
<1>3. n \in Nat
    OBVIOUS
<1>4. PICK h \in [1..n -> Nat] : ~Bounded(n, h)
    OBVIOUS
<1>5. n # 0
    BY <1>4
<1>6. n - 1 \in Nat /\ n - 1 \notin T
    <2> HIDE DEF T
    <2> QED
        BY <1>2, <1>3, <1>5
<1>7. \A d \in [1..(n-1) -> Nat] : Bounded(n - 1, d)
    BY <1>6
<1>8. [i \in 1..(n-1) |-> h[i]] \in [1..(n-1) -> Nat]
    <2> HIDE DEF T, Bounded
    <2>1. \A i \in 1..(n-1) : i \in 1..n
        BY <1>3
    <2>2. \A i \in 1..(n-1) : h[i] \in Nat
        BY <2>1, <1>4
    <2> QED
        BY <2>2
<1>9. PICK u \in Nat : \A i \in 1..(n-1) : h[i] <= u
    <2> HIDE DEF T
    <2> QED
        BY <1>7, <1>8
<1> HIDE DEF T
<1>10. Bounded(n, h)
    BY <1>3, <1>4, <1>5, <1>9, ListBoundExtends
<1> QED
    BY <1>4, <1>10

\* A finite set of naturals with a member has a greatest one.
LEMMA FiniteGreatest ==
    ASSUME NEW S, S \subseteq Nat, S # {}, IsFiniteSet(S)
    PROVE  \E m \in S : \A n \in S : n <= m
<1>1. Cardinality(S) \in Nat /\ ExistsBijection(1..Cardinality(S), S)
    BY FS_CardinalityType
<1>2. PICK f \in Bijection(1..Cardinality(S), S) : TRUE
    BY <1>1 DEF ExistsBijection
<1>3. f \in [1..Cardinality(S) -> S] /\ \A x \in S : \E i \in 1..Cardinality(S) : f[i] = x
    BY <1>2 DEF Bijection, Surjection
<1>4. f \in [1..Cardinality(S) -> Nat]
    BY <1>3
<1>5. PICK u \in Nat : \A i \in 1..Cardinality(S) : f[i] <= u
    BY <1>1, <1>4, ListBounded
<1>6. \A n \in S : n <= u
    BY <1>3, <1>5
<1> QED
    BY <1>6, GreatestNatural

\* A finite set of naturals can be listed in increasing order: the positions
\* the search bar leaves.
LEMMA AscendingExists ==
    ASSUME NEW S, S \subseteq Nat, IsFiniteSet(S)
    PROVE  \E p \in [1..Cardinality(S) -> S] :
               \A i, j \in 1..Cardinality(S) : i < j => p[i] < p[j]
<1> DEFINE Listed(Q) == \E p \in [1..Cardinality(Q) -> Q] :
                           \A i, j \in 1..Cardinality(Q) : i < j => p[i] < p[j]
           T == {n \in Nat : \E Q \in SUBSET Nat :
                               IsFiniteSet(Q) /\ Cardinality(Q) = n /\ ~Listed(Q)}
<1>1. SUFFICES ASSUME T # {} PROVE FALSE
    BY FS_CardinalityType
<1>2. PICK n \in T : \A m \in T : n <= m
    BY <1>1, LeastNatural
<1>3. PICK Q \in SUBSET Nat : IsFiniteSet(Q) /\ Cardinality(Q) = n /\ ~Listed(Q)
    OBVIOUS
<1>4. n \in Nat
    OBVIOUS
<1>5. ASSUME Q = {} PROVE FALSE
    <2>1. 1..Cardinality(Q) = {}
        BY <1>5, FS_EmptySet
    <2>2. [i \in {} |-> 0] \in [1..Cardinality(Q) -> Q]
        BY <2>1
    <2> QED
        BY <1>3, <2>1, <2>2
<1>6. PICK m \in Q : \A q \in Q : q <= m
    BY <1>3, <1>5, FiniteGreatest
<1> DEFINE P == Q \ {m}
<1>7. IsFiniteSet(P) /\ Cardinality(P) = n - 1 /\ P \in SUBSET Nat
    BY <1>3, FS_RemoveElement
<1>8. n - 1 \in Nat /\ n - 1 < n
    BY <1>7, <1>4, FS_CardinalityType
<1>9. n - 1 \notin T
    BY <1>2, <1>4, <1>8
<1>10. Listed(P)
    BY <1>7, <1>8, <1>9
<1> HIDE DEF T
<1>11. PICK p \in [1..(n-1) -> P] : \A i, j \in 1..(n-1) : i < j => p[i] < p[j]
    BY <1>7, <1>10
<1> DEFINE q == [i \in 1..n |-> IF i = n THEN m ELSE p[i]]
<1>12. q \in [1..n -> Q]
    BY <1>4, <1>11
<1>13. \A x \in P : x \in Nat /\ x < m
    BY <1>6
<1>14. ASSUME NEW i \in 1..n, NEW j \in 1..n, i < j PROVE q[i] < q[j]
    <2>1. i \in 1..(n-1) /\ q[i] = p[i] /\ p[i] \in P
        BY <1>4, <1>11, <1>14
    <2>2. CASE j = n
        BY <2>1, <2>2, <1>13
    <2>3. CASE j # n
        BY <2>1, <2>3, <1>4, <1>11, <1>14
    <2> QED
        BY <2>2, <2>3
<1> QED
    BY <1>3, <1>12, <1>14

\* The members of a sequence at some of its positions, in their order: each
\* of these positions is passed, once and in order.
LEMMA SelectedInOrder ==
    ASSUME NEW D, NEW s \in Seq(D), NEW S \in SUBSET DOMAIN s
    PROVE  LET p == Ascending(S)
               t == [k \in DOMAIN p |-> s[p[k]]]
           IN  /\ p \in [1..Cardinality(S) -> S]
               /\ \A i, j \in 1..Cardinality(S) : i < j => p[i] < p[j]
               /\ \A x \in S : \E k \in DOMAIN p : p[k] = x
               /\ t \in Seq(D) /\ DOMAIN t = DOMAIN p
<1> DEFINE p == Ascending(S)
           t == [k \in DOMAIN p |-> s[p[k]]]
           n == Cardinality(S)
<1>1. DOMAIN s = 1..Len(s) /\ Len(s) \in Nat
    OBVIOUS
<1>2. S \subseteq Nat /\ IsFiniteSet(S)
    <2>1. IsFiniteSet(1..Len(s)) /\ S \in SUBSET (1..Len(s))
        BY <1>1, FS_Interval
    <2> QED
        BY <1>1, <2>1, FS_Subset
<1>3. p \in [1..n -> S] /\ \A i, j \in 1..n : i < j => p[i] < p[j]
    BY <1>2, AscendingExists DEF Ascending
<1>4. n \in Nat /\ IsFiniteSet(1..n) /\ Cardinality(1..n) = n
    BY <1>2, FS_CardinalityType, FS_Interval
<1> HIDE DEF p, n
<1>5. \A x \in S : \E k \in DOMAIN p : p[k] = x
    <2>1. ASSUME NEW i \in 1..n, NEW j \in 1..n, p[i] = p[j] PROVE i = j
        <3>1. i \in Nat /\ j \in Nat /\ p[i] \in Nat
            BY <1>2, <1>3, <1>4
        <3> QED
            BY <1>3, <2>1, <3>1
    <2>2. p \in Injection(1..n, S)
        BY <1>3, <2>1 DEF Injection, IsInjective
    <2>3. p \in Surjection(1..n, S)
        BY <1>2, <1>4, <2>2, FS_Injection DEF n
    <2> QED
        BY <1>3, <2>3 DEF Surjection
<1>6. DOMAIN p = 1..n /\ \A k \in 1..n : s[p[k]] \in D
    BY <1>1, <1>3
<1>7. t \in [1..n -> D] /\ DOMAIN t = DOMAIN p
    BY <1>6
<1>8. t \in Seq(D)
    BY <1>4, <1>7
<1> QED
    BY <1>3, <1>5, <1>7, <1>8 DEF p, n

\* Removing the member at k of a sequence: what is left, and where it is.
\* First for any two sequences that are what is before and after it.
LEMMA JoinProperties ==
    ASSUME NEW S, NEW s \in Seq(S), NEW k \in 1..Len(s),
           NEW a \in Seq(S), Len(a) = k - 1, \A i \in 1..(k - 1) : a[i] = s[i],
           NEW b \in Seq(S), Len(b) = Len(s) - k, \A i \in 1..(Len(s) - k) : b[i] = s[k + i]
    PROVE  /\ a \o b \in Seq(S)
           /\ Len(a \o b) = Len(s) - 1
           /\ \A i \in 1..(Len(s) - 1) : (a \o b)[i] = IF i < k THEN s[i] ELSE s[i + 1]
<1> DEFINE t == a \o b
           n == Len(s)
<1>1. n \in Nat /\ k \in 1..n /\ Len(a) = k - 1 /\ Len(b) = n - k
    OBVIOUS
<1>2. /\ t \in Seq(S) /\ Len(t) = Len(a) + Len(b)
      /\ \A i \in 1..(Len(a) + Len(b)) : t[i] = IF i <= Len(a) THEN a[i] ELSE b[i - Len(a)]
    BY ConcatProperties
<1> HIDE DEF t, n
<1>3. (k - 1) + (n - k) = n - 1
    BY <1>1
<1>4. Len(t) = n - 1
    BY <1>1, <1>2, <1>3
<1>5. \A i \in 1..(n - 1) : t[i] = IF i <= k - 1 THEN a[i] ELSE b[i - (k - 1)]
    BY <1>1, <1>2, <1>3
<1>6. ASSUME NEW i \in 1..(n - 1), i < k PROVE t[i] = s[i]
    BY <1>1, <1>5, <1>6
<1>7. ASSUME NEW i \in 1..(n - 1), ~(i < k) PROVE t[i] = s[i + 1]
    <2>1. i - (k - 1) \in 1..(n - k) /\ ~(i <= k - 1) /\ k + (i - (k - 1)) = i + 1
        BY <1>1, <1>7
    <2>2. b[i - (k - 1)] = s[k + (i - (k - 1))]
        BY <2>1 DEF n
    <2> QED
        BY <1>5, <2>1, <2>2
<1>8. \A i \in 1..(n - 1) : t[i] = IF i < k THEN s[i] ELSE s[i + 1]
    BY <1>6, <1>7
<1> QED
    BY <1>2, <1>4, <1>8 DEF t, n

\* What is left of a sequence without its member at k.
LEMMA RemoveProperties ==
    ASSUME NEW S, NEW s \in Seq(S), NEW k \in 1..Len(s)
    PROVE  LET t == SubSeq(s, 1, k - 1) \o SubSeq(s, k + 1, Len(s))
           IN  /\ t \in Seq(S)
               /\ Len(t) = Len(s) - 1
               /\ \A i \in 1..(Len(s) - 1) : t[i] = IF i < k THEN s[i] ELSE s[i + 1]
<1> DEFINE a == SubSeq(s, 1, k - 1)
           b == SubSeq(s, k + 1, Len(s))
<1>1. a \in Seq(S) /\ Len(a) = k - 1 /\ \A i \in 1..(k - 1) : a[i] = s[i]
    OBVIOUS
<1>2. /\ b \in Seq(S) /\ Len(b) = Len(s) - k
      /\ \A i \in 1..(Len(s) - k) : b[i] = s[k + i]
    OBVIOUS
<1> HIDE DEF a, b
<1>3. /\ a \o b \in Seq(S)
      /\ Len(a \o b) = Len(s) - 1
      /\ \A i \in 1..(Len(s) - 1) : (a \o b)[i] = IF i < k THEN s[i] ELSE s[i + 1]
    BY <1>1, <1>2, JoinProperties
<1> QED
    BY <1>3, Zenon DEF a, b
\* What holds of 0, and of each number up to n with the one before it, holds of all
\* up to n.
LEMMA Upwards ==
    ASSUME NEW n \in Nat, NEW P, 0 \in P, \A k \in 1..n : k - 1 \in P => k \in P
    PROVE  \A k \in 0..n : k \in P
<1> DEFINE T == {k \in 0..n : k \notin P}
<1> SUFFICES ASSUME T # {} PROVE FALSE
    OBVIOUS
<1>1. PICK m \in T : \A k \in T : m <= k
    <2>1. T \subseteq Nat
        OBVIOUS
    <2> HIDE DEF T
    <2> QED
        BY <2>1, LeastNatural
<1>2. m \in 1..n /\ m - 1 \in 0..n /\ m - 1 \notin T
    BY <1>1
<1> QED
    BY <1>1, <1>2

\* A loop of n rounds from base, each of which makes a state from its number and the
\* state before, and the states it goes through.
IsLoop(n, S, base, step) == n \in Nat /\ base \in S /\ step \in [(1..n) \X S -> S]
Runs(f, n, S, base, step) ==
    f \in [0..n -> S] /\ f[0] = base /\ \A k \in 1..n : f[k] = step[<<k, f[k - 1]>>]

\* Every such loop runs.
LEMMA LoopExists ==
    ASSUME NEW n, NEW S, NEW base, NEW step, IsLoop(n, S, base, step)
    PROVE  \E f : Runs(f, n, S, base, step)
<1> USE DEF IsLoop, Runs
<1> DEFINE Upto(k, f) == f \in [0..k -> S] /\ f[0] = base /\ \A i \in 1..k : f[i] = step[<<i, f[i - 1]>>]
           P == {k \in 0..n : \E f : Upto(k, f)}
<1>1. 0 \in P
    <2> DEFINE f == [i \in 0..0 |-> base]
    <2>1. Upto(0, f) /\ 0 \in 0..n
        OBVIOUS
    <2> HIDE DEF f, Upto
    <2> QED
        BY <2>1
<1>2. ASSUME NEW k \in 1..n, k - 1 \in P PROVE k \in P
    <2>1. PICK f : Upto(k - 1, f)
        BY <1>2
    <2> DEFINE g == [i \in 0..k |-> IF i = k THEN step[<<k, f[k - 1]>>] ELSE f[i]]
    <2>2. k - 1 \in 0..(k - 1) /\ f[k - 1] \in S
        BY <2>1
    <2>3. step[<<k, f[k - 1]>>] \in S
        BY <2>2
    <2>4. g \in [0..k -> S]
        BY <2>1, <2>3
    <2>5. g[0] = base /\ g[k] = step[<<k, f[k - 1]>>] /\ \A i \in 0..(k - 1) : g[i] = f[i]
        BY <2>1
    <2>6. ASSUME NEW i \in 1..k PROVE g[i] = step[<<i, g[i - 1]>>]
        <3>1. i - 1 \in 0..(k - 1) /\ g[i - 1] = f[i - 1]
            BY <2>5
        <3>2. CASE i = k
            BY <2>5, <3>1, <3>2
        <3>3. CASE i # k
            <4>1. i \in 1..(k - 1) /\ i \in 0..(k - 1)
                BY <3>3
            <4> QED
                BY <2>1, <2>5, <3>1, <4>1
        <3> QED
            BY <3>2, <3>3
    <2> HIDE DEF g
    <2>7. Upto(k, g)
        BY <2>4, <2>5, <2>6
    <2> QED
        BY <2>7
<1> HIDE DEF P
<1>3. n \in P
    BY <1>1, <1>2, Upwards
<1> QED
    BY <1>3 DEF P

\* How often a value is in a sequence.
Occurrences(s, e) == Cardinality({i \in DOMAIN s : s[i] = e})

\* It is a number.
LEMMA OccurrencesNat ==
    ASSUME NEW S, NEW s \in Seq(S), NEW e
    PROVE  IsFiniteSet({i \in DOMAIN s : s[i] = e}) /\ Occurrences(s, e) \in Nat
<1>1. IsFiniteSet(DOMAIN s)
    BY FS_Interval
<1>2. IsFiniteSet({i \in DOMAIN s : s[i] = e})
    <2>1. {i \in DOMAIN s : s[i] = e} \in SUBSET DOMAIN s
        OBVIOUS
    <2> QED
        BY <1>1, <2>1, FS_Subset
<1> QED
    BY <1>2, FS_CardinalityType DEF Occurrences

\* A value that is appended is there once more.
LEMMA AppendOccurs ==
    ASSUME NEW S, NEW s \in Seq(S), NEW x \in S, NEW e
    PROVE  Occurrences(Append(s, x), e) = Occurrences(s, e) + (IF x = e THEN 1 ELSE 0)
<1> DEFINE n == Len(s)
           A == {i \in DOMAIN s : s[i] = e}
           B == {i \in DOMAIN Append(s, x) : Append(s, x)[i] = e}
<1>1. n \in Nat /\ DOMAIN s = 1..n /\ DOMAIN Append(s, x) = 1..(n + 1)
      /\ Append(s, x)[n + 1] = x /\ \A i \in 1..n : Append(s, x)[i] = s[i]
    OBVIOUS
<1>2. IsFiniteSet(A) /\ Cardinality(A) \in Nat
    BY OccurrencesNat DEF Occurrences
<1>3. CASE x = e
    <2>1. B = A \cup {n + 1} /\ n + 1 \notin A
        BY <1>1, <1>3
    <2> HIDE DEF A, B
    <2>2. Cardinality(B) = Cardinality(A) + 1
        BY <1>2, <2>1, FS_AddElement
    <2> QED
        BY <1>3, <2>2 DEF A, B, Occurrences
<1>4. CASE x # e
    <2>1. B = A
        BY <1>1, <1>4
    <2>2. Occurrences(s, e) = Cardinality(A) /\ Occurrences(Append(s, x), e) = Cardinality(B)
        BY DEF Occurrences
    <2> HIDE DEF A, B
    <2> QED
        BY <1>2, <1>4, <2>1, <2>2
<1> QED
    BY <1>3, <1>4

\* A value that is removed is there once less.
LEMMA RemoveOccurs ==
    ASSUME NEW S, NEW s \in Seq(S), NEW k \in 1..Len(s), NEW e
    PROVE  LET t == SubSeq(s, 1, k - 1) \o SubSeq(s, k + 1, Len(s))
           IN  Occurrences(s, e) = Occurrences(t, e) + (IF s[k] = e THEN 1 ELSE 0)
<1> DEFINE n == Len(s)
           t == SubSeq(s, 1, k - 1) \o SubSeq(s, k + 1, Len(s))
           A == {i \in DOMAIN t : t[i] = e}
           B == {i \in DOMAIN s : s[i] = e}
           f == [i \in A |-> IF i < k THEN i ELSE i + 1]
<1>1. t \in Seq(S) /\ Len(t) = n - 1 /\ \A i \in 1..(n - 1) : t[i] = IF i < k THEN s[i] ELSE s[i + 1]
    BY RemoveProperties
<1> HIDE DEF t
<1>2. n \in Nat /\ DOMAIN s = 1..n /\ DOMAIN t = 1..(n - 1) /\ k \in 1..n
    BY <1>1
<1>3. f \in [A -> B \ {k}]
    BY <1>1, <1>2
<1>4. \A i, j \in A : f[i] = f[j] => i = j
    BY <1>2
<1>5. \A j \in B \ {k} : \E i \in A : f[i] = j
    <2> SUFFICES ASSUME NEW j \in B \ {k} PROVE \E i \in A : f[i] = j
        OBVIOUS
    <2>1. CASE j < k
        <3>1. j \in A /\ f[j] = j
            BY <1>1, <1>2, <2>1
        <3> QED
            BY <3>1
    <2>2. CASE j > k
        <3>1. j - 1 \in A /\ f[j - 1] = j
            BY <1>1, <1>2, <2>2
        <3> QED
            BY <3>1
    <2> QED
        BY <1>2, <2>1, <2>2
<1>6. IsFiniteSet(A) /\ Cardinality(A) \in Nat /\ IsFiniteSet(B) /\ Cardinality(B) \in Nat
    BY <1>1, OccurrencesNat DEF Occurrences
<1>7. Cardinality(B \ {k}) = Cardinality(A)
    <2> HIDE DEF A, B, f
    <2>1. f \in Bijection(A, B \ {k})
        BY <1>3, <1>4, <1>5 DEF Bijection, Injection, Surjection, IsInjective
    <2>2. ExistsBijection(A, B \ {k})
        BY <2>1 DEF ExistsBijection
    <2> QED
        BY <1>6, <2>2, FS_Bijection
<1>8. k \in B <=> s[k] = e
    BY <1>2
<1>9. Cardinality(B \ {k}) = IF k \in B THEN Cardinality(B) - 1 ELSE Cardinality(B)
    <2> HIDE DEF A, B, f
    <2> QED
        BY <1>6, FS_RemoveElement
<1>10. Occurrences(s, e) = Cardinality(B) /\ Occurrences(t, e) = Cardinality(A)
    BY DEF Occurrences
<1> HIDE DEF A, B, f
<1>11. Occurrences(s, e) = Occurrences(t, e) + (IF s[k] = e THEN 1 ELSE 0)
    BY <1>6, <1>7, <1>8, <1>9, <1>10
<1> QED
    BY <1>11 DEF t
=============================================================================
