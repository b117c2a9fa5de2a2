------------------------ MODULE BookkeepingTheorems ------------------------
(***************************************************************************)
(* What the proofs of the components have in common. Induction over the    *)
(* natural numbers is obtained from the well-founded ordering of finite    *)
(* sets by inclusion: an initial segment 0..n stands for the number n.     *)
(* Totals: how Total changes with the function and the length it is given, *)
(* and how a sum over a finite set does, whatever order it is counted up   *)
(* in. Lists: how a list of distinct ids changes when an id is removed     *)
(* from it and when others are put at its end, what of any list is left    *)
(* when an id is left out, and what a list of lists is when it is read one *)
(* after the other.                                                        *)
(***************************************************************************)
EXTENDS Totals, Indexes, FiniteSets, FiniteSetTheorems, SequenceTheorems, TLAPS

-----------------------------------------------------------------------------
(* Induction *)

\* Every non-empty set of natural numbers has a least element.
LEMMA LeastNumber ==
  ASSUME NEW T, T \subseteq Nat, T # {}
  PROVE  \E n \in T : \A m \in T : n <= m
<1> DEFINE R == StrictSubsetOrdering(Nat)
           U == {0..n : n \in T}
<1>1. IsWellFoundedOn(R, FiniteSubsetsOf(Nat))
  BY FS_StrictSubsetOrderingWellFounded
<1>2. U \subseteq FiniteSubsetsOf(Nat) /\ U # {}
  <2>1. ASSUME NEW n \in T
        PROVE  0..n \in FiniteSubsetsOf(Nat)
    <3>1. IsFiniteSet(0..n)
      BY FS_Interval
    <3> QED
      BY <3>1 DEF FiniteSubsetsOf
  <2> QED
    BY <2>1
<1>3. PICK x \in U : \A y \in U : ~ (<<y, x>> \in R)
  <2> HIDE DEF R, U
  <2> QED
    BY <1>1, <1>2, WFMin
<1>4. PICK n \in T : x = 0..n
  OBVIOUS
<1>5. ASSUME NEW m \in T
      PROVE  n <= m
  <2> SUFFICES ASSUME m < n PROVE FALSE
    OBVIOUS
  <2>1. 0..m \in U /\ 0..m \subseteq 0..n /\ 0..m # 0..n
    OBVIOUS
  <2>2. 0..m \in SUBSET Nat /\ x \in SUBSET Nat
    BY <1>4
  <2> QED
    BY <1>3, <1>4, <2>1, <2>2 DEF StrictSubsetOrdering
<1> QED
  BY <1>5

\* A set that holds 0 and, with each n below N, also n + 1, holds all of 0..N.
LEMMA SetInduction ==
  ASSUME NEW N \in Nat, NEW S, 0 \in S, \A n \in 0..N-1 : n \in S => n + 1 \in S
  PROVE  \A n \in 0..N : n \in S
<1> DEFINE T == {n \in 0..N : n \notin S}
<1> SUFFICES ASSUME T # {} PROVE FALSE
  OBVIOUS
<1>1. PICK n \in T : \A m \in T : n <= m
  <2>1. T \subseteq Nat
    OBVIOUS
  <2> HIDE DEF T
  <2> QED
    BY <2>1, LeastNumber
<1>2. n - 1 \in 0..N-1 /\ n - 1 \notin T
  BY <1>1
<1> QED
  BY <1>2

-----------------------------------------------------------------------------
(* The recursive definition is well defined *)

ArePartialSums(s, f, n) ==
  s = [i \in 0..n |-> IF i = 0 THEN 0 ELSE s[i - 1] + f[i]]

\* However many summands, there is a sequence of their partial sums.
LEMMA PartialSumsExist ==
  ASSUME NEW N \in Nat, NEW f, \A i \in 1..N : f[i] \in Int
  PROVE  \A n \in 0..N : \E s \in [0..n -> Int] : ArePartialSums(s, f, n)
<1> DEFINE S == {n \in 0..N : \E s \in [0..n -> Int] : ArePartialSums(s, f, n)}
<1>1. 0 \in S
  <2> DEFINE s == [i \in 0..0 |-> 0]
  <2>1. s \in [0..0 -> Int] /\ ArePartialSums(s, f, 0)
    BY DEF ArePartialSums
  <2> QED
    BY <2>1
<1>2. ASSUME NEW n \in 0..N-1, n \in S
      PROVE  n + 1 \in S
  <2>1. PICK s \in [0..n -> Int] : ArePartialSums(s, f, n)
    BY <1>2
  <2> DEFINE t == [i \in 0..n+1 |-> IF i = n + 1 THEN s[n] + f[n + 1] ELSE s[i]]
  <2>2. t \in [0..n+1 -> Int]
    OBVIOUS
  <2>3. ASSUME NEW i \in 0..n+1
        PROVE  t[i] = IF i = 0 THEN 0 ELSE t[i - 1] + f[i]
    <3>1. CASE i = n + 1
      BY <3>1
    <3>2. CASE i # n + 1
      <4>1. i \in 0..n
        BY <3>2
      <4>2. s[i] = IF i = 0 THEN 0 ELSE s[i - 1] + f[i]
        BY <4>1, <2>1 DEF ArePartialSums
      <4> QED
        BY <4>1, <4>2, <3>2
    <3> QED
      BY <3>1, <3>2
  <2>4. ArePartialSums(t, f, n + 1)
    BY <2>2, <2>3 DEF ArePartialSums
  <2> QED
    BY <2>2, <2>4
<1> HIDE DEF S
<1>3. \A n \in 0..N : n \in S
  BY <1>1, <1>2, SetInduction
<1> QED
  BY <1>3 DEF S

\* And there is only one.
LEMMA PartialSumsAgree ==
  ASSUME NEW N \in Nat, NEW f, \A i \in 1..N : f[i] \in Int,
         NEW n \in 0..N, NEW s, ArePartialSums(s, f, N),
         NEW t, ArePartialSums(t, f, n)
  PROVE  s[n] = t[n]
<1> DEFINE S == {i \in 0..n : s[i] = t[i]}
<1>1. 0 \in S
  BY DEF ArePartialSums
<1>2. ASSUME NEW i \in 0..n-1, i \in S
      PROVE  i + 1 \in S
  <2>1. s[i + 1] = s[i] + f[i + 1] /\ t[i + 1] = t[i] + f[i + 1]
    BY DEF ArePartialSums
  <2> QED
    BY <1>2, <2>1
<1> HIDE DEF S
<1>3. \A i \in 0..n : i \in S
  BY <1>1, <1>2, SetInduction
<1> QED
  BY <1>3 DEF S

\* Total satisfies the recursion it is defined by.
THEOREM TotalRecursion ==
  ASSUME NEW N \in Nat, NEW f, \A i \in 1..N : f[i] \in Int
  PROVE  /\ Total(f, 0) = 0
         /\ \A n \in 0..N : Total(f, n) \in Int
         /\ \A n \in 1..N : Total(f, n) = Total(f, n - 1) + f[n]
<1> DEFINE P(n) == CHOOSE s : ArePartialSums(s, f, n)
<1>1. ASSUME NEW n \in 0..N
      PROVE  ArePartialSums(P(n), f, n) /\ Total(f, n) = P(n)[n]
  <2>1. \E s : ArePartialSums(s, f, n)
    BY PartialSumsExist
  <2> QED
    BY <2>1 DEF Total, ArePartialSums
<1> HIDE DEF P
<1>2. Total(f, 0) = 0
  BY <1>1 DEF ArePartialSums
<1>3. ASSUME NEW n \in 1..N
      PROVE  Total(f, n) = Total(f, n - 1) + f[n]
  <2>1. P(n)[n] = P(n)[n - 1] + f[n]
    BY <1>1 DEF ArePartialSums
  <2>2. P(n)[n - 1] = P(n - 1)[n - 1]
    <3>1. n - 1 \in 0..n /\ n \in Nat /\ n - 1 \in 0..N /\ n \in 0..N
      OBVIOUS
    <3>2. \A i \in 1..n : f[i] \in Int
      OBVIOUS
    <3> QED
      BY <1>1, <3>1, <3>2, PartialSumsAgree
  <2> QED
    BY <1>1, <2>1, <2>2
<1>4. \A n \in 0..N : Total(f, n) \in Int
  <2> DEFINE S == {n \in 0..N : Total(f, n) \in Int}
  <2>1. 0 \in S
    BY <1>2
  <2>2. \A n \in 0..N-1 : n \in S => n + 1 \in S
    BY <1>3
  <2> HIDE DEF S
  <2>3. \A n \in 0..N : n \in S
    BY <2>1, <2>2, SetInduction
  <2> QED
    BY <2>3 DEF S
<1> QED
  BY <1>2, <1>3, <1>4

-----------------------------------------------------------------------------
(* How a total changes with its terms *)

\* The value of one term goes up by d, or down when d is negative.
THEOREM TotalChange ==
  ASSUME NEW N \in Nat, NEW f, \A i \in 1..N : f[i] \in Int,
         NEW k \in 1..N, NEW d \in Int, NEW g,
         g[k] = f[k] + d, \A i \in 1..N : i # k => g[i] = f[i]
  PROVE  Total(g, N) = Total(f, N) + d
<1> DEFINE S == {n \in 0..N : Total(g, n) = Total(f, n) + (IF k <= n THEN d ELSE 0)}
<1>1. \A i \in 1..N : g[i] \in Int
  OBVIOUS
<1>2. 0 \in S
  BY <1>1, TotalRecursion
<1>3. ASSUME NEW n \in 0..N-1, n \in S
      PROVE  n + 1 \in S
  <2>1. /\ Total(g, n + 1) = Total(g, n) + g[n + 1]
        /\ Total(f, n + 1) = Total(f, n) + f[n + 1]
        /\ Total(g, n) \in Int /\ Total(f, n) \in Int
    <3>1. n + 1 \in 1..N /\ n \in 0..N /\ (n + 1) - 1 = n
      OBVIOUS
    <3> QED
      BY <1>1, <3>1, TotalRecursion
  <2> QED
    BY <1>3, <2>1
<1> HIDE DEF S
<1>4. \A n \in 0..N : n \in S
  BY <1>2, <1>3, SetInduction
<1> QED
  BY <1>4 DEF S

\* Equal terms, equal totals.
COROLLARY TotalSame ==
  ASSUME NEW N \in Nat, NEW f, \A i \in 1..N : f[i] \in Int,
         NEW g, \A i \in 1..N : g[i] = f[i]
  PROVE  Total(g, N) = Total(f, N)
<1>1. CASE N = 0
  BY <1>1, TotalRecursion
<1>2. CASE N # 0
  <2>1. 1 \in 1..N /\ g[1] = f[1] + 0
    BY <1>2
  <2>2. Total(g, N) = Total(f, N) + 0
    BY <2>1, TotalChange
  <2> QED
    BY <2>2, TotalRecursion
<1> QED
  BY <1>1, <1>2

\* The terms from n + 1 on are all equal to a.
THEOREM TotalExtend ==
  ASSUME NEW N \in Nat, NEW f, \A i \in 1..N : f[i] \in Int,
         NEW n \in 0..N, NEW a \in Int, \A i \in n+1..N : f[i] = a
  PROVE  Total(f, N) = Total(f, n) + a * (N - n)
<1> DEFINE S == {k \in 0..N-n : Total(f, n + k) = Total(f, n) + a * k}
<1>1. 0 \in S
  BY TotalRecursion
<1>2. ASSUME NEW k \in 0..(N-n)-1, k \in S
      PROVE  k + 1 \in S
  <2>1. Total(f, n + (k + 1)) = Total(f, n + k) + f[n + (k + 1)]
    <3>1. n + (k + 1) \in 1..N /\ (n + (k + 1)) - 1 = n + k
      OBVIOUS
    <3> QED
      BY <3>1, TotalRecursion
  <2>2. f[n + (k + 1)] = a
    OBVIOUS
  <2>3. Total(f, n) \in Int
    BY TotalRecursion
  <2>4. a * (k + 1) = a * k + a /\ a * k \in Int
    OBVIOUS
  <2> QED
    BY <1>2, <2>1, <2>2, <2>3, <2>4
<1>3. N - n \in Nat
  OBVIOUS
<1> HIDE DEF S
<1>4. \A k \in 0..N-n : k \in S
  BY <1>1, <1>2, <1>3, SetInduction
<1>5. N - n \in S
  BY <1>3, <1>4
<1> QED
  BY <1>5 DEF S

\* When no term is negative, the total is no less than any of its terms.
THEOREM TotalCovers ==
  ASSUME NEW N \in Nat, NEW f, \A i \in 1..N : f[i] \in Nat
  PROVE  Total(f, N) \in Nat /\ \A k \in 1..N : f[k] <= Total(f, N)
<1> DEFINE S == {n \in 0..N : Total(f, n) \in Nat /\ \A k \in 1..n : f[k] <= Total(f, n)}
<1>1. 0 \in S
  BY TotalRecursion
<1>2. ASSUME NEW n \in 0..N-1, n \in S
      PROVE  n + 1 \in S
  <2>1. Total(f, n + 1) = Total(f, n) + f[n + 1]
    <3>1. n + 1 \in 1..N /\ (n + 1) - 1 = n
      OBVIOUS
    <3> QED
      BY <3>1, TotalRecursion
  <2>2. f[n + 1] \in Nat
    OBVIOUS
  <2> QED
    BY <1>2, <2>1, <2>2
<1> HIDE DEF S
<1>3. \A n \in 0..N : n \in S
  BY <1>1, <1>2, SetInduction
<1> QED
  BY <1>3 DEF S

\* When no term is larger, the total is not.
THEOREM TotalMonotone ==
  ASSUME NEW N \in Nat, NEW f, NEW g, \A i \in 1..N : f[i] \in Int /\ g[i] \in Int,
         \A i \in 1..N : f[i] <= g[i]
  PROVE  Total(f, N) <= Total(g, N)
<1> DEFINE S == {n \in 0..N : Total(f, n) <= Total(g, n)}
<1>1. 0 \in S
  BY TotalRecursion
<1>2. ASSUME NEW n \in 0..N-1, n \in S
      PROVE  n + 1 \in S
  <2>1. n + 1 \in 1..N /\ (n + 1) - 1 = n
    OBVIOUS
  <2>2. Total(f, n + 1) = Total(f, n) + f[n + 1] /\ Total(f, n) \in Int
    BY <2>1, TotalRecursion
  <2>3. Total(g, n + 1) = Total(g, n) + g[n + 1] /\ Total(g, n) \in Int
    BY <2>1, TotalRecursion
  <2> QED
    BY <1>2, <2>1, <2>2, <2>3
<1> HIDE DEF S
<1>3. \A n \in 0..N : n \in S
  BY <1>1, <1>2, SetInduction
<1> QED
  BY <1>3 DEF S

\* When the terms are the same, the total is.
THEOREM TotalAgree ==
  ASSUME NEW N \in Nat, NEW f, NEW g, \A i \in 1..N : f[i] \in Int /\ g[i] = f[i]
  PROVE  Total(f, N) = Total(g, N)
<1>1. Total(f, N) \in Int /\ Total(g, N) \in Int
  BY TotalRecursion
<1>2. Total(f, N) <= Total(g, N) /\ Total(g, N) <= Total(f, N)
  BY TotalMonotone
<1> QED
  BY <1>1, <1>2

-----------------------------------------------------------------------------
(* Totals over finite sets *)

\* Every element is in the order that is counted up, and once.
LEMMA Counted ==
  ASSUME NEW S, IsFiniteSet(S)
  PROVE  /\ Cardinality(S) \in Nat
         /\ \A i \in 1..Cardinality(S) : SetToSeq(S)[i] \in S
         /\ \A x \in S : \E k \in 1..Cardinality(S) :
              \A i \in 1..Cardinality(S) : SetToSeq(S)[i] = x <=> i = k
<1> DEFINE n == Cardinality(S)
           list == SetToSeq(S)
<1>1. n \in Nat /\ ExistsBijection(1..n, S)
  BY FS_CardinalityType
<1>2. \E f \in [1..n -> S] : IsInjective(f)
  BY <1>1 DEF ExistsBijection, Bijection, Injection
<1>3. list \in [1..n -> S] /\ IsInjective(list)
  BY <1>2 DEF SetToSeq
<1>4. list \in Surjection(1..n, S)
  <2>1. Cardinality(1..n) = n
    BY <1>1, FS_Interval
  <2>2. list \in Injection(1..n, S)
    BY <1>3 DEF Injection
  <2> QED
    BY <2>1, <2>2, FS_Injection
<1>5. ASSUME NEW x \in S
      PROVE  \E k \in 1..n : \A i \in 1..n : list[i] = x <=> i = k
  <2>1. PICK k \in 1..n : list[k] = x
    BY <1>4 DEF Surjection
  <2>2. \A i \in 1..n : list[i] = x <=> i = k
    BY <1>3, <2>1 DEF IsInjective
  <2> QED
    BY <2>2
<1> QED
  BY <1>1, <1>3, <1>5

\* A total over a set as one over numbers.
LEMMA TotalOverNumbers ==
  ASSUME NEW S, IsFiniteSet(S), NEW f, \A x \in S : f[x] \in Int
  PROVE  \E h : /\ TotalOver(f, S) = Total(h, Cardinality(S))
                /\ \A i \in 1..Cardinality(S) : h[i] = f[SetToSeq(S)[i]] /\ h[i] \in Int
<1> DEFINE n == Cardinality(S)
           h == [i \in 1..n |-> f[SetToSeq(S)[i]]]
<1>1. TotalOver(f, S) = Total(h, n)
  BY DEF TotalOver
<1>2. \A i \in 1..n : h[i] = f[SetToSeq(S)[i]] /\ h[i] \in Int
  BY Counted
<1> HIDE DEF h
<1> QED
  BY <1>1, <1>2

\* A total of integers is one.
THEOREM TotalOverType ==
  ASSUME NEW S, IsFiniteSet(S), NEW f, \A x \in S : f[x] \in Int
  PROVE  TotalOver(f, S) \in Int
<1>1. PICK n : n = Cardinality(S)
  OBVIOUS
<1>2. PICK h : TotalOver(f, S) = Total(h, n) /\ \A i \in 1..n : h[i] \in Int
  BY <1>1, TotalOverNumbers
<1>3. n \in Nat /\ n \in 0..n
  BY <1>1, Counted
<1> QED
  BY <1>2, <1>3, TotalRecursion

\* A total of nothing is nothing.
THEOREM TotalOverZero ==
  ASSUME NEW S, IsFiniteSet(S), NEW f, \A x \in S : f[x] = 0
  PROVE  TotalOver(f, S) = 0
<1>1. PICK n : n = Cardinality(S)
  OBVIOUS
<1>2. PICK h : TotalOver(f, S) = Total(h, n) /\ \A i \in 1..n : h[i] = f[SetToSeq(S)[i]] /\ h[i] \in Int
  <2>1. \A x \in S : f[x] \in Int
    OBVIOUS
  <2> QED
    BY <1>1, <2>1, TotalOverNumbers
<1>3. n \in Nat /\ 0 \in 0..n /\ \A i \in 1..n : h[i] = 0
  BY <1>1, <1>2, Counted
<1>4. Total(h, n) = Total(h, 0) + 0 * (n - 0)
  <2>1. \A i \in 0+1..n : h[i] = 0
    BY <1>3
  <2>2. \A i \in 1..n : h[i] \in Int
    BY <1>3
  <2> QED
    BY <1>3, <2>1, <2>2, TotalExtend
<1>5. Total(h, 0) = 0
  BY <1>2, <1>3, TotalRecursion
<1> QED
  BY <1>2, <1>3, <1>4, <1>5

\* The value of one element goes up by d, or down when d is negative.
THEOREM TotalOverChange ==
  ASSUME NEW S, IsFiniteSet(S), NEW f, \A x \in S : f[x] \in Int,
         NEW y \in S, NEW d \in Int, NEW g,
         g[y] = f[y] + d, \A x \in S : x # y => g[x] = f[x]
  PROVE  TotalOver(g, S) = TotalOver(f, S) + d
<1>1. PICK n : n = Cardinality(S)
  OBVIOUS
<1>2. PICK list : list = SetToSeq(S)
  OBVIOUS
<1>3. \A x \in S : g[x] \in Int
  OBVIOUS
<1>4. PICK h : TotalOver(f, S) = Total(h, n) /\ \A i \in 1..n : h[i] = f[list[i]] /\ h[i] \in Int
  BY <1>1, <1>2, TotalOverNumbers
<1>5. PICK j : TotalOver(g, S) = Total(j, n) /\ \A i \in 1..n : j[i] = g[list[i]] /\ j[i] \in Int
  BY <1>1, <1>2, <1>3, TotalOverNumbers
<1>6. n \in Nat /\ \A i \in 1..n : list[i] \in S
  BY <1>1, <1>2, Counted
<1>7. PICK k \in 1..n : \A i \in 1..n : list[i] = y <=> i = k
  BY <1>1, <1>2, Counted
<1>8. j[k] = h[k] + d /\ \A i \in 1..n : i # k => j[i] = h[i]
  BY <1>4, <1>5, <1>6, <1>7
<1>9. Total(j, n) = Total(h, n) + d
  BY <1>4, <1>6, <1>8, TotalChange
<1> QED
  BY <1>4, <1>5, <1>9

\* No value goes up, so the total does not.
THEOREM TotalOverMonotone ==
  ASSUME NEW S, IsFiniteSet(S), NEW f, \A x \in S : f[x] \in Int,
         NEW g, \A x \in S : g[x] \in Int /\ g[x] <= f[x]
  PROVE  TotalOver(g, S) <= TotalOver(f, S)
<1>1. PICK n : n = Cardinality(S)
  OBVIOUS
<1>2. PICK list : list = SetToSeq(S)
  OBVIOUS
<1>3. PICK h : TotalOver(f, S) = Total(h, n) /\ \A i \in 1..n : h[i] = f[list[i]] /\ h[i] \in Int
  BY <1>1, <1>2, TotalOverNumbers
<1>4. PICK j : TotalOver(g, S) = Total(j, n) /\ \A i \in 1..n : j[i] = g[list[i]] /\ j[i] \in Int
  BY <1>1, <1>2, TotalOverNumbers
<1>5. n \in Nat /\ \A i \in 1..n : list[i] \in S
  BY <1>1, <1>2, Counted
<1>6. \A i \in 1..n : j[i] <= h[i]
  BY <1>3, <1>4, <1>5
<1>7. Total(j, n) <= Total(h, n)
  BY <1>3, <1>4, <1>5, <1>6, TotalMonotone
<1> QED
  BY <1>3, <1>4, <1>7

\* Amounts handed out one after the other to members of a set: what each member
\* gets of them adds up to what was handed out.
THEOREM TotalByReceiver ==
  ASSUME NEW S, IsFiniteSet(S),
         NEW N \in Nat, NEW p, \A i \in 1..N : p[i] \in Int,
         NEW r, \A i \in 1..N : r[i] \in S,
         NEW g, \A x \in S : g[x] = Total([i \in 1..N |-> IF r[i] = x THEN p[i] ELSE 0], N)
  PROVE  TotalOver(g, S) = Total(p, N)
<1> DEFINE mine(x) == [i \in 1..N |-> IF r[i] = x THEN p[i] ELSE 0]
           got(n) == [x \in S |-> Total(mine(x), n)]
           A == {n \in 0..N : TotalOver(got(n), S) = Total(p, n)}
<1>1. ASSUME NEW x \in S
      PROVE  \A i \in 1..N : mine(x)[i] = (IF r[i] = x THEN p[i] ELSE 0) /\ mine(x)[i] \in Int
  OBVIOUS
<1>2. \A x \in S : g[x] = Total(mine(x), N)
  OBVIOUS
<1> HIDE DEF mine
<1>3. ASSUME NEW x \in S
      PROVE  /\ Total(mine(x), 0) = 0
             /\ \A n \in 0..N : Total(mine(x), n) \in Int
             /\ \A n \in 1..N : Total(mine(x), n) = Total(mine(x), n - 1) + mine(x)[n]
  <2>1. PICK f : f = mine(x)
    OBVIOUS
  <2>2. \A i \in 1..N : f[i] \in Int
    BY <1>1, <2>1
  <2> QED
    BY <2>1, <2>2, TotalRecursion
<1>4. 0 \in A
  <2>1. PICK f : f = got(0)
    OBVIOUS
  <2>2. \A x \in S : f[x] = 0
    BY <1>3, <2>1
  <2>3. TotalOver(f, S) = 0 /\ Total(p, 0) = 0
    BY <2>2, TotalOverZero, TotalRecursion
  <2> QED
    BY <2>1, <2>3
<1>5. ASSUME NEW n \in 0..N-1, n \in A
      PROVE  n + 1 \in A
  <2>1. PICK m : m = n + 1
    OBVIOUS
  <2>2. m \in 1..N /\ m \in 0..N /\ m - 1 = n /\ n \in 0..N
    BY <2>1
  <2>3. PICK f, h, y, d : f = got(n) /\ h = got(m) /\ y = r[m] /\ d = p[m]
    OBVIOUS
  <2>4. y \in S /\ d \in Int /\ \A x \in S : f[x] \in Int
    BY <1>3, <2>2, <2>3
  <2>5. \A x \in S : h[x] = f[x] + (IF x = y THEN d ELSE 0)
    BY <1>1, <1>3, <2>2, <2>3
  <2>6. h[y] = f[y] + d /\ \A x \in S : x # y => h[x] = f[x]
    BY <2>4, <2>5
  <2>7. TotalOver(h, S) = TotalOver(f, S) + d
    BY <2>4, <2>6, TotalOverChange
  <2>8. Total(p, m) = Total(p, n) + d
    BY <2>2, <2>3, TotalRecursion
  <2> QED
    BY <1>5, <2>1, <2>2, <2>3, <2>7, <2>8
<1> HIDE DEF A
<1>6. N \in A
  <2>1. \A n \in 0..N : n \in A
    BY <1>4, <1>5, SetInduction
  <2> QED
    BY <2>1
<1>7. TotalOver(got(N), S) = Total(p, N)
  BY <1>6 DEF A
<1>8. TotalOver(g, S) = TotalOver(got(N), S)
  <2>1. PICK f : f = got(N)
    OBVIOUS
  <2>2. \A x \in S : f[x] \in Int /\ g[x] = f[x]
    BY <1>2, <1>3, <2>1
  <2>3. /\ TotalOver(f, S) \in Int /\ TotalOver(g, S) \in Int
        /\ TotalOver(f, S) <= TotalOver(g, S) /\ TotalOver(g, S) <= TotalOver(f, S)
    BY <2>2, TotalOverMonotone, TotalOverType
  <2> QED
    BY <2>1, <2>3
<1> QED
  BY <1>7, <1>8

-----------------------------------------------------------------------------
(* Lists *)

\* ListsOnce in terms of positions.
LEMMA ListsOncePositions ==
  ASSUME NEW I, NEW s \in Seq(I), NEW S
  PROVE  ListsOnce(s, S) <=>
           /\ \A i, j \in 1..Len(s) : s[i] = s[j] => i = j
           /\ \A i \in 1..Len(s) : s[i] \in S
           /\ \A x \in S : \E i \in 1..Len(s) : s[i] = x
<1>1. DOMAIN s = 1..Len(s)
  OBVIOUS
<1> QED
  BY <1>1 DEF ListsOnce, IsInjective, Range

\* Ids that were not listed can be put at the end.
THEOREM ListsOnceConcat ==
  ASSUME NEW I, NEW s \in Seq(I), NEW S, ListsOnce(s, S),
         NEW t \in Seq(I), NEW T, ListsOnce(t, T), S \cap T = {}
  PROVE  s \o t \in Seq(I) /\ ListsOnce(s \o t, S \cup T)
<1>1. /\ s \o t \in Seq(I)
      /\ Len(s \o t) = Len(s) + Len(t)
      /\ \A i \in 1..Len(s) + Len(t) :
           (s \o t)[i] = IF i <= Len(s) THEN s[i] ELSE t[i - Len(s)]
  BY ConcatProperties
<1>2. /\ \A i, j \in 1..Len(s) : s[i] = s[j] => i = j
      /\ \A i \in 1..Len(s) : s[i] \in S
      /\ \A x \in S : \E i \in 1..Len(s) : s[i] = x
  BY ListsOncePositions
<1>3. /\ \A i, j \in 1..Len(t) : t[i] = t[j] => i = j
      /\ \A i \in 1..Len(t) : t[i] \in T
      /\ \A x \in T : \E i \in 1..Len(t) : t[i] = x
  BY ListsOncePositions
<1> DEFINE n == Len(s)
           m == Len(t)
           c == s \o t
<1>4. n \in Nat /\ m \in Nat
  OBVIOUS
<1>5. ASSUME NEW i \in 1..n + m, NEW j \in 1..n + m, c[i] = c[j]
      PROVE  i = j
  <2>1. CASE i <= n /\ j <= n
    BY <1>1, <1>2, <1>4, <1>5, <2>1
  <2>2. CASE i > n /\ j > n
    <3>1. i - n \in 1..m /\ j - n \in 1..m /\ t[i - n] = t[j - n]
      BY <1>1, <1>4, <1>5, <2>2
    <3> QED
      BY <1>3, <1>4, <3>1
  <2>3. CASE i <= n /\ j > n
    <3>1. s[i] \in S /\ t[j - n] \in T /\ s[i] = t[j - n]
      BY <1>1, <1>2, <1>3, <1>4, <1>5, <2>3
    <3> QED
      BY <3>1
  <2>4. CASE i > n /\ j <= n
    <3>1. s[j] \in S /\ t[i - n] \in T /\ s[j] = t[i - n]
      BY <1>1, <1>2, <1>3, <1>4, <1>5, <2>4
    <3> QED
      BY <3>1
  <2> QED
    BY <1>4, <2>1, <2>2, <2>3, <2>4
<1>6. ASSUME NEW i \in 1..n + m
      PROVE  c[i] \in S \cup T
  <2>1. i <= n => i \in 1..n
    BY <1>4
  <2>2. i > n => i - n \in 1..m
    BY <1>4
  <2> QED
    BY <1>1, <1>2, <1>3, <1>4, <2>1, <2>2
<1>7. ASSUME NEW x \in S \cup T
      PROVE  \E i \in 1..n + m : c[i] = x
  <2>1. CASE x \in S
    <3>1. PICK i \in 1..n : s[i] = x
      BY <1>2, <2>1
    <3> QED
      BY <1>1, <1>4, <3>1
  <2>2. CASE x \in T
    <3>1. PICK i \in 1..m : t[i] = x
      BY <1>3, <2>2
    <3>2. i + n \in 1..n + m /\ ~ (i + n <= n) /\ (i + n) - n = i
      BY <1>4
    <3> QED
      BY <1>1, <3>1, <3>2
  <2> QED
    BY <2>1, <2>2
<1>8. c \in Seq(I) /\ Len(c) = n + m
  BY <1>1
<1> HIDE DEF c, n, m
<1>9. ListsOnce(c, S \cup T)
  <2>1. DOMAIN c = 1..n + m
    BY <1>8
  <2> QED
    BY <1>5, <1>6, <1>7, <2>1 DEF ListsOnce, IsInjective, Range
<1> QED
  BY <1>8, <1>9 DEF c

\* One id that was not listed can be put at the end.
COROLLARY ListsOnceAppend ==
  ASSUME NEW I, NEW s \in Seq(I), NEW S, ListsOnce(s, S), NEW x \in I, x \notin S
  PROVE  Append(s, x) \in Seq(I) /\ ListsOnce(Append(s, x), S \cup {x})
<1>1. <<x>> \in Seq(I) /\ ListsOnce(<<x>>, {x})
  BY DEF ListsOnce, IsInjective, Range
<1>2. Append(s, x) = s \o <<x>>
  BY AppendIsConcat
<1>3. S \cap {x} = {}
  OBVIOUS
<1>4. s \o <<x>> \in Seq(I) /\ ListsOnce(s \o <<x>>, S \cup {x})
  BY <1>1, <1>3, ListsOnceConcat, Zenon
<1> QED
  BY <1>2, <1>4, Zenon

\* An id that is listed once is not listed once it is removed; the others are.
THEOREM ListsOnceRemove ==
  ASSUME NEW I, NEW s \in Seq(I), NEW S, ListsOnce(s, S), NEW x \in S
  PROVE  RemoveFirst(s, x) \in Seq(I) /\ ListsOnce(RemoveFirst(s, x), S \ {x})
<1>1. /\ \A i, j \in 1..Len(s) : s[i] = s[j] => i = j
      /\ \A i \in 1..Len(s) : s[i] \in S
      /\ \A y \in S : \E i \in 1..Len(s) : s[i] = y
  BY ListsOncePositions
<1>2. PICK k \in 1..Len(s) : s[k] = x
  BY <1>1
<1>3. RemoveFirst(s, x) = RemoveAt(s, k)
  <2>1. {j \in 1..Len(s) : s[j] = x} = {k}
    BY <1>1, <1>2
  <2>2. Min({k}) = k
    BY DEF Min
  <2>3. RemoveFirst(s, x) = RemoveAt(s, Min({j \in 1..Len(s) : s[j] = x}))
    BY <2>1, Zenon DEF RemoveFirst, SelectInSeq
  <2> QED
    BY <2>1, <2>2, <2>3
<1> DEFINE n == Len(s)
           r == RemoveAt(s, k)
<1>4. n \in Nat
  OBVIOUS
<1>5. /\ r \in Seq(I)
      /\ Len(r) = n - 1
      /\ \A i \in 1..n - 1 : r[i] = IF i < k THEN s[i] ELSE s[i + 1]
  <2> DEFINE a == SubSeq(s, 1, k - 1)
             b == SubSeq(s, k + 1, n)
  <2>1. /\ a \in Seq(I) /\ Len(a) = k - 1
        /\ \A i \in 1..k - 1 : a[i] = s[i]
    <3>1. 1 \in 1..n + 1 /\ k - 1 \in 0..n
      BY <1>4
    <3> QED
      BY <1>4, <3>1, SubSeqProperties
  <2>2. /\ b \in Seq(I) /\ Len(b) = n - k
        /\ \A i \in 1..n - k : b[i] = s[k + i]
    <3>1. k + 1 \in 1..n + 1 /\ n \in 0..n
      BY <1>4
    <3>2. \A i \in 1..n - k : (k + 1) + i - 1 = k + i
      BY <1>4
    <3> QED
      BY <1>4, <3>1, <3>2, SubSeqProperties
  <2> HIDE DEF a, b
  <2>3. /\ a \o b \in Seq(I)
        /\ Len(a \o b) = Len(a) + Len(b)
        /\ \A i \in 1..Len(a) + Len(b) :
             (a \o b)[i] = IF i <= Len(a) THEN a[i] ELSE b[i - Len(a)]
    BY <2>1, <2>2, ConcatProperties
  <2>4. r = a \o b
    BY DEF RemoveAt, a, b
  <2> HIDE DEF r
  <2>5. r \in Seq(I) /\ Len(r) = n - 1
    BY <1>4, <2>1, <2>2, <2>3, <2>4
  <2>6. ASSUME NEW i \in 1..n - 1
        PROVE  r[i] = IF i < k THEN s[i] ELSE s[i + 1]
    <3>1. i \in 1..Len(a) + Len(b)
      BY <1>4, <2>1, <2>2
    <3>2. r[i] = IF i <= Len(a) THEN a[i] ELSE b[i - Len(a)]
      BY <2>3, <2>4, <3>1
    <3>3. CASE i < k
      <4>1. i \in 1..k - 1
        BY <1>4, <3>3
      <4> QED
        BY <1>4, <2>1, <3>2, <3>3, <4>1
    <3>4. CASE i >= k
      <4>1. i - (k - 1) \in 1..n - k /\ k + (i - (k - 1)) = i + 1 /\ ~ (i <= k - 1)
        BY <1>4, <3>4
      <4>2. r[i] = b[i - (k - 1)]
        BY <2>1, <3>2, <4>1
      <4>3. b[i - (k - 1)] = s[k + (i - (k - 1))]
        BY <2>2, <4>1
      <4> QED
        BY <1>4, <3>4, <4>1, <4>2, <4>3
    <3> QED
      BY <1>4, <3>3, <3>4
  <2> QED
    BY <2>5, <2>6
<1> HIDE DEF r
<1> DEFINE from(i) == IF i < k THEN i ELSE i + 1
<1>6. ASSUME NEW i \in 1..n - 1
       PROVE  from(i) \in 1..n /\ from(i) # k /\ r[i] = s[from(i)]
  <2>1. from(i) \in 1..n /\ from(i) # k
    BY <1>4
  <2> QED
    BY <2>1, <1>5
<1>7. ASSUME NEW i \in 1..n - 1, NEW j \in 1..n - 1, r[i] = r[j]
      PROVE  i = j
  <2>1. from(i) = from(j)
    <3> HIDE DEF from
    <3> QED
      BY <1>1, <1>7, <1>6, SMTT(30)
  <2> QED
    BY <1>4, <2>1
<1>8. ASSUME NEW i \in 1..n - 1
      PROVE  r[i] \in S \ {x}
  <2> HIDE DEF from
  <2> QED
    BY <1>1, <1>2, <1>8, <1>6
<1>9. ASSUME NEW y \in S \ {x}
      PROVE  \E i \in 1..n - 1 : r[i] = y
  <2>1. PICK i \in 1..n : s[i] = y
    BY <1>1
  <2>2. i # k
    BY <1>2, <2>1
  <2>3. CASE i < k
    BY <1>4, <1>5, <2>1, <2>3
  <2>4. CASE i > k
    <3>1. i - 1 \in 1..n - 1 /\ ~ (i - 1 < k) /\ (i - 1) + 1 = i
      BY <1>4, <2>4
    <3> QED
      BY <1>5, <2>1, <3>1
  <2> QED
    BY <1>4, <2>2, <2>3, <2>4
<1>10. ListsOnce(r, S \ {x})
  <2> HIDE DEF n
  <2>1. DOMAIN r = 1..n - 1
    BY <1>5
  <2> QED
    BY <1>7, <1>8, <1>9, <2>1 DEF ListsOnce, IsInjective, Range
<1> QED
  BY <1>3, <1>5, <1>10 DEF r

-----------------------------------------------------------------------------
(* Leaving an id out *)

IsCopy(c, s, x, n) ==
  c = [i \in 0..n |-> IF i = 0 THEN <<>>
                      ELSE IF s[i] = x THEN c[i - 1] ELSE Append(c[i - 1], s[i])]

\* The copies that are made on the way exist, however long the list.
LEMMA CopyExists ==
  ASSUME NEW N \in Nat, NEW I, NEW s, \A i \in 1..N : s[i] \in I, NEW x
  PROVE  \E c \in [0..N -> Seq(I)] : IsCopy(c, s, x, N)
<1> DEFINE S == {n \in 0..N : \E c \in [0..n -> Seq(I)] : IsCopy(c, s, x, n)}
<1>1. 0 \in S
  <2> DEFINE c == [i \in 0..0 |-> <<>>]
  <2>1. c \in [0..0 -> Seq(I)] /\ IsCopy(c, s, x, 0)
    BY DEF IsCopy
  <2> QED
    BY <2>1
<1>2. ASSUME NEW n \in 0..N-1, n \in S
      PROVE  n + 1 \in S
  <2>1. PICK c \in [0..n -> Seq(I)] : IsCopy(c, s, x, n)
    BY <1>2
  <2>2. PICK last : last = IF s[n + 1] = x THEN c[n] ELSE Append(c[n], s[n + 1])
    OBVIOUS
  <2>3. last \in Seq(I)
    <3>1. s[n + 1] \in I /\ c[n] \in Seq(I)
      OBVIOUS
    <3> QED
      BY <2>2, <3>1
  <2> DEFINE t == [i \in 0..n+1 |-> IF i = n + 1 THEN last ELSE c[i]]
  <2>4. t \in [0..n+1 -> Seq(I)]
    BY <2>3
  <2>5. ASSUME NEW i \in 0..n+1
        PROVE  t[i] = IF i = 0 THEN <<>>
                      ELSE IF s[i] = x THEN t[i - 1] ELSE Append(t[i - 1], s[i])
    <3>1. CASE i = n + 1
      BY <2>2, <3>1
    <3>2. CASE i # n + 1
      <4>1. i \in 0..n
        BY <3>2
      <4>2. c[i] = IF i = 0 THEN <<>>
                   ELSE IF s[i] = x THEN c[i - 1] ELSE Append(c[i - 1], s[i])
        BY <4>1, <2>1 DEF IsCopy
      <4> QED
        BY <4>1, <4>2, <3>2
    <3> QED
      BY <3>1, <3>2
  <2>6. IsCopy(t, s, x, n + 1)
    BY <2>4, <2>5 DEF IsCopy
  <2> HIDE DEF t
  <2>7. \E k \in [0..n+1 -> Seq(I)] : IsCopy(k, s, x, n + 1)
    BY <2>4, <2>6
  <2> QED
    BY <2>7
<1> HIDE DEF S
<1>3. N \in S
  BY <1>1, <1>2, SetInduction
<1> QED
  BY <1>3 DEF S

\* Without is the last of them.
LEMMA WithoutCopies ==
  ASSUME NEW I, NEW s \in Seq(I), NEW x
  PROVE  \E c : IsCopy(c, s, x, Len(s)) /\ Without(s, x) = c[Len(s)]
<1> DEFINE c == CHOOSE k : IsCopy(k, s, x, Len(s))
<1>1. \E k : IsCopy(k, s, x, Len(s))
  <2>1. PICK n : n = Len(s)
    OBVIOUS
  <2>2. n \in Nat /\ \A i \in 1..n : s[i] \in I
    BY <2>1
  <2> QED
    BY <2>1, <2>2, CopyExists
<1>2. IsCopy(c, s, x, Len(s))
  BY <1>1
<1>3. Without(s, x) = c[Len(s)]
  BY DEF Without, IsCopy
<1> QED
  BY <1>2, <1>3

\* What the copy is after n ids: of the ids of I, and without x; an id that was
\* once among the first n is in it once, one that was there is in it, one that was
\* not is not.
CopyIs(c, s, x, n, I) ==
  /\ c[n] \in Seq(I)
  /\ ~Contains(c[n], x)
  /\ \A y : y # x =>
       /\ (\E k \in 1..n : \A i \in 1..n : s[i] = y <=> i = k) => Once(c[n], y)
       /\ (\E i \in 1..n : s[i] = y) => Contains(c[n], y)
       /\ (\A i \in 1..n : s[i] # y) => ~Contains(c[n], y)

\* An id is in a list with one more at the end if it was in the list or is that one.
LEMMA AppendContains ==
  ASSUME NEW I, NEW s \in Seq(I), NEW x \in I, NEW y
  PROVE  Contains(Append(s, x), y) <=> Contains(s, y) \/ y = x
<1>1. PICK t : t = Append(s, x)
  OBVIOUS
<1>2. /\ Len(t) = Len(s) + 1 /\ Len(s) \in Nat
      /\ \A i \in 1..Len(s) : t[i] = s[i]
      /\ t[Len(s) + 1] = x
  BY <1>1
<1>3. \A i \in 1..Len(t) : i \in 1..Len(s) \/ i = Len(s) + 1
  BY <1>2
<1>4. /\ \A i \in 1..Len(s) : i \in 1..Len(t)
      /\ Len(s) + 1 \in 1..Len(t)
  BY <1>2
<1> QED
  BY <1>1, <1>2, <1>3, <1>4, Zenon DEF Contains

\* An id at the end of a list that did not have it is there once.
LEMMA AppendOnce ==
  ASSUME NEW I, NEW s \in Seq(I), NEW x \in I
  PROVE  /\ Append(s, x) \in Seq(I)
         /\ \A y : Once(s, y) /\ y # x => Once(Append(s, x), y)
         /\ \A y : ~Contains(s, y) /\ y # x => ~Contains(Append(s, x), y)
         /\ ~Contains(s, x) => Once(Append(s, x), x)
<1>1. /\ Append(s, x) \in Seq(I) /\ Len(Append(s, x)) = Len(s) + 1 /\ Len(s) \in Nat
      /\ \A i \in 1..Len(s) : Append(s, x)[i] = s[i]
      /\ Append(s, x)[Len(s) + 1] = x
  OBVIOUS
<1>2. PICK t : t = Append(s, x)
  OBVIOUS
<1>3. ASSUME NEW y, Once(s, y), y # x
      PROVE  Once(t, y)
  <2>1. PICK k \in 1..Len(s) : \A i \in 1..Len(s) : s[i] = y <=> i = k
    BY <1>3 DEF Once
  <2>2. k \in 1..Len(t) /\ \A i \in 1..Len(t) : t[i] = y <=> i = k
    BY <1>1, <1>2, <1>3, <2>1
  <2> QED
    BY <2>2 DEF Once
<1>4. ASSUME NEW y, ~Contains(s, y), y # x
      PROVE  ~Contains(t, y)
  BY <1>1, <1>2, <1>4 DEF Contains
<1>5. ASSUME ~Contains(s, x)
      PROVE  Once(t, x)
  <2>1. Len(s) + 1 \in 1..Len(t) /\ \A i \in 1..Len(t) : t[i] = x <=> i = Len(s) + 1
    BY <1>1, <1>2, <1>5 DEF Contains
  <2> QED
    BY <2>1 DEF Once
<1> QED
  BY <1>1, <1>2, <1>3, <1>4, <1>5

\* A list without x has x nowhere and the other ids where they were: the one that
\* was there, or there once, still is, and no id comes in.
THEOREM WithoutLeaves ==
  ASSUME NEW I, NEW s \in Seq(I), NEW x
  PROVE  /\ Without(s, x) \in Seq(I)
         /\ ~Contains(Without(s, x), x)
         /\ \A y : Once(s, y) /\ y # x => Once(Without(s, x), y)
         /\ \A y : Contains(s, y) /\ y # x => Contains(Without(s, x), y)
         /\ \A y : ~Contains(s, y) => ~Contains(Without(s, x), y)
<1>1. PICK c : IsCopy(c, s, x, Len(s)) /\ Without(s, x) = c[Len(s)]
  BY WithoutCopies
<1>2. Len(s) \in Nat /\ \A i \in 1..Len(s) : s[i] \in I
  OBVIOUS
<1> DEFINE S == {n \in 0..Len(s) : CopyIs(c, s, x, n, I)}
<1>3. 0 \in S
  <2>1. c[0] = <<>>
    BY <1>1, <1>2 DEF IsCopy
  <2>2. c[0] \in Seq(I) /\ \A y : ~Contains(c[0], y)
    BY <2>1 DEF Contains
  <2>3. 1..0 = {}
    OBVIOUS
  <2> QED
    BY <1>2, <2>2, <2>3 DEF CopyIs
<1>4. ASSUME NEW n \in 0..Len(s)-1, n \in S
      PROVE  n + 1 \in S
  <2>1. CopyIs(c, s, x, n, I)
    BY <1>4
  <2>2. c[n + 1] = IF s[n + 1] = x THEN c[n] ELSE Append(c[n], s[n + 1])
    <3>1. n + 1 \in 0..Len(s) /\ n + 1 # 0 /\ (n + 1) - 1 = n
      BY <1>2
    <3> QED
      BY <1>1, <3>1 DEF IsCopy
  <2>3. s[n + 1] \in I /\ n \in Nat
    BY <1>2
  <2>4. ASSUME NEW y, y # s[n + 1], NEW k \in 1..n+1, \A i \in 1..n+1 : s[i] = y <=> i = k
        PROVE  \E j \in 1..n : \A i \in 1..n : s[i] = y <=> i = j
    <3>1. k # n + 1
      <4>1. s[k] = y
        BY <2>4
      <4> QED
        BY <2>4, <4>1
    <3>2. k \in 1..n /\ \A i \in 1..n : i \in 1..n+1
      BY <2>3, <3>1
    <3> QED
      BY <2>4, <3>2
  <2>5. CASE s[n + 1] = x
    <3>1. c[n + 1] = c[n]
      BY <2>2, <2>5
    <3>2. ASSUME NEW y, y # x, \E k \in 1..n+1 : \A i \in 1..n+1 : s[i] = y <=> i = k
          PROVE  Once(c[n + 1], y)
      BY <2>1, <2>4, <2>5, <3>1, <3>2 DEF CopyIs
    <3>3. ASSUME NEW y, y # x, \A i \in 1..n+1 : s[i] # y
          PROVE  ~Contains(c[n + 1], y)
      <4>1. \A i \in 1..n : s[i] # y
        BY <2>3, <3>3
      <4> QED
        BY <2>1, <3>1, <3>3, <4>1 DEF CopyIs
    <3>4. c[n + 1] \in Seq(I) /\ ~Contains(c[n + 1], x)
      BY <2>1, <3>1 DEF CopyIs
    <3>5. ASSUME NEW y, y # x, NEW k \in 1..n+1, s[k] = y
          PROVE  Contains(c[n + 1], y)
      <4>1. k \in 1..n
        BY <2>3, <2>5, <3>5
      <4> QED
        BY <2>1, <3>1, <3>5, <4>1 DEF CopyIs
    <3>6. CopyIs(c, s, x, n + 1, I)
      BY <3>2, <3>3, <3>4, <3>5 DEF CopyIs
    <3> QED
      BY <3>6
  <2>6. CASE s[n + 1] # x
    <3>1. c[n + 1] = Append(c[n], s[n + 1]) /\ c[n] \in Seq(I)
      BY <2>1, <2>2, <2>6 DEF CopyIs
    <3>2. /\ c[n + 1] \in Seq(I)
          /\ \A y : Once(c[n], y) /\ y # s[n + 1] => Once(c[n + 1], y)
          /\ \A y : ~Contains(c[n], y) /\ y # s[n + 1] => ~Contains(c[n + 1], y)
          /\ ~Contains(c[n], s[n + 1]) => Once(c[n + 1], s[n + 1])
      BY <2>3, <3>1, AppendOnce
    <3>3. ASSUME NEW y, y # x, NEW k \in 1..n+1, \A i \in 1..n+1 : s[i] = y <=> i = k
          PROVE  Once(c[n + 1], y)
      <4>1. CASE y = s[n + 1]
        <5>1. k = n + 1
          <6>1. n + 1 \in 1..n+1
            BY <2>3
          <6> QED
            BY <3>3, <4>1, <6>1
        <5>2. \A i \in 1..n : s[i] # y
          BY <2>3, <3>3, <5>1
        <5> QED
          BY <2>1, <3>2, <3>3, <4>1, <5>2 DEF CopyIs
      <4>2. CASE y # s[n + 1]
        BY <2>1, <2>4, <3>2, <3>3, <4>2, ZenonT(30) DEF CopyIs
      <4> QED
        BY <4>1, <4>2
    <3>4. ASSUME NEW y, y # x, \A i \in 1..n+1 : s[i] # y
          PROVE  ~Contains(c[n + 1], y)
      <4>1. (\A i \in 1..n : s[i] # y) /\ y # s[n + 1]
        BY <2>3, <3>4
      <4> QED
        BY <2>1, <3>2, <3>4, <4>1 DEF CopyIs
    <3>5. ~Contains(c[n + 1], x)
      BY <2>1, <2>6, <3>2 DEF CopyIs
    <3>6. ASSUME NEW y, y # x, NEW k \in 1..n+1, s[k] = y
          PROVE  Contains(c[n + 1], y)
      <4>1. Contains(c[n], y) \/ y = s[n + 1]
        <5>1. k \in 1..n \/ k = n + 1
          BY <2>3, <3>6
        <5> QED
          BY <2>1, <3>6, <5>1 DEF CopyIs
      <4>2. Contains(Append(c[n], s[n + 1]), y)
        BY <2>3, <3>1, <4>1, AppendContains
      <4> QED
        BY <3>1, <4>2
    <3>7. CopyIs(c, s, x, n + 1, I)
      BY <3>2, <3>3, <3>4, <3>5, <3>6 DEF CopyIs
    <3> QED
      BY <3>7
  <2> QED
    BY <2>5, <2>6
<1> HIDE DEF S
<1>5. Len(s) \in S
  <2>1. PICK n : n = Len(s)
    OBVIOUS
  <2>2. n \in Nat /\ n \in 0..n /\ \A m \in 0..n-1 : m \in S => m + 1 \in S
    BY <1>2, <1>4, <2>1
  <2>3. \A m \in 0..n : m \in S
    BY <1>3, <2>2, SetInduction
  <2> QED
    BY <2>1, <2>2, <2>3
<1>6. CopyIs(c, s, x, Len(s), I)
  BY <1>5 DEF S
<1>7. PICK w : w = Without(s, x)
  OBVIOUS
<1>8. w = c[Len(s)]
  BY <1>1, <1>7
<1>9. w \in Seq(I) /\ ~Contains(w, x)
  BY <1>6, <1>8 DEF CopyIs
<1>10. ASSUME NEW y, Once(s, y), y # x
       PROVE  Once(w, y)
  <2>1. \E k \in 1..Len(s) : \A i \in 1..Len(s) : s[i] = y <=> i = k
    BY <1>10 DEF Once
  <2> QED
    BY <1>6, <1>8, <1>10, <2>1 DEF CopyIs
<1>11. ASSUME NEW y, ~Contains(s, y)
       PROVE  ~Contains(w, y)
  <2>1. \A i \in 1..Len(s) : s[i] # y
    BY <1>11 DEF Contains
  <2> QED
    BY <1>6, <1>8, <1>9, <2>1 DEF CopyIs
<1>12. ASSUME NEW y, Contains(s, y), y # x
       PROVE  Contains(w, y)
  <2>1. \E i \in 1..Len(s) : s[i] = y
    BY <1>12 DEF Contains
  <2> QED
    BY <1>6, <1>8, <1>12, <2>1 DEF CopyIs
<1> QED
  BY <1>7, <1>9, <1>10, <1>11, <1>12

-----------------------------------------------------------------------------
(* Products *)

\* One more of p, and at least as many as there are.
LEMMA Multiples ==
  ASSUME NEW k \in Nat, NEW p \in Nat \ {0}
  PROVE  /\ k * p \in Nat /\ k * p >= k
         /\ k # 0 => (k - 1) * p \in Nat /\ k * p = (k - 1) * p + p
<1>1. p - 1 \in Nat /\ p = (p - 1) + 1
  OBVIOUS
<1>2. k * ((p - 1) + 1) = k * (p - 1) + k
  BY <1>1
<1>3. k * (p - 1) \in Nat
  BY <1>1
<1>4. k * p \in Nat /\ k * p >= k
  BY <1>1, <1>2, <1>3
<1>5. k # 0 => (k - 1) * p \in Nat /\ k * p = (k - 1) * p + p
  OBVIOUS
<1> QED
  BY <1>4, <1>5

-----------------------------------------------------------------------------
(* Lists one after the other *)

\* A list is its front and its last element.
LEMMA AppendLast ==
  ASSUME NEW k \in Nat \ {0}, NEW I, NEW long \in [1..k -> I]
  PROVE  Append([i \in 1..k - 1 |-> long[i]], long[k]) = long
<1> DEFINE short == [i \in 1..k - 1 |-> long[i]]
<1>1. short \in Seq(I) /\ Len(short) = k - 1 /\ long[k] \in I
  <2>1. k - 1 \in Nat /\ short \in [1..k - 1 -> I]
    OBVIOUS
  <2> HIDE DEF short
  <2> QED
    BY <2>1
<1>2. \A i \in 1..k - 1 : short[i] = long[i]
  OBVIOUS
<1> HIDE DEF short
<1>3. PICK t : t = Append(short, long[k])
  OBVIOUS
<1>4. /\ t \in Seq(I) /\ Len(t) = k
      /\ \A i \in 1..k - 1 : t[i] = short[i]
      /\ t[k] = long[k]
  BY <1>1, <1>3
<1>5. t \in [1..k -> I]
  BY <1>4
<1>6. \A i \in 1..k : t[i] = long[i]
  BY <1>2, <1>4
<1>7. t = long
  BY <1>5, <1>6
<1> QED
  BY <1>3, <1>7 DEF short

\* A list is what it has up to a place, and then what it has from there on.
LEMMA ConcatParts ==
  ASSUME NEW a \in Nat, NEW b \in Nat, a <= b, NEW I, NEW long \in [1..b -> I]
  PROVE  [i \in 1..a |-> long[i]] \o [i \in 1..b - a |-> long[a + i]] = long
<1> DEFINE s == [i \in 1..a |-> long[i]]
           t == [i \in 1..b - a |-> long[a + i]]
<1>1. s \in Seq(I) /\ Len(s) = a
  <2>1. s \in [1..a -> I]
    OBVIOUS
  <2> HIDE DEF s
  <2> QED
    BY <2>1
<1>2. t \in Seq(I) /\ Len(t) = b - a
  <2>1. b - a \in Nat /\ \A i \in 1..b - a : a + i \in 1..b
    OBVIOUS
  <2>2. t \in [1..b - a -> I]
    BY <2>1
  <2> HIDE DEF t
  <2> QED
    BY <2>1, <2>2
<1>3. (\A i \in 1..a : s[i] = long[i]) /\ (\A i \in 1..b - a : t[i] = long[a + i])
  OBVIOUS
<1> HIDE DEF s, t
<1>4. PICK c : c = s \o t
  OBVIOUS
<1>5. /\ c \in Seq(I) /\ Len(c) = b
      /\ \A i \in 1..b : c[i] = IF i <= a THEN s[i] ELSE t[i - a]
  <2>1. /\ c \in Seq(I) /\ Len(c) = Len(s) + Len(t)
        /\ \A i \in 1..Len(s) + Len(t) : c[i] = IF i <= Len(s) THEN s[i] ELSE t[i - Len(s)]
    BY <1>1, <1>2, <1>4, ConcatProperties
  <2>2. Len(s) + Len(t) = b
    BY <1>1, <1>2
  <2> QED
    BY <1>1, <2>1, <2>2
<1>6. c \in [1..b -> I]
  BY <1>5
<1>7. ASSUME NEW i \in 1..b PROVE c[i] = long[i]
  <2>1. CASE i <= a
    BY <1>3, <1>5, <2>1
  <2>2. CASE ~(i <= a)
    <3>1. i - a \in 1..b - a /\ a + (i - a) = i
      BY <2>2
    <3>2. c[i] = t[i - a] /\ t[i - a] = long[a + (i - a)]
      BY <1>3, <1>5, <2>2, <3>1
    <3> QED
      BY <3>1, <3>2
  <2> QED
    BY <2>1, <2>2
<1>8. c = long
  BY <1>6, <1>7
<1> QED
  BY <1>4, <1>8 DEF s, t

\* h[k] is the first k of n parts, one after the other.
Accumulates(h, parts, n) ==
  /\ DOMAIN parts = 1..n /\ Len(parts) = n
  /\ h[1] = parts[1]
  /\ \A k \in 2..n : h[k] = h[k - 1] \o parts[k]

\* A list that grows by one part after the other is, at the end, all the parts.
THEOREM FlattenSteps ==
  ASSUME NEW n \in Nat \ {0}, NEW parts, NEW h, Accumulates(h, parts, n)
  PROVE  FlattenSeq(parts) = h[n]
<1> USE DEF Accumulates
<1> DEFINE Steps(f) == f = [k \in 1..n |-> IF k = 1 THEN parts[k] ELSE f[k - 1] \o parts[k]]
           flat == CHOOSE f : Steps(f)
           S == {k \in 0..n : k = 0 \/ flat[k] = h[k]}
<1>1. FlattenSeq(parts) = flat[n]
  BY DEF FlattenSeq
<1>2. Steps([k \in 1..n |-> h[k]])
  <2> DEFINE g == [k \in 1..n |-> h[k]]
  <2>1. ASSUME NEW k \in 1..n
        PROVE  g[k] = IF k = 1 THEN parts[k] ELSE g[k - 1] \o parts[k]
    <3>1. CASE k = 1
      BY <3>1
    <3>2. CASE k # 1
      <4>1. k \in 2..n /\ k - 1 \in 1..n
        BY <3>2
      <4> QED
        BY <3>2, <4>1
    <3> QED
      BY <3>1, <3>2
  <2> QED
    BY <2>1
<1>3. Steps(flat)
  <2> HIDE DEF Steps
  <2> QED
    BY <1>2
<1> HIDE DEF flat
<1>4. ASSUME NEW k \in 0..n-1, k \in S
      PROVE  k + 1 \in S
  <2>1. k + 1 \in 1..n /\ (k + 1) - 1 = k
    OBVIOUS
  <2>2. flat[k + 1] = IF k + 1 = 1 THEN parts[k + 1] ELSE flat[k] \o parts[k + 1]
    BY <1>3, <2>1
  <2>3. CASE k = 0
    BY <2>1, <2>2, <2>3
  <2>4. CASE k # 0
    <3>1. flat[k] = h[k] /\ k + 1 \in 2..n
      BY <1>4, <2>4
    <3>2. h[k + 1] = h[k] \o parts[k + 1]
      BY <2>1, <3>1
    <3>3. flat[k + 1] = flat[k] \o parts[k + 1]
      <4>1. k + 1 # 1
        BY <2>4
      <4> QED
        BY <2>2, <4>1, Zenon
    <3>4. flat[k + 1] = h[k + 1]
      BY <3>1, <3>2, <3>3
    <3> QED
      BY <2>1, <3>4
  <2> QED
    BY <2>3, <2>4
<1>5. 0 \in S
  OBVIOUS
<1> HIDE DEF S
<1>6. \A k \in 0..n : k \in S
  BY <1>4, <1>5, SetInduction
<1>7. n \in 0..n /\ n # 0
  OBVIOUS
<1> QED
  BY <1>1, <1>6, <1>7 DEF S

=============================================================================
