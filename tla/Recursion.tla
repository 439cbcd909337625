------------------------------ MODULE Recursion ------------------------------
(***************************************************************************)
(* Induction and recursion along the naturals, for the recursive functions *)
(* of the models. The library proves facts about them from induction       *)
(* theorems that take a predicate, which the provers cannot instantiate;   *)
(* what is needed is derived here over sets, from the minimality theorem   *)
(* of well-founded relations.                                              *)
(***************************************************************************)
EXTENDS Integers, WellFoundedInduction, TLAPS

(* A set of naturals that is not empty has a least element (the library's  *)
(* induction theorems take an operator and cannot be used; its minimality  *)
(* theorem takes a set).                                                   *)
LEMMA LeastNat ==
  ASSUME NEW T, T \subseteq Nat, T # {}
  PROVE  \E n \in T : \A k \in T : n <= k
<1> DEFINE R == OpToRel(<, Nat)
<1>1. IsWellFoundedOn(R, Nat)
  BY NatLessThanWellFounded
<1>2. \A x, y \in Nat : x < y => <<x, y>> \in R
  <2> TAKE x, y \in Nat
  <2> HAVE x < y
  <2> DEFINE ss == <<x, y>>
  <2>1. ss \in Nat \X Nat /\ ss[1] < ss[2]
    OBVIOUS
  <2> HIDE DEF ss
  <2>2. ss \in R
    BY <2>1, Zenon DEF OpToRel
  <2> QED BY <2>2 DEF ss
<1> HIDE DEF R
<1>3. PICK x \in T : \A y \in T : ~(<<y, x>> \in R)
  BY <1>1, WFMin
<1>4. \A y \in T : ~(y < x)
  BY <1>2, <1>3
<1> QED BY <1>4

(* Induction, over a set instead of a predicate.                           *)
LEMMA SetInduction ==
  ASSUME NEW S, 0 \in S, \A n \in Nat : n \in S => n + 1 \in S
  PROVE  Nat \subseteq S
<1> DEFINE T == Nat \ S
<1> SUFFICES ASSUME T # {} PROVE FALSE
  OBVIOUS
<1>1. PICK n \in T : \A k \in T : n <= k
  <2> T \subseteq Nat
    OBVIOUS
  <2> HIDE DEF T
  <2> QED BY LeastNat
<1>2. n \in Nat /\ n # 0
  BY <1>1
<1>3. n - 1 \in Nat /\ n - 1 \notin T
  BY <1>1, <1>2
<1>4. (n - 1) + 1 \in S
  BY <1>3
<1> QED BY <1>2, <1>4

(* A bounded set of naturals that is not empty has a greatest element.     *)
LEMMA GreatestNat ==
  ASSUME NEW T, T \subseteq Nat, T # {}, NEW m \in Nat, \A k \in T : k <= m
  PROVE  \E n \in T : \A k \in T : k <= n
<1> DEFINE U == {m - k : k \in T}
<1>1. U \subseteq Nat /\ U # {}
  <2>1. ASSUME NEW k \in T PROVE m - k \in Nat
    <3>1. k \in Nat /\ k <= m
      OBVIOUS
    <3> QED BY <3>1
  <2> QED BY <2>1
<1>2. PICK u \in U : \A v \in U : u <= v
  <2> HIDE DEF U
  <2> QED BY <1>1, LeastNat
<1>3. PICK n \in T : u = m - n
  BY <1>2
<1>4. ASSUME NEW k \in T PROVE k <= n
  <2>1. m - k \in U
    OBVIOUS
  <2> QED BY <1>2, <1>3, <2>1
<1> QED BY <1>3, <1>4

StaysIn(g, X) == \A x \in X, i \in Nat : g[<<x, i>>] \in X
Iterate(f, x0, g, n) == f[0] = x0 /\ \A i \in 1 .. n : f[i] = g[<<f[i - 1], i>>]

(* What a definition by recursion along 0 .. n computes: it starts as it   *)
(* says and takes the step it says.                                        *)
LEMMA Iterates ==
  ASSUME NEW X, NEW x0 \in X, NEW g, StaysIn(g, X), NEW n \in Nat
  PROVE  \E f \in [0 .. n -> X] : Iterate(f, x0, g, n)
<1>0. \A x \in X, i \in Nat : g[<<x, i>>] \in X
  BY DEF StaysIn
<1> DEFINE Good(f, k) == /\ f \in [0 .. k -> X]
                         /\ f[0] = x0
                         /\ \A i \in 1 .. k : f[i] = g[<<f[i - 1], i>>]
           S == {k \in Nat : \E f : Good(f, k)}
<1>1. 0 \in S
  <2>1. Good([i \in 0 .. 0 |-> x0], 0)
    OBVIOUS
  <2> QED BY <2>1
<1>2. ASSUME NEW k \in Nat, k \in S PROVE k + 1 \in S
  <2>1. PICK f : Good(f, k)
    BY <1>2
  <2> DEFINE h == [i \in 0 .. k + 1 |-> IF i <= k THEN f[i] ELSE g[<<f[k], k + 1>>]]
  <2>2. h \in [0 .. k + 1 -> X]
    BY <1>0, <2>1
  <2>3. h[0] = x0
    BY <2>1
  <2>4. ASSUME NEW i \in 1 .. k + 1 PROVE h[i] = g[<<h[i - 1], i>>]
    <3>1. h[i - 1] = f[i - 1]
      OBVIOUS
    <3>2. CASE i <= k
      BY <2>1, <3>1, <3>2
    <3>3. CASE i = k + 1
      <4>1. h[i] = g[<<f[k], k + 1>>] /\ i - 1 = k
        BY <3>3
      <4> HIDE DEF h
      <4> QED BY <3>1, <3>3, <4>1
    <3> QED BY <3>2, <3>3
  <2> HIDE DEF h
  <2>5. Good(h, k + 1)
    BY <2>2, <2>3, <2>4
  <2> QED BY <2>5
<1> HIDE DEF S
<1>3. n \in S
  BY <1>1, <1>2, SetInduction
<1>4. PICK f : Good(f, n)
  BY <1>3 DEF S
<1> QED BY <1>4 DEF Iterate

(* What a definition by recursion from n down computes, each place from    *)
(* those above it.                                                         *)
DescendsIn(g, X, n) ==
  /\ \A h \in [1 .. n -> X], i \in 1 .. n : g[<<h, i>>] \in X
  /\ \A h, k \in [1 .. n -> X], i \in 1 .. n :
       (\A j \in i + 1 .. n : h[j] = k[j]) => g[<<h, i>>] = g[<<k, i>>]

(* There is a function with every place from those above it.               *)
LEMMA Descends ==
  ASSUME NEW X, NEW x0 \in X, NEW g, NEW n \in Nat, DescendsIn(g, X, n)
  PROVE  \E f \in [1 .. n -> X] : \A i \in 1 .. n : f[i] = g[<<f, i>>]
<1> DEFINE Good(f, k) == /\ f \in [1 .. n -> X]
                         /\ \A i \in 1 .. n : i > n - k => f[i] = g[<<f, i>>]
           S == {k \in Nat : k <= n => \E f : Good(f, k)}
<1>1. 0 \in S
  <2>1. Good([i \in 1 .. n |-> x0], 0)
    OBVIOUS
  <2> QED BY <2>1
<1>2. ASSUME NEW k \in Nat, k \in S PROVE k + 1 \in S
  <2> SUFFICES ASSUME k + 1 <= n PROVE \E f : Good(f, k + 1)
    OBVIOUS
  <2>1. PICK f : Good(f, k)
    BY <1>2
  <2> DEFINE h == [f EXCEPT ![n - k] = g[<<f, n - k>>]]
  <2>2. n - k \in 1 .. n /\ f \in [1 .. n -> X]
    BY <2>1
  <2>3. g[<<f, n - k>>] \in X
    BY <2>2 DEF DescendsIn
  <2>4. /\ h \in [1 .. n -> X] /\ h[n - k] = g[<<f, n - k>>]
        /\ \A j \in 1 .. n : j # n - k => h[j] = f[j]
    BY <2>2, <2>3
  <2> HIDE DEF h
  <2>5. ASSUME NEW i \in 1 .. n, i > n - (k + 1) PROVE h[i] = g[<<h, i>>]
    <3>1. \A j \in i + 1 .. n : h[j] = f[j]
      BY <2>4, <2>5
    <3>2. g[<<h, i>>] = g[<<f, i>>]
      BY <2>2, <2>4, <3>1 DEF DescendsIn
    <3>3. CASE i = n - k
      BY <2>4, <3>2, <3>3
    <3>4. CASE i # n - k
      <4>1. i > n - k
        BY <2>5, <3>4
      <4> QED BY <2>1, <2>4, <3>2, <3>4, <4>1
    <3> QED BY <3>3, <3>4
  <2> QED BY <2>4, <2>5
<1> HIDE DEF S
<1>3. n \in S
  BY <1>1, <1>2, SetInduction
<1>4. PICK f : Good(f, n)
  BY <1>3 DEF S
<1> QED BY <1>4

(* Recursion along a rank: g gives the value at t from the values at the   *)
(* elements of lower rank, and what holds of a value (that it is in good)  *)
(* follows from what holds of those.                                       *)
Lower(rank, T, t) == {u \in T : rank[u] < rank[t]}
Agree(h, k, S) == \A u \in S : h[u] = k[u]
ByRank(T, X, rank, g, good) ==
  /\ X # {} /\ rank \in [T -> Nat] /\ \A t \in T : good[t] \subseteq X
  /\ \A h, k \in [T -> X], t \in T :
       Agree(h, k, Lower(rank, T, t)) => g[<<h, t>>] = g[<<k, t>>]
  /\ \A h \in [T -> X], t \in T :
       (\A u \in Lower(rank, T, t) : h[u] \in good[u]) => g[<<h, t>>] \in good[t]

(* There is a function that takes each value from those of lower rank, and *)
(* its values are good.                                                    *)
LEMMA RankRecursion ==
  ASSUME NEW T, NEW X, NEW rank, NEW g, NEW good, ByRank(T, X, rank, g, good)
  PROVE  \E f \in [T -> X] : \A t \in T : f[t] = g[<<f, t>>] /\ f[t] \in good[t]
<1>0. rank \in [T -> Nat] /\ \A t \in T : good[t] \subseteq X
  BY DEF ByRank
<1> PICK x0 \in X : TRUE
  BY DEF ByRank
<1> USE <1>0
<1> DEFINE Good(f, k) == /\ f \in [T -> X]
                         /\ \A t \in T : rank[t] < k => f[t] = g[<<f, t>>] /\ f[t] \in good[t]
           S == {k \in Nat : \E f : Good(f, k)}
<1>1. 0 \in S
  <2>1. Good([t \in T |-> x0], 0)
    OBVIOUS
  <2> QED BY <2>1
<1>2. ASSUME NEW k \in Nat, k \in S PROVE k + 1 \in S
  <2>1. PICK f : Good(f, k)
    BY <1>2
  <2> DEFINE h == [t \in T |-> IF rank[t] = k THEN g[<<f, t>>] ELSE f[t]]
  <2>2. ASSUME NEW t \in T, rank[t] = k PROVE g[<<f, t>>] \in good[t]
    <3>1. \A u \in Lower(rank, T, t) : f[u] \in good[u]
      BY <2>1, <2>2 DEF Lower
    <3> QED BY <2>1, <3>1 DEF ByRank
  <2>3. h \in [T -> X]
    <3>1. ASSUME NEW t \in T PROVE (IF rank[t] = k THEN g[<<f, t>>] ELSE f[t]) \in X
      <4>1. good[t] \subseteq X /\ f[t] \in X
        BY <2>1
      <4> QED BY <2>2, <4>1
    <3> QED BY <3>1
  <2>4. ASSUME NEW t \in T, rank[t] < k + 1 PROVE h[t] = g[<<h, t>>] /\ h[t] \in good[t]
    <3>1. Agree(h, f, Lower(rank, T, t))
      BY <2>4 DEF Agree, Lower
    <3>2. g[<<h, t>>] = g[<<f, t>>]
      <4> HIDE DEF h
      <4> QED BY <2>1, <2>3, <3>1 DEF ByRank
    <3>3. CASE rank[t] = k
      BY <2>2, <3>2, <3>3
    <3>4. CASE rank[t] # k
      <4>1. rank[t] < k
        BY <2>4, <3>4
      <4>2. h[t] = f[t]
        BY <3>4
      <4> QED BY <2>1, <3>2, <4>1, <4>2
    <3> QED BY <3>3, <3>4
  <2> HIDE DEF h
  <2>5. Good(h, k + 1)
    BY <2>3, <2>4
  <2> QED BY <2>5
<1>3. \A k \in Nat : \E f : Good(f, k)
  <2> HIDE DEF S
  <2>1. Nat \subseteq S
    BY <1>1, <1>2, SetInduction
  <2> QED BY <2>1 DEF S
<1> DEFINE F(k) == CHOOSE f : Good(f, k)
<1>4. \A k \in Nat : Good(F(k), k)
  <2> HIDE DEF Good
  <2> QED BY <1>3
(* Two of them agree as far as both are good.                              *)
<1>5. ASSUME NEW k \in Nat, NEW l \in Nat, NEW t \in T, rank[t] < k, rank[t] < l
      PROVE  F(k)[t] = F(l)[t]
  <2> DEFINE ff == F(k)
             hh == F(l)
             B == {u \in T : rank[u] < k /\ rank[u] < l /\ ff[u] # hh[u]}
  <2>1. Good(ff, k) /\ Good(hh, l)
    BY <1>4
  <2> HIDE DEF F, ff, hh
  <2>2. ASSUME t \in B PROVE FALSE
    <3>1. PICK r \in {rank[u] : u \in B} : \A n \in {rank[u] : u \in B} : r <= n
      <4>1. {rank[u] : u \in B} \subseteq Nat /\ {rank[u] : u \in B} # {}
        BY <2>2
      <4> HIDE DEF B
      <4> QED BY <4>1, LeastNat
    <3>2. PICK u \in B : rank[u] = r
      BY <3>1
    <3>3. Agree(ff, hh, Lower(rank, T, u))
      <4> SUFFICES ASSUME NEW w \in Lower(rank, T, u) PROVE ff[w] = hh[w]
        BY DEF Agree
      <4>1. w \in T /\ rank[w] < rank[u]
        BY DEF Lower
      <4>2. u \in T /\ rank[u] < k /\ rank[u] < l
        BY <3>2
      <4>3. rank[w] < k /\ rank[w] < l
        BY <4>1, <4>2
      <4>4. CASE w \in B
        BY <3>1, <3>2, <4>1, <4>2, <4>4
      <4> QED BY <4>1, <4>3, <4>4
    <3>4. g[<<ff, u>>] = g[<<hh, u>>]
      BY <2>1, <3>2, <3>3 DEF ByRank
    <3>5. ff[u] = g[<<ff, u>>] /\ hh[u] = g[<<hh, u>>]
      BY <2>1, <3>2
    <3>6. ff[u] # hh[u]
      BY <3>2
    <3> QED BY <3>4, <3>5, <3>6
  <2> QED BY <1>5, <2>2 DEF ff, hh
<1> DEFINE f == [t \in T |-> F(rank[t] + 1)[t]]
<1>6. f \in [T -> X]
  <2>1. ASSUME NEW t \in T PROVE F(rank[t] + 1)[t] \in X
    <3>1. rank[t] + 1 \in Nat
      OBVIOUS
    <3>2. Good(F(rank[t] + 1), rank[t] + 1)
      BY <1>4, <3>1
    <3> HIDE DEF F
    <3> QED BY <3>2
  <2> HIDE DEF F
  <2> QED BY <2>1
<1>7. ASSUME NEW t \in T PROVE f[t] = g[<<f, t>>] /\ f[t] \in good[t]
  <2> DEFINE n == rank[t] + 1
             ff == F(n)
  <2>1. n \in Nat /\ rank[t] < n
    OBVIOUS
  <2>2. Good(ff, n)
    BY <1>4, <2>1
  <2>3. \A u \in Lower(rank, T, t) : f[u] = ff[u]
    <3> TAKE u \in Lower(rank, T, t)
    <3>1. u \in T /\ rank[u] < rank[t]
      BY DEF Lower
    <3>2. rank[u] + 1 \in Nat /\ rank[u] < rank[u] + 1 /\ rank[u] < n
      BY <3>1
    <3>3. F(rank[u] + 1)[u] = F(n)[u]
      <4> HIDE DEF F, n
      <4> QED BY <1>5, <2>1, <3>1, <3>2
    <3> HIDE DEF F
    <3> QED BY <3>1, <3>3
  <2>4. f[t] = ff[t]
    <3> HIDE DEF F
    <3> QED OBVIOUS
  <2> HIDE DEF f, ff, n, F
  <2>5. Agree(f, ff, Lower(rank, T, t))
    BY <2>3 DEF Agree
  <2>6. g[<<f, t>>] = g[<<ff, t>>]
    BY <1>6, <2>2, <2>5 DEF ByRank
  <2>7. ff[t] = g[<<ff, t>>] /\ ff[t] \in good[t]
    BY <2>1, <2>2
  <2> QED BY <2>4, <2>6, <2>7
<1> HIDE DEF f
<1> QED BY <1>6, <1>7
=============================================================================
