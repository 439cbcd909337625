--------------------------- MODULE WorkspaceProofs ---------------------------
(***************************************************************************)
(* Proofs about Workspace and the split tree it is built on, for any       *)
(* number of panes, shells, tabs and any scenes, presets and faults: panes *)
(* and shells agree, and a shell that runs is given up only on demand.     *)
(*                                                                         *)
(* Trees are proved about by induction on their depth (TreeInduction), a   *)
(* set standing for the predicate.  An operation of the layout library     *)
(* gets one lemma that says which panes its result has; a layout that      *)
(* holds together (GoodLayout) still does.  From there on a tree is known  *)
(* by its panes alone.  WInv is the inductive invariant of the window.     *)
(***************************************************************************)
EXTENDS WorkspaceProps, Recursion, SequenceTheorems, FiniteSetTheorems, FunctionTheorems

-----------------------------------------------------------------------------
(* Sequences: their parts, and what is put into them or taken out.         *)

(* The two parts of a concatenation.                                       *)
LEMMA Parts ==
  ASSUME NEW S, NEW s \in Seq(S), NEW t \in Seq(S)
  PROVE  /\ s \o t \in Seq(S) /\ Len(s \o t) = Len(s) + Len(t)
         /\ DOMAIN s = 1 .. Len(s) /\ DOMAIN t = 1 .. Len(t)
         /\ DOMAIN (s \o t) = 1 .. Len(s) + Len(t)
         /\ \A i \in 1 .. Len(s) : (s \o t)[i] = s[i]
         /\ \A i \in 1 .. Len(t) : (s \o t)[Len(s) + i] = t[i]
<1>1. s \o t \in Seq(S) /\ Len(s \o t) = Len(s) + Len(t)
  BY ConcatProperties
<1>2. \A i \in 1 .. Len(s) + Len(t) : (s \o t)[i] = IF i <= Len(s) THEN s[i] ELSE t[i - Len(s)]
  BY ConcatProperties
<1>3. Len(s) \in Nat /\ Len(t) \in Nat
  OBVIOUS
<1>4. ASSUME NEW i \in 1 .. Len(s) PROVE (s \o t)[i] = s[i]
  <2>1. i \in 1 .. Len(s) + Len(t) /\ i <= Len(s)
    BY <1>3
  <2> QED BY <1>2, <2>1
<1>5. ASSUME NEW i \in 1 .. Len(t) PROVE (s \o t)[Len(s) + i] = t[i]
  <2>1. Len(s) + i \in 1 .. Len(s) + Len(t) /\ ~(Len(s) + i <= Len(s)) /\ (Len(s) + i) - Len(s) = i
    BY <1>3
  <2> QED BY <1>2, <2>1
<1>6. DOMAIN s = 1 .. Len(s) /\ DOMAIN t = 1 .. Len(t) /\ DOMAIN (s \o t) = 1 .. Len(s \o t)
  <2>1. s \o t \in Seq(S)
    BY <1>1
  <2> QED BY <2>1, LenProperties
<1> QED BY <1>1, <1>4, <1>5, <1>6

LEMMA PlaceIn ==
  ASSUME NEW m \in Nat, NEW n \in Nat, NEW i \in 1 .. m + n
  PROVE  i \in 1 .. m \/ (i - m \in 1 .. n /\ m + (i - m) = i)
  OBVIOUS

Disjoint(A, B) == A \cap B = {}

LEMMA ToSetParts ==
  ASSUME NEW S, NEW s \in Seq(S), NEW t \in Seq(S)
  PROVE  ToSet(s \o t) = ToSet(s) \cup ToSet(t)
<1> DEFINE u == s \o t
<1>1. /\ DOMAIN s = 1 .. Len(s) /\ DOMAIN t = 1 .. Len(t) /\ DOMAIN u = 1 .. Len(s) + Len(t)
      /\ \A i \in 1 .. Len(s) : u[i] = s[i]
      /\ \A i \in 1 .. Len(t) : u[Len(s) + i] = t[i]
  BY Parts
<1>2. Len(s) \in Nat /\ Len(t) \in Nat
  OBVIOUS
<1> HIDE DEF u
<1>3. ASSUME NEW i \in DOMAIN u PROVE u[i] \in ToSet(s) \cup ToSet(t)
  <2>1. i \in 1 .. Len(s) + Len(t)
    BY <1>1
  <2>2. i \in 1 .. Len(s) \/ (i - Len(s) \in 1 .. Len(t) /\ Len(s) + (i - Len(s)) = i)
    BY <1>2, <2>1, PlaceIn
  <2>3. CASE i \in 1 .. Len(s)
    BY <1>1, <2>3 DEF ToSet
  <2>4. CASE i - Len(s) \in 1 .. Len(t) /\ Len(s) + (i - Len(s)) = i
    <3>1. u[i] = t[i - Len(s)]
      BY <1>1, <2>4
    <3> QED BY <1>1, <2>4, <3>1 DEF ToSet
  <2> QED BY <2>2, <2>3, <2>4
<1>4. ASSUME NEW i \in DOMAIN s PROVE s[i] \in ToSet(u)
  <2>1. i \in DOMAIN u /\ u[i] = s[i]
    BY <1>1, <1>2
  <2> QED BY <2>1 DEF ToSet
<1>5. ASSUME NEW i \in DOMAIN t PROVE t[i] \in ToSet(u)
  <2>1. Len(s) + i \in DOMAIN u /\ u[Len(s) + i] = t[i]
    BY <1>1, <1>2
  <2> QED BY <2>1 DEF ToSet
<1>6. ToSet(u) \subseteq ToSet(s) \cup ToSet(t)
  <2>1. \A i \in DOMAIN u : u[i] \in ToSet(s) \cup ToSet(t)
    BY <1>3
  <2> QED BY <2>1, Zenon DEF ToSet
<1>7. ToSet(s) \subseteq ToSet(u)
  BY <1>4, Zenon DEF ToSet
<1>8. ToSet(t) \subseteq ToSet(u)
  BY <1>5, Zenon DEF ToSet
<1> QED BY <1>6, <1>7, <1>8 DEF u

LEMMA InjectiveParts ==
  ASSUME NEW S, NEW s \in Seq(S), NEW t \in Seq(S)
  PROVE  IsInjective(s \o t)
           <=> IsInjective(s) /\ IsInjective(t) /\ Disjoint(ToSet(s), ToSet(t))
<1> DEFINE u == s \o t
           m == Len(s)
           n == Len(t)
<1>1. /\ DOMAIN s = 1 .. m /\ DOMAIN t = 1 .. n /\ DOMAIN u = 1 .. m + n
      /\ \A i \in 1 .. m : u[i] = s[i]
      /\ \A i \in 1 .. n : u[m + i] = t[i]
  BY Parts
<1>2. m \in Nat /\ n \in Nat
  OBVIOUS
<1> HIDE DEF u, m, n
<1>3. ASSUME IsInjective(u) PROVE IsInjective(s)
  <2>1. ASSUME NEW a \in 1 .. m, NEW b \in 1 .. m, s[a] = s[b] PROVE a = b
    <3>1. a \in 1 .. m + n /\ b \in 1 .. m + n
      BY <1>2
    <3> QED BY <1>1, <1>3, <2>1, <3>1 DEF IsInjective
  <2> QED BY <1>1, <2>1 DEF IsInjective
<1>4. ASSUME IsInjective(u) PROVE IsInjective(t)
  <2>1. ASSUME NEW a \in 1 .. n, NEW b \in 1 .. n, t[a] = t[b] PROVE a = b
    <3>1. m + a \in 1 .. m + n /\ m + b \in 1 .. m + n
      BY <1>2
    <3>2. m + a = m + b
      BY <1>1, <1>4, <2>1, <3>1 DEF IsInjective
    <3> QED BY <1>2, <3>2
  <2> QED BY <1>1, <2>1 DEF IsInjective
<1>5. ASSUME IsInjective(u) PROVE Disjoint(ToSet(s), ToSet(t))
  <2>1. ASSUME NEW a \in 1 .. m, NEW b \in 1 .. n, s[a] = t[b] PROVE FALSE
    <3>1. a \in 1 .. m + n /\ m + b \in 1 .. m + n
      BY <1>2
    <3>2. a = m + b
      BY <1>1, <1>5, <2>1, <3>1 DEF IsInjective
    <3> QED BY <1>2, <3>2
  <2> QED BY <1>1, <2>1 DEF Disjoint, ToSet
<1>6. ASSUME IsInjective(s), IsInjective(t), Disjoint(ToSet(s), ToSet(t))
      PROVE  IsInjective(u)
  <2>0. ASSUME NEW a \in 1 .. m, NEW b \in 1 .. n PROVE s[a] # t[b]
    <3>1. s[a] \in ToSet(s) /\ t[b] \in ToSet(t)
      BY <1>1 DEF ToSet
    <3> QED BY <1>6, <3>1 DEF Disjoint
  <2>1. ASSUME NEW a \in 1 .. m + n, NEW b \in 1 .. m + n, u[a] = u[b] PROVE a = b
    <3>1. a \in 1 .. m \/ (a - m \in 1 .. n /\ m + (a - m) = a)
      BY <1>2, PlaceIn
    <3>2. b \in 1 .. m \/ (b - m \in 1 .. n /\ m + (b - m) = b)
      BY <1>2, PlaceIn
    <3>3. CASE a \in 1 .. m /\ b \in 1 .. m
      BY <1>1, <1>6, <2>1, <3>3 DEF IsInjective
    <3>4. CASE a \in 1 .. m /\ b - m \in 1 .. n /\ m + (b - m) = b
      <4>1. u[a] = s[a] /\ u[b] = t[b - m]
        BY <1>1, <3>4
      <4> QED BY <2>0, <2>1, <3>4, <4>1, Zenon
    <3>5. CASE b \in 1 .. m /\ a - m \in 1 .. n /\ m + (a - m) = a
      <4>1. u[b] = s[b] /\ u[a] = t[a - m]
        BY <1>1, <3>5
      <4> QED BY <2>0, <2>1, <3>5, <4>1
    <3>6. CASE a - m \in 1 .. n /\ m + (a - m) = a /\ b - m \in 1 .. n /\ m + (b - m) = b
      <4>1. u[a] = t[a - m] /\ u[b] = t[b - m]
        BY <1>1, <3>6
      <4>2. a - m = b - m
        BY <1>1, <1>6, <2>1, <3>6, <4>1, Zenon DEF IsInjective
      <4> QED BY <3>6, <4>2
    <3> QED BY <3>1, <3>2, <3>3, <3>4, <3>5, <3>6
  <2> QED BY <1>1, <2>1 DEF IsInjective
<1>7. IsInjective(u) => IsInjective(s) /\ IsInjective(t) /\ Disjoint(ToSet(s), ToSet(t))
  BY <1>3, <1>4, <1>5
<1>8. IsInjective(s) /\ IsInjective(t) /\ Disjoint(ToSet(s), ToSet(t)) => IsInjective(u)
  BY <1>6
<1> QED BY <1>7, <1>8 DEF u

(* FlattenSeq joins the sequences one after the other.                     *)
Joins(f, seqs) ==
  /\ f[0] = <<>>
  /\ \A i \in 1 .. Len(seqs) : f[i] = f[i - 1] \o seqs[i]

LEMMA Flattens ==
  ASSUME NEW S, NEW seqs \in Seq(Seq(S)), seqs # <<>>
  PROVE  \E f \in [0 .. Len(seqs) -> Seq(S)] : Joins(f, seqs) /\ FlattenSeq(seqs) = f[Len(seqs)]
<1> DEFINE X == Seq(S)
           n == Len(seqs)
           Eq(f) == f = [i \in 1 .. n |-> IF i = 1 THEN seqs[i] ELSE f[i - 1] \o seqs[i]]
           F == CHOOSE g : Eq(g)
           g == [p \in X \X Nat |-> IF p[2] \in 1 .. n THEN p[1] \o seqs[p[2]] ELSE p[1]]
<1>0. n \in Nat /\ n # 0 /\ \A i \in 1 .. n : seqs[i] \in X
  <2>1. n \in Nat /\ seqs \in [1 .. n -> X]
    BY LenProperties
  <2>2. n # 0
    BY EmptySeq, SeqEqual
  <2> QED BY <2>1, <2>2
<1>1. <<>> \in X
  BY EmptySeq
<1>2. \A x \in X, i \in Nat : g[<<x, i>>] = IF i \in 1 .. n THEN x \o seqs[i] ELSE x
  <2> TAKE x \in X, i \in Nat
  <2> DEFINE p == <<x, i>>
  <2>1. p \in X \X Nat /\ p[1] = x /\ p[2] = i
    OBVIOUS
  <2> HIDE DEF p, X, n
  <2>2. g[p] = IF p[2] \in 1 .. n THEN p[1] \o seqs[p[2]] ELSE p[1]
    BY <2>1
  <2> HIDE DEF g
  <2> QED BY <2>1, <2>2 DEF p
<1>3. \A x \in X, i \in 1 .. n : x \o seqs[i] \in X
  <2> TAKE x \in X, i \in 1 .. n
  <2>1. seqs[i] \in Seq(S)
    BY <1>0
  <2> QED BY <2>1, ConcatProperties
<1> HIDE DEF g, X, n
<1>4. StaysIn(g, X)
  BY <1>2, <1>3, Zenon DEF StaysIn
<1>5. PICK f \in [0 .. n -> X] : Iterate(f, <<>>, g, n)
  BY <1>0, <1>1, <1>4, Iterates, Zenon
<1>6. f[0] = <<>> /\ \A i \in 1 .. n : f[i] = f[i - 1] \o seqs[i]
  <2>1. f[0] = <<>> /\ \A i \in 1 .. n : f[i] = g[<<f[i - 1], i>>]
    BY <1>5, Zenon DEF Iterate
  <2> SUFFICES ASSUME NEW i \in 1 .. n PROVE f[i] = f[i - 1] \o seqs[i]
    BY <2>1, Zenon
  <2>2. i \in Nat /\ i - 1 \in 0 .. n
    BY <1>0
  <2>3. f[i - 1] \in X
    BY <1>5, <2>2, Zenon
  <2> QED BY <1>2, <2>1, <2>2, <2>3, Zenon
<1> DEFINE h == [i \in 1 .. n |-> f[i]]
<1>7. /\ Eq(h) /\ DOMAIN h = 1 .. n
      /\ \A i \in 1 .. n : h[i] = IF i = 1 THEN seqs[i] ELSE h[i - 1] \o seqs[i]
  <2>1. f[1] = seqs[1]
    <3>1. 1 \in 1 .. n /\ 1 - 1 = 0
      BY <1>0
    <3>2. f[1] = <<>> \o seqs[1]
      BY <1>6, <3>1, Zenon
    <3>3. seqs[1] \in Seq(S)
      BY <1>0, <3>1 DEF X
    <3> QED BY <3>2, <3>3, ConcatEmptySeq
  <2>2. ASSUME NEW i \in 1 .. n, i # 1 PROVE h[i - 1] = f[i - 1]
    <3>1. i - 1 \in 1 .. n
      BY <1>0, <2>2
    <3> QED BY <3>1
  <2>3. ASSUME NEW i \in 1 .. n
        PROVE  f[i] = IF i = 1 THEN seqs[i] ELSE h[i - 1] \o seqs[i]
    <3> HIDE DEF h
    <3>1. f[i] = f[i - 1] \o seqs[i]
      BY <1>6, Zenon
    <3> QED BY <2>1, <2>2, <3>1, Zenon
  <2>4. DOMAIN h = 1 .. n /\ \A i \in 1 .. n : h[i] = f[i]
    OBVIOUS
  <2>5. h = [i \in 1 .. n |-> h[i]]
    OBVIOUS
  <2> HIDE DEF h
  <2>6. \A i \in 1 .. n : h[i] = IF i = 1 THEN seqs[i] ELSE h[i - 1] \o seqs[i]
    BY <2>3, <2>4, Zenon
  <2> QED BY <2>4, <2>5, <2>6, Zenon
<1>8. Eq(F)
  <2> HIDE DEF h
  <2>1. Eq(h)
    BY <1>7, Zenon
  <2> QED BY <2>1, Zenon
<1>9. F = h
  <2> DEFINE B == {i \in 1 .. n : F[i] # h[i]}
  <2>1. DOMAIN F = 1 .. n /\ \A i \in 1 .. n : F[i] = IF i = 1 THEN seqs[i] ELSE F[i - 1] \o seqs[i]
    <3> HIDE DEF F
    <3> QED BY <1>8, Zenon
  <2>2. \A i \in 1 .. n : h[i] = IF i = 1 THEN seqs[i] ELSE h[i - 1] \o seqs[i]
    BY <1>7
  <2>3. B = {}
    <3> SUFFICES ASSUME B # {} PROVE FALSE
      BY Zenon
    <3> HIDE DEF F, h
    <3>1. PICK i \in B : \A k \in B : i <= k
      <4>1. B \subseteq Nat
        BY <1>0
      <4> HIDE DEF B
      <4> QED BY <4>1, LeastNat, Zenon
    <3>2. i \in 1 .. n /\ F[i] # h[i]
      OBVIOUS
    <3>3. i # 1
      BY <2>1, <2>2, <3>2, Zenon
    <3>4. i - 1 \in 1 .. n /\ ~(i <= i - 1)
      BY <1>0, <3>2, <3>3
    <3>5. F[i - 1] = h[i - 1]
      BY <3>1, <3>4
    <3> QED BY <2>1, <2>2, <3>2, <3>3, <3>5, Zenon
  <2>4. F = [i \in 1 .. n |-> F[i]]
    <3> HIDE DEF F
    <3> QED BY <1>8
  <2> HIDE DEF F
  <2> QED BY <2>3, <2>4, Zenon
<1>10. FlattenSeq(seqs) = F[n]
  <2>1. ~(Len(seqs) = 0)
    BY <1>0 DEF n
  <2> QED BY <2>1, ZenonT(60) DEF FlattenSeq, n
<1>11. FlattenSeq(seqs) = f[n]
  <2> HIDE DEF F
  <2> QED BY <1>0, <1>9, <1>10
<1> QED BY <1>5, <1>6, <1>11, Zenon DEF Joins, n, X

PartsDistinct(seqs) ==
  /\ \A a \in 1 .. Len(seqs) : IsInjective(seqs[a])
  /\ \A a, b \in 1 .. Len(seqs) : a # b => Disjoint(ToSet(seqs[a]), ToSet(seqs[b]))
PartsSet(seqs) == UNION {ToSet(seqs[a]) : a \in 1 .. Len(seqs)}

(* What the joined sequence has is what its parts have, and nothing twice  *)
(* if and only if no part has anything twice and no two share anything.    *)
LEMMA FlattenParts ==
  ASSUME NEW S, NEW seqs \in Seq(Seq(S)), seqs # <<>>
  PROVE  /\ FlattenSeq(seqs) \in Seq(S)
         /\ ToSet(FlattenSeq(seqs)) = PartsSet(seqs)
         /\ IsInjective(FlattenSeq(seqs)) <=> PartsDistinct(seqs)
<1> DEFINE n == Len(seqs)
<1>1. PICK f \in [0 .. n -> Seq(S)] : Joins(f, seqs) /\ FlattenSeq(seqs) = f[n]
  BY Flattens
<1>2. n \in Nat /\ \A i \in 1 .. n : seqs[i] \in Seq(S)
  <2>1. n \in Nat /\ seqs \in [1 .. n -> Seq(S)]
    BY LenProperties
  <2> QED BY <2>1
<1>3. f[0] = <<>> /\ \A i \in 1 .. n : f[i] = f[i - 1] \o seqs[i]
  BY <1>1, Zenon DEF Joins
<1> HIDE DEF n
<1> DEFINE
  U(k) == UNION {ToSet(seqs[a]) : a \in 1 .. k}
  D(k) == /\ \A a \in 1 .. k : IsInjective(seqs[a])
          /\ \A a, b \in 1 .. k : a # b => Disjoint(ToSet(seqs[a]), ToSet(seqs[b]))
  G == {k \in Nat : k <= n => ToSet(f[k]) = U(k) /\ (IsInjective(f[k]) <=> D(k))}
<1>4. 0 \in G
  <2>1. ToSet(f[0]) = {} /\ IsInjective(f[0])
    BY <1>3 DEF ToSet, IsInjective
  <2>2. U(0) = {} /\ D(0)
    OBVIOUS
  <2> QED BY <2>1, <2>2
<1>5. ASSUME NEW k \in Nat, k \in G PROVE k + 1 \in G
  <2> SUFFICES ASSUME k + 1 <= n
               PROVE  ToSet(f[k + 1]) = U(k + 1) /\ (IsInjective(f[k + 1]) <=> D(k + 1))
    OBVIOUS
  <2>1. ToSet(f[k]) = U(k) /\ (IsInjective(f[k]) <=> D(k))
    BY <1>2, <1>5
  <2> DEFINE q == seqs[k + 1]
  <2>2. k + 1 \in 1 .. n /\ k \in 0 .. n /\ (k + 1) - 1 = k
    BY <1>2
  <2>3. q \in Seq(S) /\ f[k] \in Seq(S) /\ f[k + 1] = f[k] \o q
    <3>1. f[k + 1] = f[(k + 1) - 1] \o seqs[k + 1]
      BY <1>3, <2>2, Zenon
    <3> QED BY <1>1, <1>2, <2>2, <3>1
  <2>4. \A a : a \in 1 .. k + 1 <=> a \in 1 .. k \/ a = k + 1
    OBVIOUS
  <2>5. U(k + 1) = U(k) \cup ToSet(q)
    BY <2>4
  <2>6. ToSet(f[k + 1]) = ToSet(f[k]) \cup ToSet(q)
    BY <2>3, ToSetParts
  <2>7. IsInjective(f[k + 1]) <=> IsInjective(f[k]) /\ IsInjective(q) /\ Disjoint(ToSet(f[k]), ToSet(q))
    BY <2>3, InjectiveParts
  <2>8. Disjoint(U(k), ToSet(q)) <=> \A a \in 1 .. k : Disjoint(ToSet(seqs[a]), ToSet(q))
    BY Zenon DEF Disjoint
  <2>9. D(k + 1) <=> D(k) /\ IsInjective(q) /\ \A a \in 1 .. k : Disjoint(ToSet(seqs[a]), ToSet(q))
    <3>1. ASSUME D(k + 1)
          PROVE  D(k) /\ IsInjective(q) /\ \A a \in 1 .. k : Disjoint(ToSet(seqs[a]), ToSet(q))
      <4>1. \A a \in 1 .. k : a # k + 1
        OBVIOUS
      <4> QED BY <2>4, <3>1, <4>1
    <3>2. ASSUME D(k), IsInjective(q), \A a \in 1 .. k : Disjoint(ToSet(seqs[a]), ToSet(q))
          PROVE  D(k + 1)
      <4>1. \A a \in 1 .. k + 1 : IsInjective(seqs[a])
        BY <2>4, <3>2, Zenon
      <4>2. ASSUME NEW a \in 1 .. k + 1, NEW b \in 1 .. k + 1, a # b
            PROVE  Disjoint(ToSet(seqs[a]), ToSet(seqs[b]))
        <5>1. CASE a \in 1 .. k /\ b \in 1 .. k
          BY <3>2, <4>2, <5>1
        <5>2. CASE a = k + 1 /\ b \in 1 .. k
          BY <3>2, <5>2 DEF Disjoint
        <5>3. CASE b = k + 1 /\ a \in 1 .. k
          BY <3>2, <5>3
        <5> QED BY <2>4, <4>2, <5>1, <5>2, <5>3
      <4> QED BY <4>1, <4>2
    <3> QED BY <3>1, <3>2
  <2> HIDE DEF q, U, D
  <2>10. ToSet(f[k + 1]) = U(k + 1)
    BY <2>1, <2>5, <2>6
  <2>11. Disjoint(ToSet(f[k]), ToSet(q)) <=> Disjoint(U(k), ToSet(q))
    BY <2>1
  <2> QED BY <2>1, <2>7, <2>8, <2>9, <2>10, <2>11, Zenon
<1> HIDE DEF G
<1>6. n \in G
  BY <1>2, <1>4, <1>5, SetInduction, Zenon
<1>7. ToSet(f[n]) = U(n) /\ (IsInjective(f[n]) <=> D(n))
  BY <1>2, <1>6 DEF G
<1>8. U(n) = PartsSet(seqs) /\ (D(n) <=> PartsDistinct(seqs))
  BY DEF n, PartsSet, PartsDistinct
<1>9. f[n] \in Seq(S)
  BY <1>1, <1>2
<1> HIDE DEF U, D
<1> QED BY <1>1, <1>7, <1>8, <1>9

(* Sequences whose parts correspond, place by place, correspond.           *)
Alike(R, s, t) == Len(s) = Len(t) /\ \A k \in 1 .. Len(s) : <<s[k], t[k]>> \in R
LEMMA FlattenAlike ==
  ASSUME NEW S, NEW V, NEW R, NEW s \in Seq(Seq(S)), NEW t \in Seq(Seq(V)), s # <<>>,
         Len(s) = Len(t), \A i \in 1 .. Len(s) : Alike(R, s[i], t[i])
  PROVE  Alike(R, FlattenSeq(s), FlattenSeq(t))
<1> DEFINE n == Len(s)
<1>0. n \in Nat /\ n # 0 /\ \A i \in 1 .. n : s[i] \in Seq(S) /\ t[i] \in Seq(V)
  <2>1. n \in Nat /\ s \in [1 .. n -> Seq(S)] /\ t \in [1 .. n -> Seq(V)]
    BY LenProperties
  <2>2. n # 0
    BY EmptySeq, SeqEqual
  <2> QED BY <2>1, <2>2
<1>1. t # <<>>
  BY <1>0, EmptySeq
<1>2. PICK f \in [0 .. n -> Seq(S)] : Joins(f, s) /\ FlattenSeq(s) = f[n]
  BY Flattens, Zenon
<1>3. PICK g \in [0 .. n -> Seq(V)] : Joins(g, t) /\ FlattenSeq(t) = g[n]
  BY <1>1, Flattens
<1>4. \A i \in 1 .. n : f[i] = f[i - 1] \o s[i] /\ g[i] = g[i - 1] \o t[i]
  BY <1>2, <1>3, Zenon DEF Joins
<1>5. f[0] = <<>> /\ g[0] = <<>>
  BY <1>2, <1>3 DEF Joins
<1>6. \A i \in 1 .. n : Alike(R, s[i], t[i])
  OBVIOUS
<1> HIDE DEF n
<1> DEFINE G == {k \in Nat : k <= n => Alike(R, f[k], g[k])}
<1>7. 0 \in G
  <2>1. Len(<<>>) = 0
    BY EmptySeq
  <2> QED BY <1>5, <2>1 DEF Alike
<1>8. ASSUME NEW k \in Nat, k \in G PROVE k + 1 \in G
  <2> SUFFICES ASSUME k + 1 <= n PROVE Alike(R, f[k + 1], g[k + 1])
    OBVIOUS
  <2> DEFINE a == f[k]
             b == s[k + 1]
             c == g[k]
             d == t[k + 1]
  <2>1. k + 1 \in 1 .. n /\ k \in 0 .. n /\ (k + 1) - 1 = k
    BY <1>0
  <2>2. a \in Seq(S) /\ b \in Seq(S) /\ c \in Seq(V) /\ d \in Seq(V)
    BY <1>0, <1>2, <1>3, <2>1, Zenon
  <2>3. f[k + 1] = a \o b /\ g[k + 1] = c \o d
    BY <1>4, <2>1, Zenon
  <2>4. Alike(R, a, c)
    BY <1>0, <1>8, <2>1
  <2>5. Alike(R, b, d)
    BY <1>6, <2>1
  <2> HIDE DEF a, b, c, d
  <2>6. /\ Len(a \o b) = Len(a) + Len(b)
        /\ \A i \in 1 .. Len(a) : (a \o b)[i] = a[i]
        /\ \A i \in 1 .. Len(b) : (a \o b)[Len(a) + i] = b[i]
    BY <2>2, Parts
  <2>7. /\ Len(c \o d) = Len(c) + Len(d)
        /\ \A i \in 1 .. Len(c) : (c \o d)[i] = c[i]
        /\ \A i \in 1 .. Len(d) : (c \o d)[Len(c) + i] = d[i]
    BY <2>2, Parts
  <2>8. Len(a) = Len(c) /\ Len(b) = Len(d) /\ Len(a) \in Nat /\ Len(b) \in Nat
    BY <2>2, <2>4, <2>5, LenProperties DEF Alike
  <2>9. ASSUME NEW i \in 1 .. Len(a) + Len(b) PROVE <<(a \o b)[i], (c \o d)[i]>> \in R
    <3>1. i \in 1 .. Len(a) \/ (i - Len(a) \in 1 .. Len(b) /\ Len(a) + (i - Len(a)) = i)
      BY <2>8, PlaceIn
    <3>2. CASE i \in 1 .. Len(a)
      BY <2>4, <2>6, <2>7, <2>8, <3>2 DEF Alike
    <3>3. CASE i - Len(a) \in 1 .. Len(b) /\ Len(a) + (i - Len(a)) = i
      <4>1. (a \o b)[i] = b[i - Len(a)] /\ (c \o d)[i] = d[i - Len(a)]
        BY <2>6, <2>7, <2>8, <3>3, Zenon
      <4> QED BY <2>5, <3>3, <4>1, Zenon DEF Alike
    <3> QED BY <3>1, <3>2, <3>3, Zenon
  <2> QED BY <2>3, <2>6, <2>7, <2>8, <2>9, Zenon DEF Alike
<1> HIDE DEF G
<1>9. n \in G
  BY <1>0, <1>7, <1>8, SetInduction, Zenon
<1> QED BY <1>0, <1>2, <1>3, <1>9 DEF G

-----------------------------------------------------------------------------
(* The trees by their depth, and what the functions over them compute.     *)

(* The trees by their depth.                                               *)
Bound == MAX_PANES
Children(d) == {c \in Seq([node : Trees[d], flex : Nat]) : Len(c) >= 2}
Leaves == [id : Nat]
Forks(d) == [axis : Axis, children : Children(d)]

LEMMA BoundNat == Bound \in Nat /\ Bound >= 1 /\ MAX_PANES = Bound
BY SplitTreeAssumption DEF Bound

LEMMA TreesAre ==
  /\ Trees[0] = Leaves
  /\ \A d \in 1 .. Bound : Trees[d] = Leaves \cup Forks(d - 1)
<1> DEFINE Kids(T) == {c \in Seq([node : T, flex : Nat]) : Len(c) >= 2}
           Of(T) == [axis : Axis, children : Kids(T)]
           Step(d, T) == [id : Nat] \cup IF d = 0 THEN {} ELSE Of(T)
           Good(f, k) == \A d \in 0 .. k : f[d] = Step(d, f[d - 1])
           S == {k \in Nat : \E f : Good(f, k)}
<1>1. 0 \in S
  <2>1. Good([d \in 0 .. 0 |-> [id : Nat]], 0)
    <3>1. \A d \in 0 .. 0 : d = 0
      OBVIOUS
    <3> QED BY <3>1
  <2> QED BY <2>1, Zenon
<1>2. ASSUME NEW k \in Nat, k \in S PROVE k + 1 \in S
  <2>1. PICK f : Good(f, k)
    BY <1>2, Zenon
  <2> HIDE DEF Step
  <2> DEFINE h == [d \in 0 .. k + 1 |-> IF d <= k THEN f[d] ELSE Step(d, f[k])]
  <2>2. ASSUME NEW d \in 0 .. k + 1 PROVE h[d] = Step(d, h[d - 1])
    <3>1. CASE d <= k /\ d # 0
      <4>1. d \in 0 .. k /\ d - 1 \in 0 .. k + 1 /\ d - 1 <= k
        BY <3>1
      <4>2. h[d] = f[d] /\ h[d - 1] = f[d - 1]
        BY <3>1, <4>1
      <4>3. f[d] = Step(d, f[d - 1])
        BY <2>1, <4>1
      <4> QED BY <4>2, <4>3
    <3>2. CASE d = k + 1
      <4>1. ~(d <= k) /\ d - 1 = k /\ k \in 0 .. k + 1 /\ k <= k
        BY <3>2
      <4>2. h[d] = Step(d, f[k]) /\ h[k] = f[k]
        BY <4>1
      <4> HIDE DEF h
      <4> QED BY <4>1, <4>2
    <3>3. CASE d = 0
      <4>1. h[0] = f[0] /\ 0 \in 0 .. k
        OBVIOUS
      <4>2. f[0] = Step(0, f[0 - 1])
        BY <2>1, <4>1
      <4>3. \A T1, T2 : Step(0, T1) = Step(0, T2)
        BY DEF Step
      <4> HIDE DEF h
      <4> QED BY <3>3, <4>1, <4>2, <4>3
    <3> QED BY <3>1, <3>2, <3>3
  <2> HIDE DEF h
  <2> QED BY <2>2
<1> HIDE DEF S
<1>3. Bound \in S
  BY <1>1, <1>2, SetInduction, BoundNat
<1> HIDE DEF Step
<1>4. PICK f : \A d \in 0 .. Bound : f[d] = Step(d, f[d - 1])
  BY <1>3 DEF S
<1> DEFINE e == [d \in 0 .. Bound |-> f[d]]
           Eq(t) == t = [d \in 0 .. MAX_PANES |-> Step(d, t[d - 1])]
<1>5. Eq(e)
  <2>1. ASSUME NEW d \in 0 .. Bound PROVE f[d] = Step(d, e[d - 1])
    <3>1. CASE d = 0
      <4>1. \A T1, T2 : Step(0, T1) = Step(0, T2)
        BY DEF Step
      <4>2. f[0] = Step(0, f[0 - 1])
        BY <1>4, <3>1
      <4> HIDE DEF e
      <4> QED BY <3>1, <4>1, <4>2
    <3>2. CASE d # 0
      <4>1. d - 1 \in 0 .. Bound
        BY <3>2, BoundNat
      <4>2. e[d - 1] = f[d - 1]
        BY <4>1
      <4> HIDE DEF e
      <4> QED BY <1>4, <4>2
    <3> QED BY <3>1, <3>2
  <2>2. e = [d \in 0 .. Bound |-> Step(d, e[d - 1])]
    BY <2>1
  <2> HIDE DEF e
  <2> QED BY <2>2, BoundNat
<1>6. Trees = CHOOSE t : Eq(t)
  BY ZenonT(60) DEF Trees, Step
<1>7. Eq(Trees)
  <2> HIDE DEF e, Eq
  <2> QED BY <1>5, <1>6
<1>8. \A d \in 0 .. Bound : Trees[d] = Step(d, Trees[d - 1])
  BY <1>7, BoundNat
<1>9. Trees[0] = Leaves
  <2>1. 0 \in 0 .. Bound
    BY BoundNat
  <2>2. Trees[0] = Step(0, Trees[0 - 1])
    BY <1>8, <2>1
  <2> QED BY <2>2 DEF Step, Leaves
<1>10. ASSUME NEW d \in 1 .. Bound PROVE Trees[d] = Leaves \cup Forks(d - 1)
  <2>1. d \in 0 .. Bound /\ d # 0
    BY BoundNat
  <2>2. Trees[d] = Step(d, Trees[d - 1])
    BY <1>8, <2>1
  <2>3. Step(d, Trees[d - 1]) = Leaves \cup Forks(d - 1)
    BY <2>1 DEF Step, Leaves, Forks, Children
  <2> QED BY <2>2, <2>3
<1> QED BY <1>9, <1>10

IsFork(node, d) ==
  /\ node = [axis |-> node.axis, children |-> node.children]
  /\ node.axis \in Axis /\ node.children \in Seq([node : Trees[d], flex : Nat])
  /\ Len(node.children) \in Nat /\ Len(node.children) >= 2
  /\ DOMAIN node.children = 1 .. Len(node.children)
  /\ \A i \in 1 .. Len(node.children) :
       /\ node.children[i] = Child(node.children[i].node, node.children[i].flex)
       /\ node.children[i].node \in Trees[d] /\ node.children[i].flex \in Nat
  /\ ~IsLeaf(node)

LEMMA ForkIs ==
  ASSUME NEW d \in 0 .. Bound, NEW node \in Forks(d)
  PROVE  IsFork(node, d)
<1> DEFINE K == [node : Trees[d], flex : Nat]
           c == node.children
<1>1. /\ node = [axis |-> node.axis, children |-> node.children]
      /\ node.axis \in Axis /\ node.children \in Children(d)
      /\ DOMAIN node = {"axis", "children"}
  BY DEF Forks
<1>2. c \in Seq(K) /\ Len(c) >= 2
  BY <1>1 DEF Children
<1> HIDE DEF K
<1>3. Len(c) \in Nat /\ c \in [1 .. Len(c) -> K]
  BY <1>2, LenProperties
<1>4. ASSUME NEW k \in K
      PROVE  k = Child(k.node, k.flex) /\ k.node \in Trees[d] /\ k.flex \in Nat
  BY DEF K, Child
<1>5. ~IsLeaf(node)
  BY <1>1 DEF IsLeaf
<1>6. \A i \in 1 .. Len(c) : c[i] \in K
  BY <1>3
<1>7. DOMAIN c = 1 .. Len(c)
  BY <1>3
<1>8. \A i \in 1 .. Len(c) : c[i] = Child(c[i].node, c[i].flex) /\ c[i].node \in Trees[d] /\ c[i].flex \in Nat
  BY <1>4, <1>6
<1>9. c \in Seq([node : Trees[d], flex : Nat])
  BY <1>2 DEF K
<1> QED BY <1>1, <1>2, <1>3, <1>5, <1>7, <1>8, <1>9 DEF IsFork

LEMMA LeafIs ==
  ASSUME NEW node \in Leaves
  PROVE  IsLeaf(node) /\ node.id \in Nat /\ node = Leaf(node.id)
BY DEF Leaves, IsLeaf, Leaf

LEMMA LeafIn ==
  ASSUME NEW id \in Nat
  PROVE  Leaf(id) \in Leaves /\ IsLeaf(Leaf(id)) /\ Leaf(id).id = id
BY DEF Leaves, IsLeaf, Leaf

LEMMA LeafInTrees ==
  ASSUME NEW id \in Nat, NEW d \in 0 .. Bound
  PROVE  Leaf(id) \in Trees[d]
<1>1. d = 0 \/ d \in 1 .. Bound
  BY BoundNat
<1> QED BY <1>1, LeafIn, TreesAre

LEMMA TreeCases ==
  ASSUME NEW d \in 0 .. Bound, NEW node \in Trees[d]
  PROVE  \/ node \in Leaves
         \/ d \in 1 .. Bound /\ d - 1 \in 0 .. Bound /\ node \in Forks(d - 1) /\ IsFork(node, d - 1)
<1>1. CASE d = 0
  BY <1>1, TreesAre
<1>2. CASE d # 0
  <2>1. d \in 1 .. Bound /\ d - 1 \in 0 .. Bound
    BY <1>2, BoundNat
  <2>2. node \in Leaves \/ node \in Forks(d - 1)
    BY <2>1, TreesAre
  <2> QED BY <2>1, <2>2, ForkIs
<1> QED BY <1>1, <1>2

LEMMA ForkInTrees ==
  ASSUME NEW d \in 0 .. Bound, d < Bound, NEW axis \in Axis,
         NEW c \in Seq([node : Trees[d], flex : Nat]), Len(c) >= 2
  PROVE  /\ [axis |-> axis, children |-> c] \in Forks(d)
         /\ [axis |-> axis, children |-> c] \in Trees[d + 1]
<1>1. d + 1 \in 1 .. Bound /\ (d + 1) - 1 = d
  BY BoundNat
<1>2. [axis |-> axis, children |-> c] \in Forks(d)
  BY DEF Forks, Children
<1> QED BY <1>1, <1>2, TreesAre

LEMMA TreeStep ==
  ASSUME NEW d \in 0 .. Bound, d < Bound
  PROVE  Trees[d] \subseteq Trees[d + 1]
<1> DEFINE G == {k \in Nat : k < Bound => Trees[k] \subseteq Trees[k + 1]}
<1>1. 0 \in G
  <2>1. 0 + 1 \in 1 .. Bound /\ Trees[0] = Leaves
    BY BoundNat, TreesAre
  <2> QED BY <2>1, TreesAre
<1>2. ASSUME NEW k \in Nat, k \in G PROVE k + 1 \in G
  <2> SUFFICES ASSUME k + 1 < Bound, NEW node \in Trees[k + 1] PROVE node \in Trees[(k + 1) + 1]
    OBVIOUS
  <2>1. k + 1 \in 0 .. Bound /\ (k + 1) - 1 = k /\ (k + 1) + 1 \in 1 .. Bound
        /\ ((k + 1) + 1) - 1 = k + 1
    BY BoundNat
  <2>2. Trees[(k + 1) + 1] = Leaves \cup Forks(k + 1)
    BY <2>1, TreesAre
  <2>3. CASE node \in Leaves
    BY <2>2, <2>3
  <2>4. CASE node \in Forks(k) /\ IsFork(node, k)
    <3>1. Trees[k] \subseteq Trees[k + 1]
      BY <1>2, BoundNat
    <3>2. node.children \in Seq([node : Trees[k], flex : Nat])
      BY <2>4 DEF IsFork
    <3>3. [node : Trees[k], flex : Nat] \subseteq [node : Trees[k + 1], flex : Nat]
      BY <3>1
    <3>4. node.children \in Seq([node : Trees[k + 1], flex : Nat])
      BY <3>2, <3>3, SeqMonotonic, Zenon
    <3>5. [axis |-> node.axis, children |-> node.children] \in Trees[(k + 1) + 1]
      BY <2>1, <2>4, <3>4, ForkInTrees, Zenon DEF IsFork
    <3> QED BY <2>4, <3>5 DEF IsFork
  <2> QED BY <2>1, <2>3, <2>4, TreeCases
<1> HIDE DEF G
<1>3. d \in G
  BY <1>1, <1>2, SetInduction
<1> QED BY <1>3 DEF G

LEMMA TreeGrows ==
  ASSUME NEW d \in 0 .. Bound, NEW e \in d .. Bound
  PROVE  Trees[d] \subseteq Trees[e]
<1> DEFINE G == {k \in Nat : d + k <= Bound => Trees[d] \subseteq Trees[d + k]}
<1>0. d \in Nat
  OBVIOUS
<1>1. 0 \in G
  <2>1. d + 0 = d
    BY <1>0
  <2> QED BY <2>1
<1>2. ASSUME NEW k \in Nat, k \in G PROVE k + 1 \in G
  <2> SUFFICES ASSUME d + (k + 1) <= Bound PROVE Trees[d] \subseteq Trees[d + (k + 1)]
    OBVIOUS
  <2>1. d + k \in 0 .. Bound /\ d + k < Bound /\ (d + k) + 1 = d + (k + 1) /\ d + k <= Bound
    BY <1>0, BoundNat
  <2>2. Trees[d + k] \subseteq Trees[(d + k) + 1]
    BY <2>1, TreeStep
  <2> QED BY <1>2, <2>1, <2>2
<1> HIDE DEF G
<1>3. e - d \in Nat /\ d + (e - d) = e /\ e <= Bound
  BY <1>0, BoundNat
<1>4. e - d \in G
  BY <1>1, <1>2, <1>3, SetInduction
<1> QED BY <1>3, <1>4 DEF G

(* The depth of a tree: the least that holds it.                           *)
Rank(node) == CHOOSE d \in 0 .. Bound : node \in Trees[d] /\ \A e \in 0 .. Bound : node \in Trees[e] => d <= e

LEMMA RankIs ==
  ASSUME NEW node \in Tree
  PROVE  /\ Rank(node) \in 0 .. Bound /\ node \in Trees[Rank(node)]
         /\ \A e \in 0 .. Bound : node \in Trees[e] => Rank(node) <= e
<1> DEFINE D == {d \in 0 .. Bound : node \in Trees[d]}
<1>1. D \subseteq Nat /\ Bound \in D
  BY BoundNat DEF Tree
<1>2. PICK d \in D : \A e \in D : d <= e
  <2> HIDE DEF D
  <2> QED BY <1>1, LeastNat, Zenon
<1>3. d \in 0 .. Bound /\ node \in Trees[d] /\ \A e \in 0 .. Bound : node \in Trees[e] => d <= e
  BY <1>2
<1> QED BY <1>3, Zenon DEF Rank

LEMMA TreesInTree ==
  ASSUME NEW d \in 0 .. Bound
  PROVE  Trees[d] \subseteq Tree
<1>1. Bound \in d .. Bound
  BY BoundNat
<1> QED BY <1>1, TreeGrows, BoundNat DEF Tree

LEMMA Kids ==
  ASSUME NEW node \in Tree, ~IsLeaf(node)
  PROVE  \E d \in 0 .. Bound :
           /\ d < Bound /\ IsFork(node, d) /\ node \in Trees[d + 1] /\ Rank(node) = d + 1
           /\ \A i \in 1 .. Len(node.children) :
                node.children[i].node \in Tree /\ Rank(node.children[i].node) < Rank(node)
<1> DEFINE r == Rank(node)
<1>1. r \in 0 .. Bound /\ node \in Trees[r]
  BY RankIs
<1> HIDE DEF r
<1>2. node \notin Leaves
  BY LeafIs
<1>3. r \in 1 .. Bound /\ r - 1 \in 0 .. Bound /\ IsFork(node, r - 1)
  BY <1>1, <1>2, TreeCases
<1>4. (r - 1) + 1 = r /\ r - 1 < Bound /\ r - 1 < r
  BY <1>3, BoundNat
<1>5. ASSUME NEW i \in 1 .. Len(node.children)
      PROVE  node.children[i].node \in Tree /\ Rank(node.children[i].node) < r
  <2> DEFINE k == node.children[i].node
  <2>1. k \in Trees[r - 1]
    BY <1>3 DEF IsFork
  <2> HIDE DEF k
  <2>2. k \in Tree
    BY <1>3, <2>1, TreesInTree
  <2>3. Rank(k) \in 0 .. Bound /\ Rank(k) <= r - 1
    BY <1>3, <2>1, <2>2, RankIs
  <2>4. Rank(k) < r
    BY <1>3, <2>3
  <2> QED BY <2>2, <2>4 DEF k
<1> QED BY <1>1, <1>3, <1>4, <1>5 DEF r

(* Induction over the trees.                                               *)
LEMMA TreeInduction ==
  ASSUME NEW S, \A id \in Nat : Leaf(id) \in S,
         \A node \in Tree :
           ~IsLeaf(node) /\ (\A i \in 1 .. Len(node.children) : node.children[i].node \in S)
             => node \in S
  PROVE  \A node \in Tree : node \in S
<1> DEFINE G == {k \in Nat : \A node \in Tree : Rank(node) < k => node \in S}
<1>1. 0 \in G
  <2> SUFFICES ASSUME NEW node \in Tree, Rank(node) < 0 PROVE FALSE
    OBVIOUS
  <2>1. Rank(node) \in 0 .. Bound
    BY RankIs
  <2> QED BY <2>1
<1>2. ASSUME NEW k \in Nat, k \in G PROVE k + 1 \in G
  <2> SUFFICES ASSUME NEW node \in Tree, Rank(node) < k + 1 PROVE node \in S
    OBVIOUS
  <2>1. CASE IsLeaf(node)
    <3>1. node \in Leaves
      <4>1. Bound \in 0 .. Bound /\ node \in Trees[Bound]
        BY BoundNat DEF Tree
      <4> QED BY <2>1, <4>1, TreeCases, Zenon DEF IsFork
    <3> QED BY <3>1, LeafIs
  <2>2. CASE ~IsLeaf(node)
    <3>1. \A i \in 1 .. Len(node.children) :
            node.children[i].node \in Tree /\ Rank(node.children[i].node) < Rank(node)
      BY <2>2, Kids
    <3>2. ASSUME NEW i \in 1 .. Len(node.children) PROVE node.children[i].node \in S
      <4>1. node.children[i].node \in Tree /\ Rank(node.children[i].node) < Rank(node)
        BY <3>1
      <4>2. Rank(node.children[i].node) \in 0 .. Bound /\ Rank(node) \in 0 .. Bound
        BY <4>1, RankIs
      <4>3. Rank(node.children[i].node) < k
        BY <4>1, <4>2
      <4> QED BY <1>2, <4>1, <4>3
    <3> QED BY <2>2, <3>2
  <2> QED BY <2>1, <2>2
<1> HIDE DEF G
<1>3. Bound + 1 \in G
  <2>1. Bound + 1 \in Nat
    BY BoundNat
  <2> QED BY <1>1, <1>2, <2>1, SetInduction
<1> SUFFICES ASSUME NEW node \in Tree PROVE node \in S
  OBVIOUS
<1>4. Rank(node) \in 0 .. Bound
  BY RankIs
<1>5. Rank(node) < Bound + 1
  BY <1>4, BoundNat
<1> QED BY <1>3, <1>5 DEF G

(* What the recursive definitions over the trees compute: each takes the   *)
(* step it says.                                                           *)
LeafLists(node) == [i \in DOMAIN node.children |-> collect_leaves[node.children[i].node]]


LEMMA LeavesStep ==
  \A node \in Tree :
            collect_leaves[node] = IF IsLeaf(node) THEN <<node.id>> ELSE FlattenSeq(LeafLists(node))
<1> DEFINE B(f, node) == IF IsLeaf(node) THEN <<node.id>>
                         ELSE FlattenSeq([i \in DOMAIN node.children |-> f[node.children[i].node]])
           Good(f, k) == \A t \in Tree : Rank(t) < k => f[t] = B(f, t)
           Eq(f) == f = [node \in Tree |-> B(f, node)]
           S == {k \in Nat : \E f : Good(f, k)}
<1>1. ASSUME NEW f, NEW h, NEW t \in Tree,
             \A u \in Tree : Rank(u) < Rank(t) => f[u] = h[u]
      PROVE  B(f, t) = B(h, t)
  <2>1. CASE IsLeaf(t)
    BY <2>1
  <2>2. CASE ~IsLeaf(t)
    <3>1. /\ DOMAIN t.children = 1 .. Len(t.children)
          /\ \A i \in 1 .. Len(t.children) :
               t.children[i].node \in Tree /\ Rank(t.children[i].node) < Rank(t)
      BY <2>2, Kids, Zenon DEF IsFork
    <3>2. \A i \in DOMAIN t.children : f[t.children[i].node] = h[t.children[i].node]
      BY <1>1, <3>1
    <3>3. [i \in DOMAIN t.children |-> f[t.children[i].node]]
          = [i \in DOMAIN t.children |-> h[t.children[i].node]]
      BY <3>2
    <3> QED BY <2>2, <3>3
  <2> QED BY <2>1, <2>2
<1> HIDE DEF B
<1>2. 0 \in S
  <2>1. ASSUME NEW t \in Tree, Rank(t) < 0 PROVE FALSE
    <3>1. Rank(t) \in 0 .. Bound
      BY RankIs
    <3> QED BY <2>1, <3>1
  <2> QED BY <2>1
<1>3. ASSUME NEW k \in Nat, k \in S PROVE k + 1 \in S
  <2>1. PICK f : Good(f, k)
    BY <1>3
  <2> DEFINE h == [t \in Tree |-> IF Rank(t) < k THEN f[t] ELSE B(f, t)]
  <2>2. ASSUME NEW t \in Tree, Rank(t) < k + 1 PROVE h[t] = B(h, t)
    <3>1. ASSUME NEW u \in Tree, Rank(u) < Rank(t) PROVE f[u] = h[u]
      <4>1. Rank(u) \in 0 .. Bound /\ Rank(t) \in 0 .. Bound
        BY RankIs
      <4>2. Rank(u) < k
        BY <2>2, <3>1, <4>1
      <4> QED BY <4>2
    <3>2. h[t] = B(f, t)
      BY <2>1
    <3> HIDE DEF h
    <3>3. B(f, t) = B(h, t)
      BY <1>1, <3>1
    <3> QED BY <3>2, <3>3
  <2> HIDE DEF h
  <2>3. Good(h, k + 1)
    BY <2>2
  <2> QED BY <2>3
<1> HIDE DEF S
<1>4. Bound + 1 \in S
  <2>1. Bound + 1 \in Nat
    BY BoundNat
  <2> QED BY <1>2, <1>3, <2>1, SetInduction
<1>5. PICK f : Good(f, Bound + 1)
  BY <1>4 DEF S
<1> DEFINE e == [t \in Tree |-> f[t]]
<1>6. Eq(e)
  <2>1. ASSUME NEW t \in Tree PROVE f[t] = B(e, t)
    <3>1. Rank(t) \in 0 .. Bound
      BY RankIs
    <3>2. Rank(t) < Bound + 1
      BY <3>1, BoundNat
    <3>3. f[t] = B(f, t)
      BY <1>5, <3>2
    <3>4. \A u \in Tree : e[u] = f[u]
      OBVIOUS
    <3> HIDE DEF e
    <3>5. B(f, t) = B(e, t)
      BY <1>1, <3>4
    <3> QED BY <3>3, <3>5
  <2>2. e = [t \in Tree |-> B(e, t)]
    BY <2>1
  <2> HIDE DEF e
  <2> QED BY <2>2
<1>7. collect_leaves = CHOOSE g : Eq(g)
  BY ZenonT(60) DEF collect_leaves, B
<1>8. Eq(collect_leaves)
  <2> HIDE DEF e, Eq
  <2> QED BY <1>6, <1>7
<1>9. \A node \in Tree : collect_leaves[node] = B(collect_leaves, node)
  BY <1>8
<1> QED BY <1>9, Zenon DEF B, LeafLists


Edited(node, leaf, edit) ==
  IF IsLeaf(node) THEN node
  ELSE LET at == {i \in DOMAIN node.children : node.children[i].node = Leaf(leaf)}
       IN IF at # {} THEN EditHere(node, CHOOSE i \in at : TRUE, edit)
          ELSE [node EXCEPT !.children =
                  [i \in DOMAIN @ |-> Child(EditAt(@[i].node, leaf, edit), @[i].flex)]]

LEMMA EditStep ==
  ASSUME NEW leaf, NEW edit
  PROVE  \A node \in Tree : EditAt(node, leaf, edit) = Edited(node, leaf, edit)
<1> DEFINE At(node) == {i \in DOMAIN node.children : node.children[i].node = Leaf(leaf)}
           B(f, node) ==
             IF IsLeaf(node) THEN node
             ELSE IF At(node) # {} THEN EditHere(node, CHOOSE i \in At(node) : TRUE, edit)
                  ELSE [node EXCEPT !.children =
                          [i \in DOMAIN @ |-> Child(f[@[i].node], @[i].flex)]]
           Good(f, k) == \A t \in Tree : Rank(t) < k => f[t] = B(f, t)
           Eq(f) == f = [node \in Tree |-> B(f, node)]
           S == {k \in Nat : \E f : Good(f, k)}
<1>1. ASSUME NEW f, NEW h, NEW t \in Tree,
             \A u \in Tree : Rank(u) < Rank(t) => f[u] = h[u]
      PROVE  B(f, t) = B(h, t)
  <2>1. CASE IsLeaf(t)
    BY <2>1
  <2>2. CASE ~IsLeaf(t)
    <3>1. /\ DOMAIN t.children = 1 .. Len(t.children)
          /\ \A i \in 1 .. Len(t.children) :
               t.children[i].node \in Tree /\ Rank(t.children[i].node) < Rank(t)
      BY <2>2, Kids, Zenon DEF IsFork
    <3>2. \A i \in DOMAIN t.children : f[t.children[i].node] = h[t.children[i].node]
      BY <1>1, <3>1
    <3>3. [i \in DOMAIN t.children |-> Child(f[t.children[i].node], t.children[i].flex)]
          = [i \in DOMAIN t.children |-> Child(h[t.children[i].node], t.children[i].flex)]
      BY <3>2
    <3> QED BY <2>2, <3>3
  <2> QED BY <2>1, <2>2
<1> HIDE DEF B
<1>2. 0 \in S
  <2>1. ASSUME NEW t \in Tree, Rank(t) < 0 PROVE FALSE
    <3>1. Rank(t) \in 0 .. Bound
      BY RankIs
    <3> QED BY <2>1, <3>1
  <2> QED BY <2>1
<1>3. ASSUME NEW k \in Nat, k \in S PROVE k + 1 \in S
  <2>1. PICK f : Good(f, k)
    BY <1>3
  <2> DEFINE h == [t \in Tree |-> IF Rank(t) < k THEN f[t] ELSE B(f, t)]
  <2>2. ASSUME NEW t \in Tree, Rank(t) < k + 1 PROVE h[t] = B(h, t)
    <3>1. ASSUME NEW u \in Tree, Rank(u) < Rank(t) PROVE f[u] = h[u]
      <4>1. Rank(u) \in 0 .. Bound /\ Rank(t) \in 0 .. Bound
        BY RankIs
      <4>2. Rank(u) < k
        BY <2>2, <3>1, <4>1
      <4> QED BY <4>2
    <3>2. h[t] = B(f, t)
      BY <2>1
    <3> HIDE DEF h
    <3>3. B(f, t) = B(h, t)
      BY <1>1, <3>1
    <3> QED BY <3>2, <3>3
  <2> HIDE DEF h
  <2>3. Good(h, k + 1)
    BY <2>2
  <2> QED BY <2>3
<1> HIDE DEF S
<1>4. Bound + 1 \in S
  <2>1. Bound + 1 \in Nat
    BY BoundNat
  <2> QED BY <1>2, <1>3, <2>1, SetInduction
<1>5. PICK f : Good(f, Bound + 1)
  BY <1>4 DEF S
<1> DEFINE e == [t \in Tree |-> f[t]]
<1>6. Eq(e)
  <2>1. ASSUME NEW t \in Tree PROVE f[t] = B(e, t)
    <3>1. Rank(t) \in 0 .. Bound
      BY RankIs
    <3>2. Rank(t) < Bound + 1
      BY <3>1, BoundNat
    <3>3. f[t] = B(f, t)
      BY <1>5, <3>2
    <3>4. \A u \in Tree : e[u] = f[u]
      OBVIOUS
    <3> HIDE DEF e
    <3>5. B(f, t) = B(e, t)
      BY <1>1, <3>4
    <3> QED BY <3>3, <3>5
  <2>2. e = [t \in Tree |-> B(e, t)]
    BY <2>1
  <2> HIDE DEF e
  <2> QED BY <2>2
<1> DEFINE F == CHOOSE g : Eq(g)
<1>7. \A root : EditAt(root, leaf, edit) = F[root]
  BY ZenonT(60) DEF EditAt, B
<1>8. Eq(F)
  <2> HIDE DEF e, Eq
  <2> QED BY <1>6
<1> HIDE DEF F
<1>9. \A node \in Tree : F[node] = B(F, node)
  BY <1>8
<1>10. \A node : [i \in DOMAIN node.children |-> Child(EditAt(node.children[i].node, leaf, edit), node.children[i].flex)]
                = [i \in DOMAIN node.children |-> Child(F[node.children[i].node], node.children[i].flex)]
  BY <1>7
<1> QED BY <1>7, <1>9, <1>10, Zenon DEF B, Edited


LEMMA RenamedStep ==
  ASSUME NEW name
  PROVE  \A node \in Tree :
            Renamed(node, name) =
              IF IsLeaf(node) THEN Leaf(name[node.id])
              ELSE [node EXCEPT !.children =
                      [i \in DOMAIN @ |-> Child(Renamed(@[i].node, name), @[i].flex)]]
<1> DEFINE B(f, node) ==
             IF IsLeaf(node) THEN Leaf(name[node.id])
             ELSE [node EXCEPT !.children = [i \in DOMAIN @ |-> Child(f[@[i].node], @[i].flex)]]
           Good(f, k) == \A t \in Tree : Rank(t) < k => f[t] = B(f, t)
           Eq(f) == f = [node \in Tree |-> B(f, node)]
           S == {k \in Nat : \E f : Good(f, k)}
<1>1. ASSUME NEW f, NEW h, NEW t \in Tree,
             \A u \in Tree : Rank(u) < Rank(t) => f[u] = h[u]
      PROVE  B(f, t) = B(h, t)
  <2>1. CASE IsLeaf(t)
    BY <2>1
  <2>2. CASE ~IsLeaf(t)
    <3>1. /\ DOMAIN t.children = 1 .. Len(t.children)
          /\ \A i \in 1 .. Len(t.children) :
               t.children[i].node \in Tree /\ Rank(t.children[i].node) < Rank(t)
      BY <2>2, Kids, Zenon DEF IsFork
    <3>2. \A i \in DOMAIN t.children : f[t.children[i].node] = h[t.children[i].node]
      BY <1>1, <3>1
    <3>3. [i \in DOMAIN t.children |-> Child(f[t.children[i].node], t.children[i].flex)]
          = [i \in DOMAIN t.children |-> Child(h[t.children[i].node], t.children[i].flex)]
      BY <3>2
    <3> QED BY <2>2, <3>3
  <2> QED BY <2>1, <2>2
<1> HIDE DEF B
<1>2. 0 \in S
  <2>1. ASSUME NEW t \in Tree, Rank(t) < 0 PROVE FALSE
    <3>1. Rank(t) \in 0 .. Bound
      BY RankIs
    <3> QED BY <2>1, <3>1
  <2> QED BY <2>1
<1>3. ASSUME NEW k \in Nat, k \in S PROVE k + 1 \in S
  <2>1. PICK f : Good(f, k)
    BY <1>3
  <2> DEFINE h == [t \in Tree |-> IF Rank(t) < k THEN f[t] ELSE B(f, t)]
  <2>2. ASSUME NEW t \in Tree, Rank(t) < k + 1 PROVE h[t] = B(h, t)
    <3>1. ASSUME NEW u \in Tree, Rank(u) < Rank(t) PROVE f[u] = h[u]
      <4>1. Rank(u) \in 0 .. Bound /\ Rank(t) \in 0 .. Bound
        BY RankIs
      <4>2. Rank(u) < k
        BY <2>2, <3>1, <4>1
      <4> QED BY <4>2
    <3>2. h[t] = B(f, t)
      BY <2>1
    <3> HIDE DEF h
    <3>3. B(f, t) = B(h, t)
      BY <1>1, <3>1
    <3> QED BY <3>2, <3>3
  <2> HIDE DEF h
  <2>3. Good(h, k + 1)
    BY <2>2
  <2> QED BY <2>3
<1> HIDE DEF S
<1>4. Bound + 1 \in S
  <2>1. Bound + 1 \in Nat
    BY BoundNat
  <2> QED BY <1>2, <1>3, <2>1, SetInduction
<1>5. PICK f : Good(f, Bound + 1)
  BY <1>4 DEF S
<1> DEFINE e == [t \in Tree |-> f[t]]
<1>6. Eq(e)
  <2>1. ASSUME NEW t \in Tree PROVE f[t] = B(e, t)
    <3>1. Rank(t) \in 0 .. Bound
      BY RankIs
    <3>2. Rank(t) < Bound + 1
      BY <3>1, BoundNat
    <3>3. f[t] = B(f, t)
      BY <1>5, <3>2
    <3>4. \A u \in Tree : e[u] = f[u]
      OBVIOUS
    <3> HIDE DEF e
    <3>5. B(f, t) = B(e, t)
      BY <1>1, <3>4
    <3> QED BY <3>3, <3>5
  <2>2. e = [t \in Tree |-> B(e, t)]
    BY <2>1
  <2> HIDE DEF e
  <2> QED BY <2>2
<1> DEFINE F == CHOOSE g : Eq(g)
<1>7. \A root : Renamed(root, name) = F[root]
  BY ZenonT(60) DEF Renamed, B
<1>8. Eq(F)
  <2> HIDE DEF e, Eq
  <2> QED BY <1>6
<1> HIDE DEF F
<1>9. \A node \in Tree : F[node] = B(F, node)
  BY <1>8
<1>10. \A node : [i \in DOMAIN node.children |-> Child(Renamed(node.children[i].node, name), node.children[i].flex)]
                = [i \in DOMAIN node.children |-> Child(F[node.children[i].node], node.children[i].flex)]
  BY <1>7
<1> QED BY <1>7, <1>9, <1>10, Zenon DEF B


LEMMA EqualizeStep ==
  \A node \in Tree :
            equalize_in[node] =
              IF IsLeaf(node) THEN node
              ELSE [node EXCEPT !.children = [i \in DOMAIN @ |-> Child(equalize_in[@[i].node], 1)]]
<1> DEFINE B(f, node) ==
             IF IsLeaf(node) THEN node
             ELSE [node EXCEPT !.children = [i \in DOMAIN @ |-> Child(f[@[i].node], 1)]]
           Good(f, k) == \A t \in Tree : Rank(t) < k => f[t] = B(f, t)
           Eq(f) == f = [node \in Tree |-> B(f, node)]
           S == {k \in Nat : \E f : Good(f, k)}
<1>1. ASSUME NEW f, NEW h, NEW t \in Tree,
             \A u \in Tree : Rank(u) < Rank(t) => f[u] = h[u]
      PROVE  B(f, t) = B(h, t)
  <2>1. CASE IsLeaf(t)
    BY <2>1
  <2>2. CASE ~IsLeaf(t)
    <3>1. /\ DOMAIN t.children = 1 .. Len(t.children)
          /\ \A i \in 1 .. Len(t.children) :
               t.children[i].node \in Tree /\ Rank(t.children[i].node) < Rank(t)
      BY <2>2, Kids, Zenon DEF IsFork
    <3>2. \A i \in DOMAIN t.children : f[t.children[i].node] = h[t.children[i].node]
      BY <1>1, <3>1
    <3>3. [i \in DOMAIN t.children |-> Child(f[t.children[i].node], 1)]
          = [i \in DOMAIN t.children |-> Child(h[t.children[i].node], 1)]
      BY <3>2
    <3> QED BY <2>2, <3>3
  <2> QED BY <2>1, <2>2
<1> HIDE DEF B
<1>2. 0 \in S
  <2>1. ASSUME NEW t \in Tree, Rank(t) < 0 PROVE FALSE
    <3>1. Rank(t) \in 0 .. Bound
      BY RankIs
    <3> QED BY <2>1, <3>1
  <2> QED BY <2>1
<1>3. ASSUME NEW k \in Nat, k \in S PROVE k + 1 \in S
  <2>1. PICK f : Good(f, k)
    BY <1>3
  <2> DEFINE h == [t \in Tree |-> IF Rank(t) < k THEN f[t] ELSE B(f, t)]
  <2>2. ASSUME NEW t \in Tree, Rank(t) < k + 1 PROVE h[t] = B(h, t)
    <3>1. ASSUME NEW u \in Tree, Rank(u) < Rank(t) PROVE f[u] = h[u]
      <4>1. Rank(u) \in 0 .. Bound /\ Rank(t) \in 0 .. Bound
        BY RankIs
      <4>2. Rank(u) < k
        BY <2>2, <3>1, <4>1
      <4> QED BY <4>2
    <3>2. h[t] = B(f, t)
      BY <2>1
    <3> HIDE DEF h
    <3>3. B(f, t) = B(h, t)
      BY <1>1, <3>1
    <3> QED BY <3>2, <3>3
  <2> HIDE DEF h
  <2>3. Good(h, k + 1)
    BY <2>2
  <2> QED BY <2>3
<1> HIDE DEF S
<1>4. Bound + 1 \in S
  <2>1. Bound + 1 \in Nat
    BY BoundNat
  <2> QED BY <1>2, <1>3, <2>1, SetInduction
<1>5. PICK f : Good(f, Bound + 1)
  BY <1>4 DEF S
<1> DEFINE e == [t \in Tree |-> f[t]]
<1>6. Eq(e)
  <2>1. ASSUME NEW t \in Tree PROVE f[t] = B(e, t)
    <3>1. Rank(t) \in 0 .. Bound
      BY RankIs
    <3>2. Rank(t) < Bound + 1
      BY <3>1, BoundNat
    <3>3. f[t] = B(f, t)
      BY <1>5, <3>2
    <3>4. \A u \in Tree : e[u] = f[u]
      OBVIOUS
    <3> HIDE DEF e
    <3>5. B(f, t) = B(e, t)
      BY <1>1, <3>4
    <3> QED BY <3>3, <3>5
  <2>2. e = [t \in Tree |-> B(e, t)]
    BY <2>1
  <2> HIDE DEF e
  <2> QED BY <2>2
<1>7. equalize_in = CHOOSE g : Eq(g)
  BY ZenonT(60) DEF equalize_in, B
<1>8. Eq(equalize_in)
  <2> HIDE DEF e, Eq
  <2> QED BY <1>6, <1>7
<1>9. \A node \in Tree : equalize_in[node] = B(equalize_in, node)
  BY <1>8
<1> QED BY <1>9 DEF B

(* The panes of a tree, each once.                                         *)
Ids(node) == ToSet(collect_leaves[node])
Distinct(node) == IsInjective(collect_leaves[node])
KidsIn(d) == [node : Trees[d], flex : Nat]
IdsOf(c) == UNION {Ids(c[i].node) : i \in 1 .. Len(c)}
DistinctIn(c) ==
  /\ \A i \in 1 .. Len(c) : Distinct(c[i].node)
  /\ \A i, j \in 1 .. Len(c) : i # j => Disjoint(Ids(c[i].node), Ids(c[j].node))
Shape(node, d, S) == node \in Trees[d] /\ Distinct(node) /\ Ids(node) = S

LEMMA AsSeq ==
  ASSUME NEW S, NEW n \in Nat, NEW f \in [1 .. n -> S]
  PROVE  f \in Seq(S) /\ Len(f) = n /\ DOMAIN f = 1 .. n
<1>1. f \in Seq(S)
  BY SeqDef
<1> QED BY <1>1, LenProperties

LEMMA LessOne ==
  ASSUME NEW a \in Nat, NEW b \in Nat, NEW m \in Nat, a < b, b <= m + 1
  PROVE  a <= m
  OBVIOUS

LEMMA OneSeq ==
  ASSUME NEW S, NEW x \in S
  PROVE  /\ <<x>> \in Seq(S) /\ Len(<<x>>) = 1 /\ ToSet(<<x>>) = {x} /\ IsInjective(<<x>>)
         /\ DOMAIN <<x>> = 1 .. 1 /\ <<x>>[1] = x
<1>1. <<x>> \in Seq(S) /\ Len(<<x>>) = 1 /\ DOMAIN <<x>> = 1 .. 1 /\ <<x>>[1] = x
  OBVIOUS
<1> DEFINE s == <<x>>
<1>2. DOMAIN s = 1 .. 1 /\ s[1] = x
  BY <1>1
<1> HIDE DEF s
<1>3. \A i \in 1 .. 1 : i = 1
  OBVIOUS
<1>4. ToSet(s) = {x} /\ IsInjective(s)
  BY <1>2, <1>3 DEF ToSet, IsInjective
<1> QED BY <1>1, <1>4 DEF s

LEMMA LeafShape ==
  ASSUME NEW id \in Nat
  PROVE  /\ collect_leaves[Leaf(id)] = <<id>>
         /\ Ids(Leaf(id)) = {id} /\ Distinct(Leaf(id))
         /\ \A d \in 0 .. Bound : Shape(Leaf(id), d, {id})
<1>1. Bound \in 0 .. Bound
  BY BoundNat
<1>2. Leaf(id) \in Tree
  BY <1>1, LeafInTrees, BoundNat DEF Tree
<1>3. collect_leaves[Leaf(id)] = <<id>>
  BY <1>2, LeavesStep, LeafIn, Zenon
<1>4. Ids(Leaf(id)) = {id} /\ Distinct(Leaf(id))
  BY <1>3, OneSeq, Zenon DEF Ids, Distinct
<1> QED BY <1>3, <1>4, LeafInTrees DEF Shape

LEMMA LeavesTyped ==
  \A node \in Tree : collect_leaves[node] \in Seq(Nat) /\ Ids(node) # {}
<1> DEFINE S == {node \in Tree : collect_leaves[node] \in Seq(Nat) /\ Ids(node) # {}}
<1>1. ASSUME NEW id \in Nat PROVE Leaf(id) \in S
  <2>1. Bound \in 0 .. Bound
    BY BoundNat
  <2>2. Leaf(id) \in Tree
    BY <2>1, LeafInTrees, BoundNat DEF Tree
  <2>3. collect_leaves[Leaf(id)] = <<id>> /\ Ids(Leaf(id)) = {id}
    BY LeafShape, Zenon
  <2>4. <<id>> \in Seq(Nat)
    BY OneSeq
  <2> QED BY <2>2, <2>3, <2>4, Zenon
<1>2. ASSUME NEW node \in Tree, ~IsLeaf(node),
             \A i \in 1 .. Len(node.children) : node.children[i].node \in S
      PROVE  node \in S
  <2> DEFINE l == LeafLists(node)
             n == Len(node.children)
  <2>1. DOMAIN node.children = 1 .. n /\ n \in Nat /\ n >= 2
    BY <1>2, Kids, Zenon DEF IsFork
  <2>2. l = [i \in 1 .. n |-> collect_leaves[node.children[i].node]]
    BY <2>1 DEF LeafLists
  <2>3. \A i \in 1 .. n : collect_leaves[node.children[i].node] \in Seq(Nat)
    BY <1>2
  <2>4. l \in [1 .. n -> Seq(Nat)] /\ DOMAIN l = 1 .. n
    BY <2>2, <2>3
  <2> HIDE DEF l, n
  <2>5. l \in Seq(Seq(Nat)) /\ Len(l) = n
    BY <2>1, <2>4, AsSeq
  <2>6. l # <<>>
    BY <2>1, <2>5, EmptySeq
  <2>7. collect_leaves[node] = FlattenSeq(l)
    BY <1>2, LeavesStep, Zenon DEF l
  <2>8. FlattenSeq(l) \in Seq(Nat) /\ ToSet(FlattenSeq(l)) = PartsSet(l)
    BY <2>5, <2>6, FlattenParts
  <2>9. 1 \in 1 .. n /\ 1 \in 1 .. Len(node.children) /\ l[1] = collect_leaves[node.children[1].node]
    BY <2>1, <2>2 DEF n
  <2>10. ToSet(l[1]) # {}
    BY <1>2, <2>9 DEF Ids
  <2>11. PartsSet(l) # {}
    BY <2>5, <2>9, <2>10, Zenon DEF PartsSet
  <2> QED BY <2>7, <2>8, <2>11 DEF Ids
<1> HIDE DEF S
<1>3. \A node \in Tree : node \in S
  BY <1>1, <1>2, TreeInduction
<1> QED BY <1>3 DEF S

(* A split of these children.                                              *)
LEMMA BuildFork ==
  ASSUME NEW d \in 0 .. Bound, d < Bound, NEW axis \in Axis, NEW c \in Seq(KidsIn(d)), Len(c) >= 2
  PROVE  LET node == [axis |-> axis, children |-> c]
         IN /\ node \in Trees[d + 1] /\ ~IsLeaf(node) /\ IsFork(node, d) /\ node \in Tree
            /\ Ids(node) = IdsOf(c) /\ (Distinct(node) <=> DistinctIn(c))
            /\ DistinctIn(c) => Shape(node, d + 1, IdsOf(c))
<1> DEFINE node == [axis |-> axis, children |-> c]
           l == LeafLists(node)
           n == Len(c)
<1>1. node \in Trees[d + 1] /\ node \in Forks(d)
  BY ForkInTrees DEF KidsIn
<1>2. IsFork(node, d)
  BY <1>1, ForkIs
<1>3. node \in Tree
  <2>1. d + 1 \in 0 .. Bound
    BY BoundNat
  <2> QED BY <1>1, <2>1, TreesInTree
<1>4. node.children = c
  OBVIOUS
<1> HIDE DEF node
<1>5. /\ DOMAIN c = 1 .. n /\ n \in Nat /\ n >= 2
      /\ \A i \in 1 .. n : c[i].node \in Trees[d]
      /\ ~IsLeaf(node)
  BY <1>2, <1>4 DEF IsFork
<1>6. l = [i \in 1 .. n |-> collect_leaves[c[i].node]]
  BY <1>4, <1>5 DEF LeafLists
<1>7. \A i \in 1 .. n : collect_leaves[c[i].node] \in Seq(Nat)
  BY <1>5, TreesInTree, LeavesTyped
<1>8. l \in [1 .. n -> Seq(Nat)]
  BY <1>6, <1>7
<1>9. l \in Seq(Seq(Nat)) /\ Len(l) = n
  <2>1. DOMAIN l = 1 .. n
    BY <1>8
  <2> QED BY <1>5, <1>8, <2>1, SeqDef
<1>10. \A i \in 1 .. n : ToSet(l[i]) = Ids(c[i].node) /\ (IsInjective(l[i]) <=> Distinct(c[i].node))
  BY <1>6 DEF Ids, Distinct
<1>11. collect_leaves[node] = FlattenSeq(l)
  BY <1>3, <1>5, LeavesStep, Zenon DEF l
<1> HIDE DEF l
<1>12. l # <<>>
  BY <1>5, <1>9, EmptySeq
<1>13. ToSet(FlattenSeq(l)) = PartsSet(l) /\ (IsInjective(FlattenSeq(l)) <=> PartsDistinct(l))
  BY <1>9, <1>12, FlattenParts
<1>14. PartsSet(l) = IdsOf(c)
  <2>1. PartsSet(l) \subseteq IdsOf(c)
    BY <1>9, <1>10 DEF PartsSet, IdsOf
  <2>2. IdsOf(c) \subseteq PartsSet(l)
    BY <1>9, <1>10, Zenon DEF PartsSet, IdsOf
  <2> QED BY <2>1, <2>2, Zenon
<1>15. PartsDistinct(l) <=> DistinctIn(c)
  BY <1>9, <1>10 DEF PartsDistinct, DistinctIn
<1>16. Ids(node) = IdsOf(c) /\ (Distinct(node) <=> DistinctIn(c))
  BY <1>11, <1>13, <1>14, <1>15 DEF Ids, Distinct
<1> QED BY <1>1, <1>2, <1>3, <1>5, <1>16 DEF node, Shape

(* A split as a tree of its children.                                      *)
LEMMA ForkShape ==
  ASSUME NEW d \in 0 .. Bound, d < Bound, NEW node, IsFork(node, d)
  PROVE  /\ node \in Tree /\ node \in Trees[d + 1] /\ ~IsLeaf(node)
         /\ node.children \in Seq(KidsIn(d))
         /\ Ids(node) = IdsOf(node.children)
         /\ Distinct(node) <=> DistinctIn(node.children)
<1>1. /\ node = [axis |-> node.axis, children |-> node.children]
      /\ node.axis \in Axis /\ node.children \in Seq(KidsIn(d)) /\ Len(node.children) >= 2
  BY DEF IsFork, KidsIn
<1> QED BY <1>1, BuildFork, Zenon

(* The panes of a tree are finitely many, as many as its leaves.           *)
LEMMA SeqCount ==
  ASSUME NEW S, NEW s \in Seq(S), IsInjective(s)
  PROVE  IsFiniteSet(ToSet(s)) /\ Cardinality(ToSet(s)) = Len(s)
<1> DEFINE n == Len(s)
           T == ToSet(s)
<1>1. n \in Nat /\ s \in [1 .. n -> S] /\ DOMAIN s = 1 .. n
  BY LenProperties
<1>2. s \in [1 .. n -> T]
  BY <1>1 DEF ToSet
<1>3. s \in Bijection(1 .. n, T)
  <2>1. \A i, j \in 1 .. n : s[i] = s[j] => i = j
    BY <1>1 DEF IsInjective
  <2>2. \A t \in T : \E i \in 1 .. n : s[i] = t
    BY <1>1 DEF ToSet
  <2> HIDE DEF n, T
  <2>3. s \in Injection(1 .. n, T)
    BY <1>2, <2>1 DEF Injection, IsInjective
  <2> QED BY <1>2, <2>2, <2>3 DEF Bijection, Surjection
<1>4. IsFiniteSet(1 .. n) /\ Cardinality(1 .. n) = n
  BY <1>1, FS_Interval
<1>5. ExistsBijection(1 .. n, T)
  BY <1>3 DEF ExistsBijection
<1> QED BY <1>4, <1>5, FS_Bijection

LEMMA FiniteIds ==
  ASSUME NEW node \in Tree, Distinct(node)
  PROVE  /\ IsFiniteSet(Ids(node)) /\ Cardinality(Ids(node)) = Len(collect_leaves[node])
         /\ Cardinality(Ids(node)) \in Nat /\ Cardinality(Ids(node)) >= 1
<1>1. collect_leaves[node] \in Seq(Nat) /\ Ids(node) # {}
  BY LeavesTyped
<1>2. IsFiniteSet(Ids(node)) /\ Cardinality(Ids(node)) = Len(collect_leaves[node])
  BY <1>1, SeqCount DEF Ids, Distinct
<1>3. Cardinality(Ids(node)) \in Nat /\ Cardinality(Ids(node)) # 0
  BY <1>1, <1>2, FS_CardinalityType, FS_EmptySet
<1> QED BY <1>2, <1>3

LEMMA Smaller ==
  ASSUME NEW A, NEW B, IsFiniteSet(B), A \subseteq B, NEW x \in B, x \notin A
  PROVE  Cardinality(A) < Cardinality(B) /\ Cardinality(A) \in Nat /\ Cardinality(B) \in Nat
<1>1. A \in SUBSET B /\ A # B
  OBVIOUS
<1>2. IsFiniteSet(A) /\ Cardinality(A) <= Cardinality(B) /\ (Cardinality(B) = Cardinality(A) => B = A)
  BY <1>1, FS_Subset
<1>3. Cardinality(A) \in Nat /\ Cardinality(B) \in Nat
  BY <1>2, FS_CardinalityType
<1> QED BY <1>1, <1>2, <1>3

(* Every child of a split has fewer panes than the split.                  *)
LEMMA KidSmaller ==
  ASSUME NEW d \in 0 .. Bound, d < Bound, NEW node, IsFork(node, d), Distinct(node),
         NEW i \in 1 .. Len(node.children)
  PROVE  Cardinality(Ids(node.children[i].node)) < Cardinality(Ids(node))
<1> DEFINE c == node.children
           j == IF i = 1 THEN 2 ELSE 1
<1>1. /\ node \in Tree /\ Ids(node) = IdsOf(c) /\ DistinctIn(c)
      /\ Len(c) \in Nat /\ Len(c) >= 2
      /\ \A k \in 1 .. Len(c) : c[k].node \in Trees[d]
  BY ForkShape, Zenon DEF IsFork
<1>2. j \in 1 .. Len(c) /\ j # i
  BY <1>1
<1> HIDE DEF c, j
<1>3. i \in 1 .. Len(c)
  BY DEF c
<1>4. c[j].node \in Tree
  BY <1>1, <1>2, TreesInTree
<1>5. PICK x : x \in Ids(c[j].node)
  BY <1>4, LeavesTyped
<1>6. x \notin Ids(c[i].node)
  BY <1>1, <1>2, <1>3, <1>5, Zenon DEF DistinctIn, Disjoint
<1>7. x \in Ids(node) /\ Ids(c[i].node) \subseteq Ids(node)
  BY <1>1, <1>2, <1>3, <1>5 DEF IdsOf
<1>8. IsFiniteSet(Ids(node))
  BY <1>1, FiniteIds
<1>9. Cardinality(Ids(c[i].node)) < Cardinality(Ids(node))
  BY <1>6, <1>7, <1>8, Smaller
<1> QED BY <1>9 DEF c

(* A tree of few panes is not deep.                                        *)
LEMMA Shallow ==
  ASSUME NEW k \in Nat, k <= Bound
  PROVE  \A node \in Tree : Distinct(node) /\ Cardinality(Ids(node)) <= k + 1 => node \in Trees[k]
<1> DEFINE G == {m \in Nat : m <= Bound =>
                   \A node \in Tree :
                     Distinct(node) /\ Cardinality(Ids(node)) <= m + 1 => node \in Trees[m]}
<1>1. ASSUME NEW m \in 0 .. Bound, NEW node \in Tree, Distinct(node),
             Cardinality(Ids(node)) <= m + 1,
             m = 0 \/ (m - 1 \in Nat /\ m - 1 \in G)
      PROVE  node \in Trees[m]
  <2>1. CASE IsLeaf(node)
    <3>1. node \in Leaves
      <4>1. Bound \in 0 .. Bound /\ node \in Trees[Bound]
        BY BoundNat DEF Tree
      <4> QED BY <2>1, <4>1, TreeCases, Zenon DEF IsFork
    <3> QED BY <3>1, LeafIs, LeafInTrees
  <2>2. CASE ~IsLeaf(node)
    <3>1. PICK d \in 0 .. Bound : d < Bound /\ IsFork(node, d) /\ node \in Trees[d + 1]
      BY <2>2, Kids
    <3> DEFINE c == node.children
    <3>2. /\ Ids(node) = IdsOf(c) /\ DistinctIn(c) /\ Len(c) \in Nat /\ Len(c) >= 2
          /\ \A i \in 1 .. Len(c) : c[i].node \in Trees[d] /\ c[i].flex \in Nat
                                    /\ c[i] = Child(c[i].node, c[i].flex)
          /\ c \in Seq(KidsIn(d)) /\ node.axis \in Axis
          /\ node = [axis |-> node.axis, children |-> c]
      BY <1>1, <3>1, ForkShape, Zenon DEF IsFork
    <3>3. \A i \in 1 .. Len(c) : Cardinality(Ids(c[i].node)) < Cardinality(Ids(node))
      BY <1>1, <3>1, KidSmaller
    <3> HIDE DEF c
    <3>4. ASSUME NEW i \in 1 .. Len(c)
          PROVE  /\ c[i].node \in Tree /\ Distinct(c[i].node)
                 /\ Cardinality(Ids(c[i].node)) <= m
                 /\ Cardinality(Ids(c[i].node)) >= 1
      <4>1. c[i].node \in Tree /\ Distinct(c[i].node)
        BY <3>2, TreesInTree DEF DistinctIn
      <4>2. /\ Cardinality(Ids(c[i].node)) \in Nat /\ Cardinality(Ids(node)) \in Nat
            /\ Cardinality(Ids(c[i].node)) >= 1
        BY <1>1, <4>1, FiniteIds
      <4>3. Cardinality(Ids(c[i].node)) < Cardinality(Ids(node)) /\ Cardinality(Ids(node)) <= m + 1
        BY <1>1, <3>3
      <4>4. m \in Nat
        BY BoundNat
      <4>5. Cardinality(Ids(c[i].node)) <= m
        BY <4>2, <4>3, <4>4, LessOne
      <4> QED BY <4>1, <4>2, <4>5
    <3>5. m # 0
      <4>1. 1 \in 1 .. Len(c)
        BY <3>2
      <4>2. Cardinality(Ids(c[1].node)) <= m /\ Cardinality(Ids(c[1].node)) >= 1
        BY <3>4, <4>1
      <4>3. Cardinality(Ids(c[1].node)) \in Nat
        BY <1>1, <3>4, <4>1, FiniteIds
      <4> QED BY <4>2, <4>3
    <3>6. m - 1 \in 0 .. Bound /\ m - 1 < Bound /\ (m - 1) + 1 = m /\ m - 1 \in G
      BY <1>1, <3>5, BoundNat
    <3>7. \A i \in 1 .. Len(c) : c[i].node \in Trees[m - 1]
      <4> TAKE i \in 1 .. Len(c)
      <4>1. c[i].node \in Tree /\ Distinct(c[i].node) /\ Cardinality(Ids(c[i].node)) <= (m - 1) + 1
        BY <3>4, <3>6
      <4> QED BY <3>6, <4>1
    <3>8. \A i \in 1 .. Len(c) : c[i] \in KidsIn(m - 1)
      <4> TAKE i \in 1 .. Len(c)
      <4>1. \A t \in Trees[m - 1], f \in Nat : Child(t, f) \in KidsIn(m - 1)
        BY DEF KidsIn, Child
      <4>2. c[i] = Child(c[i].node, c[i].flex) /\ c[i].flex \in Nat /\ c[i].node \in Trees[m - 1]
        BY <3>2, <3>7
      <4>3. Child(c[i].node, c[i].flex) \in KidsIn(m - 1)
        BY <4>1, <4>2
      <4> QED BY <4>2, <4>3
    <3>9. c \in Seq(KidsIn(m - 1))
      <4>1. c \in [1 .. Len(c) -> KidsIn(d)]
        BY <3>2, LenProperties
      <4>2. c \in [1 .. Len(c) -> KidsIn(m - 1)]
        BY <3>8, <4>1
      <4> QED BY <3>2, <4>2, SeqDef
    <3>10. [axis |-> node.axis, children |-> c] \in Trees[(m - 1) + 1]
      BY <3>2, <3>6, <3>9, BuildFork
    <3> QED BY <3>2, <3>6, <3>10
  <2> QED BY <2>1, <2>2
<1>2. 0 \in G
  BY <1>1, BoundNat
<1>3. ASSUME NEW m \in Nat, m \in G PROVE m + 1 \in G
  <2> SUFFICES ASSUME m + 1 <= Bound, NEW node \in Tree, Distinct(node),
                      Cardinality(Ids(node)) <= (m + 1) + 1
               PROVE  node \in Trees[m + 1]
    OBVIOUS
  <2>1. m + 1 \in 0 .. Bound /\ (m + 1) - 1 = m
    BY BoundNat
  <2> HIDE DEF G
  <2> QED BY <1>1, <1>3, <2>1
<1> HIDE DEF G
<1>4. k \in G
  BY <1>2, <1>3, SetInduction
<1> QED BY <1>4 DEF G

-----------------------------------------------------------------------------
(* The weights of children: sums, divisors, and normalising.               *)

(* The weights of children.                                                *)
LEMMA MaxTwo ==
  ASSUME NEW a \in Int, NEW b \in Int
  PROVE  Max({a, b}) = (IF a >= b THEN a ELSE b) /\ Min({a, b}) = (IF a <= b THEN a ELSE b)
<1>1. Max({a, b}) = (IF a >= b THEN a ELSE b)
  <2> DEFINE P(x) == x \in {a, b} /\ \A y \in {a, b} : x >= y
             v == CHOOSE x : P(x)
             w == IF a >= b THEN a ELSE b
  <2>1. Max({a, b}) = v
    BY Zenon DEF Max
  <2>2. P(w)
    OBVIOUS
  <2>3. P(v)
    <3> HIDE DEF P, w
    <3> QED BY <2>2, Zenon
  <2>4. v = w
    <3> HIDE DEF v
    <3> QED BY <2>2, <2>3
  <2> QED BY <2>1, <2>4
<1>2. Min({a, b}) = (IF a <= b THEN a ELSE b)
  <2> DEFINE P(x) == x \in {a, b} /\ \A y \in {a, b} : x <= y
             v == CHOOSE x : P(x)
             w == IF a <= b THEN a ELSE b
  <2>1. Min({a, b}) = v
    BY Zenon DEF Min
  <2>2. P(w)
    OBVIOUS
  <2>3. P(v)
    <3> HIDE DEF P, w
    <3> QED BY <2>2, Zenon
  <2>4. v = w
    <3> HIDE DEF v
    <3> QED BY <2>2, <2>3
  <2> QED BY <2>1, <2>4
<1> QED BY <1>1, <1>2

LEMMA GcdTyped ==
  \A m, n \in Nat : Gcd[<<m, n>>] \in Nat
<1> DEFINE T == Nat \X Nat
           X == Nat
           rank == [t \in T |-> t[2]]
           B(f, p) == IF p[2] = 0 THEN p[1] ELSE f[<<p[2], p[1] % p[2]>>]
           g == [p \in [T -> X] \X T |-> B(p[1], p[2])]
           good == [t \in T |-> Nat]
<1>1. ASSUME NEW t \in T, t[2] # 0
      PROVE  /\ <<t[2], t[1] % t[2]>> \in T /\ t[1] % t[2] < t[2]
             /\ rank[<<t[2], t[1] % t[2]>>] < rank[t]
  <2>1. t[1] \in Nat /\ t[2] \in Nat
    OBVIOUS
  <2>2. t[1] % t[2] \in Nat /\ t[1] % t[2] < t[2]
    BY <1>1, <2>1
  <2>3. <<t[2], t[1] % t[2]>> \in T /\ rank[t] = t[2]
    BY <2>1, <2>2
  <2>4. \A a, b \in Nat : rank[<<a, b>>] = b
    OBVIOUS
  <2> HIDE DEF rank, T
  <2>5. rank[<<t[2], t[1] % t[2]>>] = t[1] % t[2]
    BY <2>1, <2>2, <2>4
  <2> QED BY <2>2, <2>3, <2>5
<1>2. ASSUME NEW f \in [T -> X], NEW t \in T
      PROVE  g[<<f, t>>] = B(f, t)
  <2> DEFINE p == <<f, t>>
  <2>1. p \in [T -> X] \X T /\ p[1] = f /\ p[2] = t
    OBVIOUS
  <2>3. g[p] = B(p[1], p[2])
    <3> HIDE DEF p, B
    <3> QED BY <2>1
  <2> HIDE DEF g, B
  <2> QED BY <2>1, <2>3 DEF p
<1>3. rank \in [T -> Nat]
  OBVIOUS
<1>4. \A t \in T : good[t] = Nat
  OBVIOUS
<1> HIDE DEF rank, good, g
<1>7. ASSUME NEW h \in [T -> X], NEW k \in [T -> X], NEW t \in T, Agree(h, k, Lower(rank, T, t))
      PROVE  g[<<h, t>>] = g[<<k, t>>]
  <2>1. g[<<h, t>>] = B(h, t) /\ g[<<k, t>>] = B(k, t)
    BY <1>2, Zenon
  <2>2. t[2] # 0 => h[<<t[2], t[1] % t[2]>>] = k[<<t[2], t[1] % t[2]>>]
    <3> HIDE DEF T
    <3> QED BY <1>1, <1>7 DEF Agree, Lower
  <2>3. B(h, t) = B(k, t)
    BY <2>2
  <2> QED BY <2>1, <2>3
<1>8. ASSUME NEW h \in [T -> X], NEW t \in T PROVE g[<<h, t>>] \in good[t]
  <2>1. g[<<h, t>>] = B(h, t)
    BY <1>2, Zenon
  <2>2. t[2] # 0 => h[<<t[2], t[1] % t[2]>>] \in Nat
    BY <1>1
  <2>3. t[1] \in Nat
    OBVIOUS
  <2>4. B(h, t) \in Nat
    BY <2>2, <2>3
  <2>5. good[t] = Nat
    BY <1>4
  <2> HIDE DEF B, T
  <2> QED BY <2>1, <2>4, <2>5
<1>9. ByRank(T, X, rank, g, good)
  <2>1. X # {} /\ rank \in [T -> Nat] /\ \A t \in T : good[t] \subseteq X
    BY <1>3, <1>4
  <2> HIDE DEF T, X
  <2> QED BY <1>7, <1>8, <2>1 DEF ByRank
<1>11. PICK f \in [T -> X] : \A t \in T : f[t] = g[<<f, t>>] /\ f[t] \in good[t]
  <2> HIDE DEF T, X
  <2> QED BY <1>9, RankRecursion
<1> DEFINE Eq(h) == h = [p \in T |-> B(h, p)]
<1>12. \A t \in T : f[t] = B(f, t)
  BY <1>2, <1>11, Zenon
<1>14. Eq(f)
  <2> HIDE DEF B, T
  <2> QED BY <1>11, <1>12
<1>15. Gcd = CHOOSE h : Eq(h)
  BY ZenonT(60) DEF Gcd
<1>16. Eq(Gcd)
  <2> HIDE DEF Eq
  <2> QED BY <1>14, <1>15
<1>17. \A t \in T : Gcd[t] = B(Gcd, t)
  BY <1>16
<1> DEFINE S == {n \in Nat : \A t \in T : t[2] <= n => Gcd[t] \in Nat}
<1>18. 0 \in S
  <2> SUFFICES ASSUME NEW t \in T, t[2] <= 0 PROVE Gcd[t] \in Nat
    OBVIOUS
  <2>1. t[2] = 0 /\ t[1] \in Nat
    OBVIOUS
  <2> QED BY <1>17, <2>1, Zenon
<1>19. ASSUME NEW n \in Nat, n \in S PROVE n + 1 \in S
  <2> SUFFICES ASSUME NEW t \in T, t[2] <= n + 1 PROVE Gcd[t] \in Nat
    OBVIOUS
  <2>0. t[1] \in Nat /\ t[2] \in Nat
    OBVIOUS
  <2>1. CASE t[2] = 0
    BY <1>17, <2>0, <2>1, Zenon
  <2>2. CASE t[2] # 0
    <3> DEFINE u == <<t[2], t[1] % t[2]>>
    <3>1. u \in T /\ u[2] = t[1] % t[2] /\ t[1] % t[2] < t[2] /\ t[1] % t[2] \in Nat
      BY <1>1, <2>0, <2>2
    <3>2. Gcd[t] = Gcd[u]
      BY <1>17, <2>2
    <3> HIDE DEF u
    <3>3. u[2] <= n
      BY <2>0, <3>1
    <3>4. Gcd[u] \in Nat
      BY <1>19, <3>1, <3>3
    <3> QED BY <3>2, <3>4
  <2> QED BY <2>1, <2>2
<1> HIDE DEF S
<1>20. Nat \subseteq S
  BY <1>18, <1>19, SetInduction
<1> SUFFICES ASSUME NEW m \in Nat, NEW n \in Nat PROVE Gcd[<<m, n>>] \in Nat
  BY Zenon
<1> DEFINE t == <<m, n>>
<1>21. t \in T /\ t[2] = n
  OBVIOUS
<1> HIDE DEF t, T
<1>22. n \in S
  BY <1>20
<1>23. Gcd[t] \in Nat
  BY <1>21, <1>22 DEF S
<1> QED BY <1>23 DEF t

(* What the definitions by recursion along a sequence compute.             *)
LEMMA SumsSteps ==
  ASSUME NEW numbers, Len(numbers) \in Nat
  PROVE  \E f : /\ f[0] = 0
                /\ \A i \in 1 .. Len(numbers) : f[i] = f[i - 1] + numbers[i]
                /\ \A i \in 0 .. Len(numbers) : Sums(numbers)[i] = f[i]
<1> DEFINE n == Len(numbers)
           Nx(x, i) == x + numbers[i]
           Good(f, k) == f[0] = 0 /\ \A i \in 1 .. k : f[i] = Nx(f[i - 1], i)
           Eq(f) == f = [i \in 0 .. n |-> IF i = 0 THEN 0 ELSE Nx(f[i - 1], i)]
           F == CHOOSE g : Eq(g)
           S == {k \in Nat : \E f : Good(f, k)}
<1>1. 0 \in S
  <2>1. Good([i \in 0 .. 0 |-> 0], 0)
    OBVIOUS
  <2> QED BY <2>1, Zenon
<1>2. \A i \in 0 .. n : Sums(numbers)[i] = F[i]
  BY ZenonT(60) DEF Sums, Nx
<1> HIDE DEF Nx
<1>3. ASSUME NEW k \in Nat, k \in S PROVE k + 1 \in S
  <2>1. PICK f : Good(f, k)
    BY <1>3
  <2> DEFINE h == [i \in 0 .. k + 1 |-> IF i <= k THEN f[i] ELSE Nx(f[k], k + 1)]
  <2>2. h[0] = 0
    BY <2>1
  <2>3. ASSUME NEW i \in 1 .. k + 1 PROVE h[i] = Nx(h[i - 1], i)
    <3>1. h[i - 1] = f[i - 1]
      OBVIOUS
    <3>2. CASE i <= k
      <4>1. h[i] = f[i] /\ i \in 1 .. k
        BY <3>2
      <4> HIDE DEF h
      <4> QED BY <2>1, <3>1, <4>1
    <3>3. CASE i = k + 1
      <4>1. h[i] = Nx(f[k], k + 1) /\ i - 1 = k
        BY <3>3
      <4> HIDE DEF h
      <4> QED BY <3>1, <3>3, <4>1
    <3> QED BY <3>2, <3>3
  <2> HIDE DEF h
  <2>4. Good(h, k + 1)
    BY <2>2, <2>3
  <2> QED BY <2>4
<1> HIDE DEF S, n
<1>4. n \in Nat
  BY DEF n
<1>5. n \in S
  BY <1>1, <1>3, <1>4, SetInduction
<1>6. PICK f : Good(f, n)
  BY <1>5 DEF S
<1> DEFINE e == [i \in 0 .. n |-> f[i]]
<1>7. Eq(e)
  <2>1. ASSUME NEW i \in 0 .. n PROVE f[i] = IF i = 0 THEN 0 ELSE Nx(e[i - 1], i)
    <3>1. CASE i # 0
      <4>1. e[i - 1] = f[i - 1] /\ i \in 1 .. n
        BY <1>4, <3>1
      <4> HIDE DEF e
      <4> QED BY <1>6, <3>1, <4>1
    <3> QED BY <1>6, <3>1
  <2>2. e = [i \in 0 .. n |-> IF i = 0 THEN 0 ELSE Nx(e[i - 1], i)]
    BY <2>1
  <2> HIDE DEF e
  <2> QED BY <2>2, Zenon
<1>8. Eq(F)
  <2> HIDE DEF e, Eq
  <2> QED BY <1>7
<1> HIDE DEF F
<1>9. F[0] = 0 /\ \A i \in 1 .. n : F[i] = Nx(F[i - 1], i)
  BY <1>4, <1>8
<1> QED BY <1>2, <1>9 DEF Nx, n


LEMMA DivisorSteps ==
  ASSUME NEW numbers, Len(numbers) \in Nat
  PROVE  \E f : /\ f[0] = 0
                /\ \A i \in 1 .. Len(numbers) : f[i] = Gcd[<<f[i - 1], numbers[i]>>]
                /\ Divisor(numbers) = f[Len(numbers)]
<1> DEFINE n == Len(numbers)
           Nx(x, i) == Gcd[<<x, numbers[i]>>]
           Good(f, k) == f[0] = 0 /\ \A i \in 1 .. k : f[i] = Nx(f[i - 1], i)
           Eq(f) == f = [i \in 0 .. n |-> IF i = 0 THEN 0 ELSE Nx(f[i - 1], i)]
           F == CHOOSE g : Eq(g)
           S == {k \in Nat : \E f : Good(f, k)}
<1>1. 0 \in S
  <2>1. Good([i \in 0 .. 0 |-> 0], 0)
    OBVIOUS
  <2> QED BY <2>1, Zenon
<1>2. Divisor(numbers) = F[n]
  BY ZenonT(60) DEF Divisor, Nx
<1> HIDE DEF Nx
<1>3. ASSUME NEW k \in Nat, k \in S PROVE k + 1 \in S
  <2>1. PICK f : Good(f, k)
    BY <1>3
  <2> DEFINE h == [i \in 0 .. k + 1 |-> IF i <= k THEN f[i] ELSE Nx(f[k], k + 1)]
  <2>2. h[0] = 0
    BY <2>1
  <2>3. ASSUME NEW i \in 1 .. k + 1 PROVE h[i] = Nx(h[i - 1], i)
    <3>1. h[i - 1] = f[i - 1]
      OBVIOUS
    <3>2. CASE i <= k
      <4>1. h[i] = f[i] /\ i \in 1 .. k
        BY <3>2
      <4> HIDE DEF h
      <4> QED BY <2>1, <3>1, <4>1
    <3>3. CASE i = k + 1
      <4>1. h[i] = Nx(f[k], k + 1) /\ i - 1 = k
        BY <3>3
      <4> HIDE DEF h
      <4> QED BY <3>1, <3>3, <4>1
    <3> QED BY <3>2, <3>3
  <2> HIDE DEF h
  <2>4. Good(h, k + 1)
    BY <2>2, <2>3
  <2> QED BY <2>4
<1> HIDE DEF S, n
<1>4. n \in Nat
  BY DEF n
<1>5. n \in S
  BY <1>1, <1>3, <1>4, SetInduction
<1>6. PICK f : Good(f, n)
  BY <1>5 DEF S
<1> DEFINE e == [i \in 0 .. n |-> f[i]]
<1>7. Eq(e)
  <2>1. ASSUME NEW i \in 0 .. n PROVE f[i] = IF i = 0 THEN 0 ELSE Nx(e[i - 1], i)
    <3>1. CASE i # 0
      <4>1. e[i - 1] = f[i - 1] /\ i \in 1 .. n
        BY <1>4, <3>1
      <4> HIDE DEF e
      <4> QED BY <1>6, <3>1, <4>1
    <3> QED BY <1>6, <3>1
  <2>2. e = [i \in 0 .. n |-> IF i = 0 THEN 0 ELSE Nx(e[i - 1], i)]
    BY <2>1
  <2> HIDE DEF e
  <2> QED BY <2>2, Zenon
<1>8. Eq(F)
  <2> HIDE DEF e, Eq
  <2> QED BY <1>7
<1> HIDE DEF F
<1>9. F[0] = 0 /\ \A i \in 1 .. n : F[i] = Nx(F[i - 1], i)
  BY <1>4, <1>8
<1> QED BY <1>2, <1>9, Zenon DEF Nx, n

LEMMA DivisorTyped ==
  ASSUME NEW numbers \in Seq(Nat)
  PROVE  Divisor(numbers) \in Nat
<1>0. Len(numbers) \in Nat
  OBVIOUS
<1>2. PICK f : /\ f[0] = 0
               /\ \A i \in 1 .. Len(numbers) : f[i] = Gcd[<<f[i - 1], numbers[i]>>]
               /\ Divisor(numbers) = f[Len(numbers)]
  BY <1>0, DivisorSteps, Zenon
<1> DEFINE n == Len(numbers)
<1>1. n \in Nat /\ \A i \in 1 .. n : numbers[i] \in Nat
  <2>1. numbers \in [1 .. n -> Nat] /\ n \in Nat
    BY LenProperties
  <2> QED BY <2>1
<1> HIDE DEF n
<1> DEFINE S == {k \in Nat : k <= n => f[k] \in Nat}
<1>3. 0 \in S
  BY <1>2
<1>4. ASSUME NEW k \in Nat, k \in S PROVE k + 1 \in S
  <2> SUFFICES ASSUME k + 1 <= n PROVE f[k + 1] \in Nat
    OBVIOUS
  <2>1. k + 1 \in 1 .. n /\ (k + 1) - 1 = k /\ f[k] \in Nat
    BY <1>1, <1>4
  <2>2. f[k + 1] = Gcd[<<f[k], numbers[k + 1]>>]
    BY <1>2, <2>1 DEF n
  <2>3. numbers[k + 1] \in Nat
    BY <1>1, <2>1
  <2> QED BY <2>1, <2>2, <2>3, GcdTyped
<1> HIDE DEF S
<1>5. n \in S
  BY <1>1, <1>3, <1>4, SetInduction, Zenon
<1> QED BY <1>1, <1>2, <1>5 DEF S, n

(* Normalising changes the weights alone.                                  *)
LooseKids(d) == [node : Trees[d], flex : Int]
SameNodes(c, e) == Len(e) = Len(c) /\ \A i \in 1 .. Len(c) : e[i].node = c[i].node

LEMMA ChildIn ==
  ASSUME NEW T, NEW N, NEW t \in T, NEW f \in N
  PROVE  /\ Child(t, f) \in [node : T, flex : N]
         /\ Child(t, f).node = t /\ Child(t, f).flex = f
BY DEF Child

LEMMA NormalizeKeeps ==
  ASSUME NEW d \in 0 .. Bound, NEW c \in Seq(LooseKids(d))
  PROVE  normalize_flex(c) \in Seq(KidsIn(d)) /\ SameNodes(c, normalize_flex(c))
<1> DEFINE n == Len(c)
           weight == [i \in DOMAIN c |-> Max({0, c[i].flex})]
           divisor == Divisor(weight)
           share(i) == IF divisor = 0 THEN 1 ELSE weight[i] \div divisor
           e == [i \in DOMAIN c |-> Child(c[i].node, share(i))]
<1>1. n \in Nat /\ DOMAIN c = 1 .. n /\ \A i \in 1 .. n : c[i] \in LooseKids(d)
  <2>1. n \in Nat /\ c \in [1 .. n -> LooseKids(d)]
    BY LenProperties
  <2> QED BY <2>1
<1>2. \A i \in 1 .. n : c[i].node \in Trees[d] /\ c[i].flex \in Int
  <2>1. \A k \in LooseKids(d) : k.node \in Trees[d] /\ k.flex \in Int
    BY DEF LooseKids
  <2> QED BY <1>1, <2>1
<1> HIDE DEF n
<1>3. ASSUME NEW i \in 1 .. n PROVE weight[i] \in Nat /\ weight[i] = Max({0, c[i].flex})
  <2>1. weight[i] = Max({0, c[i].flex})
    BY <1>1
  <2>2. c[i].flex \in Int
    BY <1>2
  <2> HIDE DEF weight
  <2> QED BY <2>1, <2>2, MaxTwo
<1>4. weight \in Seq(Nat)
  <2>1. weight = [i \in 1 .. n |-> weight[i]]
    BY <1>1
  <2> HIDE DEF weight
  <2>2. weight \in [1 .. n -> Nat]
    BY <1>3, <2>1, Zenon
  <2> QED BY <1>1, <2>2, AsSeq
<1> HIDE DEF weight
<1>5. divisor \in Nat
  BY <1>4, DivisorTyped
<1> HIDE DEF divisor
<1>6. ASSUME NEW i \in 1 .. n PROVE share(i) \in Nat
  <2>1. weight[i] \in Nat
    BY <1>3, Zenon
  <2> QED BY <1>5, <2>1
<1> HIDE DEF share
<1>7. e = [i \in 1 .. n |-> Child(c[i].node, share(i))]
  BY <1>1
<1>8. normalize_flex(c) = e
  BY DEF normalize_flex, weight, divisor, share
<1> HIDE DEF e
<1>9. ASSUME NEW i \in 1 .. n PROVE e[i] \in KidsIn(d) /\ e[i].node = c[i].node
  <2>1. e[i] = Child(c[i].node, share(i))
    BY <1>7
  <2>2. c[i].node \in Trees[d] /\ share(i) \in Nat
    BY <1>2, <1>6
  <2>3. \A t \in Trees[d], f \in Nat : Child(t, f) \in KidsIn(d) /\ Child(t, f).node = t
    BY DEF KidsIn, Child
  <2> QED BY <2>1, <2>2, <2>3
<1>10. e \in [1 .. n -> KidsIn(d)]
  BY <1>7, <1>9
<1>11. e \in Seq(KidsIn(d)) /\ Len(e) = n
  BY <1>1, <1>10, AsSeq
<1>12. SameNodes(c, e)
  BY <1>9, <1>11 DEF SameNodes, n
<1> QED BY <1>8, <1>11, <1>12

(* What a sequence is with an element put in, and without one.             *)
LEMMA Part ==
  ASSUME NEW S, NEW s \in Seq(S), NEW i \in 1 .. Len(s) + 1, NEW n \in Nat, n <= Len(s)
  PROVE  /\ SubSeq(s, i, n) \in Seq(S)
         /\ Len(SubSeq(s, i, n)) = IF i <= n THEN n - i + 1 ELSE 0
         /\ \A k \in 1 .. n - i + 1 : SubSeq(s, i, n)[k] = s[i + k - 1]
<1>1. \A k \in i .. n : s[k] \in S
  BY ElementOfSeq
<1>2. i \in Int /\ n \in Int
  OBVIOUS
<1>3. SubSeq(s, i, n) \in Seq(S)
  BY <1>1, <1>2, SubSeqProperties
<1>4. Len(SubSeq(s, i, n)) = IF i <= n THEN n - i + 1 ELSE 0
  BY <1>1, <1>2, SubSeqProperties
<1>5. \A k \in 1 .. n - i + 1 : SubSeq(s, i, n)[k] = s[i + k - 1]
  BY <1>1, <1>2, SubSeqProperties
<1> QED BY <1>3, <1>4, <1>5

LEMMA Rest ==
  ASSUME NEW S, NEW s \in Seq(S), NEW i \in 1 .. Len(s)
  PROVE  /\ SubSeq(s, i + 1, Len(s)) \in Seq(S)
         /\ Len(SubSeq(s, i + 1, Len(s))) = Len(s) - i
         /\ \A k \in 1 .. Len(s) - i : SubSeq(s, i + 1, Len(s))[k] = s[i + k]
<1> DEFINE n == Len(s)
           b == SubSeq(s, i + 1, n)
<1>0. n \in Nat /\ i \in 1 .. n /\ i + 1 \in 1 .. n + 1
  OBVIOUS
<1>1. /\ b \in Seq(S) /\ Len(b) = (IF i + 1 <= n THEN n - (i + 1) + 1 ELSE 0)
      /\ \A k \in 1 .. n - (i + 1) + 1 : b[k] = s[(i + 1) + k - 1]
  BY <1>0, Part
<1> HIDE DEF b, n
<1>2. Len(b) = n - i
  BY <1>0, <1>1
<1>3. ASSUME NEW k \in 1 .. n - i PROVE b[k] = s[i + k]
  <2>1. k \in 1 .. n - (i + 1) + 1 /\ (i + 1) + k - 1 = i + k
    BY <1>0
  <2>2. b[k] = s[(i + 1) + k - 1]
    BY <1>1, <2>1
  <2> QED BY <2>1, <2>2
<1> QED BY <1>1, <1>2, <1>3, Zenon DEF b, n

LEMMA Removed ==
  ASSUME NEW S, NEW s \in Seq(S), NEW i \in 1 .. Len(s)
  PROVE  /\ RemoveAt(s, i) \in Seq(S) /\ Len(RemoveAt(s, i)) = Len(s) - 1
         /\ \A k \in 1 .. Len(s) - 1 : RemoveAt(s, i)[k] = IF k < i THEN s[k] ELSE s[k + 1]
<1> DEFINE n == Len(s)
           a == SubSeq(s, 1, i - 1)
           b == SubSeq(s, i + 1, n)
<1>0. n \in Nat /\ i \in 1 .. n /\ i - 1 \in Nat /\ i - 1 <= n /\ i + 1 \in 1 .. n + 1 /\ 1 \in 1 .. n + 1
  OBVIOUS
<1>1. a \in Seq(S) /\ Len(a) = i - 1 /\ \A k \in 1 .. i - 1 : a[k] = s[k]
  <2>1. /\ a \in Seq(S) /\ Len(a) = (IF 1 <= i - 1 THEN (i - 1) - 1 + 1 ELSE 0)
        /\ \A k \in 1 .. (i - 1) - 1 + 1 : a[k] = s[1 + k - 1]
    BY <1>0, Part
  <2> HIDE DEF a
  <2> QED BY <1>0, <2>1
<1>2. b \in Seq(S) /\ Len(b) = n - i /\ \A k \in 1 .. n - i : b[k] = s[i + k]
  BY Rest
<1>3. RemoveAt(s, i) = a \o b
  BY DEF RemoveAt
<1> HIDE DEF a, b, n
<1>4. /\ a \o b \in Seq(S) /\ Len(a \o b) = Len(a) + Len(b)
      /\ \A k \in 1 .. Len(a) : (a \o b)[k] = a[k]
      /\ \A k \in 1 .. Len(b) : (a \o b)[Len(a) + k] = b[k]
  <2>1. a \in Seq(S) /\ b \in Seq(S)
    BY <1>1, <1>2
  <2> QED BY <2>1, Parts
<1>5. Len(a \o b) = n - 1
  BY <1>0, <1>1, <1>2, <1>4
<1>6. ASSUME NEW k \in 1 .. n - 1 PROVE (a \o b)[k] = IF k < i THEN s[k] ELSE s[k + 1]
  <2>1. CASE k < i
    <3>1. k \in 1 .. Len(a) /\ k \in 1 .. i - 1
      BY <1>0, <1>1, <2>1
    <3> QED BY <1>1, <1>4, <2>1, <3>1
  <2>2. CASE ~(k < i)
    <3>1. k - (i - 1) \in 1 .. n - i /\ (i - 1) + (k - (i - 1)) = k /\ i + (k - (i - 1)) = k + 1
      BY <1>0, <2>2
    <3>2. (a \o b)[k] = b[k - (i - 1)]
      BY <1>1, <1>2, <1>4, <3>1
    <3>3. b[k - (i - 1)] = s[k + 1]
      BY <1>2, <3>1
    <3> QED BY <2>2, <3>2, <3>3
  <2> QED BY <2>1, <2>2, Zenon
<1> QED BY <1>3, <1>4, <1>5, <1>6, Zenon DEF n

LEMMA Inserted ==
  ASSUME NEW S, NEW s \in Seq(S), NEW e \in S, NEW i \in 1 .. Len(s)
  PROVE  /\ InsertAt(s, i + 1, e) \in Seq(S) /\ Len(InsertAt(s, i + 1, e)) = Len(s) + 1
         /\ \A k \in 1 .. Len(s) + 1 :
              InsertAt(s, i + 1, e)[k] = IF k <= i THEN s[k] ELSE IF k = i + 1 THEN e ELSE s[k - 1]
<1> DEFINE n == Len(s)
           a == SubSeq(s, 1, i)
           b == SubSeq(s, i + 1, n)
           c == <<e>>
<1>0. n \in Nat /\ i \in 1 .. n /\ i \in Nat /\ i <= n /\ i + 1 \in 1 .. n + 1 /\ 1 \in 1 .. n + 1
  OBVIOUS
<1>1. a \in Seq(S) /\ Len(a) = i /\ \A k \in 1 .. i : a[k] = s[k]
  <2>1. /\ a \in Seq(S) /\ Len(a) = (IF 1 <= i THEN i - 1 + 1 ELSE 0)
        /\ \A k \in 1 .. i - 1 + 1 : a[k] = s[1 + k - 1]
    BY <1>0, Part
  <2> HIDE DEF a
  <2> QED BY <1>0, <2>1
<1>2. b \in Seq(S) /\ Len(b) = n - i /\ \A k \in 1 .. n - i : b[k] = s[i + k]
  BY Rest
<1>3. InsertAt(s, i + 1, e) = (a \o c) \o b
  <2>1. (i + 1) - 1 = i
    BY <1>0
  <2> QED BY <2>1, Zenon DEF InsertAt
<1>4. c \in Seq(S) /\ Len(c) = 1 /\ c[1] = e
  BY OneSeq
<1> HIDE DEF a, b, c, n
<1>5. /\ a \o c \in Seq(S) /\ Len(a \o c) = Len(a) + Len(c)
      /\ \A k \in 1 .. Len(a) : (a \o c)[k] = a[k]
      /\ \A k \in 1 .. Len(c) : (a \o c)[Len(a) + k] = c[k]
  <2>1. a \in Seq(S) /\ c \in Seq(S)
    BY <1>1, <1>4
  <2> QED BY <2>1, Parts
<1> DEFINE ac == a \o c
<1>6. /\ ac \in Seq(S) /\ Len(ac) = i + 1 /\ \A k \in 1 .. i : ac[k] = s[k]
      /\ ac[i + 1] = e
  <2>1. 1 \in 1 .. Len(c)
    BY <1>4
  <2>2. ac[i + 1] = e
    BY <1>1, <1>4, <1>5, <2>1
  <2> QED BY <1>0, <1>1, <1>4, <1>5, <2>2
<1> HIDE DEF ac
<1> DEFINE r == ac \o b
<1>7. /\ r \in Seq(S) /\ Len(r) = Len(ac) + Len(b)
      /\ \A k \in 1 .. Len(ac) : r[k] = ac[k]
      /\ \A k \in 1 .. Len(b) : r[Len(ac) + k] = b[k]
  <2>1. ac \in Seq(S) /\ b \in Seq(S)
    BY <1>2, <1>6
  <2> QED BY <2>1, Parts
<1>8. InsertAt(s, i + 1, e) = r
  BY <1>3, Zenon DEF ac
<1> HIDE DEF r
<1>9. Len(r) = n + 1
  BY <1>0, <1>2, <1>6, <1>7
<1>10. ASSUME NEW k \in 1 .. n + 1
       PROVE  r[k] = IF k <= i THEN s[k] ELSE IF k = i + 1 THEN e ELSE s[k - 1]
  <2>1. CASE k <= i
    <3>1. k \in 1 .. Len(ac) /\ k \in 1 .. i
      BY <1>0, <1>6, <2>1
    <3> QED BY <1>6, <1>7, <2>1, <3>1, Zenon
  <2>2. CASE k = i + 1
    <3>1. k \in 1 .. Len(ac) /\ ~(k <= i)
      BY <1>0, <1>6, <2>2
    <3> QED BY <1>6, <1>7, <2>2, <3>1
  <2>3. CASE ~(k <= i) /\ k # i + 1
    <3>1. /\ k - (i + 1) \in 1 .. n - i /\ (i + 1) + (k - (i + 1)) = k
          /\ i + (k - (i + 1)) = k - 1
      BY <1>0, <2>3
    <3>2. r[k] = b[k - (i + 1)]
      BY <1>2, <1>6, <1>7, <3>1
    <3>3. b[k - (i + 1)] = s[k - 1]
      BY <1>2, <3>1
    <3> QED BY <2>3, <3>2, <3>3
  <2> QED BY <2>1, <2>2, <2>3
<1> QED BY <1>7, <1>8, <1>9, <1>10 DEF n

-----------------------------------------------------------------------------
(* The edits, by what each does to the panes of the tree.                  *)

(* An edit at a leaf takes away gone and brings come.                      *)
Changed(S, leaf, gone, come) == IF leaf \in S THEN (S \ gone) \cup come ELSE S
HereOK(leaf, edit, gone, come) ==
  \A d \in 0 .. Bound : \A node : \A i \in 1 .. Len(node.children) :
    /\ d + 2 <= Bound /\ IsFork(node, d) /\ Distinct(node) /\ Disjoint(come, Ids(node))
    /\ node.children[i].node = Leaf(leaf)
    => Shape(EditHere(node, i, edit), d + 2, (Ids(node) \ gone) \cup come)

LEMMA NewKids ==
  ASSUME NEW d \in 0 .. Bound, d < Bound, NEW node, IsFork(node, d),
         NEW c \in Seq(KidsIn(d)), Len(c) >= 2, DistinctIn(c)
  PROVE  Shape([node EXCEPT !.children = c], d + 1, IdsOf(c))
<1>1. node = [axis |-> node.axis, children |-> node.children] /\ node.axis \in Axis
  BY DEF IsFork
<1>2. [node EXCEPT !.children = c] = [axis |-> node.axis, children |-> c]
  BY <1>1
<1>3. Shape([axis |-> node.axis, children |-> c], d + 1, IdsOf(c))
  BY <1>1, BuildFork
<1> QED BY <1>2, <1>3

LEMMA Deeper ==
  ASSUME NEW d \in 0 .. Bound, d + 1 <= Bound, NEW node, NEW S, Shape(node, d, S)
  PROVE  Shape(node, d + 1, S)
<1>0. d < Bound
  BY BoundNat
<1>1. Trees[d] \subseteq Trees[d + 1]
  BY <1>0, TreeStep
<1> QED BY <1>1 DEF Shape

LEMMA SameNodesIds ==
  ASSUME NEW c, NEW e, Len(c) \in Nat, SameNodes(c, e)
  PROVE  IdsOf(e) = IdsOf(c) /\ (DistinctIn(e) <=> DistinctIn(c))
BY DEF SameNodes, IdsOf, DistinctIn

(* If every child changes so, their split does.                            *)
EachChanged(c, e, leaf, gone, come) ==
  /\ Len(c) \in Nat /\ Len(e) = Len(c) /\ gone \subseteq {leaf}
  /\ Disjoint(come, IdsOf(c)) /\ DistinctIn(c)
  /\ \A i \in 1 .. Len(c) :
       /\ Distinct(e[i].node)
       /\ Ids(e[i].node) = Changed(Ids(c[i].node), leaf, gone, come)

LEMMA ChangedKids ==
  ASSUME NEW c, NEW e, NEW leaf, NEW gone, NEW come, EachChanged(c, e, leaf, gone, come)
  PROVE  DistinctIn(e) /\ IdsOf(e) = Changed(IdsOf(c), leaf, gone, come)
<1> DEFINE n == Len(c)
           A(i) == Ids(c[i].node)
           E(i) == Ids(e[i].node)
<1>0. /\ n \in Nat /\ Len(e) = n /\ gone \subseteq {leaf}
      /\ Disjoint(come, IdsOf(c)) /\ DistinctIn(c)
      /\ \A i \in 1 .. n : Distinct(e[i].node) /\ E(i) = Changed(A(i), leaf, gone, come)
  BY DEF EachChanged
<1>1. \A i, j \in 1 .. n : i # j => Disjoint(A(i), A(j))
  BY <1>0 DEF DistinctIn
<1>2. \A i \in 1 .. n : E(i) = Changed(A(i), leaf, gone, come) /\ Disjoint(come, A(i))
  BY <1>0 DEF Disjoint, IdsOf
<1>3. IdsOf(c) = UNION {A(i) : i \in 1 .. n} /\ IdsOf(e) = UNION {E(i) : i \in 1 .. n}
  BY <1>0 DEF IdsOf
<1>4. \A i \in 1 .. n : Distinct(e[i].node)
  BY <1>0
<1>5. (\A i, j \in 1 .. n : i # j => Disjoint(E(i), E(j))) => DistinctIn(e)
  BY <1>0, <1>4 DEF DistinctIn
<1> HIDE DEF A, E
<1>6. ASSUME NEW i \in 1 .. n, NEW j \in 1 .. n, i # j PROVE Disjoint(E(i), E(j))
  BY <1>1, <1>2, <1>6 DEF Changed, Disjoint
<1>7. CASE leaf \notin IdsOf(c)
  <2>1. \A i \in 1 .. n : E(i) = A(i)
    BY <1>2, <1>3, <1>7 DEF Changed
  <2>2. IdsOf(e) = IdsOf(c)
    BY <1>3, <2>1
  <2> QED BY <1>5, <1>6, <1>7, <2>2 DEF Changed
<1>8. CASE leaf \in IdsOf(c)
  <2>1. PICK j \in 1 .. n : leaf \in A(j)
    BY <1>3, <1>8
  <2>2. \A i \in 1 .. n : i # j => E(i) = A(i) /\ leaf \notin A(i)
    BY <1>1, <1>2, <2>1 DEF Changed, Disjoint
  <2>3. E(j) = (A(j) \ gone) \cup come
    BY <1>2, <2>1 DEF Changed
  <2>4. IdsOf(e) \subseteq (IdsOf(c) \ gone) \cup come
    BY <1>0, <1>3, <2>2, <2>3
  <2>5. (IdsOf(c) \ gone) \cup come \subseteq IdsOf(e)
    <3>1. come \subseteq IdsOf(e)
      BY <1>3, <2>1, <2>3
    <3>2. ASSUME NEW x \in IdsOf(c), x \notin gone PROVE x \in IdsOf(e)
      <4>1. PICK i \in 1 .. n : x \in A(i)
        BY <1>3
      <4>2. x \in E(i)
        BY <2>2, <2>3, <3>2, <4>1
      <4> QED BY <1>3, <4>2
    <3> QED BY <3>1, <3>2
  <2>6. IdsOf(e) = (IdsOf(c) \ gone) \cup come
    BY <2>4, <2>5
  <2> QED BY <1>5, <1>6, <1>8, <2>6 DEF Changed
<1> QED BY <1>7, <1>8

(* What an edit does to a tree is what it does where the leaf is.          *)
LEMMA EditShape ==
  ASSUME NEW leaf \in Nat, NEW edit, NEW gone, NEW come, gone \subseteq {leaf},
         HereOK(leaf, edit, gone, come), NEW m \in Nat, m + 1 <= Bound
  PROVE  \A node \in Trees[m] :
           Distinct(node) /\ Disjoint(come, Ids(node)) =>
             Shape(EditAt(node, leaf, edit), m + 1,
                   IF IsLeaf(node) THEN Ids(node) ELSE Changed(Ids(node), leaf, gone, come))
<1> DEFINE After(node) == IF IsLeaf(node) THEN Ids(node) ELSE Changed(Ids(node), leaf, gone, come)
           P(node, k) == Distinct(node) /\ Disjoint(come, Ids(node)) =>
                           Shape(EditAt(node, leaf, edit), k + 1, After(node))
           G == {k \in Nat : k + 1 <= Bound => \A node \in Trees[k] : P(node, k)}
<1>1. ASSUME NEW k \in Nat, k + 1 <= Bound, NEW node \in Leaves PROVE P(node, k)
  <2>1. node = Leaf(node.id) /\ IsLeaf(node) /\ node.id \in Nat
    BY LeafIs
  <2>2. k + 1 \in 0 .. Bound /\ Bound \in 0 .. Bound
    BY <1>1, BoundNat
  <2>3. node \in Trees[k + 1] /\ node \in Tree
    BY <2>1, <2>2, LeafInTrees, BoundNat DEF Tree
  <2>4. EditAt(node, leaf, edit) = node
    BY <2>1, <2>3, EditStep, Zenon DEF Edited
  <2> QED BY <2>1, <2>3, <2>4 DEF Shape
<1>2. 0 \in G
  <2>1. Trees[0] = Leaves
    BY TreesAre
  <2> QED BY <1>1, <2>1
<1>3. ASSUME NEW k \in Nat, k \in G PROVE k + 1 \in G
  <2> SUFFICES ASSUME (k + 1) + 1 <= Bound, NEW node \in Trees[k + 1] PROVE P(node, k + 1)
    OBVIOUS
  <2>1. /\ k + 1 \in 0 .. Bound /\ k \in 0 .. Bound /\ (k + 1) - 1 = k /\ k < Bound /\ k + 1 < Bound
        /\ k + 2 <= Bound /\ (k + 1) + 1 = k + 2 /\ k + 1 <= Bound /\ k + 2 \in 0 .. Bound
    BY BoundNat
  <2>2. CASE node \in Leaves
    BY <1>1, <2>1, <2>2
  <2>3. CASE IsFork(node, k)
    <3> SUFFICES ASSUME Distinct(node), Disjoint(come, Ids(node))
                 PROVE  Shape(EditAt(node, leaf, edit), k + 2, Changed(Ids(node), leaf, gone, come))
      BY <2>1, <2>3 DEF IsFork
    <3> DEFINE c == node.children
               at == {i \in DOMAIN c : c[i].node = Leaf(leaf)}
               e == [i \in DOMAIN c |-> Child(EditAt(c[i].node, leaf, edit), c[i].flex)]
               n == Len(c)
    <3>1. /\ DOMAIN c = 1 .. n /\ n \in Nat /\ n >= 2 /\ ~IsLeaf(node)
          /\ \A i \in 1 .. n : c[i].node \in Trees[k] /\ c[i].flex \in Nat
      BY <2>3 DEF IsFork
    <3>2. node \in Tree /\ Ids(node) = IdsOf(c) /\ DistinctIn(c)
      BY <2>1, <2>3, ForkShape
    <3>3. EditAt(node, leaf, edit) = IF at # {} THEN EditHere(node, CHOOSE i \in at : TRUE, edit)
                                     ELSE [node EXCEPT !.children = e]
      <4>1. EditAt(node, leaf, edit) = Edited(node, leaf, edit)
        BY <3>2, EditStep
      <4>2. Edited(node, leaf, edit) = IF at # {} THEN EditHere(node, CHOOSE i \in at : TRUE, edit)
                                       ELSE [node EXCEPT !.children = e]
        BY <3>1, Zenon DEF Edited
      <4> QED BY <4>1, <4>2
    <3>4. CASE at # {}
      <4> DEFINE i == CHOOSE i \in at : TRUE
      <4>1. i \in at
        BY <3>4
      <4> HIDE DEF i
      <4>2. i \in 1 .. Len(node.children) /\ node.children[i].node = Leaf(leaf)
        BY <3>1, <4>1
      <4>3. Shape(EditHere(node, i, edit), k + 2, (Ids(node) \ gone) \cup come)
        BY <2>1, <2>3, <4>2 DEF HereOK
      <4>4. leaf \in Ids(node)
        <5>1. leaf \in Ids(node.children[i].node)
          BY <4>2, LeafShape, Zenon
        <5> QED BY <3>2, <4>2, <5>1, Zenon DEF IdsOf
      <4> QED BY <3>3, <3>4, <4>3, <4>4 DEF Changed, i
    <3>5. CASE at = {}
      <4> HIDE DEF c
      <4>1. ASSUME NEW i \in 1 .. n
            PROVE  Shape(EditAt(c[i].node, leaf, edit), k + 1, Changed(Ids(c[i].node), leaf, gone, come))
        <5>1. c[i].node \in Trees[k] /\ Distinct(c[i].node) /\ Disjoint(come, Ids(c[i].node))
          BY <3>1, <3>2 DEF DistinctIn, Disjoint, IdsOf
        <5>2. Shape(EditAt(c[i].node, leaf, edit), k + 1, After(c[i].node))
          <6> HIDE DEF After
          <6> QED BY <1>3, <2>1, <5>1
        <5>3. CASE ~IsLeaf(c[i].node)
          BY <5>2, <5>3
        <5>4. CASE IsLeaf(c[i].node)
          <6>1. c[i].node \in Leaves
            BY <2>1, <5>1, <5>4, TreeCases, Zenon DEF IsFork
          <6>2. c[i].node = Leaf(c[i].node.id) /\ c[i].node.id \in Nat
            BY <6>1, LeafIs
          <6>3. c[i].node # Leaf(leaf)
            BY <3>1, <3>5, Zenon
          <6>4. leaf \notin Ids(c[i].node)
            BY <6>2, <6>3, LeafShape, Zenon
          <6> QED BY <5>2, <5>4, <6>4 DEF Changed
        <5> QED BY <5>3, <5>4
      <4>2. e = [i \in 1 .. n |-> Child(EditAt(c[i].node, leaf, edit), c[i].flex)]
        BY <3>1
      <4> HIDE DEF e
      <4>3. ASSUME NEW i \in 1 .. n
            PROVE  e[i] \in KidsIn(k + 1) /\ e[i].node = EditAt(c[i].node, leaf, edit)
        <5>1. \A t \in Trees[k + 1], f \in Nat : Child(t, f) \in KidsIn(k + 1) /\ Child(t, f).node = t
          BY DEF KidsIn, Child
        <5>2. EditAt(c[i].node, leaf, edit) \in Trees[k + 1] /\ c[i].flex \in Nat
          BY <3>1, <4>1 DEF Shape
        <5>3. e[i] = Child(EditAt(c[i].node, leaf, edit), c[i].flex)
          BY <4>2
        <5> QED BY <5>1, <5>2, <5>3
      <4>4. e \in [1 .. n -> KidsIn(k + 1)]
        BY <4>2, <4>3
      <4>5. e \in Seq(KidsIn(k + 1)) /\ Len(e) = n
        BY <3>1, <4>4, AsSeq, Zenon
      <4>6. \A i \in 1 .. Len(c) : /\ Distinct(e[i].node)
                                   /\ Ids(e[i].node) = Changed(Ids(c[i].node), leaf, gone, come)
        BY <4>1, <4>3 DEF Shape
      <4>7. DistinctIn(e) /\ IdsOf(e) = Changed(IdsOf(c), leaf, gone, come)
        <5>1. Disjoint(come, IdsOf(c)) /\ Len(c) \in Nat /\ Len(e) = Len(c) /\ DistinctIn(c)
          BY <3>1, <3>2, <4>5
        <5>2. gone \subseteq {leaf}
          OBVIOUS
        <5> HIDE DEF n, c
        <5>3. EachChanged(c, e, leaf, gone, come)
          BY <4>6, <5>1, <5>2 DEF EachChanged
        <5> QED BY <5>3, ChangedKids
      <4>8. node = [axis |-> node.axis, children |-> node.children] /\ node.axis \in Axis
        BY <2>3 DEF IsFork
      <4>9. [node EXCEPT !.children = e] = [axis |-> node.axis, children |-> e]
        BY <4>8
      <4>10. Shape([axis |-> node.axis, children |-> e], (k + 1) + 1, IdsOf(e))
        BY <2>1, <3>1, <4>5, <4>7, <4>8, BuildFork, Zenon
      <4> QED BY <2>1, <3>2, <3>3, <3>5, <4>7, <4>9, <4>10
    <3> QED BY <3>4, <3>5
  <2> QED BY <2>1, <2>2, <2>3, TreeCases
<1> HIDE DEF G
<1>4. m \in G
  BY <1>2, <1>3, SetInduction
<1> QED BY <1>4 DEF G

SplitEdit(axis, new) == [op |-> "split", axis |-> axis, new |-> new]
RemoveEdit == [op |-> "remove"]
ResizeEdit(sign, extent) == [op |-> "resize", sign |-> sign, extent |-> extent]
ReorderEdit(anchor) == [op |-> "reorder", anchor |-> anchor]

LEMMA Edits ==
  ASSUME NEW node, NEW i
  PROVE  /\ \A axis, new : EditHere(node, i, SplitEdit(axis, new)) = split_here(node, i, axis, new)
         /\ EditHere(node, i, RemoveEdit) = remove_here(node, i)
         /\ \A sign, extent : EditHere(node, i, ResizeEdit(sign, extent)) = resize_here(node, i, sign, extent)
         /\ \A anchor : EditHere(node, i, ReorderEdit(anchor)) = reorder_here(node, i, anchor)
BY DEF EditHere, SplitEdit, RemoveEdit, ResizeEdit, ReorderEdit

(* The children of a split at which a leaf is edited.                      *)
Here(d, node, i, leaf) ==
  /\ d \in 0 .. Bound /\ d + 2 <= Bound /\ IsFork(node, d) /\ Distinct(node)
  /\ i \in 1 .. Len(node.children) /\ node.children[i].node = Leaf(leaf) /\ leaf \in Nat
LEMMA HereIs ==
  ASSUME NEW d, NEW node, NEW i, NEW leaf, Here(d, node, i, leaf)
  PROVE  LET c == node.children IN
         /\ d \in 0 .. Bound /\ d < Bound /\ d + 1 \in 0 .. Bound /\ d + 1 < Bound /\ d + 2 \in 0 .. Bound
         /\ d \in Nat /\ d + 1 <= Bound /\ (d + 1) + 1 = d + 2 /\ (d + 1) + 1 <= Bound
         /\ c \in Seq(KidsIn(d)) /\ DOMAIN c = 1 .. Len(c) /\ Len(c) \in Nat /\ Len(c) >= 2
         /\ \A k \in 1 .. Len(c) : /\ c[k] \in KidsIn(d) /\ c[k].node \in Trees[d]
                                   /\ c[k].flex \in Nat
                                   /\ Shape(c[k].node, d, Ids(c[k].node))
         /\ Ids(node) = IdsOf(c) /\ DistinctIn(c)
         /\ node = [axis |-> node.axis, children |-> c] /\ node.axis \in Axis
         /\ i \in 1 .. Len(c) /\ Ids(c[i].node) = {leaf} /\ c[i].node = Leaf(leaf) /\ leaf \in Ids(node)
         /\ \A k \in 1 .. Len(c) : k # i => leaf \notin Ids(c[k].node)
<1> DEFINE c == node.children
<1>1. /\ d \in 0 .. Bound /\ d + 2 <= Bound /\ IsFork(node, d) /\ Distinct(node)
      /\ i \in 1 .. Len(c) /\ c[i].node = Leaf(leaf) /\ leaf \in Nat
  BY DEF Here
<1>2. /\ d < Bound /\ d + 1 \in 0 .. Bound /\ d + 1 < Bound /\ d + 2 \in 0 .. Bound
      /\ d \in Nat /\ d + 1 <= Bound /\ (d + 1) + 1 = d + 2 /\ (d + 1) + 1 <= Bound
  BY <1>1, BoundNat
<1>3. c \in Seq(KidsIn(d)) /\ Ids(node) = IdsOf(c) /\ DistinctIn(c)
  BY <1>1, <1>2, ForkShape
<1>4. Len(c) \in Nat /\ Len(c) >= 2 /\ node = [axis |-> node.axis, children |-> c] /\ node.axis \in Axis
  BY <1>1 DEF IsFork
<1> HIDE DEF c
<1>5. DOMAIN c = 1 .. Len(c) /\ \A k \in 1 .. Len(c) : c[k] \in KidsIn(d)
  BY <1>3
<1>6. \A k \in 1 .. Len(c) : c[k].node \in Trees[d] /\ c[k].flex \in Nat
  BY <1>5 DEF KidsIn
<1>7. \A k \in 1 .. Len(c) : Shape(c[k].node, d, Ids(c[k].node))
  BY <1>3, <1>6 DEF Shape, DistinctIn
<1>8. Ids(c[i].node) = {leaf}
  BY <1>1, LeafShape, Zenon
<1>9. leaf \in IdsOf(c)
  BY <1>1, <1>8 DEF IdsOf
<1>10. \A k \in 1 .. Len(c) : k # i => leaf \notin Ids(c[k].node)
  BY <1>1, <1>3, <1>8, Zenon DEF DistinctIn, Disjoint
<1> QED BY <1>1, <1>2, <1>3, <1>4, <1>5, <1>6, <1>7, <1>8, <1>9, <1>10, Zenon DEF c

(* Children with other weights.                                            *)
LEMMA LooseIs ==
  ASSUME NEW d, NEW c \in Seq(KidsIn(d))
  PROVE  c \in Seq(LooseKids(d))
<1>1. KidsIn(d) \subseteq LooseKids(d)
  BY DEF KidsIn, LooseKids
<1> QED BY <1>1

LEMMA WeightsShape ==
  ASSUME NEW d, NEW node, NEW i, NEW leaf, Here(d, node, i, leaf),
         NEW c \in Seq(LooseKids(d)), SameNodes(node.children, c)
  PROVE  Shape([node EXCEPT !.children = normalize_flex(c)], d + 2, Ids(node))
<1> DEFINE e == normalize_flex(c)
<1>1. d \in 0 .. Bound /\ d < Bound /\ d + 1 \in 0 .. Bound /\ (d + 1) + 1 = d + 2 /\ (d + 1) + 1 <= Bound
  BY HereIs
<1>2. e \in Seq(KidsIn(d)) /\ SameNodes(c, e)
  BY <1>1, NormalizeKeeps
<1>3. /\ Len(node.children) \in Nat /\ Len(node.children) >= 2 /\ DistinctIn(node.children)
      /\ Ids(node) = IdsOf(node.children)
  BY HereIs
<1>4. IsFork(node, d)
  BY DEF Here
<1> HIDE DEF e
<1>5. SameNodes(node.children, e) /\ Len(e) = Len(node.children)
  BY <1>2, Zenon DEF SameNodes
<1>6. IdsOf(e) = Ids(node) /\ DistinctIn(e)
  BY <1>3, <1>5, SameNodesIds
<1>7. Shape([node EXCEPT !.children = e], d + 1, IdsOf(e))
  BY <1>1, <1>2, <1>3, <1>4, <1>5, <1>6, NewKids
<1>8. Shape([node EXCEPT !.children = e], (d + 1) + 1, IdsOf(e))
  BY <1>1, <1>7, Deeper
<1> QED BY <1>1, <1>6, <1>8 DEF e

LEMMA SumsTyped ==
  ASSUME NEW numbers \in Seq(Int)
  PROVE  \A i \in 0 .. Len(numbers) : Sums(numbers)[i] \in Int
<1> DEFINE n == Len(numbers)
           G == {k \in Nat : k <= n => Sums(numbers)[k] \in Int}
<1>1. n \in Nat /\ \A i \in 1 .. n : numbers[i] \in Int
  OBVIOUS
<1>2. 0 \in G
  BY <1>1, SumsSteps
<1>3. ASSUME NEW k \in Nat, k \in G PROVE k + 1 \in G
  <2> SUFFICES ASSUME k + 1 <= n PROVE Sums(numbers)[k + 1] \in Int
    OBVIOUS
  <2>1. k + 1 \in 1 .. n /\ (k + 1) - 1 = k /\ k <= n
    BY <1>1
  <2>2. Sums(numbers)[k] \in Int
    BY <1>3, <2>1
  <2>3. PICK f : /\ f[0] = 0
                 /\ \A i \in 1 .. Len(numbers) : f[i] = f[i - 1] + numbers[i]
                 /\ \A i \in 0 .. Len(numbers) : Sums(numbers)[i] = f[i]
    <3>1. Len(numbers) \in Nat
      BY <1>1
    <3> QED BY <3>1, SumsSteps
  <2> HIDE DEF n
  <2>4. Sums(numbers)[k + 1] = Sums(numbers)[(k + 1) - 1] + numbers[k + 1]
    <3>1. k + 1 \in 0 .. n /\ (k + 1) - 1 \in 0 .. n
      BY <1>1, <2>1
    <3> QED BY <2>1, <2>3, <3>1 DEF n
  <2> QED BY <1>1, <2>1, <2>2, <2>4
<1> HIDE DEF G
<1>4. \A k \in Nat : k \in G
  BY <1>2, <1>3, SetInduction, Zenon
<1> QED BY <1>1, <1>4 DEF G

LEMMA PutKids ==
  ASSUME NEW a, NEW c, NEW e
  PROVE  [[axis |-> a, children |-> c] EXCEPT !.children = e] = [axis |-> a, children |-> e]
OBVIOUS
(* Removing.                                                               *)
LEMMA RemoveHere ==
  ASSUME NEW d, NEW node, NEW i, NEW leaf, Here(d, node, i, leaf)
  PROVE  Shape(remove_here(node, i), d + 2, Ids(node) \ {leaf})
<1> DEFINE c == node.children
           n == Len(c)
           rest == RemoveAt(c, i)
           at(k) == IF k < i THEN k ELSE k + 1
<1>1. /\ d \in 0 .. Bound /\ d < Bound /\ d + 1 \in 0 .. Bound /\ d + 1 < Bound /\ (d + 1) + 1 = d + 2
      /\ d + 1 <= Bound /\ (d + 1) + 1 <= Bound
  BY HereIs
<1>2. /\ c \in Seq(KidsIn(d)) /\ n \in Nat /\ n >= 2 /\ i \in 1 .. n
      /\ Ids(node) = IdsOf(c) /\ DistinctIn(c)
      /\ Ids(c[i].node) = {leaf}
  <2>1. c \in Seq(KidsIn(d)) /\ n \in Nat /\ n >= 2 /\ i \in 1 .. n
    BY HereIs
  <2>2. Ids(node) = IdsOf(c) /\ DistinctIn(c)
    BY HereIs
  <2>3. Ids(c[i].node) = {leaf}
    BY LeafShape, Zenon DEF Here
  <2> QED BY <2>1, <2>2, <2>3
<1>3. \A k \in 1 .. n : k # i => leaf \notin Ids(c[k].node)
  BY HereIs
<1>4. \A k \in 1 .. n : Shape(c[k].node, d, Ids(c[k].node))
  <2>1. \A k \in 1 .. n : c[k].node \in Trees[d]
    BY HereIs, Zenon
  <2> QED BY <1>2, <2>1 DEF Shape, DistinctIn
<1> HIDE DEF c
<1>5. /\ rest \in Seq(KidsIn(d)) /\ Len(rest) = n - 1
      /\ \A k \in 1 .. n - 1 : rest[k] = IF k < i THEN c[k] ELSE c[k + 1]
  BY <1>2, Removed, Zenon
<1> HIDE DEF rest, n
<1>6. \A k \in 1 .. n - 1 : at(k) \in 1 .. n /\ at(k) # i /\ rest[k] = c[at(k)]
  BY <1>2, <1>5
<1>7. \A k, j \in 1 .. n - 1 : k # j => at(k) # at(j)
  BY <1>2
<1>8. \A j \in 1 .. n : j # i => \E k \in 1 .. n - 1 : at(k) = j
  <2> TAKE j \in 1 .. n
  <2> HAVE j # i
  <2>1. CASE j < i
    <3>1. j \in 1 .. n - 1 /\ at(j) = j
      BY <1>2, <2>1
    <3> QED BY <3>1
  <2>2. CASE j > i
    <3>1. j - 1 \in 1 .. n - 1 /\ at(j - 1) = j
      BY <1>2, <2>2
    <3> QED BY <3>1
  <2> QED BY <1>2, <2>1, <2>2
<1>9. n - 1 \in Nat /\ Len(rest) \in Nat
  BY <1>2, <1>5
<1> HIDE DEF at
<1>10. IdsOf(rest) = Ids(node) \ {leaf}
  <2>1. ASSUME NEW x \in IdsOf(rest) PROVE x \in Ids(node) \ {leaf}
    <3>1. PICK k \in 1 .. n - 1 : x \in Ids(rest[k].node)
      BY <1>5 DEF IdsOf
    <3>2. at(k) \in 1 .. n /\ at(k) # i /\ x \in Ids(c[at(k)].node)
      BY <1>6, <3>1
    <3>3. x \in IdsOf(c)
      BY <3>2 DEF IdsOf, n
    <3> QED BY <1>2, <1>3, <3>2, <3>3
  <2>2. ASSUME NEW x \in Ids(node), x # leaf PROVE x \in IdsOf(rest)
    <3>1. PICK j \in 1 .. n : x \in Ids(c[j].node)
      BY <1>2 DEF IdsOf, n
    <3>2. j # i
      BY <1>2, <2>2, <3>1
    <3>3. PICK k \in 1 .. n - 1 : at(k) = j
      BY <1>8, <3>2
    <3>4. k \in 1 .. Len(rest) /\ x \in Ids(rest[k].node)
      BY <1>5, <1>6, <3>1, <3>3
    <3> QED BY <3>4 DEF IdsOf
  <2> QED BY <2>1, <2>2
<1>11. DistinctIn(rest)
  <2>1. \A k \in 1 .. Len(rest) : Distinct(rest[k].node)
    BY <1>2, <1>5, <1>6, Zenon DEF DistinctIn, n
  <2>2. ASSUME NEW k \in 1 .. Len(rest), NEW j \in 1 .. Len(rest), k # j
        PROVE  Disjoint(Ids(rest[k].node), Ids(rest[j].node))
    <3>1. /\ at(k) \in 1 .. n /\ at(j) \in 1 .. n /\ at(k) # at(j)
          /\ rest[k] = c[at(k)] /\ rest[j] = c[at(j)]
      BY <1>5, <1>6, <1>7, <2>2
    <3> QED BY <1>2, <3>1, Zenon DEF DistinctIn, n
  <2> QED BY <2>1, <2>2 DEF DistinctIn
<1>12. CASE Len(rest) = 1
  <2>1. remove_here(node, i) = rest[1].node
    BY <1>12 DEF remove_here, rest, c
  <2>2. 1 \in 1 .. n - 1 /\ rest[1] = c[at(1)] /\ at(1) \in 1 .. n
    BY <1>5, <1>6, <1>12
  <2>3. IdsOf(rest) = Ids(rest[1].node)
    BY <1>12 DEF IdsOf
  <2>4. Shape(rest[1].node, d, Ids(node) \ {leaf})
    BY <1>4, <1>10, <2>2, <2>3, Zenon
  <2>5. Shape(rest[1].node, d + 1, Ids(node) \ {leaf})
    BY <1>1, <2>4, Deeper
  <2>6. Shape(rest[1].node, (d + 1) + 1, Ids(node) \ {leaf})
    BY <1>1, <2>5, Deeper
  <2> QED BY <1>1, <2>1, <2>6
<1>13. CASE Len(rest) # 1
  <2> DEFINE e == normalize_flex(rest)
  <2>1. remove_here(node, i) = [node EXCEPT !.children = e]
    BY <1>13 DEF remove_here, rest, c
  <2>2. rest \in Seq(LooseKids(d))
    BY <1>5, LooseIs
  <2>3. e \in Seq(KidsIn(d)) /\ SameNodes(rest, e)
    BY <1>1, <2>2, NormalizeKeeps
  <2> HIDE DEF e
  <2>4. IdsOf(e) = IdsOf(rest) /\ DistinctIn(e)
    BY <1>9, <1>11, <2>3, SameNodesIds
  <2>5. Len(e) >= 2
    BY <1>2, <1>5, <1>13, <2>3 DEF SameNodes
  <2>6. IsFork(node, d)
    BY DEF Here
  <2>7. Shape([node EXCEPT !.children = e], d + 1, IdsOf(e))
    BY <1>1, <2>3, <2>4, <2>5, <2>6, NewKids
  <2>8. Shape([node EXCEPT !.children = e], (d + 1) + 1, IdsOf(e))
    BY <1>1, <2>7, Deeper
  <2> QED BY <1>1, <1>10, <2>1, <2>4, <2>8
<1> QED BY <1>12, <1>13

(* Changing places.                                                        *)
LEMMA ReorderHere ==
  ASSUME NEW d, NEW node, NEW i, NEW leaf, Here(d, node, i, leaf), NEW anchor
  PROVE  Shape(reorder_here(node, i, anchor), d + 2, Ids(node))
<1> DEFINE c == node.children
           n == Len(c)
           at == {k \in DOMAIN node.children : node.children[k].node = Leaf(anchor) /\ k < i}
           k == CHOOSE x \in at : TRUE
<1>1. /\ d \in 0 .. Bound /\ d < Bound /\ d + 1 \in 0 .. Bound /\ d + 1 < Bound /\ (d + 1) + 1 = d + 2
      /\ d + 1 <= Bound /\ (d + 1) + 1 <= Bound
  BY HereIs
<1>2. /\ c \in Seq(KidsIn(d)) /\ n \in Nat /\ n >= 2 /\ i \in 1 .. n /\ DOMAIN c = 1 .. n
      /\ Ids(node) = IdsOf(c) /\ DistinctIn(c)
      /\ node = [axis |-> node.axis, children |-> c]
  BY HereIs
<1>3. IsFork(node, d)
  BY DEF Here
<1>4. CASE at = {}
  <2>1. reorder_here(node, i, anchor) = node
    BY <1>4 DEF reorder_here
  <2>2. Shape(node, d + 1, Ids(node))
    BY <1>1, <1>3, ForkShape DEF Here, Shape
  <2>3. Shape(node, (d + 1) + 1, Ids(node))
    BY <1>1, <2>2, Deeper
  <2> QED BY <1>1, <2>1, <2>3
<1>5. CASE at # {}
  <2> DEFINE e == [j \in 1 .. n |-> IF j = i THEN c[k] ELSE IF j = k THEN c[i] ELSE c[j]]
             p(j) == IF j = i THEN k ELSE IF j = k THEN i ELSE j
  <2>0. reorder_here(node, i, anchor)
          = [node EXCEPT !.children = [@ EXCEPT ![k] = node.children[i], ![i] = node.children[k]]]
    BY <1>5, Zenon DEF reorder_here
  <2>1. k \in at
    BY <1>5
  <2>2. k \in 1 .. n /\ k < i
    BY <1>2, <2>1
  <2> HIDE DEF k, at
  <2>3. [node EXCEPT !.children = [@ EXCEPT ![k] = node.children[i], ![i] = node.children[k]]]
          = [node EXCEPT !.children = e]
    <3> DEFINE a == node.axis
               x == node.children[i]
               y == node.children[k]
    <3>1. node = [axis |-> a, children |-> c]
      BY <1>2
    <3>2. x = c[i] /\ y = c[k]
      OBVIOUS
    <3> HIDE DEF a, c, x, y, e
    <3>3. [[axis |-> a, children |-> c] EXCEPT !.children = [@ EXCEPT ![k] = x, ![i] = y]]
            = [axis |-> a, children |-> [c EXCEPT ![k] = x, ![i] = y]]
      OBVIOUS
    <3>4. [[axis |-> a, children |-> c] EXCEPT !.children = e] = [axis |-> a, children |-> e]
      BY PutKids
    <3>5. [c EXCEPT ![k] = c[i], ![i] = c[k]] = e
      BY <1>2, <2>2, Zenon DEF e
    <3>6. [node EXCEPT !.children = [@ EXCEPT ![k] = x, ![i] = y]] = [node EXCEPT !.children = e]
      BY <3>1, <3>2, <3>3, <3>4, <3>5
    <3> QED BY <3>6 DEF x, y
  <2> HIDE DEF c
  <2>4. e \in [1 .. n -> KidsIn(d)]
    BY <1>2, <2>2
  <2>5. e \in Seq(KidsIn(d)) /\ Len(e) = n
    BY <1>2, <2>4, AsSeq
  <2>6. \A j \in 1 .. n : p(j) \in 1 .. n /\ e[j] = c[p(j)] /\ p(p(j)) = j
    BY <1>2, <2>2
  <2> HIDE DEF e, p
  <2>7. IdsOf(e) = IdsOf(c)
    <3>1. ASSUME NEW x \in IdsOf(e) PROVE x \in IdsOf(c)
      <4>1. PICK j \in 1 .. n : x \in Ids(e[j].node)
        BY <2>5 DEF IdsOf
      <4> QED BY <2>6, <4>1 DEF IdsOf, n
    <3>2. ASSUME NEW x \in IdsOf(c) PROVE x \in IdsOf(e)
      <4>1. PICK j \in 1 .. n : x \in Ids(c[j].node)
        BY DEF IdsOf, n
      <4>2. p(j) \in 1 .. n /\ e[p(j)] = c[j]
        BY <2>6
      <4> QED BY <2>5, <4>1, <4>2 DEF IdsOf
    <3> QED BY <3>1, <3>2
  <2>8. DistinctIn(e)
    <3>1. \A j \in 1 .. Len(e) : Distinct(e[j].node)
      BY <1>2, <2>5, <2>6 DEF DistinctIn, n
    <3>2. ASSUME NEW j \in 1 .. Len(e), NEW m \in 1 .. Len(e), j # m
          PROVE  Disjoint(Ids(e[j].node), Ids(e[m].node))
      <4>1. /\ p(j) \in 1 .. n /\ p(m) \in 1 .. n /\ p(j) # p(m)
            /\ e[j] = c[p(j)] /\ e[m] = c[p(m)]
        BY <2>5, <2>6, <3>2
      <4> QED BY <1>2, <4>1 DEF DistinctIn, n
    <3> QED BY <3>1, <3>2 DEF DistinctIn
  <2>9. Shape([node EXCEPT !.children = e], d + 1, IdsOf(e))
    BY <1>1, <1>2, <1>3, <2>5, <2>8, NewKids
  <2>10. Shape([node EXCEPT !.children = e], (d + 1) + 1, IdsOf(e))
    BY <1>1, <2>9, Deeper
  <2> QED BY <1>1, <1>2, <2>0, <2>3, <2>7, <2>10
<1> QED BY <1>4, <1>5

(* Resizing.                                                               *)
LEMMA TotalTyped ==
  ASSUME NEW d, NEW c \in Seq(KidsIn(d))
  PROVE  Total(Flexes(c)) \in Int
<1> DEFINE f == Flexes(c)
<1>1. Len(c) \in Nat /\ DOMAIN c = 1 .. Len(c) /\ \A i \in 1 .. Len(c) : c[i].flex \in Nat
  <2>1. Len(c) \in Nat /\ DOMAIN c = 1 .. Len(c) /\ \A i \in 1 .. Len(c) : c[i] \in KidsIn(d)
    OBVIOUS
  <2> QED BY <2>1 DEF KidsIn
<1>2. f \in [1 .. Len(c) -> Int]
  <2>1. f = [i \in 1 .. Len(c) |-> c[i].flex]
    BY <1>1 DEF Flexes
  <2> HIDE DEF f
  <2> QED BY <1>1, <2>1
<1> HIDE DEF f
<1>3. f \in Seq(Int) /\ Len(f) = Len(c)
  BY <1>1, <1>2, AsSeq, Zenon
<1>4. Len(f) \in 0 .. Len(f)
  BY <1>1, <1>3
<1>5. Sums(f)[Len(f)] \in Int
  BY <1>3, <1>4, SumsTyped
<1> QED BY <1>5 DEF Total, f

LEMMA ResizeTyped ==
  ASSUME NEW x \in Int, NEW y \in Int, NEW sum \in Int, NEW sign \in Int, NEW extent \in Int
  PROVE  LET scale == 20 * extent
             least == Min({20 * MIN_CELL * sum, 9 * extent * sum})
             pair == (x + y) * scale
             wanted == x * scale + sign * extent * sum
             new == Max({least, Min({wanted, Max({pair - least, least})})})
         IN  scale \in Int /\ new \in Int /\ pair - new \in Int
<1> DEFINE scale == 20 * extent
           one == 20 * MIN_CELL * sum
           two == 9 * extent * sum
           least == Min({one, two})
           pair == (x + y) * scale
           wanted == x * scale + sign * extent * sum
           far == pair - least
           most == Max({far, least})
           most2 == Min({wanted, most})
           new == Max({least, most2})
<1>1. scale \in Int /\ one \in Int /\ two \in Int /\ pair \in Int
  BY SplitTreeAssumption
<1>2. wanted \in Int
  OBVIOUS
<1> HIDE DEF one, two, wanted, pair, scale
<1>3. least \in Int
  BY <1>1, MaxTwo
<1> HIDE DEF least
<1>4. far \in Int
  BY <1>1, <1>3
<1> HIDE DEF far
<1>5. most \in Int
  BY <1>3, <1>4, MaxTwo
<1> HIDE DEF most
<1>6. most2 \in Int
  BY <1>2, <1>5, MaxTwo, Zenon
<1> HIDE DEF most2
<1>7. new \in Int
  BY <1>3, <1>6, MaxTwo
<1> HIDE DEF new
<1>8. pair - new \in Int
  BY <1>1, <1>7
<1> QED BY <1>1, <1>7, <1>8 DEF new, most2, most, far, least, wanted, pair, one, two, scale

LEMMA ResizeHere ==
  ASSUME NEW d, NEW node, NEW i, NEW leaf, Here(d, node, i, leaf), NEW sign \in Int, NEW extent \in Int
  PROVE  Shape(resize_here(node, i, sign, extent), d + 2, Ids(node))
<1> DEFINE kids == node.children
           n == Len(kids)
           a == IF i < n THEN i ELSE i - 1
           scale == 20 * extent
           sum == Total(Flexes(kids))
           least == Min({20 * MIN_CELL * sum, 9 * extent * sum})
           pair == (kids[a].flex + kids[a + 1].flex) * scale
           wanted == kids[a].flex * scale + sign * extent * sum
           new == Max({least, Min({wanted, Max({pair - least, least})})})
           flex(k) == IF k = a THEN new ELSE IF k = a + 1 THEN pair - new ELSE kids[k].flex * scale
           e == [k \in DOMAIN kids |-> Child(kids[k].node, flex(k))]
<1>1. /\ kids \in Seq(KidsIn(d)) /\ n \in Nat /\ n >= 2 /\ i \in 1 .. n /\ DOMAIN kids = 1 .. n
  BY HereIs
<1>2. \A k \in 1 .. n : kids[k].node \in Trees[d] /\ kids[k].flex \in Nat
  BY HereIs, Zenon
<1>3. a \in 1 .. n /\ a + 1 \in 1 .. n
  BY <1>1
<1>4. sum \in Int
  BY <1>1, TotalTyped
<1>5. resize_here(node, i, sign, extent) = [node EXCEPT !.children = normalize_flex(e)]
  BY Zenon DEF resize_here
<1>6. kids[a].flex \in Int /\ kids[a + 1].flex \in Int
  BY <1>2, <1>3
<1> HIDE DEF kids, n, a, sum
<1>7. scale \in Int /\ new \in Int /\ pair - new \in Int
  BY <1>4, <1>6, ResizeTyped, Zenon
<1> HIDE DEF new, pair, scale, wanted, least
<1>8. \A k \in 1 .. n : flex(k) \in Int
  BY <1>2, <1>7
<1> HIDE DEF flex
<1>9. e \in [1 .. n -> LooseKids(d)] /\ \A k \in 1 .. n : e[k].node = kids[k].node
  BY <1>1, <1>2, <1>8 DEF LooseKids, Child
<1> HIDE DEF e
<1>10. e \in Seq(LooseKids(d)) /\ Len(e) = n
  BY <1>1, <1>9, AsSeq
<1>11. SameNodes(node.children, e)
  BY <1>9, <1>10 DEF SameNodes, kids, n
<1> QED BY <1>5, <1>10, <1>11, WeightsShape, Zenon

(* Splitting.                                                              *)
LEMMA PairShape ==
  ASSUME NEW axis \in Axis, NEW leaf \in Nat, NEW new \in Nat, leaf # new
  PROVE  Shape(Split(axis, <<Leaf(leaf), Leaf(new)>>), 1, {leaf, new})
<1> DEFINE c == <<Child(Leaf(leaf), 1), Child(Leaf(new), 1)>>
<1>1. Split(axis, <<Leaf(leaf), Leaf(new)>>) = [axis |-> axis, children |-> c]
  BY DEF Split
<1>2. 0 \in 0 .. Bound /\ 0 < Bound /\ 0 + 1 = 1
  BY BoundNat
<1>3. /\ Leaf(leaf) \in Trees[0] /\ Ids(Leaf(leaf)) = {leaf} /\ Distinct(Leaf(leaf))
      /\ Leaf(new) \in Trees[0] /\ Ids(Leaf(new)) = {new} /\ Distinct(Leaf(new))
  BY <1>2, LeafShape DEF Shape
<1>4. Child(Leaf(leaf), 1) \in KidsIn(0) /\ Child(Leaf(new), 1) \in KidsIn(0)
  BY <1>3 DEF Child, KidsIn
<1>5. c \in Seq(KidsIn(0)) /\ Len(c) = 2 /\ c[1].node = Leaf(leaf) /\ c[2].node = Leaf(new)
  BY <1>4 DEF Child
<1> HIDE DEF c
<1>6. IdsOf(c) = {leaf, new}
  BY <1>3, <1>5 DEF IdsOf
<1>7. DistinctIn(c)
  BY <1>3, <1>5 DEF DistinctIn, Disjoint
<1>8. Shape([axis |-> axis, children |-> c], 0 + 1, IdsOf(c))
  BY <1>2, <1>5, <1>7, BuildFork
<1> QED BY <1>1, <1>2, <1>6, <1>8

LEMMA SplitHereOther ==
  ASSUME NEW d, NEW node, NEW i, NEW leaf, Here(d, node, i, leaf),
         NEW axis \in Axis, NEW new \in Nat, new \notin Ids(node), node.axis # axis
  PROVE  Shape(split_here(node, i, axis, new), d + 2, Ids(node) \cup {new})
<1> DEFINE c == node.children
           n == Len(c)
           pair == Split(axis, <<Leaf(leaf), Leaf(new)>>)
           e == [k \in 1 .. n |-> IF k = i THEN Child(pair, c[i].flex) ELSE c[k]]
<1>1. /\ d \in 0 .. Bound /\ d < Bound /\ d + 1 \in 0 .. Bound /\ d + 1 < Bound /\ (d + 1) + 1 = d + 2
      /\ d \in Nat /\ d + 1 <= Bound
  BY HereIs
<1>2. /\ c \in Seq(KidsIn(d)) /\ n \in Nat /\ n >= 2 /\ i \in 1 .. n /\ DOMAIN c = 1 .. n
      /\ leaf \in Nat /\ c[i].node = Leaf(leaf)
  <2>1. leaf \in Nat /\ c[i].node = Leaf(leaf)
    BY DEF Here
  <2> QED BY <2>1, HereIs
<1>3. Ids(node) = IdsOf(c) /\ DistinctIn(c) /\ node.axis \in Axis
  BY HereIs
<1>4. node = [axis |-> node.axis, children |-> c]
  BY HereIs
<1>5. leaf \in Ids(node) /\ leaf # new
  BY HereIs
<1>6. \A k \in 1 .. n : /\ c[k] \in KidsIn(d) /\ c[k].node \in Trees[d] /\ c[k].flex \in Nat
  <2> HIDE DEF c
  <2>1. \A k \in 1 .. n : c[k] \in KidsIn(d)
    BY <1>2
  <2> QED BY <2>1 DEF KidsIn
<1>7. Shape(pair, 1, {leaf, new})
  BY <1>2, <1>5, PairShape
<1>8. pair \in Trees[d + 1] /\ Distinct(pair) /\ Ids(pair) = {leaf, new}
  <2>1. 1 \in 0 .. Bound /\ d + 1 \in 1 .. Bound
    BY <1>1, BoundNat
  <2>2. Trees[1] \subseteq Trees[d + 1]
    BY <2>1, TreeGrows
  <2> HIDE DEF pair
  <2> QED BY <1>7, <2>2 DEF Shape
<1>9. split_here(node, i, axis, new) = [node EXCEPT !.children = e]
  <2>1. split_here(node, i, axis, new) = [node EXCEPT !.children[i].node = Split(axis, <<c[i].node, Leaf(new)>>)]
    BY DEF split_here
  <2>2. Split(axis, <<c[i].node, Leaf(new)>>) = pair
    BY <1>2
  <2> HIDE DEF pair, c
  <2>3. split_here(node, i, axis, new) = [axis |-> node.axis, children |-> [c EXCEPT ![i].node = pair]]
    BY <1>4, <2>1, <2>2
  <2>4. [c EXCEPT ![i].node = pair] = e
    <3>1. [c[i] EXCEPT !.node = pair] = Child(pair, c[i].flex)
      BY <1>2, <1>6 DEF KidsIn, Child
    <3>2. [c EXCEPT ![i].node = pair] = [c EXCEPT ![i] = Child(pair, c[i].flex)]
      BY <3>1, Zenon
    <3> QED BY <1>2, <3>2, Zenon
  <2> HIDE DEF e
  <2>5. [[axis |-> node.axis, children |-> c] EXCEPT !.children = e] = [axis |-> node.axis, children |-> e]
    BY PutKids
  <2> QED BY <1>4, <2>3, <2>4, <2>5
<1> HIDE DEF c, pair
<1>10. Trees[d] \subseteq Trees[d + 1]
  BY <1>1, TreeStep
<1>11. e \in [1 .. n -> KidsIn(d + 1)]
  <2>1. Child(pair, c[i].flex) \in KidsIn(d + 1)
    BY <1>2, <1>6, <1>8 DEF Child, KidsIn
  <2>2. \A k \in 1 .. n : c[k] \in KidsIn(d + 1)
    BY <1>6, <1>10 DEF KidsIn
  <2> QED BY <2>1, <2>2
<1>12. e[i].node = pair /\ \A k \in 1 .. n : k # i => e[k] = c[k]
  BY <1>2 DEF Child
<1> HIDE DEF e
<1>13. e \in Seq(KidsIn(d + 1)) /\ Len(e) = n
  BY <1>2, <1>11, AsSeq
<1>14. Disjoint({new}, IdsOf(c)) /\ {} \subseteq {leaf}
  BY <1>3 DEF Disjoint
<1>15. \A k \in 1 .. n : k # i => leaf \notin Ids(c[k].node)
  BY HereIs DEF c, n
<1>16. Ids(c[i].node) = {leaf}
  BY <1>2, LeafShape, Zenon
<1>17. \A k \in 1 .. Len(c) : /\ Distinct(e[k].node)
                              /\ Ids(e[k].node) = Changed(Ids(c[k].node), leaf, {}, {new})
  <2> TAKE k \in 1 .. Len(c)
  <2>1. CASE k = i
    BY <1>8, <1>12, <1>16, <2>1, Zenon DEF Changed
  <2>2. CASE k # i
    <3>1. e[k] = c[k] /\ leaf \notin Ids(c[k].node) /\ Distinct(c[k].node)
      BY <1>3, <1>12, <1>15, <2>2 DEF DistinctIn, n
    <3> QED BY <3>1 DEF Changed
  <2> QED BY <2>1, <2>2
<1>18. DistinctIn(e) /\ IdsOf(e) = Changed(IdsOf(c), leaf, {}, {new})
  <2>1. Len(c) \in Nat /\ Len(e) = Len(c)
    BY <1>2, <1>13 DEF n
  <2> DEFINE gone == {}
             come == {new}
  <2>2. gone \subseteq {leaf} /\ Disjoint(come, IdsOf(c))
    BY <1>14
  <2>3. \A k \in 1 .. Len(c) : /\ Distinct(e[k].node)
                                /\ Ids(e[k].node) = Changed(Ids(c[k].node), leaf, gone, come)
    BY <1>17, Zenon
  <2> HIDE DEF gone, come
  <2>4. DistinctIn(e) /\ IdsOf(e) = Changed(IdsOf(c), leaf, gone, come)
    <3>1. EachChanged(c, e, leaf, gone, come)
      BY <1>3, <2>1, <2>2, <2>3 DEF EachChanged
    <3> QED BY <3>1, ChangedKids
  <2> QED BY <2>4 DEF gone, come
<1>19. IdsOf(e) = Ids(node) \cup {new}
  BY <1>3, <1>5, <1>18 DEF Changed
<1>20. Shape([axis |-> node.axis, children |-> e], (d + 1) + 1, IdsOf(e))
  BY <1>1, <1>2, <1>3, <1>13, <1>18, BuildFork
<1>21. [node EXCEPT !.children = e] = [axis |-> node.axis, children |-> e]
  BY <1>4, PutKids
<1> QED BY <1>1, <1>9, <1>19, <1>20, <1>21

(* A child put in after another.                                           *)
LEMMA InsertedIds ==
  ASSUME NEW c, NEW n \in Nat, Len(c) = n, DistinctIn(c), NEW i \in 1 .. n, NEW new, new \notin IdsOf(c),
         NEW e, Len(e) = n + 1,
         \A k \in 1 .. n + 1 : k <= i => e[k].node = c[k].node,
         \A k \in 1 .. n + 1 : k > i + 1 => e[k].node = c[k - 1].node,
         Ids(e[i + 1].node) = {new}, Distinct(e[i + 1].node)
  PROVE  IdsOf(e) = IdsOf(c) \cup {new} /\ DistinctIn(e)
<1> DEFINE at(k) == IF k <= i THEN k ELSE k - 1
           A(k) == Ids(c[k].node)
           E(k) == Ids(e[k].node)
<1>1. /\ \A k \in 1 .. n : Distinct(c[k].node)
      /\ \A k, j \in 1 .. n : k # j => Disjoint(A(k), A(j))
  BY DEF DistinctIn
<1>2. IdsOf(c) = UNION {A(k) : k \in 1 .. n} /\ IdsOf(e) = UNION {E(k) : k \in 1 .. n + 1}
  BY DEF IdsOf
<1>3. \A k \in 1 .. n + 1 : k # i + 1 => at(k) \in 1 .. n /\ e[k].node = c[at(k)].node
  OBVIOUS
<1>4. \A k, j \in 1 .. n + 1 : k # i + 1 /\ j # i + 1 /\ k # j => at(k) # at(j)
  OBVIOUS
<1>5. i + 1 \in 1 .. n + 1
  OBVIOUS
<1>6. \A j \in 1 .. n : \E k \in 1 .. n + 1 : k # i + 1 /\ at(k) = j
  <2> TAKE j \in 1 .. n
  <2>1. CASE j <= i
    <3>1. j \in 1 .. n + 1 /\ j # i + 1 /\ at(j) = j
      BY <2>1
    <3> QED BY <3>1
  <2>2. CASE j > i
    <3>1. j + 1 \in 1 .. n + 1 /\ j + 1 # i + 1 /\ at(j + 1) = j
      BY <2>2
    <3> QED BY <3>1
  <2> QED BY <2>1, <2>2
<1>7. \A k \in 1 .. n + 1 : k # i + 1 => at(k) \in 1 .. n /\ E(k) = A(at(k)) /\ Distinct(e[k].node)
  BY <1>1, <1>3
<1>8. E(i + 1) = {new} /\ \A k \in 1 .. n : new \notin A(k)
  BY <1>2
<1>9. (\A k \in 1 .. n + 1 : Distinct(e[k].node))
      /\ (\A k, j \in 1 .. n + 1 : k # j => Disjoint(E(k), E(j))) => DistinctIn(e)
  BY Zenon DEF DistinctIn
<1>10. \A k \in 1 .. n + 1 : Distinct(e[k].node)
  BY <1>7
<1> HIDE DEF at, A, E
<1>11. ASSUME NEW k \in 1 .. n + 1, NEW j \in 1 .. n + 1, k # j PROVE Disjoint(E(k), E(j))
  <2>1. CASE k # i + 1 /\ j # i + 1
    <3>1. at(k) \in 1 .. n /\ at(j) \in 1 .. n /\ at(k) # at(j) /\ E(k) = A(at(k)) /\ E(j) = A(at(j))
      BY <1>4, <1>7, <1>11, <2>1
    <3> QED BY <1>1, <3>1
  <2>2. CASE k = i + 1
    <3>1. at(j) \in 1 .. n /\ E(j) = A(at(j))
      BY <1>7, <1>11, <2>2
    <3> QED BY <1>8, <2>2, <3>1 DEF Disjoint
  <2>3. CASE j = i + 1
    <3>1. at(k) \in 1 .. n /\ E(k) = A(at(k))
      BY <1>7, <1>11, <2>3
    <3> QED BY <1>8, <2>3, <3>1 DEF Disjoint
  <2> QED BY <2>1, <2>2, <2>3
<1>12. IdsOf(e) \subseteq IdsOf(c) \cup {new}
  BY <1>2, <1>7, <1>8
<1>13. ASSUME NEW x \in IdsOf(c) PROVE x \in IdsOf(e)
  <2>1. PICK j \in 1 .. n : x \in A(j)
    BY <1>2
  <2>2. PICK k \in 1 .. n + 1 : k # i + 1 /\ at(k) = j
    BY <1>6
  <2>3. x \in E(k)
    BY <1>7, <2>1, <2>2
  <2> QED BY <1>2, <2>3
<1>14. new \in IdsOf(e)
  BY <1>2, <1>5, <1>8
<1> QED BY <1>9, <1>10, <1>11, <1>12, <1>13, <1>14

LEMMA SplitHereSame ==
  ASSUME NEW d, NEW node, NEW i, NEW leaf, Here(d, node, i, leaf),
         NEW axis \in Axis, NEW new \in Nat, new \notin Ids(node), node.axis = axis
  PROVE  Shape(split_here(node, i, axis, new), d + 2, Ids(node) \cup {new})
<1> DEFINE c == node.children
           n == Len(c)
           doubled == [k \in DOMAIN c |-> IF k = i THEN c[i] ELSE [c[k] EXCEPT !.flex = 2 * @]]
           fresh == Child(Leaf(new), c[i].flex)
           put == InsertAt(doubled, i + 1, fresh)
           e == normalize_flex(put)
<1>1. /\ d \in 0 .. Bound /\ d < Bound /\ d + 1 \in 0 .. Bound /\ d + 1 < Bound /\ (d + 1) + 1 = d + 2
      /\ d \in Nat /\ d + 1 <= Bound /\ (d + 1) + 1 <= Bound
  BY HereIs
<1>2. /\ c \in Seq(KidsIn(d)) /\ n \in Nat /\ n >= 2 /\ i \in 1 .. n /\ DOMAIN c = 1 .. n
  BY HereIs
<1>3. Ids(node) = IdsOf(c) /\ DistinctIn(c) /\ node.axis \in Axis
  BY HereIs
<1>4. IsFork(node, d)
  BY DEF Here
<1>5. split_here(node, i, axis, new) = [node EXCEPT !.children = e]
  BY DEF split_here
<1> HIDE DEF c
<1>6. \A k \in 1 .. n : c[k] \in KidsIn(d)
  BY <1>2
<1>7. \A k \in 1 .. n : /\ doubled[k] \in KidsIn(d)
                        /\ doubled[k].node = c[k].node
  <2>1. ASSUME NEW k \in 1 .. n PROVE doubled[k] \in KidsIn(d) /\ doubled[k].node = c[k].node
    <3>1. c[k] \in KidsIn(d) /\ c[i] \in KidsIn(d)
      BY <1>2, <1>6
    <3>2. CASE k = i
      BY <1>2, <3>1, <3>2
    <3>3. CASE k # i
      <4>1. doubled[k] = [c[k] EXCEPT !.flex = 2 * @]
        BY <1>2, <3>3
      <4>2. c[k].flex \in Nat => 2 * c[k].flex \in Nat
        OBVIOUS
      <4> QED BY <3>1, <4>1, <4>2, Zenon DEF KidsIn
    <3> QED BY <3>2, <3>3
  <2> QED BY <2>1, Zenon
<1>8. doubled \in [1 .. n -> KidsIn(d)]
  BY <1>2, <1>7
<1> HIDE DEF doubled
<1>9. doubled \in Seq(KidsIn(d)) /\ Len(doubled) = n
  BY <1>2, <1>8, AsSeq
<1>10. fresh \in KidsIn(d) /\ fresh.node = Leaf(new)
  <2>1. Leaf(new) \in Trees[d]
    BY <1>1, LeafShape DEF Shape
  <2>2. c[i].flex \in Nat
    BY <1>2, <1>6 DEF KidsIn
  <2> QED BY <2>1, <2>2 DEF KidsIn, Child
<1> HIDE DEF fresh
<1>11. /\ put \in Seq(KidsIn(d)) /\ Len(put) = n + 1
       /\ \A k \in 1 .. n + 1 :
            put[k] = IF k <= i THEN doubled[k] ELSE IF k = i + 1 THEN fresh ELSE doubled[k - 1]
  <2> DEFINE K == KidsIn(d)
  <2>1. doubled \in Seq(K) /\ fresh \in K /\ i \in 1 .. Len(doubled)
    BY <1>2, <1>9, <1>10
  <2> HIDE DEF K
  <2>2. /\ put \in Seq(K) /\ Len(put) = Len(doubled) + 1
        /\ \A k \in 1 .. Len(doubled) + 1 :
             put[k] = IF k <= i THEN doubled[k] ELSE IF k = i + 1 THEN fresh ELSE doubled[k - 1]
    BY <2>1, Inserted
  <2> QED BY <1>9, <2>2 DEF K
<1> HIDE DEF put
<1>12. put \in Seq(LooseKids(d))
  BY <1>11, LooseIs
<1>13. e \in Seq(KidsIn(d)) /\ SameNodes(put, e)
  BY <1>1, <1>12, NormalizeKeeps
<1> HIDE DEF e
<1>14. Len(e) = n + 1 /\ \A k \in 1 .. n + 1 : e[k].node = put[k].node
  BY <1>2, <1>11, <1>13 DEF SameNodes
<1>15. ASSUME NEW k \in 1 .. n + 1, k <= i PROVE e[k].node = c[k].node
  <2>1. k \in 1 .. n /\ put[k] = doubled[k] /\ e[k].node = put[k].node
    BY <1>2, <1>11, <1>14, <1>15
  <2> QED BY <1>7, <2>1
<1>16. ASSUME NEW k \in 1 .. n + 1, k > i + 1 PROVE e[k].node = c[k - 1].node
  <2>1. k - 1 \in 1 .. n /\ ~(k <= i) /\ k # i + 1
    BY <1>2, <1>16
  <2>2. put[k] = doubled[k - 1] /\ e[k].node = put[k].node
    BY <1>11, <1>14, <2>1
  <2> QED BY <1>7, <2>1, <2>2
<1>17. i + 1 \in 1 .. n + 1
  BY <1>2
<1>18. e[i + 1].node = Leaf(new)
  <2>1. put[i + 1] = fresh
    BY <1>2, <1>11, <1>17
  <2> QED BY <1>10, <1>14, <1>17, <2>1
<1>19. Ids(e[i + 1].node) = {new} /\ Distinct(e[i + 1].node)
  BY <1>18, LeafShape, Zenon
<1>20. IdsOf(e) = IdsOf(c) \cup {new} /\ DistinctIn(e)
  <2>1. Len(c) = n
    OBVIOUS
  <2> HIDE DEF n
  <2> QED BY <1>2, <1>3, <1>14, <1>15, <1>16, <1>19, <2>1, InsertedIds
<1>21. Len(e) >= 2
  BY <1>2, <1>14
<1>22. Shape([node EXCEPT !.children = e], d + 1, IdsOf(e))
  BY <1>1, <1>4, <1>13, <1>20, <1>21, NewKids, Zenon
<1>23. Shape([node EXCEPT !.children = e], (d + 1) + 1, IdsOf(e))
  BY <1>1, <1>22, Deeper
<1> QED BY <1>1, <1>3, <1>5, <1>20, <1>23

LEMMA HereIfChild ==
  ASSUME NEW leaf \in Nat, NEW edit, NEW gone, NEW come,
         \A d, node, i : Here(d, node, i, leaf) /\ Disjoint(come, Ids(node)) =>
           Shape(EditHere(node, i, edit), d + 2, (Ids(node) \ gone) \cup come)
  PROVE  HereOK(leaf, edit, gone, come)
BY Zenon DEF HereOK, Here

LEMMA SplitOK ==
  ASSUME NEW leaf \in Nat, NEW axis \in Axis, NEW new \in Nat
  PROVE  HereOK(leaf, SplitEdit(axis, new), {}, {new})
<1>1. ASSUME NEW d, NEW node, NEW i, Here(d, node, i, leaf), Disjoint({new}, Ids(node))
      PROVE  Shape(EditHere(node, i, SplitEdit(axis, new)), d + 2, (Ids(node) \ {}) \cup {new})
  <2>1. new \notin Ids(node)
    BY <1>1 DEF Disjoint
  <2>2. Shape(split_here(node, i, axis, new), d + 2, Ids(node) \cup {new})
    BY <1>1, <2>1, SplitHereSame, SplitHereOther
  <2>3. EditHere(node, i, SplitEdit(axis, new)) = split_here(node, i, axis, new)
    BY Edits, Zenon
  <2>4. (Ids(node) \ {}) \cup {new} = Ids(node) \cup {new}
    OBVIOUS
  <2> QED BY <2>2, <2>3, <2>4
<1> QED BY <1>1, HereIfChild, Zenon

LEMMA RemoveOK ==
  ASSUME NEW leaf \in Nat
  PROVE  HereOK(leaf, RemoveEdit, {leaf}, {})
<1>1. ASSUME NEW d, NEW node, NEW i, Here(d, node, i, leaf)
      PROVE  Shape(EditHere(node, i, RemoveEdit), d + 2, (Ids(node) \ {leaf}) \cup {})
  <2>1. EditHere(node, i, RemoveEdit) = remove_here(node, i)
    BY Edits
  <2>2. (Ids(node) \ {leaf}) \cup {} = Ids(node) \ {leaf}
    OBVIOUS
  <2> QED BY <1>1, <2>1, <2>2, RemoveHere
<1> QED BY <1>1, HereIfChild

LEMMA KeepOK ==
  ASSUME NEW leaf \in Nat
  PROVE  /\ \A sign, extent \in Int : HereOK(leaf, ResizeEdit(sign, extent), {}, {})
         /\ \A anchor : HereOK(leaf, ReorderEdit(anchor), {}, {})
<1>1. ASSUME NEW sign \in Int, NEW extent \in Int
      PROVE  HereOK(leaf, ResizeEdit(sign, extent), {}, {})
  <2>1. ASSUME NEW d, NEW node, NEW i, Here(d, node, i, leaf)
        PROVE  Shape(EditHere(node, i, ResizeEdit(sign, extent)), d + 2, (Ids(node) \ {}) \cup {})
    <3>1. EditHere(node, i, ResizeEdit(sign, extent)) = resize_here(node, i, sign, extent)
      BY Edits, Zenon
    <3>2. (Ids(node) \ {}) \cup {} = Ids(node)
      OBVIOUS
    <3> QED BY <2>1, <3>1, <3>2, ResizeHere
  <2> QED BY <2>1, HereIfChild
<1>2. ASSUME NEW anchor PROVE HereOK(leaf, ReorderEdit(anchor), {}, {})
  <2>1. ASSUME NEW d, NEW node, NEW i, Here(d, node, i, leaf)
        PROVE  Shape(EditHere(node, i, ReorderEdit(anchor)), d + 2, (Ids(node) \ {}) \cup {})
    <3>1. EditHere(node, i, ReorderEdit(anchor)) = reorder_here(node, i, anchor)
      BY Edits, Zenon
    <3>2. (Ids(node) \ {}) \cup {} = Ids(node)
      OBVIOUS
    <3> QED BY <2>1, <3>1, <3>2, ReorderHere
  <2> QED BY <2>1, HereIfChild
<1> QED BY <1>1, <1>2

(* Children whose panes are those of others by another name.               *)
MappedKids(c, e, name) ==
  /\ Len(c) \in Nat /\ Len(e) = Len(c) /\ DistinctIn(c)
  /\ \A x, y \in IdsOf(c) : name[x] = name[y] => x = y
  /\ \A i \in 1 .. Len(c) :
       /\ Distinct(e[i].node)
       /\ Ids(e[i].node) = {name[x] : x \in Ids(c[i].node)}
LEMMA MapKids ==
  ASSUME NEW c, NEW e, NEW name, MappedKids(c, e, name)
  PROVE  DistinctIn(e) /\ IdsOf(e) = {name[x] : x \in IdsOf(c)}
<1> DEFINE n == Len(c)
           A(i) == Ids(c[i].node)
           E(i) == Ids(e[i].node)
<1>0. /\ Len(c) \in Nat /\ Len(e) = Len(c) /\ DistinctIn(c)
      /\ \A x, y \in IdsOf(c) : name[x] = name[y] => x = y
      /\ \A i \in 1 .. Len(c) :
           /\ Distinct(e[i].node)
           /\ Ids(e[i].node) = {name[x] : x \in Ids(c[i].node)}
  BY DEF MappedKids
<1>1. \A i, j \in 1 .. n : i # j => Disjoint(A(i), A(j))
  BY <1>0 DEF DistinctIn
<1>2. \A i \in 1 .. n : E(i) = {name[x] : x \in A(i)} /\ A(i) \subseteq IdsOf(c)
  BY <1>0 DEF IdsOf
<1>3. IdsOf(c) = UNION {A(i) : i \in 1 .. n} /\ IdsOf(e) = UNION {E(i) : i \in 1 .. n}
  BY <1>0 DEF IdsOf
<1>4. \A i \in 1 .. n : Distinct(e[i].node)
  BY <1>0
<1>5. (\A i, j \in 1 .. n : i # j => Disjoint(E(i), E(j))) => DistinctIn(e)
  BY <1>0, <1>4 DEF DistinctIn
<1> HIDE DEF A, E
<1>6. ASSUME NEW i \in 1 .. n, NEW j \in 1 .. n, i # j PROVE Disjoint(E(i), E(j))
  <2> SUFFICES ASSUME NEW z \in E(i), z \in E(j) PROVE FALSE
    BY DEF Disjoint
  <2>1. PICK x \in A(i) : z = name[x]
    BY <1>2
  <2>2. PICK y \in A(j) : z = name[y]
    BY <1>2
  <2>3. x = y
    BY <1>0, <1>2, <2>1, <2>2, Zenon
  <2> QED BY <1>1, <1>6, <2>3 DEF Disjoint
<1>7. IdsOf(e) = {name[x] : x \in IdsOf(c)}
  BY <1>2, <1>3
<1> QED BY <1>5, <1>6, <1>7

LEMMA RenamedShape ==
  ASSUME NEW name, NEW m \in Nat, m <= Bound
  PROVE  \A node \in Trees[m] :
           /\ Distinct(node)
           /\ \A x \in Ids(node) : name[x] \in Nat
           /\ \A x, y \in Ids(node) : name[x] = name[y] => x = y
           => Shape(Renamed(node, name), m, {name[x] : x \in Ids(node)})
<1> DEFINE H(node) == /\ Distinct(node)
                      /\ \A x \in Ids(node) : name[x] \in Nat
                      /\ \A x, y \in Ids(node) : name[x] = name[y] => x = y
           P(node, k) == H(node) => Shape(Renamed(node, name), k, {name[x] : x \in Ids(node)})
           G == {k \in Nat : k <= Bound => \A node \in Trees[k] : P(node, k)}
<1>1. ASSUME NEW k \in Nat, k <= Bound, NEW node \in Leaves PROVE P(node, k)
  <2>1. node = Leaf(node.id) /\ IsLeaf(node) /\ node.id \in Nat
    BY LeafIs
  <2>2. k \in 0 .. Bound /\ Bound \in 0 .. Bound
    BY <1>1, BoundNat
  <2>3. node \in Tree
    BY <2>1, <2>2, LeafInTrees, BoundNat DEF Tree
  <2>4. Renamed(node, name) = Leaf(name[node.id])
    BY <2>1, <2>3, RenamedStep
  <2>5. Ids(node) = {node.id}
    BY <2>1, LeafShape, Zenon
  <2> SUFFICES ASSUME H(node) PROVE Shape(Renamed(node, name), k, {name[x] : x \in Ids(node)})
    OBVIOUS
  <2>6. name[node.id] \in Nat
    BY <2>5
  <2>7. {name[x] : x \in Ids(node)} = {name[node.id]}
    BY <2>5
  <2> QED BY <2>2, <2>4, <2>6, <2>7, LeafShape, Zenon
<1>2. 0 \in G
  <2>1. Trees[0] = Leaves
    BY TreesAre
  <2> HIDE DEF P
  <2> QED BY <1>1, <2>1
<1>3. ASSUME NEW k \in Nat, k \in G PROVE k + 1 \in G
  <2> SUFFICES ASSUME k + 1 <= Bound, NEW node \in Trees[k + 1] PROVE P(node, k + 1)
    OBVIOUS
  <2>1. /\ k + 1 \in 0 .. Bound /\ k \in 0 .. Bound /\ (k + 1) - 1 = k /\ k < Bound /\ k <= Bound
    BY BoundNat
  <2>2. CASE node \in Leaves
    BY <1>1, <2>1, <2>2
  <2>3. CASE IsFork(node, k)
    <3> SUFFICES ASSUME H(node)
                 PROVE  Shape(Renamed(node, name), k + 1, {name[x] : x \in Ids(node)})
      OBVIOUS
    <3> DEFINE c == node.children
               e == [i \in DOMAIN c |-> Child(Renamed(c[i].node, name), c[i].flex)]
               n == Len(c)
    <3>1. /\ DOMAIN c = 1 .. n /\ n \in Nat /\ n >= 2 /\ ~IsLeaf(node)
          /\ \A i \in 1 .. n : c[i].node \in Trees[k] /\ c[i].flex \in Nat
      BY <2>3 DEF IsFork
    <3>2. node \in Tree /\ Ids(node) = IdsOf(c) /\ DistinctIn(c)
      BY <2>1, <2>3, ForkShape
    <3>3. Renamed(node, name) = [node EXCEPT !.children = e]
      BY <3>1, <3>2, RenamedStep
    <3> HIDE DEF c
    <3>4. ASSUME NEW i \in 1 .. n
          PROVE  Shape(Renamed(c[i].node, name), k, {name[x] : x \in Ids(c[i].node)})
      <4>1. c[i].node \in Trees[k] /\ Distinct(c[i].node) /\ Ids(c[i].node) \subseteq Ids(node)
        BY <3>1, <3>2 DEF DistinctIn, IdsOf
      <4>2. H(c[i].node)
        BY <4>1
      <4>3. P(c[i].node, k)
        <5> HIDE DEF P
        <5> QED BY <1>3, <2>1, <4>1
      <4> QED BY <4>2, <4>3
    <3>5. e = [i \in 1 .. n |-> Child(Renamed(c[i].node, name), c[i].flex)]
      BY <3>1
    <3> HIDE DEF e
    <3>6. ASSUME NEW i \in 1 .. n
          PROVE  e[i] \in KidsIn(k) /\ e[i].node = Renamed(c[i].node, name)
      <4>1. \A t \in Trees[k], f \in Nat : Child(t, f) \in KidsIn(k) /\ Child(t, f).node = t
        BY DEF KidsIn, Child
      <4>2. Renamed(c[i].node, name) \in Trees[k] /\ c[i].flex \in Nat
        BY <3>1, <3>4 DEF Shape
      <4>3. e[i] = Child(Renamed(c[i].node, name), c[i].flex)
        BY <3>5
      <4> QED BY <4>1, <4>2, <4>3
    <3>7. e \in [1 .. n -> KidsIn(k)]
      BY <3>5, <3>6
    <3>8. e \in Seq(KidsIn(k)) /\ Len(e) = n
      BY <3>1, <3>7, AsSeq, Zenon
    <3>9. \A i \in 1 .. Len(c) : /\ Distinct(e[i].node)
                                 /\ Ids(e[i].node) = {name[x] : x \in Ids(c[i].node)}
      BY <3>4, <3>6, Zenon DEF Shape
    <3>10. DistinctIn(e) /\ IdsOf(e) = {name[x] : x \in IdsOf(c)}
      <4>1. Len(c) \in Nat /\ Len(e) = Len(c)
        BY <3>1, <3>8
      <4>2. \A x, y \in IdsOf(c) : name[x] = name[y] => x = y
        BY <3>2
      <4>3. MappedKids(c, e, name)
        BY <3>2, <3>9, <4>1, <4>2, Zenon DEF MappedKids
      <4> QED BY <4>3, MapKids
    <3>11. node = [axis |-> node.axis, children |-> c] /\ node.axis \in Axis
      BY <2>3 DEF IsFork, c
    <3>12. [[axis |-> node.axis, children |-> c] EXCEPT !.children = e] = [axis |-> node.axis, children |-> e]
      BY PutKids
    <3>13. Shape([axis |-> node.axis, children |-> e], k + 1, IdsOf(e))
      BY <2>1, <3>1, <3>8, <3>10, <3>11, BuildFork, Zenon
    <3>14. Renamed(node, name) = [axis |-> node.axis, children |-> e]
      BY <3>3, <3>11, <3>12
    <3> HIDE DEF H
    <3> QED BY <3>2, <3>10, <3>13, <3>14
  <2> QED BY <2>1, <2>2, <2>3, TreeCases
<1> HIDE DEF G
<1>4. m \in G
  BY <1>2, <1>3, SetInduction
<1> QED BY <1>4 DEF G

(* The weights made equal.                                                 *)
LEMMA SameKids ==
  ASSUME NEW c, NEW e, Len(c) \in Nat, Len(e) = Len(c), DistinctIn(c),
         \A i \in 1 .. Len(c) : Distinct(e[i].node) /\ Ids(e[i].node) = Ids(c[i].node)
  PROVE  DistinctIn(e) /\ IdsOf(e) = IdsOf(c)
BY DEF DistinctIn, IdsOf

LEMMA EqualizeShape ==
  ASSUME NEW m \in Nat, m <= Bound
  PROVE  \A node \in Trees[m] :
           Distinct(node) => Shape(equalize_in[node], m, Ids(node))
<1> DEFINE H(node) == Distinct(node)
           P(node, k) == H(node) => Shape(equalize_in[node], k, Ids(node))
           G == {k \in Nat : k <= Bound => \A node \in Trees[k] : P(node, k)}
<1>1. ASSUME NEW k \in Nat, k <= Bound, NEW node \in Leaves PROVE P(node, k)
  <2>1. node = Leaf(node.id) /\ IsLeaf(node) /\ node.id \in Nat
    BY LeafIs
  <2>2. k \in 0 .. Bound /\ Bound \in 0 .. Bound
    BY <1>1, BoundNat
  <2>3. node \in Tree
    BY <2>1, <2>2, LeafInTrees, BoundNat DEF Tree
  <2>4. equalize_in[node] = node
    BY <2>1, <2>3, EqualizeStep, Zenon
  <2>5. Ids(node) = {node.id}
    BY <2>1, LeafShape, Zenon
  <2> SUFFICES ASSUME H(node) PROVE Shape(equalize_in[node], k, Ids(node))
    OBVIOUS
  <2> QED BY <2>1, <2>2, <2>4, <2>5, LeafShape
<1>2. 0 \in G
  <2>1. Trees[0] = Leaves
    BY TreesAre
  <2> HIDE DEF P
  <2> QED BY <1>1, <2>1
<1>3. ASSUME NEW k \in Nat, k \in G PROVE k + 1 \in G
  <2> SUFFICES ASSUME k + 1 <= Bound, NEW node \in Trees[k + 1] PROVE P(node, k + 1)
    OBVIOUS
  <2>1. /\ k + 1 \in 0 .. Bound /\ k \in 0 .. Bound /\ (k + 1) - 1 = k /\ k < Bound /\ k <= Bound
    BY BoundNat
  <2>2. CASE node \in Leaves
    BY <1>1, <2>1, <2>2
  <2>3. CASE IsFork(node, k)
    <3> SUFFICES ASSUME H(node)
                 PROVE  Shape(equalize_in[node], k + 1, Ids(node))
      OBVIOUS
    <3> DEFINE c == node.children
               e == [i \in DOMAIN c |-> Child(equalize_in[c[i].node], 1)]
               n == Len(c)
    <3>1. /\ DOMAIN c = 1 .. n /\ n \in Nat /\ n >= 2 /\ ~IsLeaf(node)
          /\ \A i \in 1 .. n : c[i].node \in Trees[k] /\ c[i].flex \in Nat
      BY <2>3 DEF IsFork
    <3>2. node \in Tree /\ Ids(node) = IdsOf(c) /\ DistinctIn(c)
      BY <2>1, <2>3, ForkShape
    <3>3. equalize_in[node] = [node EXCEPT !.children = e]
      BY <3>1, <3>2, EqualizeStep, Zenon
    <3> HIDE DEF c
    <3>4. ASSUME NEW i \in 1 .. n
          PROVE  Shape(equalize_in[c[i].node], k, Ids(c[i].node))
      <4>1. c[i].node \in Trees[k] /\ Distinct(c[i].node) /\ Ids(c[i].node) \subseteq Ids(node)
        BY <3>1, <3>2 DEF DistinctIn, IdsOf
      <4>2. H(c[i].node)
        BY <4>1
      <4>3. P(c[i].node, k)
        <5> HIDE DEF P
        <5> QED BY <1>3, <2>1, <4>1
      <4> QED BY <4>2, <4>3
    <3>5. e = [i \in 1 .. n |-> Child(equalize_in[c[i].node], 1)]
      BY <3>1
    <3> HIDE DEF e
    <3>6. ASSUME NEW i \in 1 .. n
          PROVE  e[i] \in KidsIn(k) /\ e[i].node = equalize_in[c[i].node]
      <4>1. \A t \in Trees[k], f \in Nat : Child(t, f) \in KidsIn(k) /\ Child(t, f).node = t
        BY DEF KidsIn, Child
      <4>2. equalize_in[c[i].node] \in Trees[k] /\ 1 \in Nat
        BY <3>1, <3>4 DEF Shape
      <4>3. e[i] = Child(equalize_in[c[i].node], 1)
        BY <3>5
      <4> QED BY <4>1, <4>2, <4>3
    <3>7. e \in [1 .. n -> KidsIn(k)]
      BY <3>5, <3>6
    <3>8. e \in Seq(KidsIn(k)) /\ Len(e) = n
      BY <3>1, <3>7, AsSeq
    <3>9. \A i \in 1 .. Len(c) : /\ Distinct(e[i].node)
                                 /\ Ids(e[i].node) = Ids(c[i].node)
      BY <3>4, <3>6 DEF Shape
    <3>10. DistinctIn(e) /\ IdsOf(e) = IdsOf(c)
      <4>1. Len(c) \in Nat /\ Len(e) = Len(c)
        BY <3>1, <3>8
      <4> QED BY <3>2, <3>9, <4>1, SameKids
    <3>11. node = [axis |-> node.axis, children |-> c] /\ node.axis \in Axis
      BY <2>3 DEF IsFork, c
    <3>12. [[axis |-> node.axis, children |-> c] EXCEPT !.children = e] = [axis |-> node.axis, children |-> e]
      BY PutKids
    <3>13. Shape([axis |-> node.axis, children |-> e], k + 1, IdsOf(e))
      BY <2>1, <3>1, <3>8, <3>10, <3>11, BuildFork
    <3>14. equalize_in[node] = [axis |-> node.axis, children |-> e]
      BY <3>3, <3>11, <3>12
    <3> HIDE DEF H
    <3> QED BY <3>2, <3>10, <3>13, <3>14
  <2> QED BY <2>1, <2>2, <2>3, TreeCases
<1> HIDE DEF G
<1>4. m \in G
  BY <1>2, <1>3, SetInduction
<1> QED BY <1>4 DEF G

-----------------------------------------------------------------------------
(* The layouts: one that holds together still does after each operation.   *)

(* A layout that holds together.                                           *)
Layouts == [root : Tree, focused : Nat, zoomed : Nat \cup {None}, next_id : Nat]
Sound(root) == root \in Tree /\ Distinct(root) /\ Cardinality(Ids(root)) <= MAX_PANES
GoodLayout(l) ==
  /\ l \in Layouts /\ Sound(l.root)
  /\ l.focused \in Ids(l.root) /\ l.zoomed \in Ids(l.root) \cup {None}
  /\ \A id \in Ids(l.root) : id < l.next_id

LEMMA IdsNat ==
  ASSUME NEW root \in Tree
  PROVE  Ids(root) \subseteq Nat /\ Ids(root) # {}
<1>1. collect_leaves[root] \in Seq(Nat) /\ Ids(root) # {}
  BY LeavesTyped
<1>2. ToSet(collect_leaves[root]) \subseteq Nat
  BY <1>1, ToSetParts DEF ToSet
<1> QED BY <1>1, <1>2 DEF Ids

LEMMA OneLeaf ==
  ASSUME NEW root \in Tree, Distinct(root)
  PROVE  /\ IsLeaf(root) => root = Leaf(root.id) /\ root.id \in Nat /\ Ids(root) = {root.id}
         /\ ~IsLeaf(root) => \A x \in Ids(root) : \E y \in Ids(root) : y # x
<1>1. Bound \in 0 .. Bound /\ root \in Trees[Bound]
  BY BoundNat DEF Tree
<1>2. CASE IsLeaf(root)
  <2>1. root \in Leaves
    BY <1>1, <1>2, TreeCases, Zenon DEF IsFork
  <2> QED BY <1>2, <2>1, LeafIs, LeafShape, Zenon
<1>3. CASE ~IsLeaf(root)
  <2>1. PICK d \in 0 .. Bound :
          /\ d < Bound /\ IsFork(root, d) /\ root \in Trees[d + 1] /\ Rank(root) = d + 1
          /\ \A i \in 1 .. Len(root.children) :
               root.children[i].node \in Tree /\ Rank(root.children[i].node) < Rank(root)
    BY <1>3, Kids, Zenon
  <2> DEFINE c == root.children
  <2>2. Ids(root) = IdsOf(c) /\ DistinctIn(c) /\ Len(c) \in Nat /\ Len(c) >= 2
    BY <2>1, ForkShape, Zenon DEF IsFork
  <2>3. c[1].node \in Tree /\ c[2].node \in Tree /\ 1 \in 1 .. Len(c) /\ 2 \in 1 .. Len(c)
    BY <2>1, <2>2
  <2> HIDE DEF c
  <2>4. PICK a \in Ids(c[1].node) : TRUE
    BY <2>3, IdsNat
  <2>5. PICK b \in Ids(c[2].node) : TRUE
    BY <2>3, IdsNat, Zenon
  <2>6. a \in Ids(root) /\ b \in Ids(root)
    BY <2>2, <2>3, <2>4, <2>5 DEF IdsOf
  <2>7. Disjoint(Ids(c[1].node), Ids(c[2].node))
    <3>1. 1 # 2
      OBVIOUS
    <3> QED BY <2>2, <2>3, <3>1 DEF DistinctIn
  <2>8. a # b
    BY <2>4, <2>5, <2>7 DEF Disjoint
  <2> QED BY <1>3, <2>6, <2>8
<1> QED BY <1>2, <1>3

LEMMA SoundCount ==
  ASSUME NEW root, Sound(root)
  PROVE  /\ IsFiniteSet(Ids(root)) /\ Cardinality(Ids(root)) \in Nat
         /\ Cardinality(Ids(root)) = Len(collect_leaves[root])
         /\ Cardinality(Ids(root)) >= 1 /\ Cardinality(Ids(root)) <= Bound
BY FiniteIds, BoundNat DEF Sound

(* An edit of a tree that is not a single pane.                            *)
Editable(root, leaf, edit, gone, come) ==
  /\ Sound(root) /\ ~IsLeaf(root) /\ leaf \in Nat /\ leaf \in Ids(root) /\ gone \subseteq {leaf}
  /\ HereOK(leaf, edit, gone, come) /\ Disjoint(come, Ids(root))
LEMMA EditSound ==
  ASSUME NEW root, NEW leaf, NEW edit, NEW gone, NEW come, Editable(root, leaf, edit, gone, come)
  PROVE  /\ EditAt(root, leaf, edit) \in Tree /\ Distinct(EditAt(root, leaf, edit))
         /\ Ids(EditAt(root, leaf, edit)) = (Ids(root) \ gone) \cup come
<1>0. /\ Sound(root) /\ ~IsLeaf(root) /\ leaf \in Nat /\ leaf \in Ids(root) /\ gone \subseteq {leaf}
      /\ HereOK(leaf, edit, gone, come) /\ Disjoint(come, Ids(root))
  BY DEF Editable
<1>1. Bound \in Nat /\ Bound >= 1 /\ Bound - 1 \in Nat /\ (Bound - 1) + 1 = Bound
      /\ Bound - 1 <= Bound /\ (Bound - 1) + 1 <= Bound
  BY BoundNat
<1>2. Cardinality(Ids(root)) <= (Bound - 1) + 1 /\ root \in Tree /\ Distinct(root)
  BY <1>0, <1>1, SoundCount DEF Sound
<1>3. root \in Trees[Bound - 1]
  BY <1>1, <1>2, Shallow
<1> DEFINE m == Bound - 1
<1>4. m \in Nat /\ m + 1 <= Bound /\ m + 1 = Bound /\ root \in Trees[m]
  BY <1>1, <1>3
<1> HIDE DEF m
<1>5. Shape(EditAt(root, leaf, edit), m + 1,
            IF IsLeaf(root) THEN Ids(root) ELSE Changed(Ids(root), leaf, gone, come))
  BY <1>0, <1>2, <1>4, EditShape, Zenon
<1>6. Trees[m + 1] = Tree
  BY <1>4, BoundNat DEF Tree
<1> QED BY <1>0, <1>5, <1>6 DEF Shape, Changed

LEMMA SplitSound ==
  ASSUME NEW l, Sound(l.root), NEW target \in Ids(l.root), NEW axis \in Axis,
         NEW new \in Nat, new \notin Ids(l.root), l \in Layouts
  PROVE  LET s == split(l, target, axis, new)
         IN  /\ s.root \in Tree /\ Distinct(s.root) /\ Ids(s.root) = Ids(l.root) \cup {new}
             /\ s = [root |-> s.root, focused |-> l.focused, zoomed |-> l.zoomed, next_id |-> l.next_id]
<1> DEFINE r == IF l.root = Leaf(target) THEN Split(axis, <<Leaf(target), Leaf(new)>>)
                ELSE EditAt(l.root, target, SplitEdit(axis, new))
<1>1. l.root \in Tree /\ Distinct(l.root) /\ target \in Nat
  BY IdsNat DEF Sound
<1>2. split(l, target, axis, new) = [l EXCEPT !.root = r]
  BY DEF split, SplitEdit
<1>3. CASE l.root = Leaf(target)
  <2>1. Ids(l.root) = {target}
    BY <1>1, <1>3, LeafShape, Zenon
  <2>2. Shape(r, 1, {target, new})
    BY <1>1, <1>3, <2>1, PairShape
  <2>3. 1 \in 0 .. Bound
    BY BoundNat
  <2>4. Trees[1] \subseteq Tree
    BY <2>3, TreesInTree
  <2> HIDE DEF r
  <2>5. r \in Tree /\ Distinct(r) /\ Ids(r) = Ids(l.root) \cup {new}
    BY <2>1, <2>2, <2>4 DEF Shape
  <2> QED BY <1>2, <2>5 DEF Layouts
<1>4. CASE l.root # Leaf(target)
  <2>1. ~IsLeaf(l.root)
    BY <1>1, <1>4, OneLeaf
  <2> DEFINE gone == {}
             come == {new}
             edit == SplitEdit(axis, new)
  <2>2. HereOK(target, edit, gone, come) /\ Disjoint(come, Ids(l.root)) /\ gone \subseteq {target}
    BY <1>1, SplitOK DEF Disjoint
  <2>3. r = EditAt(l.root, target, edit)
    BY <1>4
  <2> HIDE DEF gone, come, r, edit
  <2>4. r \in Tree /\ Distinct(r) /\ Ids(r) = (Ids(l.root) \ gone) \cup come
    <3>1. Editable(l.root, target, edit, gone, come)
      BY <1>1, <2>1, <2>2 DEF Editable
    <3> QED BY <2>3, <3>1, EditSound
  <2>5. Ids(r) = Ids(l.root) \cup {new}
    BY <2>4 DEF gone, come
  <2> QED BY <1>2, <2>4, <2>5 DEF Layouts
<1> QED BY <1>3, <1>4

LEMMA RemoveGood ==
  ASSUME NEW l, GoodLayout(l), NEW leaf
  PROVE  LET r == remove(l, leaf)
         IN  /\ GoodLayout(r) /\ r.next_id = l.next_id
             /\ Ids(r.root) = IF leaf \in Ids(l.root) /\ ~IsLeaf(l.root) THEN Ids(l.root) \ {leaf}
                              ELSE Ids(l.root)
             /\ leaf # l.focused => r.focused = l.focused
<1> DEFINE r == EditAt(l.root, leaf, RemoveEdit)
           f == collect_leaves[r][1]
<1>1. l.root \in Tree /\ Distinct(l.root) /\ Sound(l.root) /\ l \in Layouts
  BY DEF GoodLayout, Sound
<1>2. contains(l, leaf) <=> leaf \in Ids(l.root)
  BY DEF contains, leaves, Ids
<1>3. CASE ~(leaf \in Ids(l.root) /\ ~IsLeaf(l.root))
  <2>1. remove(l, leaf) = l
    BY <1>2, <1>3 DEF remove
  <2> QED BY <1>3, <2>1
<1>4. CASE leaf \in Ids(l.root) /\ ~IsLeaf(l.root)
  <2> DEFINE gone == {leaf}
             come == {}
             edit == RemoveEdit
  <2>1. leaf \in Nat
    BY <1>1, <1>4, IdsNat
  <2>2. HereOK(leaf, edit, gone, come) /\ Disjoint(come, Ids(l.root)) /\ gone \subseteq {leaf}
    BY <2>1, RemoveOK DEF Disjoint
  <2>3. r = EditAt(l.root, leaf, edit)
    OBVIOUS
  <2>4. remove(l, leaf) = [l EXCEPT !.root = r,
                                    !.zoomed = IF @ = leaf THEN None ELSE @,
                                    !.focused = IF @ = leaf THEN f ELSE @]
    BY <1>2, <1>4 DEF remove, RemoveEdit
  <2> HIDE DEF gone, come, r, edit
  <2>5. r \in Tree /\ Distinct(r) /\ Ids(r) = (Ids(l.root) \ gone) \cup come
    <3>1. Editable(l.root, leaf, edit, gone, come)
      BY <1>1, <1>4, <2>1, <2>2 DEF Editable
    <3> QED BY <2>3, <3>1, EditSound
  <2>6. Ids(r) = Ids(l.root) \ {leaf}
    BY <2>5 DEF gone, come
  <2>7. Cardinality(Ids(r)) <= MAX_PANES
    <3>1. IsFiniteSet(Ids(l.root)) /\ Ids(r) \subseteq Ids(l.root)
      BY <1>1, <2>6, SoundCount
    <3>2. Cardinality(Ids(r)) <= Cardinality(Ids(l.root)) /\ IsFiniteSet(Ids(r))
      BY <3>1, FS_Subset
    <3>3. Cardinality(Ids(r)) \in Nat /\ Cardinality(Ids(l.root)) \in Nat
      BY <3>1, <3>2, FS_CardinalityType
    <3> QED BY <1>1, <3>2, <3>3, BoundNat DEF Sound
  <2>8. f \in Ids(r)
    <3>1. collect_leaves[r] \in Seq(Nat) /\ Ids(r) # {}
      BY <2>5, LeavesTyped
    <3>2. Ids(r) = {collect_leaves[r][i] : i \in 1 .. Len(collect_leaves[r])}
      BY <3>1 DEF Ids, ToSet
    <3>3. 1 \in 1 .. Len(collect_leaves[r])
      BY <3>1, <3>2
    <3> QED BY <3>2, <3>3
  <2> HIDE DEF f
  <2>9. f \in Nat
    BY <2>5, <2>8, IdsNat
  <2> DEFINE z == IF l.zoomed = leaf THEN None ELSE l.zoomed
             g == IF l.focused = leaf THEN f ELSE l.focused
             t == [root |-> r, focused |-> g, zoomed |-> z, next_id |-> l.next_id]
  <2>10. remove(l, leaf) = t
    BY <1>1, <2>4, Zenon DEF Layouts
  <2>11. /\ l.focused \in Ids(l.root) /\ l.zoomed \in Ids(l.root) \cup {None}
         /\ l.focused \in Nat /\ l.zoomed \in Nat \cup {None} /\ l.next_id \in Nat
         /\ \A id \in Ids(l.root) : id < l.next_id
    BY DEF GoodLayout, Layouts
  <2>12. g \in Nat /\ g \in Ids(r) /\ z \in Nat \cup {None} /\ z \in Ids(r) \cup {None}
    BY <2>6, <2>8, <2>9, <2>11
  <2>13. \A id \in Ids(r) : id < l.next_id
    BY <2>6, <2>11
  <2>14. leaf # l.focused => g = l.focused
    OBVIOUS
  <2> HIDE DEF g, z
  <2>15. t \in Layouts
    BY <2>5, <2>11, <2>12 DEF Layouts
  <2>16. GoodLayout(t)
    BY <2>5, <2>7, <2>12, <2>13, <2>15 DEF GoodLayout, Sound
  <2> QED BY <1>4, <2>6, <2>10, <2>14, <2>16
<1> QED BY <1>3, <1>4

(* Layouts with another tree, focus, zoom or counter.                      *)
LEMMA GoodIs ==
  ASSUME NEW l, GoodLayout(l)
  PROVE  /\ l \in Layouts /\ Sound(l.root) /\ l.root \in Tree /\ Distinct(l.root)
         /\ Cardinality(Ids(l.root)) <= MAX_PANES
         /\ l.focused \in Ids(l.root) /\ l.zoomed \in Ids(l.root) \cup {None}
         /\ l.focused \in Nat /\ l.zoomed \in Nat \cup {None} /\ l.next_id \in Nat
         /\ \A id \in Ids(l.root) : id < l.next_id
         /\ l.next_id \notin Ids(l.root) /\ Ids(l.root) \subseteq Nat
         /\ l = [root |-> l.root, focused |-> l.focused, zoomed |-> l.zoomed, next_id |-> l.next_id]
         /\ ToSet(leaves(l)) = Ids(l.root) /\ IsInjective(leaves(l))
         /\ Len(leaves(l)) = Cardinality(Ids(l.root)) /\ leaves(l) \in Seq(Nat)
         /\ DOMAIN leaves(l) = 1 .. Len(leaves(l)) /\ Len(leaves(l)) \in Nat /\ Len(leaves(l)) >= 1
<1>1. /\ l \in Layouts /\ Sound(l.root) /\ l.root \in Tree /\ Distinct(l.root)
      /\ Cardinality(Ids(l.root)) <= MAX_PANES
      /\ l.focused \in Ids(l.root) /\ l.zoomed \in Ids(l.root) \cup {None}
      /\ \A id \in Ids(l.root) : id < l.next_id
  BY DEF GoodLayout, Sound
<1>2. /\ l.focused \in Nat /\ l.zoomed \in Nat \cup {None} /\ l.next_id \in Nat
      /\ l = [root |-> l.root, focused |-> l.focused, zoomed |-> l.zoomed, next_id |-> l.next_id]
  BY <1>1 DEF Layouts
<1>3. Ids(l.root) \subseteq Nat
  BY <1>1, IdsNat
<1>4. l.next_id \notin Ids(l.root)
  BY <1>1, <1>2
<1>5. ToSet(leaves(l)) = Ids(l.root) /\ IsInjective(leaves(l))
  BY <1>1 DEF leaves, Ids, Distinct
<1>6. leaves(l) \in Seq(Nat)
  BY <1>1, LeavesTyped DEF leaves
<1>7. Len(leaves(l)) = Cardinality(Ids(l.root)) /\ Cardinality(Ids(l.root)) >= 1
  BY <1>1, SoundCount DEF leaves
<1>8. DOMAIN leaves(l) = 1 .. Len(leaves(l)) /\ Len(leaves(l)) \in Nat /\ Len(leaves(l)) >= 1
  BY <1>6, <1>7
<1> QED BY <1>1, <1>2, <1>3, <1>4, <1>5, <1>6, <1>7, <1>8

LEMMA MakeGood ==
  ASSUME NEW root, Sound(root), NEW f \in Ids(root), NEW z \in Ids(root) \cup {None}, NEW n \in Nat,
         \A id \in Ids(root) : id < n
  PROVE  GoodLayout([root |-> root, focused |-> f, zoomed |-> z, next_id |-> n])
<1>1. Ids(root) \subseteq Nat /\ root \in Tree
  BY IdsNat DEF Sound
<1> QED BY <1>1 DEF GoodLayout, Layouts

LEMMA NextAndFocus ==
  ASSUME NEW s \in Layouts, NEW g \in Nat
  PROVE  LET t == [s EXCEPT !.next_id = @ + 1, !.focused = g]
         IN  /\ t \in Layouts /\ t.root = s.root /\ t.focused = g /\ t.zoomed = s.zoomed
             /\ t.next_id = s.next_id + 1
<1> DEFINE n == s.next_id + 1
           t == [s EXCEPT !.next_id = n, !.focused = g]
<1>1. n \in Nat
  BY DEF Layouts
<1>2. [s EXCEPT !.next_id = @ + 1, !.focused = g] = t
  BY DEF Layouts
<1> HIDE DEF n
<1>3. t \in Layouts
  BY <1>1, Zenon DEF Layouts
<1>4. t.root = s.root /\ t.focused = g /\ t.zoomed = s.zoomed
  BY <1>1 DEF Layouts
<1>5. t.next_id = n
  BY <1>1 DEF Layouts
<1> HIDE DEF t
<1> QED BY <1>2, <1>3, <1>4, <1>5 DEF n

LEMMA TrySplitGood ==
  ASSUME NEW l, GoodLayout(l), NEW target \in Ids(l.root), NEW axis \in Axis, ~at_capacity(l)
  PROVE  LET t == try_split(l, target, axis)
         IN  /\ GoodLayout(t) /\ t.focused = l.next_id /\ t.next_id = l.next_id + 1
             /\ Ids(t.root) = Ids(l.root) \cup {l.next_id} /\ ~IsLeaf(t.root)
<1> DEFINE n == l.next_id
           s == split(l, target, axis, n)
           t == try_split(l, target, axis)
<1>1. /\ l \in Layouts /\ Sound(l.root) /\ n \in Nat /\ n \notin Ids(l.root)
      /\ l.zoomed \in Ids(l.root) \cup {None} /\ \A id \in Ids(l.root) : id < n
  BY GoodIs
<1>2. contains(l, target)
  BY GoodIs DEF contains
<1>3. /\ s.root \in Tree /\ Distinct(s.root) /\ Ids(s.root) = Ids(l.root) \cup {n}
      /\ s = [root |-> s.root, focused |-> l.focused, zoomed |-> l.zoomed, next_id |-> l.next_id]
  <2> HIDE DEF n
  <2> QED BY <1>1, SplitSound
<1>4. try_split(l, target, axis) = [s EXCEPT !.next_id = @ + 1, !.focused = n]
  BY <1>2, Zenon DEF try_split
<1> HIDE DEF s
<1>5. /\ t \in Layouts /\ t.root = s.root /\ t.focused = n /\ t.zoomed = l.zoomed
      /\ t.next_id = n + 1
  <2>1. s \in Layouts /\ s.zoomed = l.zoomed /\ s.next_id = n
    BY <1>1, <1>3 DEF Layouts
  <2> DEFINE u == [s EXCEPT !.next_id = @ + 1, !.focused = n]
  <2>2. u \in Layouts /\ u.root = s.root /\ u.focused = n /\ u.zoomed = s.zoomed /\ u.next_id = s.next_id + 1
    BY <1>1, <2>1, NextAndFocus, Zenon
  <2>3. t = u
    BY <1>4
  <2> HIDE DEF t, u
  <2> QED BY <2>1, <2>2, <2>3
<1> HIDE DEF t
<1>6. Cardinality(Ids(s.root)) <= MAX_PANES
  <2>1. Cardinality(Ids(l.root)) < MAX_PANES
    <3>1. Len(leaves(l)) = Cardinality(Ids(l.root)) /\ Len(leaves(l)) \in Nat
      BY GoodIs
    <3> QED BY <3>1, BoundNat DEF at_capacity
  <2>2. IsFiniteSet(Ids(l.root))
    BY <1>1, SoundCount
  <2>3. Cardinality(Ids(l.root) \cup {n}) = Cardinality(Ids(l.root)) + 1
    BY <1>1, <2>2, FS_AddElement, Zenon
  <2>4. Cardinality(Ids(l.root)) \in Nat
    BY <2>2, FS_CardinalityType
  <2> QED BY <1>3, <2>1, <2>3, <2>4, BoundNat
<1>7. Sound(s.root)
  BY <1>3, <1>6 DEF Sound
<1>8. /\ n \in Ids(s.root) /\ l.zoomed \in Ids(s.root) \cup {None} /\ n + 1 \in Nat
      /\ \A id \in Ids(s.root) : id < n + 1
  <2>1. \A id \in Ids(l.root) : id \in Nat
    BY GoodIs
  <2> QED BY <1>1, <1>3, <2>1
<1>9. GoodLayout(t)
  BY <1>5, <1>7, <1>8 DEF GoodLayout
<1>10. ~IsLeaf(s.root)
  <2>1. target # n /\ target \in Ids(s.root)
    BY <1>1, <1>3
  <2> QED BY <1>3, <1>8, <2>1, OneLeaf
<1> QED BY <1>3, <1>5, <1>9, <1>10 DEF t

LEMMA RenamedSound ==
  ASSUME NEW root, Sound(root), NEW name,
         \A x \in Ids(root) : name[x] \in Nat,
         \A x, y \in Ids(root) : name[x] = name[y] => x = y
  PROVE  /\ Renamed(root, name) \in Tree /\ Distinct(Renamed(root, name))
         /\ Ids(Renamed(root, name)) = {name[x] : x \in Ids(root)}
<1>1. Bound \in Nat /\ Bound <= Bound /\ root \in Trees[Bound] /\ Trees[Bound] = Tree /\ Distinct(root)
  BY BoundNat DEF Sound, Tree
<1>2. Shape(Renamed(root, name), Bound, {name[x] : x \in Ids(root)})
  BY <1>1, RenamedShape
<1> QED BY <1>1, <1>2 DEF Shape

LEMMA ReorderSound ==
  ASSUME NEW root, Sound(root), NEW leaf \in Ids(root), NEW anchor
  PROVE  LET r == EditAt(root, leaf, ReorderEdit(anchor)) IN Sound(r) /\ Ids(r) = Ids(root)
<1> DEFINE gone == {}
           come == {}
           edit == ReorderEdit(anchor)
<1>1. root \in Tree /\ Distinct(root) /\ leaf \in Nat
  BY IdsNat DEF Sound
<1>2. CASE IsLeaf(root)
  <2>1. EditAt(root, leaf, edit) = root
    BY <1>1, <1>2, EditStep, Zenon DEF Edited
  <2> QED BY <2>1
<1>3. CASE ~IsLeaf(root)
  <2>1. HereOK(leaf, edit, gone, come) /\ Disjoint(come, Ids(root)) /\ gone \subseteq {leaf}
    BY <1>1, KeepOK DEF Disjoint
  <2> HIDE DEF edit, gone, come
  <2>2. Editable(root, leaf, edit, gone, come)
    BY <1>1, <1>3, <2>1 DEF Editable
  <2>3. /\ EditAt(root, leaf, edit) \in Tree /\ Distinct(EditAt(root, leaf, edit))
        /\ Ids(EditAt(root, leaf, edit)) = (Ids(root) \ gone) \cup come
    BY <2>2, EditSound
  <2>4. Ids(EditAt(root, leaf, edit)) = Ids(root)
    BY <2>3 DEF gone, come
  <2> QED BY <2>3, <2>4 DEF Sound, edit
<1> QED BY <1>2, <1>3

LEMMA ResizeSound ==
  ASSUME NEW root, Sound(root), NEW leaf \in Ids(root), NEW sign \in Int, NEW extent \in Int
  PROVE  LET r == EditAt(root, leaf, ResizeEdit(sign, extent)) IN Sound(r) /\ Ids(r) = Ids(root)
<1> DEFINE gone == {}
           come == {}
           edit == ResizeEdit(sign, extent)
<1>1. root \in Tree /\ Distinct(root) /\ leaf \in Nat
  BY IdsNat DEF Sound
<1>2. CASE IsLeaf(root)
  <2>1. EditAt(root, leaf, edit) = root
    BY <1>1, <1>2, EditStep, Zenon DEF Edited
  <2> QED BY <2>1
<1>3. CASE ~IsLeaf(root)
  <2>1. HereOK(leaf, edit, gone, come) /\ Disjoint(come, Ids(root)) /\ gone \subseteq {leaf}
    BY <1>1, KeepOK DEF Disjoint
  <2> HIDE DEF edit, gone, come
  <2>2. Editable(root, leaf, edit, gone, come)
    BY <1>1, <1>3, <2>1 DEF Editable
  <2>3. /\ EditAt(root, leaf, edit) \in Tree /\ Distinct(EditAt(root, leaf, edit))
        /\ Ids(EditAt(root, leaf, edit)) = (Ids(root) \ gone) \cup come
    BY <2>2, EditSound
  <2>4. Ids(EditAt(root, leaf, edit)) = Ids(root)
    BY <2>3 DEF gone, come
  <2> QED BY <2>3, <2>4 DEF Sound, edit
<1> QED BY <1>2, <1>3

LEMMA ResizeGood ==
  ASSUME NEW l, GoodLayout(l), NEW leaf \in Ids(l.root), NEW sign \in Int, NEW extent \in Int
  PROVE  LET r == resize(l, leaf, sign, extent)
         IN  GoodLayout(r) /\ Ids(r.root) = Ids(l.root)
<1> DEFINE r == EditAt(l.root, leaf, ResizeEdit(sign, extent))
<1>1. Sound(l.root)
  BY GoodIs
<1>2. Sound(r) /\ Ids(r) = Ids(l.root)
  BY <1>1, ResizeSound
<1>3. resize(l, leaf, sign, extent) = [l EXCEPT !.root = r]
  BY DEF resize, ResizeEdit
<1> HIDE DEF r
<1> DEFINE t == [root |-> r, focused |-> l.focused, zoomed |-> l.zoomed, next_id |-> l.next_id]
<1>4. l = [root |-> l.root, focused |-> l.focused, zoomed |-> l.zoomed, next_id |-> l.next_id]
  BY GoodIs
<1>5. resize(l, leaf, sign, extent) = t
  BY <1>3, <1>4
<1>6. GoodLayout(t)
  <2>1. /\ l.focused \in Ids(r) /\ l.zoomed \in Ids(r) \cup {None} /\ l.next_id \in Nat
        /\ \A id \in Ids(r) : id < l.next_id
    BY <1>2, GoodIs
  <2> QED BY <1>2, <2>1, MakeGood
<1> QED BY <1>2, <1>5, <1>6

LEMMA EqualizeGood ==
  ASSUME NEW l, GoodLayout(l)
  PROVE  LET r == equalize(l) IN GoodLayout(r) /\ Ids(r.root) = Ids(l.root)
<1> DEFINE r == equalize_in[l.root]
<1>1. Sound(l.root)
  BY GoodIs
<1>2. Sound(r) /\ Ids(r) = Ids(l.root)
  <2>1. Bound \in Nat /\ Bound <= Bound /\ l.root \in Trees[Bound] /\ Trees[Bound] = Tree /\ Distinct(l.root)
    BY <1>1, BoundNat DEF Sound, Tree
  <2>2. Shape(r, Bound, Ids(l.root))
    BY <2>1, EqualizeShape
  <2> QED BY <1>1, <2>1, <2>2 DEF Shape, Sound
<1>3. equalize(l) = [l EXCEPT !.root = r]
  BY DEF equalize
<1> HIDE DEF r
<1> DEFINE t == [root |-> r, focused |-> l.focused, zoomed |-> l.zoomed, next_id |-> l.next_id]
<1>4. l = [root |-> l.root, focused |-> l.focused, zoomed |-> l.zoomed, next_id |-> l.next_id]
  BY GoodIs
<1>5. equalize(l) = t
  BY <1>3, <1>4
<1>6. GoodLayout(t)
  <2>1. /\ l.focused \in Ids(r) /\ l.zoomed \in Ids(r) \cup {None} /\ l.next_id \in Nat
        /\ \A id \in Ids(r) : id < l.next_id
    BY <1>2, GoodIs
  <2> QED BY <1>2, <2>1, MakeGood
<1> QED BY <1>2, <1>5, <1>6

(* Leaves taken away one after the other.                                  *)
LEMMA WithoutSteps ==
  ASSUME NEW layout, NEW gone, Len(leaves(layout)) \in Nat
  PROVE  \E f : /\ f[0] = layout
                /\ \A i \in 1 .. Len(leaves(layout)) : f[i] = (IF leaves(layout)[i] \in gone THEN remove(f[i - 1], leaves(layout)[i]) ELSE f[i - 1])
                /\ Without(layout, gone) = f[Len(leaves(layout))]
<1> DEFINE n == Len(leaves(layout))
           Nx(x, i) == (IF leaves(layout)[i] \in gone THEN remove(x, leaves(layout)[i]) ELSE x)
           Good(f, k) == f[0] = layout /\ \A i \in 1 .. k : f[i] = Nx(f[i - 1], i)
           Eq(f) == f = [i \in 0 .. n |-> IF i = 0 THEN layout ELSE Nx(f[i - 1], i)]
           F == CHOOSE g : Eq(g)
           S == {k \in Nat : \E f : Good(f, k)}
<1>1. 0 \in S
  <2>1. Good([i \in 0 .. 0 |-> layout], 0)
    OBVIOUS
  <2> QED BY <2>1, Zenon
<1>2. Without(layout, gone) = F[n]
  BY ZenonT(60) DEF Without, Nx
<1> HIDE DEF Nx
<1>3. ASSUME NEW k \in Nat, k \in S PROVE k + 1 \in S
  <2>1. PICK f : Good(f, k)
    BY <1>3
  <2> DEFINE h == [i \in 0 .. k + 1 |-> IF i <= k THEN f[i] ELSE Nx(f[k], k + 1)]
  <2>2. h[0] = layout
    BY <2>1
  <2>3. ASSUME NEW i \in 1 .. k + 1 PROVE h[i] = Nx(h[i - 1], i)
    <3>1. h[i - 1] = f[i - 1]
      OBVIOUS
    <3>2. CASE i <= k
      <4>1. h[i] = f[i] /\ i \in 1 .. k
        BY <3>2
      <4> HIDE DEF h
      <4> QED BY <2>1, <3>1, <4>1
    <3>3. CASE i = k + 1
      <4>1. h[i] = Nx(f[k], k + 1) /\ i - 1 = k
        BY <3>3
      <4> HIDE DEF h
      <4> QED BY <3>1, <3>3, <4>1
    <3> QED BY <3>2, <3>3
  <2> HIDE DEF h
  <2>4. Good(h, k + 1)
    BY <2>2, <2>3
  <2> QED BY <2>4
<1> HIDE DEF S, n
<1>4. n \in Nat
  BY DEF n
<1>5. n \in S
  BY <1>1, <1>3, <1>4, SetInduction
<1>6. PICK f : Good(f, n)
  BY <1>5 DEF S
<1> DEFINE e == [i \in 0 .. n |-> f[i]]
<1>7. Eq(e)
  <2>1. ASSUME NEW i \in 0 .. n PROVE f[i] = IF i = 0 THEN layout ELSE Nx(e[i - 1], i)
    <3>1. CASE i # 0
      <4>1. e[i - 1] = f[i - 1] /\ i \in 1 .. n
        BY <1>4, <3>1
      <4> HIDE DEF e
      <4> QED BY <1>6, <3>1, <4>1
    <3> QED BY <1>6, <3>1
  <2>2. e = [i \in 0 .. n |-> IF i = 0 THEN layout ELSE Nx(e[i - 1], i)]
    BY <2>1
  <2> HIDE DEF e
  <2> QED BY <2>2, Zenon
<1>8. Eq(F)
  <2> HIDE DEF e, Eq
  <2> QED BY <1>7
<1> HIDE DEF F
<1>9. F[0] = layout /\ \A i \in 1 .. n : F[i] = Nx(F[i - 1], i)
  BY <1>4, <1>8
<1> QED BY <1>2, <1>9 DEF Nx, n


LEMMA DroppingSteps ==
  ASSUME NEW s, NEW gone, Len(s) \in Nat
  PROVE  \E f : /\ f[0] = <<>>
                /\ \A i \in 1 .. Len(s) : f[i] = (IF s[i] \in gone THEN f[i - 1] ELSE Append(f[i - 1], s[i]))
                /\ Dropping(s, gone) = f[Len(s)]
<1> DEFINE n == Len(s)
           Nx(x, i) == (IF s[i] \in gone THEN x ELSE Append(x, s[i]))
           Good(f, k) == f[0] = <<>> /\ \A i \in 1 .. k : f[i] = Nx(f[i - 1], i)
           Eq(f) == f = [i \in 0 .. n |-> IF i = 0 THEN <<>> ELSE Nx(f[i - 1], i)]
           F == CHOOSE g : Eq(g)
           S == {k \in Nat : \E f : Good(f, k)}
<1>1. 0 \in S
  <2>1. Good([i \in 0 .. 0 |-> <<>>], 0)
    OBVIOUS
  <2> QED BY <2>1, Zenon
<1>2. Dropping(s, gone) = F[n]
  BY ZenonT(60) DEF Dropping, Nx
<1> HIDE DEF Nx
<1>3. ASSUME NEW k \in Nat, k \in S PROVE k + 1 \in S
  <2>1. PICK f : Good(f, k)
    BY <1>3
  <2> DEFINE h == [i \in 0 .. k + 1 |-> IF i <= k THEN f[i] ELSE Nx(f[k], k + 1)]
  <2>2. h[0] = <<>>
    BY <2>1
  <2>3. ASSUME NEW i \in 1 .. k + 1 PROVE h[i] = Nx(h[i - 1], i)
    <3>1. h[i - 1] = f[i - 1]
      OBVIOUS
    <3>2. CASE i <= k
      <4>1. h[i] = f[i] /\ i \in 1 .. k
        BY <3>2
      <4> HIDE DEF h
      <4> QED BY <2>1, <3>1, <4>1
    <3>3. CASE i = k + 1
      <4>1. h[i] = Nx(f[k], k + 1) /\ i - 1 = k
        BY <3>3
      <4> HIDE DEF h
      <4> QED BY <3>1, <3>3, <4>1
    <3> QED BY <3>2, <3>3
  <2> HIDE DEF h
  <2>4. Good(h, k + 1)
    BY <2>2, <2>3
  <2> QED BY <2>4
<1> HIDE DEF S, n
<1>4. n \in Nat
  BY DEF n
<1>5. n \in S
  BY <1>1, <1>3, <1>4, SetInduction
<1>6. PICK f : Good(f, n)
  BY <1>5 DEF S
<1> DEFINE e == [i \in 0 .. n |-> f[i]]
<1>7. Eq(e)
  <2>1. ASSUME NEW i \in 0 .. n PROVE f[i] = IF i = 0 THEN <<>> ELSE Nx(e[i - 1], i)
    <3>1. CASE i # 0
      <4>1. e[i - 1] = f[i - 1] /\ i \in 1 .. n
        BY <1>4, <3>1
      <4> HIDE DEF e
      <4> QED BY <1>6, <3>1, <4>1
    <3> QED BY <1>6, <3>1
  <2>2. e = [i \in 0 .. n |-> IF i = 0 THEN <<>> ELSE Nx(e[i - 1], i)]
    BY <2>1
  <2> HIDE DEF e
  <2> QED BY <2>2, Zenon
<1>8. Eq(F)
  <2> HIDE DEF e, Eq
  <2> QED BY <1>7
<1> HIDE DEF F
<1>9. F[0] = <<>> /\ \A i \in 1 .. n : F[i] = Nx(F[i - 1], i)
  BY <1>4, <1>8
<1> QED BY <1>2, <1>9 DEF Nx, n

(* The layout without the leaves of a set that is not all of it.           *)
LEMMA WithoutGood ==
  ASSUME NEW l, GoodLayout(l), NEW gone, NEW kept \in Ids(l.root), kept \notin gone
  PROVE  LET w == Without(l, gone)
         IN  /\ GoodLayout(w) /\ w.next_id = l.next_id
             /\ Ids(w.root) = Ids(l.root) \ gone
             /\ l.focused \notin gone => w.focused = l.focused
<1> DEFINE order == leaves(l)
           n == Len(order)
           Done(i) == {order[j] : j \in 1 .. i} \cap gone
           P(x, i) == /\ GoodLayout(x) /\ x.next_id = l.next_id
                      /\ Ids(x.root) = Ids(l.root) \ Done(i)
                      /\ l.focused \notin gone => x.focused = l.focused
<1>1. /\ n \in Nat /\ DOMAIN order = 1 .. n /\ ToSet(order) = Ids(l.root) /\ IsInjective(order)
  BY GoodIs
<1>2. PICK f : /\ f[0] = l
               /\ \A i \in 1 .. n : f[i] = (IF order[i] \in gone THEN remove(f[i - 1], order[i]) ELSE f[i - 1])
               /\ Without(l, gone) = f[n]
  BY <1>1, WithoutSteps
<1> DEFINE G == {i \in Nat : i <= n => P(f[i], i)}
<1>3. 0 \in G
  <2>1. Done(0) = {}
    OBVIOUS
  <2>2. P(l, 0)
    BY <2>1
  <2> HIDE DEF P
  <2> QED BY <1>2, <2>2
<1>4. ASSUME NEW i \in Nat, i \in G PROVE i + 1 \in G
  <2> SUFFICES ASSUME i + 1 <= n PROVE P(f[i + 1], i + 1)
    OBVIOUS
  <2>1. i + 1 \in 1 .. n /\ (i + 1) - 1 = i /\ i <= n
    BY <1>1
  <2>2. P(f[i], i)
    BY <1>4, <2>1
  <2> DEFINE x == f[i]
             o == order[i + 1]
  <2>3. f[i + 1] = IF o \in gone THEN remove(x, o) ELSE x
    BY <1>2, <2>1
  <2>4. o \in Ids(l.root) /\ {order[j] : j \in 1 .. i + 1} = {order[j] : j \in 1 .. i} \cup {o}
    <3>1. o \in ToSet(order)
      BY <1>1, <2>1 DEF ToSet
    <3>2. 1 .. i + 1 = (1 .. i) \cup {i + 1}
      BY <2>1
    <3> QED BY <1>1, <3>1, <3>2
  <2>5. ASSUME o \in Done(i) PROVE FALSE
    <3>1. PICK j \in 1 .. i : o = order[j]
      BY <2>5
    <3>2. j \in 1 .. n /\ j # i + 1
      BY <2>1
    <3> QED BY <1>1, <2>1, <3>1, <3>2 DEF IsInjective
  <2> HIDE DEF x, o
  <2>6. CASE o \notin gone
    <3>1. Done(i + 1) = Done(i)
      BY <2>4, <2>6
    <3> HIDE DEF Done
    <3> QED BY <2>2, <2>3, <2>6, <3>1 DEF x
  <2>7. CASE o \in gone
    <3>1. Done(i + 1) = Done(i) \cup {o} /\ kept \notin Done(i)
      BY <2>4, <2>7, Zenon
    <3> HIDE DEF Done
    <3>2. /\ GoodLayout(x) /\ x.next_id = l.next_id /\ Ids(x.root) = Ids(l.root) \ Done(i)
          /\ l.focused \notin gone => x.focused = l.focused
      BY <2>2 DEF x
    <3>3. o \in Ids(x.root) /\ kept \in Ids(x.root) /\ kept # o
      BY <2>4, <2>5, <2>7, <3>1, <3>2
    <3>4. ~IsLeaf(x.root)
      <4>1. x.root \in Tree /\ Distinct(x.root)
        BY <3>2, GoodIs
      <4> QED BY <3>3, <4>1, OneLeaf
    <3> DEFINE r == remove(x, o)
    <3>5. /\ GoodLayout(r) /\ r.next_id = x.next_id
          /\ Ids(r.root) = IF o \in Ids(x.root) /\ ~IsLeaf(x.root) THEN Ids(x.root) \ {o}
                           ELSE Ids(x.root)
          /\ o # x.focused => r.focused = x.focused
      BY <3>2, RemoveGood, Zenon
    <3>6. f[i + 1] = r
      BY <2>3, <2>7
    <3> HIDE DEF r
    <3>7. Ids(r.root) = Ids(l.root) \ Done(i + 1)
      BY <3>1, <3>2, <3>3, <3>4, <3>5
    <3>8. l.focused \notin gone => r.focused = l.focused
      BY <2>7, <3>2, <3>5
    <3> QED BY <3>2, <3>5, <3>6, <3>7, <3>8
  <2> QED BY <2>6, <2>7
<1> HIDE DEF G
<1>5. n \in G
  BY <1>1, <1>3, <1>4, SetInduction
<1>6. P(f[n], n)
  BY <1>1, <1>5 DEF G
<1>7. Done(n) = Ids(l.root) \cap gone
  <2>1. ToSet(order) = {order[j] : j \in 1 .. n}
    BY <1>1 DEF ToSet
  <2> QED BY <1>1, <2>1
<1> HIDE DEF Done
<1>8. Ids(l.root) \ Done(n) = Ids(l.root) \ gone
  BY <1>7
<1> QED BY <1>2, <1>6, <1>8

(* Exchanged and moved panes.                                              *)
LEMMA SwapGood ==
  ASSUME NEW l, GoodLayout(l), NEW to \in Ids(l.root) \cup {None}
  PROVE  LET s == SwapWith(l, to) IN GoodLayout(s) /\ Ids(s.root) = Ids(l.root)
<1> DEFINE name == [id \in ToSet(leaves(l)) |->
                      IF id = to THEN l.focused ELSE IF id = l.focused THEN to ELSE id]
           r == Renamed(l.root, name)
           s == SwapWith(l, to)
<1>1. CASE to = None
  <2>1. s = l
    BY <1>1 DEF SwapWith
  <2> QED BY <2>1
<1>2. CASE to # None
  <2>1. s = [l EXCEPT !.root = r]
    BY <1>2 DEF SwapWith
  <2>2. /\ l \in Layouts /\ Sound(l.root) /\ ToSet(leaves(l)) = Ids(l.root) /\ l.focused \in Ids(l.root)
        /\ Ids(l.root) \subseteq Nat /\ to \in Ids(l.root)
    BY <1>2, GoodIs
  <2>3. \A x \in Ids(l.root) : name[x] = IF x = to THEN l.focused ELSE IF x = l.focused THEN to ELSE x
    BY <2>2
  <2> HIDE DEF name
  <2>4. \A x \in Ids(l.root) : name[x] \in Nat
    BY <2>2, <2>3
  <2>5. \A x, y \in Ids(l.root) : name[x] = name[y] => x = y
    BY <2>2, <2>3
  <2>6. {name[x] : x \in Ids(l.root)} = Ids(l.root)
    <3>1. \A x \in Ids(l.root) : name[x] \in Ids(l.root) /\ name[name[x]] = x
      BY <2>2, <2>3
    <3> QED BY <3>1
  <2>7. r \in Tree /\ Distinct(r) /\ Ids(r) = Ids(l.root)
    BY <2>2, <2>4, <2>5, <2>6, RenamedSound, Zenon
  <2> HIDE DEF r
  <2>8. /\ s \in Layouts /\ s.root = r /\ s.focused = l.focused /\ s.zoomed = l.zoomed
        /\ s.next_id = l.next_id
    BY <2>1, <2>2, <2>7 DEF Layouts
  <2> HIDE DEF s
  <2>9. Sound(s.root)
    BY <2>2, <2>7, <2>8 DEF Sound
  <2> QED BY <2>7, <2>8, <2>9 DEF GoodLayout, s
<1> QED BY <1>1, <1>2

Attachable(p, ids, new, source) ==
  /\ p \in Layouts /\ Sound(p.root) /\ new \in Nat /\ source \in ids /\ new \notin ids
  /\ Ids(p.root) = (ids \ {source}) \cup {new} /\ ids \subseteq Nat
  /\ p.zoomed \in ids \cup {None} /\ p.next_id = new /\ \A id \in ids : id < new
  /\ Cardinality(ids) <= MAX_PANES

LEMMA AttachGood ==
  ASSUME NEW p, NEW ids, NEW new, NEW source, Attachable(p, ids, new, source), NEW target, NEW before
  PROVE  LET a == Attach(p, new, source, target, before)
         IN  GoodLayout(a) /\ Ids(a.root) = ids
<1> DEFINE name == [id \in ToSet(leaves(p)) |-> IF id = new THEN source ELSE id]
           root == Renamed(p.root, name)
           r == IF before THEN EditAt(root, source, ReorderEdit(target)) ELSE root
           a == Attach(p, new, source, target, before)
<1>0. /\ p \in Layouts /\ Sound(p.root) /\ new \in Nat /\ source \in ids /\ new \notin ids
      /\ Ids(p.root) = (ids \ {source}) \cup {new} /\ ids \subseteq Nat
      /\ p.zoomed \in ids \cup {None} /\ p.next_id = new /\ \A id \in ids : id < new
      /\ Cardinality(ids) <= MAX_PANES
  BY DEF Attachable
<1>1. a = [p EXCEPT !.root = r, !.next_id = @ + 1, !.focused = source]
  BY DEF Attach, ReorderEdit
<1>2. ToSet(leaves(p)) = Ids(p.root)
  BY DEF leaves, Ids
<1>3. \A x \in Ids(p.root) : name[x] = IF x = new THEN source ELSE x
  BY <1>2
<1> HIDE DEF name
<1>4. /\ \A x \in Ids(p.root) : name[x] \in Nat
      /\ \A x, y \in Ids(p.root) : name[x] = name[y] => x = y
      /\ {name[x] : x \in Ids(p.root)} = ids
  <2>1. \A x \in Ids(p.root) : name[x] \in ids
    BY <1>0, <1>3
  <2>2. \A x, y \in Ids(p.root) : name[x] = name[y] => x = y
    BY <1>0, <1>3
  <2>3. \A y \in ids : \E x \in Ids(p.root) : name[x] = y
    <3> TAKE y \in ids
    <3>1. CASE y = source
      <4>1. new \in Ids(p.root) /\ name[new] = y
        BY <1>0, <1>3, <3>1
      <4> QED BY <4>1
    <3>2. CASE y # source
      <4>1. y \in Ids(p.root) /\ name[y] = y
        BY <1>0, <1>3, <3>2
      <4> QED BY <4>1
    <3> QED BY <3>1, <3>2
  <2>4. \A x \in Ids(p.root) : name[x] \in Nat
    BY <1>0, <2>1, Zenon
  <2>5. {name[x] : x \in Ids(p.root)} \subseteq ids
    BY <2>1
  <2>6. ids \subseteq {name[x] : x \in Ids(p.root)}
    BY <2>3
  <2> QED BY <2>2, <2>4, <2>5, <2>6, Zenon
<1>5. root \in Tree /\ Distinct(root) /\ Ids(root) = ids
  <2>1. /\ Renamed(p.root, name) \in Tree /\ Distinct(Renamed(p.root, name))
        /\ Ids(Renamed(p.root, name)) = {name[x] : x \in Ids(p.root)}
    BY <1>0, <1>4, RenamedSound
  <2> QED BY <1>4, <2>1
<1> HIDE DEF root
<1>6. Sound(root)
  BY <1>0, <1>5 DEF Sound
<1>7. Sound(r) /\ Ids(r) = ids
  BY <1>0, <1>5, <1>6, ReorderSound
<1> HIDE DEF r
<1>8. r \in Tree
  BY <1>7 DEF Sound
<1> DEFINE q == [p EXCEPT !.root = r]
<1>9. q \in Layouts /\ q.root = r /\ q.zoomed = p.zoomed /\ q.next_id = p.next_id
  BY <1>0, <1>8 DEF Layouts
<1>10. a = [q EXCEPT !.next_id = @ + 1, !.focused = source]
  BY <1>0, <1>1, <1>9, Zenon DEF Layouts
<1> HIDE DEF q, a
<1> DEFINE u == [q EXCEPT !.next_id = @ + 1, !.focused = source]
<1>11. u \in Layouts /\ u.root = q.root /\ u.focused = source /\ u.zoomed = q.zoomed /\ u.next_id = q.next_id + 1
  <2>1. source \in Nat
    BY <1>0
  <2> QED BY <1>9, <2>1, NextAndFocus, Zenon
<1>12. a = u
  BY <1>10
<1> HIDE DEF u
<1>13. a \in Layouts /\ a.root = r /\ a.focused = source /\ a.zoomed = p.zoomed /\ a.next_id = new + 1
  BY <1>0, <1>9, <1>11, <1>12
<1>14. \A id \in ids : id < new + 1
  BY <1>0
<1>15. GoodLayout(a)
  BY <1>0, <1>7, <1>13, <1>14, Zenon DEF GoodLayout
<1> QED BY <1>7, <1>13, <1>15 DEF a

LEMMA MoveGood ==
  ASSUME NEW l, GoodLayout(l), NEW source, NEW target, NEW axis \in Axis, NEW before
  PROVE  LET m == move_leaf(l, source, target, axis, before)
         IN  GoodLayout(m) /\ Ids(m.root) = Ids(l.root)
<1> DEFINE r == remove(l, source)
           new == l.next_id
           p == split(r, target, axis, new)
           m == move_leaf(l, source, target, axis, before)
           ids == Ids(l.root)
<1>0. /\ ids \subseteq Nat /\ new \in Nat /\ new \notin ids /\ Sound(l.root) /\ ToSet(leaves(l)) = ids
      /\ \A id \in ids : id < new
  BY GoodIs
<1>1. CASE source = target \/ ~{source, target} \subseteq ids
  <2>1. m = l
    BY <1>0, <1>1 DEF move_leaf
  <2> QED BY <2>1
<1>2. CASE ~(source = target \/ ~{source, target} \subseteq ids)
  <2>1. m = Attach(p, new, source, target, before)
    BY <1>0, <1>2 DEF move_leaf
  <2>2. source \in ids /\ target \in ids /\ source # target
    BY <1>2
  <2>3. ~IsLeaf(l.root)
    BY <1>0, <2>2, OneLeaf DEF Sound
  <2>4. GoodLayout(r) /\ r.next_id = l.next_id /\ Ids(r.root) = ids \ {source}
    BY <2>2, <2>3, RemoveGood, Zenon
  <2>5. r \in Layouts /\ Sound(r.root) /\ r.zoomed \in Ids(r.root) \cup {None}
    BY <2>4, GoodIs
  <2> HIDE DEF r
  <2>6. target \in Ids(r.root) /\ new \notin Ids(r.root)
    BY <1>0, <2>2, <2>4
  <2>7. /\ p.root \in Tree /\ Distinct(p.root) /\ Ids(p.root) = Ids(r.root) \cup {new}
        /\ p = [root |-> p.root, focused |-> r.focused, zoomed |-> r.zoomed, next_id |-> r.next_id]
    BY <1>0, <2>5, <2>6, SplitSound
  <2> HIDE DEF p, new, m, ids
  <2>8. p \in Layouts /\ p.zoomed = r.zoomed /\ p.next_id = new
    BY <2>4, <2>5, <2>7 DEF Layouts, new
  <2>9. Cardinality(ids) <= MAX_PANES
    BY <1>0 DEF Sound, ids
  <2>10. Cardinality((ids \ {source}) \cup {new}) <= MAX_PANES
    <3>1. IsFiniteSet(ids) /\ Cardinality(ids) \in Nat
      BY <1>0, SoundCount DEF ids
    <3>2. IsFiniteSet(ids \ {source}) /\ Cardinality(ids \ {source}) = Cardinality(ids) - 1
      BY <2>2, <3>1, FS_RemoveElement
    <3>3. Cardinality((ids \ {source}) \cup {new}) = Cardinality(ids \ {source}) + 1
      BY <1>0, <3>2, FS_AddElement
    <3>4. Cardinality((ids \ {source}) \cup {new}) = Cardinality(ids)
      BY <3>1, <3>2, <3>3
    <3> QED BY <2>9, <3>4
  <2>11. Ids(p.root) = (ids \ {source}) \cup {new}
    BY <2>4, <2>7
  <2>12. Sound(p.root)
    BY <2>7, <2>10, <2>11 DEF Sound
  <2>13. p.zoomed \in ids \cup {None}
    BY <2>4, <2>5, <2>8
  <2> DEFINE a == Attach(p, new, source, target, before)
  <2>14. GoodLayout(a) /\ Ids(a.root) = ids
    <3>1. Attachable(p, ids, new, source)
      BY <1>0, <2>2, <2>8, <2>9, <2>11, <2>12, <2>13 DEF Attachable, ids, new
    <3> QED BY <3>1, AttachGood
  <2> HIDE DEF a
  <2> QED BY <2>1, <2>14 DEF a, m, ids
<1> QED BY <1>1, <1>2

(* A split made of trees that are there.                                   *)
Apart(nodes, n, d) ==
  /\ \A k \in 1 .. n : nodes[k] \in Trees[d] /\ Distinct(nodes[k])
  /\ \A k, j \in 1 .. n : k # j => Disjoint(Ids(nodes[k]), Ids(nodes[j]))
LEMMA SplitShape ==
  ASSUME NEW axis \in Axis, NEW n \in Nat, n >= 2, NEW nodes, DOMAIN nodes = 1 .. n,
         NEW d \in 0 .. Bound, d < Bound, Apart(nodes, n, d)
  PROVE  Shape(Split(axis, nodes), d + 1, UNION {Ids(nodes[k]) : k \in 1 .. n})
<1> DEFINE c == [i \in DOMAIN nodes |-> Child(nodes[i], 1)]
<1>1. Split(axis, nodes) = [axis |-> axis, children |-> c]
  BY DEF Split
<1>2. \A i \in 1 .. n : c[i] \in KidsIn(d) /\ c[i].node = nodes[i]
  <2>1. \A t \in Trees[d], f \in Nat : Child(t, f) \in KidsIn(d) /\ Child(t, f).node = t
    BY DEF KidsIn, Child
  <2>2. \A i \in 1 .. n : c[i] = Child(nodes[i], 1) /\ nodes[i] \in Trees[d] /\ 1 \in Nat
    BY DEF Apart
  <2> QED BY <2>1, <2>2
<1>3. c \in [1 .. n -> KidsIn(d)]
  BY <1>2
<1> HIDE DEF c
<1>4. c \in Seq(KidsIn(d)) /\ Len(c) = n
  BY <1>3, AsSeq
<1>5. IdsOf(c) = UNION {Ids(nodes[k]) : k \in 1 .. n}
  BY <1>2, <1>4 DEF IdsOf
<1>6. DistinctIn(c)
  BY <1>2, <1>4 DEF DistinctIn, Apart
<1>7. Shape([axis |-> axis, children |-> c], d + 1, IdsOf(c))
  BY <1>4, <1>6, BuildFork
<1> QED BY <1>1, <1>5, <1>7

Rowed(nodes, n, id) ==
  /\ n \in Nat /\ n >= 2 /\ nodes = [k \in 1 .. n |-> Leaf(id[k])]
  /\ \A k \in 1 .. n : id[k] \in Nat
  /\ \A k, j \in 1 .. n : id[k] = id[j] => k = j
LEMMA RowShape ==
  ASSUME NEW axis \in Axis, NEW n, NEW nodes, NEW id, Rowed(nodes, n, id)
  PROVE  Shape(Split(axis, nodes), 1, {id[k] : k \in 1 .. n})
<1>0. /\ n \in Nat /\ n >= 2 /\ nodes = [k \in 1 .. n |-> Leaf(id[k])]
      /\ \A k \in 1 .. n : id[k] \in Nat
      /\ \A k, j \in 1 .. n : id[k] = id[j] => k = j
  BY DEF Rowed
<1>1. 0 \in 0 .. Bound /\ 0 < Bound /\ 0 + 1 = 1
  BY BoundNat
<1>2. ASSUME NEW k \in 1 .. n
      PROVE  nodes[k] \in Trees[0] /\ Distinct(nodes[k]) /\ Ids(nodes[k]) = {id[k]}
  <2>1. nodes[k] = Leaf(id[k]) /\ id[k] \in Nat
    BY <1>0
  <2> QED BY <1>1, <2>1, LeafShape DEF Shape
<1>3. Apart(nodes, n, 0) /\ DOMAIN nodes = 1 .. n
  <2>1. \A k, j \in 1 .. n : k # j => Disjoint(Ids(nodes[k]), Ids(nodes[j]))
    BY <1>0, <1>2 DEF Disjoint
  <2> QED BY <1>0, <1>2, <2>1 DEF Apart
<1>4. Shape(Split(axis, nodes), 0 + 1, UNION {Ids(nodes[k]) : k \in 1 .. n})
  <2> DEFINE d == 0
  <2>1. d \in 0 .. Bound /\ d < Bound /\ Apart(nodes, n, d)
    BY <1>1, <1>3
  <2> HIDE DEF d
  <2>2. Shape(Split(axis, nodes), d + 1, UNION {Ids(nodes[k]) : k \in 1 .. n})
    <3>1. n \in Nat /\ n >= 2 /\ DOMAIN nodes = 1 .. n
      BY <1>0, <1>3
    <3> QED BY <2>1, <3>1, SplitShape
  <2> QED BY <2>2 DEF d
<1>5. UNION {Ids(nodes[k]) : k \in 1 .. n} = {id[k] : k \in 1 .. n}
  BY <1>2
<1> QED BY <1>1, <1>4, <1>5, Zenon

(* Parts of a row or a column stacked, or the one there is.                *)
LEMMA StackShape ==
  ASSUME NEW axis \in Axis, NEW n \in Nat, n >= 1, n >= 2 => Bound >= 2,
         NEW nodes, DOMAIN nodes = 1 .. n, Apart(nodes, n, 1)
  PROVE  LET root == IF n = 1 THEN nodes[1] ELSE Split(axis, nodes)
         IN  root \in Tree /\ Distinct(root) /\ Ids(root) = UNION {Ids(nodes[k]) : k \in 1 .. n}
<1>1. 1 \in 0 .. Bound /\ Trees[1] \subseteq Tree
  BY BoundNat, TreesInTree
<1>2. CASE n = 1
  <2>1. 1 \in 1 .. n /\ UNION {Ids(nodes[k]) : k \in 1 .. n} = Ids(nodes[1])
    BY <1>2
  <2> QED BY <1>1, <1>2, <2>1 DEF Apart
<1>3. CASE n # 1
  <2>1. 1 < Bound /\ 1 + 1 = 2 /\ 2 \in 0 .. Bound /\ n >= 2
    BY <1>3, BoundNat
  <2>2. Shape(Split(axis, nodes), 1 + 1, UNION {Ids(nodes[k]) : k \in 1 .. n})
    BY <1>1, <2>1, SplitShape, Zenon
  <2>3. Trees[2] \subseteq Tree
    BY <2>1, TreesInTree
  <2> QED BY <1>3, <2>1, <2>2, <2>3 DEF Shape
<1> QED BY <1>2, <1>3

(* Sums of what is positive.                                               *)
LEMMA SumsGrow ==
  ASSUME NEW s \in Seq(Nat \ {0})
  PROVE  /\ Sums(s)[0] = 0
         /\ \A i \in 0 .. Len(s) : Sums(s)[i] \in Nat
         /\ \A i \in 1 .. Len(s) : Sums(s)[i] = Sums(s)[i - 1] + s[i]
         /\ \A i, j \in 0 .. Len(s) : i < j => Sums(s)[i] < Sums(s)[j]
         /\ \A i \in 0 .. Len(s) : i <= Sums(s)[i]
         /\ Total(s) = Sums(s)[Len(s)]
<1> DEFINE n == Len(s)
           f == Sums(s)
<1>1. n \in Nat /\ \A i \in 1 .. n : s[i] \in Nat \ {0}
  OBVIOUS
<1>2. PICK g : /\ g[0] = 0
               /\ \A i \in 1 .. n : g[i] = g[i - 1] + s[i]
               /\ \A i \in 0 .. n : f[i] = g[i]
  BY <1>1, SumsSteps
<1> HIDE DEF f, n
<1>3. f[0] = 0 /\ \A i \in 1 .. n : f[i] = f[i - 1] + s[i]
  BY <1>1, <1>2
<1> DEFINE G == {i \in Nat : i <= n => f[i] \in Nat /\ i <= f[i]}
<1>4. 0 \in G
  BY <1>3
<1>5. ASSUME NEW i \in Nat, i \in G PROVE i + 1 \in G
  <2> SUFFICES ASSUME i + 1 <= n PROVE f[i + 1] \in Nat /\ i + 1 <= f[i + 1]
    OBVIOUS
  <2>1. i + 1 \in 1 .. n /\ (i + 1) - 1 = i /\ i <= n
    BY <1>1
  <2>2. f[i] \in Nat /\ i <= f[i]
    BY <1>5, <2>1
  <2>3. f[i + 1] = f[i] + s[i + 1] /\ s[i + 1] \in Nat \ {0}
    BY <1>1, <1>3, <2>1
  <2> QED BY <2>2, <2>3
<1>6. \A i \in 0 .. n : f[i] \in Nat /\ i <= f[i]
  <2>1. \A i \in Nat : i \in G
    <3> HIDE DEF G
    <3> QED BY <1>4, <1>5, SetInduction, Zenon
  <2> QED BY <1>1, <2>1
<1>7. ASSUME NEW i \in 0 .. n, NEW j \in 0 .. n, i < j PROVE f[i] < f[j]
  <2> DEFINE H == {k \in Nat : i + 1 + k <= n => f[i] < f[i + 1 + k]}
  <2>1. 0 \in H
    <3> SUFFICES ASSUME i + 1 <= n PROVE f[i] < f[i + 1]
      OBVIOUS
    <3>1. i + 1 \in 1 .. n /\ (i + 1) - 1 = i
      BY <1>1
    <3>2. f[i + 1] = f[i] + s[i + 1] /\ s[i + 1] \in Nat \ {0}
      BY <1>1, <1>3, <3>1
    <3> QED BY <1>6, <3>2
  <2>2. ASSUME NEW k \in Nat, k \in H PROVE k + 1 \in H
    <3> SUFFICES ASSUME i + 1 + (k + 1) <= n PROVE f[i] < f[i + 1 + (k + 1)]
      OBVIOUS
    <3> DEFINE m == i + 1 + k
    <3>1. m \in 0 .. n /\ m + 1 \in 1 .. n /\ (m + 1) - 1 = m /\ i + 1 + (k + 1) = m + 1 /\ m <= n
      BY <1>1
    <3>2. f[i] < f[m]
      <4>1. i + 1 + k <= n => f[i] < f[i + 1 + k]
        BY <2>2
      <4> QED BY <3>1, <4>1
    <3> HIDE DEF m
    <3>3. f[m + 1] = f[m] + s[m + 1] /\ s[m + 1] \in Nat \ {0}
      BY <1>1, <1>3, <3>1
    <3>4. f[m] \in Nat /\ f[i] \in Nat
      BY <1>6, <3>1
    <3>5. f[i] < f[m + 1]
      BY <3>2, <3>3, <3>4
    <3> QED BY <3>1, <3>5
  <2>3. \A k \in Nat : k \in H
    <3> HIDE DEF H
    <3> QED BY <2>1, <2>2, SetInduction, Zenon
  <2>4. j - i - 1 \in Nat /\ i + 1 + (j - i - 1) = j
    BY <1>7
  <2> DEFINE k == j - i - 1
  <2>5. k \in Nat /\ i + 1 + k = j /\ i + 1 + k <= n
    BY <1>1, <2>4
  <2> HIDE DEF k
  <2>6. k \in H
    BY <2>3, <2>5
  <2> QED BY <2>5, <2>6
<1>8. Total(s) = f[n]
  BY DEF Total, f, n
<1> QED BY <1>3, <1>6, <1>7, <1>8 DEF f, n

(* Presets.                                                                *)
Preset(axis, counts) ==
  /\ axis \in Axis /\ counts \in Seq(Nat \ {0}) /\ counts # <<>> /\ Total(counts) <= MAX_PANES

LEMMA Intervals ==
  ASSUME NEW s \in Seq(Nat \ {0})
  PROVE  /\ \A i, j \in 1 .. Len(s) : i # j =>
              Disjoint(Sums(s)[i - 1] .. Sums(s)[i] - 1, Sums(s)[j - 1] .. Sums(s)[j] - 1)
         /\ UNION {Sums(s)[i - 1] .. Sums(s)[i] - 1 : i \in 1 .. Len(s)} = 0 .. Total(s) - 1
<1> DEFINE n == Len(s)
           f == Sums(s)
           A(i) == f[i - 1] .. f[i] - 1
<1>1. /\ n \in Nat /\ f[0] = 0 /\ Total(s) = f[n]
      /\ \A i \in 0 .. n : f[i] \in Nat
      /\ \A i, j \in 0 .. n : i < j => f[i] < f[j]
  BY SumsGrow
<1> HIDE DEF f, n
<1>2. \A i \in 1 .. n : i \in 0 .. n /\ i - 1 \in 0 .. n /\ i - 1 < i
  BY <1>1
<1>3. ASSUME NEW i \in 1 .. n, NEW j \in 1 .. n, i < j PROVE Disjoint(A(i), A(j))
  <2>1. f[i] <= f[j - 1]
    <3>1. i \in 0 .. n /\ j - 1 \in 0 .. n /\ (i < j - 1 \/ i = j - 1)
      BY <1>1, <1>3
    <3> QED BY <1>1, <3>1
  <2>2. f[i - 1] \in Nat /\ f[i] \in Nat /\ f[j - 1] \in Nat /\ f[j] \in Nat
    BY <1>1, <1>2
  <2> QED BY <2>1, <2>2 DEF Disjoint
<1>4. \A i, j \in 1 .. n : i # j => Disjoint(A(i), A(j))
  <2>1. \A i, j \in 1 .. n : i < j \/ j < i \/ i = j
    BY <1>1
  <2>2. \A i, j \in 1 .. n : Disjoint(A(i), A(j)) => Disjoint(A(j), A(i))
    BY DEF Disjoint
  <2> HIDE DEF A
  <2> QED BY <1>3, <2>1, <2>2
<1>5. ASSUME NEW x \in 0 .. f[n] - 1 PROVE \E i \in 1 .. n : x \in A(i)
  <2> DEFINE T == {i \in 0 .. n : x < f[i]}
  <2>1. n \in T /\ T \subseteq Nat
    BY <1>1
  <2>2. PICK i \in T : \A k \in T : i <= k
    <3> HIDE DEF T
    <3> QED BY <2>1, LeastNat, Zenon
  <2>3. i \in 1 .. n
    BY <1>1, <2>2
  <2>4. i - 1 \in 0 .. n /\ i - 1 \notin T
    BY <1>2, <2>2, <2>3
  <2>5. f[i - 1] \in Nat /\ f[i] \in Nat
    BY <1>1, <1>2, <2>3
  <2>6. x < f[i] /\ ~(x < f[i - 1])
    BY <2>2, <2>4
  <2>7. x \in A(i)
    BY <1>1, <2>5, <2>6
  <2> QED BY <2>3, <2>7
<1>6. ASSUME NEW i \in 1 .. n, NEW x \in A(i) PROVE x \in 0 .. f[n] - 1
  <2>1. f[i - 1] \in Nat /\ f[i] \in Nat /\ f[n] \in Nat
    BY <1>1, <1>2
  <2>2. f[i] <= f[n]
    <3>1. i \in 0 .. n /\ n \in 0 .. n /\ (i < n \/ i = n)
      BY <1>1
    <3> QED BY <1>1, <2>1, <3>1
  <2> QED BY <2>1, <2>2
<1>7. UNION {A(i) : i \in 1 .. n} = 0 .. f[n] - 1
  <2> HIDE DEF A
  <2> QED BY <1>5, <1>6
<1> QED BY <1>1, <1>4, <1>7 DEF f, n

LEMMA PresetGood ==
  ASSUME NEW axis, NEW counts, Preset(axis, counts)
  PROVE  LET l == from_preset(axis, counts)
         IN  /\ GoodLayout(l) /\ Ids(l.root) = 0 .. Total(counts) - 1 /\ Total(counts) \in Nat \ {0}
             /\ l.focused = 0 /\ l.next_id = Total(counts) /\ l.zoomed = None
<1> DEFINE other == IF axis = "Horizontal" THEN "Vertical" ELSE "Horizontal"
           n == Len(counts)
           f == Sums(counts)
           first(i) == f[i - 1]
           part(i) == IF counts[i] = 1 THEN Leaf(first(i))
                      ELSE Split(other, [k \in 1 .. counts[i] |-> Leaf(first(i) + k - 1)])
           parts == [i \in DOMAIN counts |-> part(i)]
           root == IF Len(parts) = 1 THEN parts[1] ELSE Split(axis, parts)
           A(i) == f[i - 1] .. f[i] - 1
           t == Total(counts)
<1>1. axis \in Axis /\ other \in Axis /\ counts \in Seq(Nat \ {0}) /\ counts # <<>> /\ t <= MAX_PANES
  BY DEF Preset, Axis
<1>2. n \in Nat /\ n >= 1 /\ DOMAIN counts = 1 .. n /\ \A i \in 1 .. n : counts[i] \in Nat \ {0}
  BY <1>1
<1>3. from_preset(axis, counts) = Layout(root, 0, t)
  BY DEF from_preset
<1>4. /\ \A i \in 0 .. n : f[i] \in Nat /\ i <= f[i]
      /\ \A i \in 1 .. n : f[i] = f[i - 1] + counts[i]
      /\ t = f[n] /\ t \in Nat /\ n <= t /\ t >= 1
  <2>1. /\ \A i \in 0 .. n : f[i] \in Nat
        /\ \A i \in 1 .. n : f[i] = f[i - 1] + counts[i]
        /\ \A i \in 0 .. n : i <= f[i]
        /\ t = f[n]
    BY <1>1, SumsGrow
  <2>2. n \in 0 .. n
    BY <1>2
  <2>3. f[n] \in Nat /\ n <= f[n]
    BY <2>1, <2>2
  <2> HIDE DEF f, n, t
  <2>4. t \in Nat /\ n <= t /\ t >= 1
    BY <1>2, <2>1, <2>3
  <2> QED BY <2>1, <2>4
<1>5. /\ \A i, j \in 1 .. n : i # j => Disjoint(A(i), A(j))
      /\ UNION {A(i) : i \in 1 .. n} = 0 .. t - 1
  BY <1>1, Intervals
<1>6. n >= 2 => Bound >= 2
  BY <1>1, <1>2, <1>4, BoundNat
<1>7. \A i \in 1 .. n : parts[i] = part(i)
  BY <1>2
<1>8. DOMAIN parts = 1 .. n
  BY <1>2
<1> HIDE DEF other, f, n, t
<1>9. ASSUME NEW i \in 1 .. n
      PROVE  part(i) \in Trees[1] /\ Distinct(part(i)) /\ Ids(part(i)) = A(i)
  <2>1. i \in 0 .. n /\ i - 1 \in 0 .. n
    BY <1>2
  <2>2. first(i) \in Nat /\ f[i] \in Nat /\ f[i] = first(i) + counts[i] /\ counts[i] \in Nat \ {0}
    BY <1>2, <1>4, <2>1, Zenon
  <2>3. CASE counts[i] = 1
    <3>1. A(i) = {first(i)}
      BY <2>2, <2>3
    <3>2. 1 \in 0 .. Bound
      BY BoundNat
    <3>3. Shape(Leaf(first(i)), 1, {first(i)})
      BY <2>2, <3>2, LeafShape, Zenon
    <3> QED BY <2>3, <3>1, <3>3, Zenon DEF Shape
  <2>4. CASE counts[i] # 1
    <3> DEFINE m == counts[i]
               id == [k \in 1 .. m |-> first(i) + k - 1]
               nodes == [k \in 1 .. m |-> Leaf(first(i) + k - 1)]
    <3>1. m \in Nat /\ m >= 2
      BY <2>2, <2>4
    <3>2. nodes = [k \in 1 .. m |-> Leaf(id[k])]
      OBVIOUS
    <3>3. part(i) = Split(other, nodes)
      BY <2>4
    <3>4. \A k \in 1 .. m : id[k] = first(i) + k - 1
      OBVIOUS
    <3> HIDE DEF nodes, id, m
    <3>5. /\ \A k \in 1 .. m : id[k] \in Nat
          /\ \A k, j \in 1 .. m : id[k] = id[j] => k = j
      BY <2>2, <3>4
    <3>6. Shape(Split(other, nodes), 1, {id[k] : k \in 1 .. m})
      <4>1. Rowed(nodes, m, id)
        BY <3>1, <3>2, <3>5 DEF Rowed
      <4> QED BY <1>1, <4>1, RowShape
    <3>7. {id[k] : k \in 1 .. m} = A(i)
      <4>1. ASSUME NEW k \in 1 .. m PROVE id[k] \in A(i)
        BY <2>2, <3>1, <3>4 DEF m
      <4>2. ASSUME NEW x \in A(i) PROVE \E k \in 1 .. m : id[k] = x
        <5>1. x - first(i) + 1 \in 1 .. m /\ first(i) + (x - first(i) + 1) - 1 = x
          BY <2>2, <3>1 DEF m
        <5> QED BY <3>4, <5>1
      <4> HIDE DEF A
      <4> QED BY <4>1, <4>2
    <3> QED BY <3>3, <3>6, <3>7, Zenon DEF Shape
  <2> QED BY <2>3, <2>4
<1> HIDE DEF part, parts, A
<1>10. Apart(parts, n, 1)
  BY <1>5, <1>7, <1>9 DEF Apart
<1>11. Len(parts) = n
  <2>1. parts \in [1 .. n -> Trees[1]]
    <3>1. parts = [i \in DOMAIN counts |-> parts[i]]
      BY DEF parts
    <3> QED BY <1>2, <1>7, <1>9, <3>1
  <2> QED BY <1>2, <2>1, AsSeq
<1> DEFINE tree == IF n = 1 THEN parts[1] ELSE Split(axis, parts)
<1>12. tree \in Tree /\ Distinct(tree) /\ Ids(tree) = UNION {Ids(parts[k]) : k \in 1 .. n}
  BY SMTT(30), <1>1, <1>2, <1>6, <1>8, <1>10, StackShape
<1>13. root = tree
  BY <1>11
<1> HIDE DEF tree
<1>14. UNION {Ids(parts[k]) : k \in 1 .. n} = 0 .. t - 1
  <2>1. \A k \in 1 .. n : Ids(parts[k]) = A(k)
    BY <1>7, <1>9
  <2>2. {Ids(parts[k]) : k \in 1 .. n} = {A(k) : k \in 1 .. n}
    BY <2>1
  <2> QED BY <1>5, <2>2
<1>15. Ids(tree) = 0 .. t - 1
  BY <1>12, <1>14
<1>16. Cardinality(0 .. t - 1) = t
  <2> DEFINE a == 0
             b == t - 1
  <2>1. a \in Int /\ b \in Int /\ ~(a > b) /\ b - a + 1 = t
    BY <1>4
  <2> HIDE DEF a, b
  <2>2. Cardinality(a .. b) = IF a > b THEN 0 ELSE b - a + 1
    BY <2>1, FS_Interval
  <2>3. Cardinality(a .. b) = t
    BY <2>1, <2>2
  <2> QED BY <2>3 DEF a, b
<1>17. Sound(tree)
  BY <1>1, <1>12, <1>15, <1>16, Zenon DEF Sound
<1> DEFINE l == from_preset(axis, counts)
<1>18. l = [root |-> tree, focused |-> 0, zoomed |-> None, next_id |-> t]
  BY <1>3, <1>13 DEF Layout
<1>19. GoodLayout([root |-> tree, focused |-> 0, zoomed |-> None, next_id |-> t])
  <2>1. 0 \in Ids(tree) /\ \A id \in Ids(tree) : id < t
    BY <1>4, <1>15
  <2> QED BY <1>4, <1>17, <2>1, MakeGood
<1> HIDE DEF l
<1>20. GoodLayout(l) /\ l.root = tree /\ l.focused = 0 /\ l.next_id = t /\ l.zoomed = None
  BY <1>18, <1>19
<1>21. t \in Nat \ {0}
  BY <1>4
<1> QED BY <1>15, <1>20, <1>21 DEF l, t

LEMMA Times ==
  ASSUME NEW a \in Int, NEW b \in Int, NEW c \in Nat, a <= b
  PROVE  a * c <= b * c /\ a * c \in Int /\ b * c \in Int
OBVIOUS

LEMMA DivMod ==
  ASSUME NEW x \in Nat, NEW c \in Nat, c >= 1
  PROVE  /\ x \div c \in Nat /\ (x \div c) * c <= x /\ x < (x \div c) * c + c
<1>1. x \div c \in Int
  OBVIOUS
<1>2. x \div c >= 0
  OBVIOUS
<1>3. c * (x \div c) <= x
  OBVIOUS
<1>4. x < c * (x \div c) + c
  OBVIOUS
<1>5. c * (x \div c) = (x \div c) * c
  BY <1>1
<1> QED BY <1>1, <1>2, <1>3, <1>4, <1>5

(* n things in rows of c.                                                  *)
LEMMA Rows ==
  ASSUME NEW n \in Nat, n >= 1, NEW c \in 1 .. n, NEW rows, rows = (n + c - 1) \div c
  PROVE  /\ rows \in Nat /\ rows >= 1 /\ rows <= n
         /\ \A r \in 1 .. rows : (r - 1) * c + 1 \in 1 .. n /\ r * c \in Nat /\ (r - 1) * c < r * c
         /\ \A r, s \in 1 .. rows : r < s => r * c < (s - 1) * c + 1
         /\ \A j \in 1 .. n : \E r \in 1 .. rows : (r - 1) * c + 1 <= j /\ j <= r * c
<1>1. n + c - 1 \in Nat /\ c \in Nat /\ c >= 1
  OBVIOUS
<1>2. rows \in Nat /\ rows * c <= n + c - 1 /\ n + c - 1 < rows * c + c
  BY <1>1, DivMod
<1>3. rows >= 1
  <2>1. CASE rows = 0
    <3>1. n + c - 1 < 0 * c + c
      BY <1>2, <2>1
    <3> QED BY <1>1, <3>1
  <2> QED BY <1>2, <2>1
<1>4. rows <= n
  <2>1. ASSUME n + 1 <= rows PROVE FALSE
    <3>1. (n + 1) * c <= rows * c /\ (n + 1) * c \in Int /\ rows * c \in Int
      BY <1>1, <1>2, <2>1, Times
    <3>2. (n + 1) * c = n * c + c
      BY <1>1
    <3>3. n <= n * c /\ n * c \in Int
      <4>1. 1 * n <= c * n
        BY <1>1, Times
      <4>2. 1 * n = n /\ c * n = n * c
        BY <1>1
      <4> QED BY <1>1, <4>1, <4>2
    <3> DEFINE p == n * c
               q == rows * c
    <3>4. p + c <= q /\ n <= p /\ p \in Int /\ q \in Int /\ q <= n + c - 1
      BY <1>2, <3>1, <3>2, <3>3
    <3> HIDE DEF p, q
    <3> QED BY <1>1, <3>4
  <2> QED BY <1>2, <2>1
<1>5. ASSUME NEW r \in 1 .. rows
      PROVE  /\ (r - 1) * c + 1 \in 1 .. n /\ r * c \in Nat /\ (r - 1) * c < r * c
             /\ (r - 1) * c \in Nat /\ r * c = (r - 1) * c + c
  <2> DEFINE p == (r - 1) * c
  <2>1. 0 * c <= (r - 1) * c /\ (r - 1) * c \in Int
    <3>1. 0 <= r - 1 /\ r - 1 \in Int
      BY <1>2
    <3> QED BY <1>1, <3>1, Times
  <2>2. r * c = (r - 1) * c + c /\ 0 * c = 0
    BY <1>1, <1>2
  <2>3. r * c <= rows * c /\ rows * c \in Int
    BY <1>1, <1>2, Times
  <2>4. p \in Nat /\ r * c = p + c /\ p + c <= n + c - 1
    BY <1>1, <1>2, <2>1, <2>2, <2>3
  <2> HIDE DEF p
  <2>5. p + 1 \in 1 .. n /\ r * c \in Nat /\ p < r * c /\ p \in Nat
    BY <1>1, <2>4
  <2> QED BY <2>2, <2>5 DEF p
<1>6. ASSUME NEW r \in 1 .. rows, NEW s \in 1 .. rows, r < s
      PROVE  r * c < (s - 1) * c + 1
  <2>1. r * c <= (s - 1) * c /\ r * c \in Int /\ (s - 1) * c \in Int
    <3>1. r <= s - 1 /\ r \in Int /\ s - 1 \in Int
      BY <1>2, <1>6
    <3> QED BY <1>1, <3>1, Times
  <2> QED BY <2>1
<1>7. ASSUME NEW j \in 1 .. n
      PROVE  \E r \in 1 .. rows : (r - 1) * c + 1 <= j /\ j <= r * c
  <2> DEFINE q == (j - 1) \div c
             r == q + 1
  <2>1. q \in Nat /\ q * c <= j - 1 /\ j - 1 < q * c + c
    <3>1. j - 1 \in Nat
      OBVIOUS
    <3> QED BY <1>1, <3>1, DivMod
  <2> HIDE DEF q
  <2>2. (r - 1) * c = q * c /\ r * c = q * c + c /\ q * c \in Int
    BY <1>1, <2>1
  <2>3. (r - 1) * c + 1 <= j /\ j <= r * c
    <3> DEFINE p == q * c
    <3>1. p \in Int /\ p <= j - 1 /\ j - 1 < p + c
      BY <2>1, <2>2
    <3> HIDE DEF p
    <3>2. p + 1 <= j /\ j <= p + c
      BY <1>1, <3>1
    <3> QED BY <2>2, <3>2 DEF p
  <2>4. ASSUME rows <= q PROVE FALSE
    <3>1. rows * c <= q * c /\ rows * c \in Int
      BY <1>1, <1>2, <2>1, <2>4, Times
    <3> DEFINE p == q * c
               m == rows * c
    <3>2. m \in Int /\ p \in Int /\ m <= p /\ p <= j - 1 /\ n + c - 1 < m + c
      BY <1>2, <2>1, <2>2, <3>1
    <3> HIDE DEF p, m
    <3> QED BY <1>1, <3>2
  <2>5. r \in 1 .. rows
    BY <1>2, <2>1, <2>4
  <2> HIDE DEF r
  <2> QED BY <2>3, <2>5
<1> QED BY <1>2, <1>3, <1>4, <1>5, <1>6, <1>7

(* A row of panes that differ.                                             *)
LEMMA RowGood ==
  ASSUME NEW s \in Seq(Nat), NEW m \in Nat, Len(s) = m, m >= 1,
         \A k, j \in 1 .. m : s[k] = s[j] => k = j
  PROVE  /\ Row(s) \in Trees[1] /\ Distinct(Row(s))
         /\ Ids(Row(s)) = {s[k] : k \in 1 .. m}
<1>1. DOMAIN s = 1 .. m /\ \A k \in 1 .. m : s[k] \in Nat
  OBVIOUS
<1>2. CASE m = 1
  <2>1. Row(s) = Leaf(s[1])
    BY <1>2 DEF Row
  <2>2. 1 \in 0 .. Bound /\ s[1] \in Nat /\ {s[k] : k \in 1 .. m} = {s[1]}
    BY <1>1, <1>2, BoundNat
  <2>3. Shape(Leaf(s[1]), 1, {s[1]})
    BY <2>2, LeafShape, Zenon
  <2> QED BY <2>1, <2>2, <2>3, Zenon DEF Shape
<1>3. CASE m # 1
  <2> DEFINE nodes == [i \in DOMAIN s |-> Leaf(s[i])]
  <2>1. Row(s) = Split("Horizontal", nodes)
    BY <1>3 DEF Row
  <2>2. m >= 2 /\ "Horizontal" \in Axis
    BY <1>3 DEF Axis
  <2>3. nodes = [k \in 1 .. m |-> Leaf(s[k])]
    BY <1>1
  <2> HIDE DEF nodes
  <2>4. Rowed(nodes, m, s)
    BY <1>1, <2>2, <2>3 DEF Rowed
  <2>5. Shape(Split("Horizontal", nodes), 1, {s[k] : k \in 1 .. m})
    BY <2>2, <2>4, RowShape
  <2> QED BY <2>1, <2>5 DEF Shape
<1> QED BY <1>2, <1>3

(* The side of the smallest square that holds n.                           *)
LEMMA Side ==
  ASSUME NEW n \in Nat, n >= 1
  PROVE  Min({c \in 1 .. n : c * c >= n}) \in 1 .. n
<1> DEFINE T == {c \in 1 .. n : c * c >= n}
<1>1. n * n >= n
  <2>1. 1 * n <= n * n
    BY Times
  <2> QED BY <2>1
<1>2. T \subseteq Nat /\ n \in T
  BY <1>1
<1>3. T \subseteq 1 .. n
  OBVIOUS
<1> HIDE DEF T
<1>4. \E c \in T : \A k \in T : c <= k
  BY <1>2, LeastNat, Zenon
<1>5. Min(T) \in T
  BY <1>4 DEF Min
<1> QED BY <1>3, <1>5 DEF T

(* The rows of a rebalanced tree: parts of the panes one after the other.  *)
Slices(lo, hi, rows, n) ==
  /\ rows \in Nat /\ rows >= 1 /\ rows <= n
  /\ \A r \in 1 .. rows : lo[r] \in 1 .. n /\ hi[r] \in 1 .. n /\ lo[r] <= hi[r]
  /\ \A r, s \in 1 .. rows : r < s => hi[r] < lo[s]
  /\ \A j \in 1 .. n : \E r \in 1 .. rows : lo[r] <= j /\ j <= hi[r]
LEMMA RowSlices ==
  ASSUME NEW n \in Nat, n >= 1, NEW c \in 1 .. n
  PROVE  LET rows == (n + c - 1) \div c
         IN Slices([r \in 1 .. rows |-> (r - 1) * c + 1], [r \in 1 .. rows |-> Min({n, r * c})], rows, n)
<1> DEFINE rows == (n + c - 1) \div c
           lo == [r \in 1 .. rows |-> (r - 1) * c + 1]
           hi == [r \in 1 .. rows |-> Min({n, r * c})]
           end == [r \in 1 .. rows |-> r * c]
<1>1. /\ rows \in Nat /\ rows >= 1 /\ rows <= n
      /\ \A r \in 1 .. rows : (r - 1) * c + 1 \in 1 .. n /\ r * c \in Nat /\ (r - 1) * c < r * c
      /\ \A r, s \in 1 .. rows : r < s => r * c < (s - 1) * c + 1
      /\ \A j \in 1 .. n : \E r \in 1 .. rows : (r - 1) * c + 1 <= j /\ j <= r * c
  BY Rows, Zenon
<1> HIDE DEF rows
<1>2. \A r \in 1 .. rows : lo[r] = (r - 1) * c + 1 /\ hi[r] = Min({n, end[r]}) /\ end[r] = r * c
  OBVIOUS
<1> HIDE DEF lo, hi, end
<1>3. /\ \A r \in 1 .. rows : lo[r] \in 1 .. n /\ end[r] \in Nat /\ lo[r] <= end[r]
      /\ \A r, s \in 1 .. rows : r < s => end[r] < lo[s]
      /\ \A j \in 1 .. n : \E r \in 1 .. rows : lo[r] <= j /\ j <= end[r]
  <2>1. ASSUME NEW r \in 1 .. rows PROVE lo[r] \in 1 .. n /\ end[r] \in Nat /\ lo[r] <= end[r]
    <3> DEFINE p == (r - 1) * c
               q == r * c
    <3>1. p + 1 \in 1 .. n /\ q \in Nat /\ p < q /\ p \in Int
      <4>1. r - 1 \in Int /\ c \in Int
        BY <1>1
      <4> QED BY <1>1, <4>1
    <3>2. lo[r] = p + 1 /\ end[r] = q
      BY <1>2, Zenon
    <3> HIDE DEF p, q
    <3> QED BY <3>1, <3>2
  <2> QED BY <1>1, <1>2, <2>1, Zenon
<1>4. ASSUME NEW r \in 1 .. rows
      PROVE  /\ hi[r] \in 1 .. n /\ lo[r] <= hi[r] /\ hi[r] <= end[r]
             /\ \A j \in 1 .. n : j <= end[r] => j <= hi[r]
  <2>1. n \in Int /\ end[r] \in Int
    BY <1>3
  <2>2. hi[r] = (IF n <= end[r] THEN n ELSE end[r])
    BY <1>2, <2>1, MaxTwo, Zenon
  <2> QED BY <1>3, <2>2
<1>5. ASSUME NEW r \in 1 .. rows, NEW s \in 1 .. rows, r < s PROVE hi[r] < lo[s]
  <2>1. hi[r] \in 1 .. n /\ hi[r] <= end[r] /\ end[r] < lo[s] /\ end[r] \in Nat /\ lo[s] \in 1 .. n
    BY <1>3, <1>4, <1>5
  <2> QED BY <2>1
<1>6. \A j \in 1 .. n : \E r \in 1 .. rows : lo[r] <= j /\ j <= hi[r]
  BY <1>3, <1>4
<1>7. Slices(lo, hi, rows, n)
  BY <1>1, <1>3, <1>4, <1>5, <1>6 DEF Slices
<1> QED BY <1>7 DEF rows, lo, hi

Sliced(ids, lo, hi, rows, nodes) ==
  /\ ids \in Seq(Nat) /\ IsInjective(ids) /\ Slices(lo, hi, rows, Len(ids))
  /\ DOMAIN nodes = 1 .. rows
  /\ \A r \in 1 .. rows : nodes[r] = Row(SubSeq(ids, lo[r], hi[r]))
LEMMA RowsApart ==
  ASSUME NEW ids, NEW lo, NEW hi, NEW rows, NEW nodes, Sliced(ids, lo, hi, rows, nodes)
  PROVE  Apart(nodes, rows, 1) /\ UNION {Ids(nodes[r]) : r \in 1 .. rows} = ToSet(ids)
<1> DEFINE n == Len(ids)
           A(r) == {ids[k] : k \in lo[r] .. hi[r]}
<1>1. /\ rows \in Nat /\ rows >= 1 /\ rows <= n
      /\ \A r \in 1 .. rows : lo[r] \in 1 .. n /\ hi[r] \in 1 .. n /\ lo[r] <= hi[r]
      /\ \A r, s \in 1 .. rows : r < s => hi[r] < lo[s]
      /\ \A j \in 1 .. n : \E r \in 1 .. rows : lo[r] <= j /\ j <= hi[r]
      /\ \A r \in 1 .. rows : nodes[r] = Row(SubSeq(ids, lo[r], hi[r]))
      /\ ids \in Seq(Nat)
  BY DEF Sliced, Slices
<1>2. n \in Nat /\ DOMAIN ids = 1 .. n /\ \A k \in 1 .. n : ids[k] \in Nat
  BY <1>1
<1>3. \A k, j \in 1 .. n : ids[k] = ids[j] => k = j
  <2>1. IsInjective(ids)
    BY DEF Sliced
  <2> HIDE DEF n
  <2> QED BY <1>2, <2>1 DEF IsInjective
<1> HIDE DEF n
<1>7. ASSUME NEW r \in 1 .. rows
      PROVE  nodes[r] \in Trees[1] /\ Distinct(nodes[r]) /\ Ids(nodes[r]) = A(r)
  <2> DEFINE a == lo[r]
             b == hi[r]
             s == SubSeq(ids, a, b)
             m == b - a + 1
  <2>1. a \in 1 .. n /\ b \in 1 .. n /\ a <= b
    BY <1>1
  <2>10. nodes[r] = Row(s)
    BY <1>1
  <2> HIDE DEF a, b
  <2>2. a \in 1 .. Len(ids) + 1 /\ b \in Nat /\ b <= Len(ids) /\ m \in Nat /\ m >= 1
    BY <1>2, <2>1 DEF n
  <2>3. s \in Seq(Nat) /\ Len(s) = m /\ \A k \in 1 .. m : s[k] = ids[a + k - 1]
    <3>1. /\ s \in Seq(Nat) /\ Len(s) = IF a <= b THEN b - a + 1 ELSE 0
          /\ \A k \in 1 .. b - a + 1 : s[k] = ids[a + k - 1]
      BY <1>1, <2>2, Part
    <3> QED BY <2>1, <3>1
  <2> HIDE DEF s
  <2>4. \A k \in 1 .. m : a + k - 1 \in 1 .. n /\ a + k - 1 \in a .. b
    BY <1>2, <2>1
  <2>5. \A k \in a .. b : k - a + 1 \in 1 .. m /\ a + (k - a + 1) - 1 = k /\ k \in 1 .. n
    BY <1>2, <2>1
  <2>6. \A k, j \in 1 .. m : a + k - 1 = a + j - 1 => k = j
    BY <1>2, <2>1
  <2> HIDE DEF m
  <2>7. ASSUME NEW k \in 1 .. m, NEW j \in 1 .. m, s[k] = s[j] PROVE k = j
    <3> DEFINE x == a + k - 1
               y == a + j - 1
    <3>1. s[k] = ids[x] /\ s[j] = ids[y] /\ x \in 1 .. n /\ y \in 1 .. n
      BY <2>3, <2>4
    <3>2. x = y => k = j
      BY <2>6
    <3> HIDE DEF x, y
    <3> QED BY <1>3, <2>7, <3>1, <3>2, Zenon
  <2>8. Row(s) \in Trees[1] /\ Distinct(Row(s)) /\ Ids(Row(s)) = {s[k] : k \in 1 .. m}
    BY <2>2, <2>3, <2>7, RowGood, Zenon
  <2>9. {s[k] : k \in 1 .. m} = {ids[k] : k \in a .. b}
    <3>1. ASSUME NEW k \in 1 .. m PROVE s[k] \in {ids[j] : j \in a .. b}
      BY <2>3, <2>4, Zenon
    <3>2. ASSUME NEW k \in a .. b PROVE ids[k] \in {s[j] : j \in 1 .. m}
      <4> DEFINE j == k - a + 1
      <4>1. j \in 1 .. m /\ a + j - 1 = k
        BY <2>5
      <4> HIDE DEF j
      <4> QED BY <2>3, <4>1, Zenon
    <3> QED BY <3>1, <3>2
  <2> QED BY <2>10, <2>8, <2>9, Zenon DEF s, a, b
<1>8. \A r, s \in 1 .. rows : r # s => Disjoint(A(r), A(s))
  <2>1. ASSUME NEW r \in 1 .. rows, NEW s \in 1 .. rows, r < s PROVE Disjoint(A(r), A(s))
    <3>1. /\ lo[r] \in 1 .. n /\ hi[r] \in 1 .. n /\ lo[s] \in 1 .. n /\ hi[s] \in 1 .. n
          /\ hi[r] < lo[s]
      BY <1>1, <2>1
    <3>2. ASSUME NEW k \in lo[r] .. hi[r], NEW j \in lo[s] .. hi[s] PROVE ids[k] # ids[j]
      <4>1. k \in Int /\ j \in Int /\ lo[r] <= k /\ k <= hi[r] /\ lo[s] <= j /\ j <= hi[s]
        BY <1>2, <3>1
      <4> DEFINE a == lo[r]
                 b == hi[r]
                 c == lo[s]
                 d == hi[s]
      <4>2. /\ a \in Int /\ b \in Int /\ c \in Int /\ d \in Int /\ 1 <= a /\ d <= n /\ b < c /\ n \in Int
            /\ a <= k /\ k <= b /\ c <= j /\ j <= d /\ k \in Int /\ j \in Int /\ b <= n /\ 1 <= c
        BY <1>2, <3>1, <4>1
      <4> HIDE DEF a, b, c, d
      <4>3. k \in 1 .. n
        BY <4>2
      <4>4. j \in 1 .. n
        BY <4>2
      <4>5. k # j
        BY <4>2
      <4> QED BY <1>3, <4>3, <4>4, <4>5
    <3> QED BY <3>2 DEF Disjoint
  <2>2. \A r, s \in 1 .. rows : r < s \/ s < r \/ r = s
    BY <1>1
  <2>3. \A r, s \in 1 .. rows : Disjoint(A(r), A(s)) => Disjoint(A(s), A(r))
    BY DEF Disjoint
  <2> HIDE DEF A
  <2> QED BY <2>1, <2>2, <2>3
<1>9. UNION {A(r) : r \in 1 .. rows} = ToSet(ids)
  <2>1. ASSUME NEW r \in 1 .. rows, NEW x \in A(r) PROVE x \in ToSet(ids)
    <3>1. PICK k \in lo[r] .. hi[r] : x = ids[k]
      OBVIOUS
    <3>2. lo[r] \in 1 .. n /\ hi[r] \in 1 .. n
      BY <1>1
    <3> DEFINE a == lo[r]
               b == hi[r]
    <3>3. a \in 1 .. n /\ b \in 1 .. n /\ k \in a .. b
      BY <3>1, <3>2
    <3> HIDE DEF a, b
    <3>4. k \in 1 .. n
      BY <1>2, <3>3
    <3> QED BY <1>2, <3>1, <3>4 DEF ToSet
  <2>2. ASSUME NEW x \in ToSet(ids) PROVE \E r \in 1 .. rows : x \in A(r)
    <3>1. PICK j \in 1 .. n : x = ids[j]
      BY <1>2 DEF ToSet
    <3>2. PICK r \in 1 .. rows : lo[r] <= j /\ j <= hi[r]
      BY <1>1
    <3>3. j \in lo[r] .. hi[r]
      BY <1>1, <1>2, <3>2
    <3> QED BY <3>1, <3>3
  <2> HIDE DEF A
  <2> QED BY <2>1, <2>2
<1> HIDE DEF A
<1>10. Apart(nodes, rows, 1)
  <2>1. \A k, j \in 1 .. rows : k # j => Disjoint(Ids(nodes[k]), Ids(nodes[j]))
    BY <1>7, <1>8
  <2> QED BY <1>7, <2>1 DEF Apart
<1>11. UNION {Ids(nodes[r]) : r \in 1 .. rows} = ToSet(ids)
  <2>1. {Ids(nodes[r]) : r \in 1 .. rows} = {A(r) : r \in 1 .. rows}
    BY <1>7
  <2> QED BY <1>9, <2>1
<1> QED BY <1>10, <1>11

LEMMA PutRoot ==
  ASSUME NEW l \in Layouts, NEW root
  PROVE  [l EXCEPT !.root = root] =
           [root |-> root, focused |-> l.focused, zoomed |-> l.zoomed, next_id |-> l.next_id]
BY DEF Layouts

(* Rebalancing keeps the panes.                                            *)
LEMMA RebalanceGood ==
  ASSUME NEW l, GoodLayout(l)
  PROVE  LET r == rebalance_squarest(l) IN GoodLayout(r) /\ Ids(r.root) = Ids(l.root)
<1> DEFINE ids == leaves(l)
           n == Len(ids)
           c == Min({x \in 1 .. n : x * x >= n})
           count == (n + c - 1) \div c
           rows == [r \in 1 .. count |-> Row(SubSeq(ids, (r - 1) * c + 1, Min({n, r * c})))]
           root == IF Len(rows) = 1 THEN rows[1] ELSE Split("Vertical", rows)
           r == rebalance_squarest(l)
<1>1. r = IF n = 1 THEN l ELSE [l EXCEPT !.root = root]
  BY DEF rebalance_squarest
<1>2. /\ l \in Layouts /\ Sound(l.root) /\ n = Cardinality(Ids(l.root)) /\ ids \in Seq(Nat)
      /\ ToSet(ids) = Ids(l.root) /\ IsInjective(ids) /\ n \in Nat /\ n >= 1
      /\ n <= MAX_PANES
  BY GoodIs
<1>3. /\ l.focused \in Ids(l.root) /\ l.zoomed \in Ids(l.root) \cup {None} /\ l.next_id \in Nat
      /\ \A id \in Ids(l.root) : id < l.next_id
  BY GoodIs
<1>4. CASE n = 1
  <2>1. r = l
    BY <1>1, <1>4
  <2> HIDE DEF r
  <2> QED BY <2>1 DEF r
<1>5. CASE n # 1
  <2>1. c \in 1 .. n
    BY <1>2, Side
  <2> DEFINE lo == [x \in 1 .. count |-> (x - 1) * c + 1]
             hi == [x \in 1 .. count |-> Min({n, x * c})]
  <2>2. \A x \in 1 .. count : rows[x] = Row(SubSeq(ids, lo[x], hi[x]))
    <3> HIDE DEF c, n, count
    <3> QED OBVIOUS
  <2>14. DOMAIN rows = 1 .. count
    OBVIOUS
  <2>15. Slices(lo, hi, count, n)
    <3> HIDE DEF c, n
    <3> QED BY <1>2, <2>1, RowSlices, Zenon DEF count
  <2>16. rows = [x \in 1 .. count |-> rows[x]]
    OBVIOUS
  <2> HIDE DEF c, ids, lo, hi, rows, count
  <2>17. Sliced(ids, lo, hi, count, rows)
    BY <1>2, <2>2, <2>14, <2>15 DEF Sliced
  <2>18. /\ Apart(rows, count, 1) /\ UNION {Ids(rows[x]) : x \in 1 .. count} = ToSet(ids)
    BY <2>17, RowsApart
  <2>19. count \in Nat /\ count >= 1 /\ count <= n
    BY <2>15 DEF Slices
  <2>3. /\ Apart(rows, count, 1) /\ DOMAIN rows = 1 .. count
        /\ count \in Nat /\ count >= 1 /\ count <= n
        /\ UNION {Ids(rows[x]) : x \in 1 .. count} = ToSet(ids)
    BY <2>14, <2>18, <2>19
  <2> HIDE DEF n
  <2>4. Len(rows) = count
    <3>1. rows \in [1 .. count -> Trees[1]]
      BY <2>16, <2>3 DEF Apart
    <3> QED BY <2>3, <3>1, AsSeq
  <2>5. count >= 2 => Bound >= 2
    BY <1>2, <2>3, BoundNat
  <2> DEFINE tree == IF count = 1 THEN rows[1] ELSE Split("Vertical", rows)
  <2>6. "Vertical" \in Axis
    BY DEF Axis
  <2>7. tree \in Tree /\ Distinct(tree) /\ Ids(tree) = UNION {Ids(rows[x]) : x \in 1 .. count}
    BY <2>3, <2>5, <2>6, StackShape
  <2>8. root = tree
    BY <2>4
  <2> HIDE DEF tree, root
  <2>9. Ids(tree) = Ids(l.root) /\ Sound(tree)
    BY <1>2, <2>3, <2>7, Zenon DEF Sound
  <2>10. [l EXCEPT !.root = tree] =
           [root |-> tree, focused |-> l.focused, zoomed |-> l.zoomed, next_id |-> l.next_id]
    BY <1>2, PutRoot
  <2>11. GoodLayout([root |-> tree, focused |-> l.focused, zoomed |-> l.zoomed, next_id |-> l.next_id])
    BY <1>3, <2>9, MakeGood
  <2>12. r = [root |-> tree, focused |-> l.focused, zoomed |-> l.zoomed, next_id |-> l.next_id]
    BY <1>1, <1>5, <2>8, <2>10
  <2> HIDE DEF r
  <2>13. GoodLayout(r) /\ r.root = tree
    BY <2>11, <2>12
  <2> QED BY <2>9, <2>13 DEF r
<1> QED BY <1>4, <1>5

(* Focus and zoom.                                                         *)
LEMMA FocusGood ==
  ASSUME NEW l, GoodLayout(l), NEW id \in Ids(l.root) \cup {None}
  PROVE  GoodLayout(FocusOn(l, id)) /\ Ids(FocusOn(l, id).root) = Ids(l.root)
<1>1. /\ l \in Layouts /\ Sound(l.root)
      /\ l.focused \in Ids(l.root) /\ l.zoomed \in Ids(l.root) \cup {None} /\ l.next_id \in Nat
      /\ \A x \in Ids(l.root) : x < l.next_id
  BY GoodIs
<1>2. CASE id = None
  <2>1. FocusOn(l, id) = l
    BY <1>2 DEF FocusOn
  <2> QED BY <2>1
<1>3. CASE id # None
  <2>1. id \in Ids(l.root)
    BY <1>3
  <2>2. FocusOn(l, id) = [root |-> l.root, focused |-> id, zoomed |-> l.zoomed, next_id |-> l.next_id]
    BY <1>1, <1>3 DEF FocusOn, Layouts
  <2>3. GoodLayout([root |-> l.root, focused |-> id, zoomed |-> l.zoomed, next_id |-> l.next_id])
    BY <1>1, <2>1, MakeGood
  <2> QED BY <2>2, <2>3
<1> QED BY <1>2, <1>3

LEMMA ZoomGood ==
  ASSUME NEW l, GoodLayout(l)
  PROVE  GoodLayout(toggle_zoom(l)) /\ Ids(toggle_zoom(l).root) = Ids(l.root)
<1>1. /\ l \in Layouts /\ Sound(l.root)
      /\ l.focused \in Ids(l.root) /\ l.zoomed \in Ids(l.root) \cup {None} /\ l.next_id \in Nat
      /\ \A x \in Ids(l.root) : x < l.next_id
  BY GoodIs
<1> DEFINE z == IF l.zoomed = l.focused THEN None ELSE l.focused
<1>2. z \in Ids(l.root) \cup {None}
  BY <1>1
<1>3. toggle_zoom(l) = [root |-> l.root, focused |-> l.focused, zoomed |-> z, next_id |-> l.next_id]
  BY <1>1 DEF toggle_zoom, Layouts
<1> HIDE DEF z
<1>4. GoodLayout([root |-> l.root, focused |-> l.focused, zoomed |-> z, next_id |-> l.next_id])
  BY <1>1, <1>2, MakeGood
<1> QED BY <1>3, <1>4

-----------------------------------------------------------------------------
(* Where the panes are: rectangles, and that a neighbour is a pane.        *)

(* What the recursive definition of the rectangles computes.               *)
LEMMA CascadeStep ==
  \A node \in Tree :
     cascade_node[node] =
       [rect \in Rects |->
          IF IsLeaf(node) THEN <<[id |-> node.id, rect |-> rect]>>
          ELSE FlattenSeq([i \in DOMAIN node.children |->
                             cascade_node[node.children[i].node][Placed(node, rect)[i]]])]
<1> DEFINE B(f, node) ==
             [rect \in Rects |->
                IF IsLeaf(node) THEN <<[id |-> node.id, rect |-> rect]>>
                ELSE FlattenSeq([i \in DOMAIN node.children |->
                                   f[node.children[i].node][Placed(node, rect)[i]]])]
           Good(f, k) == \A t \in Tree : Rank(t) < k => f[t] = B(f, t)
           Eq(f) == f = [node \in Tree |-> B(f, node)]
           S == {k \in Nat : \E f : Good(f, k)}
<1>1. ASSUME NEW f, NEW h, NEW t \in Tree,
             \A u \in Tree : Rank(u) < Rank(t) => f[u] = h[u]
      PROVE  B(f, t) = B(h, t)
  <2>1. CASE IsLeaf(t)
    BY <2>1
  <2>2. CASE ~IsLeaf(t)
    <3>1. /\ DOMAIN t.children = 1 .. Len(t.children)
          /\ \A i \in 1 .. Len(t.children) :
               t.children[i].node \in Tree /\ Rank(t.children[i].node) < Rank(t)
      BY <2>2, Kids, Zenon DEF IsFork
    <3>2. \A i \in DOMAIN t.children : f[t.children[i].node] = h[t.children[i].node]
      BY <1>1, <3>1
    <3>3. ASSUME NEW rect \in Rects
          PROVE  [i \in DOMAIN t.children |-> f[t.children[i].node][Placed(t, rect)[i]]]
                 = [i \in DOMAIN t.children |-> h[t.children[i].node][Placed(t, rect)[i]]]
      BY <3>2
    <3> QED BY <2>2, <3>3
  <2> QED BY <2>1, <2>2
<1> HIDE DEF B
<1>2. 0 \in S
  <2>1. ASSUME NEW t \in Tree, Rank(t) < 0 PROVE FALSE
    <3>1. Rank(t) \in 0 .. Bound
      BY RankIs
    <3> QED BY <2>1, <3>1
  <2> QED BY <2>1
<1>3. ASSUME NEW k \in Nat, k \in S PROVE k + 1 \in S
  <2>1. PICK f : Good(f, k)
    BY <1>3
  <2> DEFINE h == [t \in Tree |-> IF Rank(t) < k THEN f[t] ELSE B(f, t)]
  <2>2. ASSUME NEW t \in Tree, Rank(t) < k + 1 PROVE h[t] = B(h, t)
    <3>1. ASSUME NEW u \in Tree, Rank(u) < Rank(t) PROVE f[u] = h[u]
      <4>1. Rank(u) \in 0 .. Bound /\ Rank(t) \in 0 .. Bound
        BY RankIs
      <4>2. Rank(u) < k
        BY <2>2, <3>1, <4>1
      <4> QED BY <4>2
    <3>2. h[t] = B(f, t)
      BY <2>1
    <3> HIDE DEF h
    <3>3. B(f, t) = B(h, t)
      BY <1>1, <3>1
    <3> QED BY <3>2, <3>3
  <2> HIDE DEF h
  <2>3. Good(h, k + 1)
    BY <2>2
  <2> QED BY <2>3
<1> HIDE DEF S
<1>4. Bound + 1 \in S
  <2>1. Bound + 1 \in Nat
    BY BoundNat
  <2> QED BY <1>2, <1>3, <2>1, SetInduction
<1>5. PICK f : Good(f, Bound + 1)
  BY <1>4 DEF S
<1> DEFINE e == [t \in Tree |-> f[t]]
<1>6. Eq(e)
  <2>1. ASSUME NEW t \in Tree PROVE f[t] = B(e, t)
    <3>1. Rank(t) \in 0 .. Bound
      BY RankIs
    <3>2. Rank(t) < Bound + 1
      BY <3>1, BoundNat
    <3>3. f[t] = B(f, t)
      BY <1>5, <3>2
    <3>4. \A u \in Tree : e[u] = f[u]
      OBVIOUS
    <3> HIDE DEF e
    <3>5. B(f, t) = B(e, t)
      BY <1>1, <3>4
    <3> QED BY <3>3, <3>5
  <2>2. e = [t \in Tree |-> B(e, t)]
    BY <2>1
  <2> HIDE DEF e
  <2> QED BY <2>2
<1>7. cascade_node = CHOOSE g : Eq(g)
  BY ZenonT(60) DEF cascade_node, B
<1>8. Eq(cascade_node)
  <2> HIDE DEF e, Eq
  <2> QED BY <1>6, <1>7
<1>9. \A node \in Tree : cascade_node[node] = B(cascade_node, node)
  BY <1>8
<1> QED BY <1>9 DEF B

LEMMA Divided ==
  ASSUME NEW x \in Int, NEW c \in Nat \ {0}
  PROVE  x \div c \in Int
OBVIOUS

(* Pixels shared out are integers.                                         *)
LEMMA DistributeTyped ==
  ASSUME NEW flex \in Seq(Nat), Len(flex) >= 1, NEW total \in Int
  PROVE  /\ distribute(total, flex) \in Seq(Int) /\ DOMAIN distribute(total, flex) = DOMAIN flex
         /\ Len(distribute(total, flex)) = Len(flex)
<1> DEFINE n == Len(flex)
           ones == [i \in DOMAIN flex |-> 1]
           weight == IF Total(flex) > 0 THEN flex ELSE ones
           sum == Total(weight)
           rest == [i \in DOMAIN weight |-> (total * weight[i]) % sum]
           parts == [i \in DOMAIN weight |-> (total * weight[i]) \div sum]
           before(i) == {j \in DOMAIN weight : rest[j] > rest[i] \/ (rest[j] = rest[i] /\ j < i)}
           more(i) == IF Cardinality(before(i)) < total - Total(parts) THEN 1 ELSE 0
           all == [i \in DOMAIN weight |-> parts[i] + more(i)]
<1>1. distribute(total, flex) = all
  BY DEF distribute
<1>2. n \in Nat /\ DOMAIN flex = 1 .. n /\ n >= 1 /\ \A i \in 1 .. n : flex[i] \in Nat
  OBVIOUS
<1>3. Total(flex) \in Int
  <2>1. flex \in Seq(Int)
    BY <1>2
  <2>2. \A i \in 0 .. Len(flex) : Sums(flex)[i] \in Int
    BY <2>1, SumsTyped
  <2>3. Len(flex) \in 0 .. Len(flex)
    BY <1>2
  <2> QED BY <2>2, <2>3 DEF Total
<1>4. Total(ones) > 0 /\ Total(ones) \in Int
  <2>1. ones \in Seq(Nat \ {0}) /\ Len(ones) = n
    <3>1. ones \in [1 .. n -> Nat \ {0}]
      BY <1>2
    <3> QED BY <1>2, <3>1, AsSeq
  <2> HIDE DEF ones, n
  <2>2. /\ \A i \in 0 .. Len(ones) : Sums(ones)[i] \in Nat
        /\ \A i \in 0 .. Len(ones) : i <= Sums(ones)[i]
        /\ Total(ones) = Sums(ones)[Len(ones)]
    BY <2>1, SumsGrow
  <2>3. n \in 0 .. n
    BY <1>2
  <2>4. Sums(ones)[n] \in Nat /\ n <= Sums(ones)[n]
    BY <2>1, <2>2, <2>3
  <2> QED BY <1>2, <2>1, <2>2, <2>4
<1>5. sum \in Nat \ {0}
  <2>1. CASE Total(flex) > 0
    BY <1>3, <2>1
  <2>2. CASE ~(Total(flex) > 0)
    <3>1. weight = ones
      BY <2>2
    <3> HIDE DEF weight, ones
    <3> QED BY <1>4, <3>1
  <2> QED BY <2>1, <2>2
<1>6. DOMAIN weight = 1 .. n /\ \A i \in 1 .. n : weight[i] \in Int
  BY <1>2
<1> HIDE DEF weight, sum
<1>7. \A i \in 1 .. n : parts[i] \in Int
  <2> SUFFICES ASSUME NEW i \in 1 .. n PROVE parts[i] \in Int
    OBVIOUS
  <2> DEFINE x == total * weight[i]
  <2>1. x \in Int
    BY <1>6
  <2>2. parts[i] = x \div sum
    BY <1>6
  <2> HIDE DEF x, parts
  <2> QED BY <1>5, <2>1, <2>2, Divided
<1> HIDE DEF parts
<1>8. \A i : more(i) \in Int
  OBVIOUS
<1> HIDE DEF more
<1>9. all \in [1 .. n -> Int]
  BY <1>6, <1>7, <1>8
<1> HIDE DEF all
<1>10. all \in Seq(Int) /\ Len(all) = n /\ DOMAIN all = 1 .. n
  BY <1>2, <1>9, AsSeq, Zenon
<1> QED BY <1>1, <1>2, <1>10

(* The children of a split have rectangles.                                *)
LEMMA RectIn ==
  ASSUME NEW x \in Int, NEW y \in Int, NEW w \in Int, NEW h \in Int
  PROVE  Rect(x, y, w, h) \in Rects
BY DEF Rect, Rects

LEMMA PlacedTyped ==
  ASSUME NEW d, NEW node, IsFork(node, d), NEW rect \in Rects
  PROVE  \A i \in 1 .. Len(node.children) : Placed(node, rect)[i] \in Rects
<1> DEFINE kids == node.children
           n == Len(kids)
           across == node.axis = "Horizontal"
           side == IF across THEN rect.w ELSE rect.h
           room == Max({0, side - GUTTER * (Len(kids) - 1)})
           extent == distribute(room, Flexes(kids))
           from(i) == Sums(extent)[i - 1] + GUTTER * (i - 1)
           place(i) == IF across THEN Rect(rect.x + from(i), rect.y, extent[i], rect.h)
                       ELSE Rect(rect.x, rect.y + from(i), rect.w, extent[i])
<1>1. Placed(node, rect) = [i \in DOMAIN kids |-> place(i)]
  BY DEF Placed
<1>2. /\ n \in Nat /\ n >= 2 /\ DOMAIN kids = 1 .. n
      /\ \A i \in 1 .. n : kids[i].flex \in Nat
  BY DEF IsFork
<1>3. rect.x \in Int /\ rect.y \in Int /\ rect.w \in Int /\ rect.h \in Int
  BY DEF Rects
<1>4. GUTTER \in Int
  BY SplitTreeAssumption
<1> HIDE DEF n
<1>5. room \in Int
  <2> DEFINE y == side - GUTTER * (n - 1)
  <2>1. GUTTER * (n - 1) \in Int /\ side \in Int
    BY <1>2, <1>3, <1>4
  <2>2. y \in Int
    BY <2>1
  <2>3. room = Max({0, y})
    BY DEF n
  <2> HIDE DEF y, room
  <2>4. Max({0, y}) = IF 0 >= y THEN 0 ELSE y
    BY <2>2, MaxTwo
  <2> QED BY <2>2, <2>3, <2>4
<1>6. Flexes(kids) \in Seq(Nat) /\ Len(Flexes(kids)) = n /\ DOMAIN Flexes(kids) = 1 .. n
  <2>1. Flexes(kids) \in [1 .. n -> Nat]
    BY <1>2 DEF Flexes
  <2> HIDE DEF kids
  <2> QED BY <1>2, <2>1, AsSeq
<1> HIDE DEF room
<1>7. extent \in Seq(Int) /\ Len(extent) = n /\ DOMAIN extent = 1 .. n
  <2> DEFINE flex == Flexes(kids)
  <2>1. flex \in Seq(Nat) /\ Len(flex) = n /\ DOMAIN flex = 1 .. n /\ Len(flex) >= 1
    BY <1>2, <1>6
  <2> HIDE DEF flex
  <2>2. /\ distribute(room, flex) \in Seq(Int) /\ DOMAIN distribute(room, flex) = DOMAIN flex
        /\ Len(distribute(room, flex)) = Len(flex)
    BY <1>5, <2>1, DistributeTyped
  <2> QED BY <2>1, <2>2 DEF flex
<1> HIDE DEF extent
<1>8. ASSUME NEW i \in 1 .. n PROVE from(i) \in Int
  <2>1. i - 1 \in 0 .. Len(extent)
    BY <1>2, <1>7
  <2>2. Sums(extent)[i - 1] \in Int
    BY <1>7, <2>1, SumsTyped
  <2>3. GUTTER * (i - 1) \in Int
    BY <1>2, <1>4
  <2> QED BY <2>2, <2>3
<1> HIDE DEF from
<1>9. ASSUME NEW i \in 1 .. n PROVE place(i) \in Rects
  <2>1. extent[i] \in Int
    BY <1>7
  <2>2. rect.x + from(i) \in Int /\ rect.y + from(i) \in Int
    BY <1>3, <1>8
  <2>3. Rect(rect.x + from(i), rect.y, extent[i], rect.h) \in Rects
    BY <1>3, <2>1, <2>2, RectIn
  <2>4. Rect(rect.x, rect.y + from(i), rect.w, extent[i]) \in Rects
    BY <1>3, <2>1, <2>2, RectIn
  <2> QED BY <2>3, <2>4
<1> HIDE DEF place
<1> QED BY <1>1, <1>2, <1>9 DEF n

(* Every pane has its rectangle, in the order of the leaves.               *)
Cells == [id : Nat, rect : Rects]
SameId == {p \in Nat \X Cells : p[2].id = p[1]}
LEMMA CascadeCells ==
  \A node \in Tree : \A rect \in Rects :
    /\ cascade_node[node][rect] \in Seq(Cells)
    /\ Alike(SameId, collect_leaves[node], cascade_node[node][rect])
<1> DEFINE S == {node \in Tree : \A rect \in Rects :
                   /\ cascade_node[node][rect] \in Seq(Cells)
                   /\ Alike(SameId, collect_leaves[node], cascade_node[node][rect])}
<1>1. ASSUME NEW id \in Nat PROVE Leaf(id) \in S
  <2>1. Leaf(id) \in Tree /\ IsLeaf(Leaf(id)) /\ Leaf(id).id = id
    <3>1. Bound \in 0 .. Bound
      BY BoundNat
    <3>2. Leaf(id) \in Trees[Bound] /\ Leaf(id).id = id /\ IsLeaf(Leaf(id))
      BY <3>1, LeafInTrees, LeafIn
    <3> QED BY <3>2, BoundNat DEF Tree
  <2>2. ASSUME NEW rect \in Rects
        PROVE  /\ cascade_node[Leaf(id)][rect] \in Seq(Cells)
               /\ Alike(SameId, collect_leaves[Leaf(id)], cascade_node[Leaf(id)][rect])
    <3> DEFINE c == [id |-> id, rect |-> rect]
    <3>1. cascade_node[Leaf(id)][rect] = <<c>>
      <4> DEFINE node == Leaf(id)
      <4>1. node \in Tree /\ IsLeaf(node) /\ node.id = id
        BY <2>1
      <4> HIDE DEF node
      <4>2. cascade_node[node][rect] = <<[id |-> node.id, rect |-> rect]>>
        BY <4>1, CascadeStep, Zenon
      <4> QED BY <4>1, <4>2 DEF node
    <3>2. collect_leaves[Leaf(id)] = <<id>>
      BY LeafShape, Zenon
    <3>3. c \in Cells /\ c.id = id
      BY DEF Cells
    <3> HIDE DEF c
    <3>4. <<c>> \in Seq(Cells) /\ Alike(SameId, <<id>>, <<c>>)
      BY <3>3 DEF Alike, SameId
    <3> QED BY <3>1, <3>2, <3>4
  <2> QED BY <2>1, <2>2
<1>2. ASSUME NEW node \in Tree, ~IsLeaf(node),
             \A i \in 1 .. Len(node.children) : node.children[i].node \in S
      PROVE  node \in S
  <2>1. PICK d \in 0 .. Bound : IsFork(node, d)
    BY <1>2, Kids
  <2> DEFINE kids == node.children
             n == Len(kids)
             lists == LeafLists(node)
  <2>2. n \in Nat /\ n >= 2 /\ DOMAIN kids = 1 .. n
    BY <2>1 DEF IsFork
  <2>3. \A i \in 1 .. n : kids[i].node \in Tree
    BY <1>2, Kids
  <2>4. collect_leaves[node] = FlattenSeq(lists)
    BY <1>2, LeavesStep, Zenon
  <2>5. lists \in Seq(Seq(Nat)) /\ Len(lists) = n /\ \A i \in 1 .. n : lists[i] = collect_leaves[kids[i].node]
    <3>1. lists = [i \in 1 .. n |-> collect_leaves[kids[i].node]]
      BY <2>2 DEF LeafLists
    <3>2. lists \in [1 .. n -> Seq(Nat)]
      BY <2>3, <3>1, LeavesTyped
    <3> HIDE DEF lists
    <3>3. lists \in Seq(Seq(Nat)) /\ Len(lists) = n
      BY <2>2, <3>2, AsSeq
    <3> QED BY <3>1, <3>3
  <2>6. ASSUME NEW rect \in Rects
        PROVE  /\ cascade_node[node][rect] \in Seq(Cells)
               /\ Alike(SameId, collect_leaves[node], cascade_node[node][rect])
    <3> DEFINE cells == [i \in DOMAIN node.children |->
                           cascade_node[node.children[i].node][Placed(node, rect)[i]]]
    <3>1. cascade_node[node][rect] = FlattenSeq(cells)
      BY <1>2, CascadeStep, Zenon
    <3>2. \A i \in 1 .. n : Placed(node, rect)[i] \in Rects
      BY <2>1, PlacedTyped
    <3>3. \A i \in 1 .. n : /\ cells[i] \in Seq(Cells)
                            /\ Alike(SameId, lists[i], cells[i])
      BY <1>2, <2>2, <2>5, <3>2, Zenon
    <3>4. cells \in Seq(Seq(Cells)) /\ Len(cells) = n
      <4>1. cells = [i \in 1 .. n |-> cells[i]]
        BY <2>2
      <4> HIDE DEF cells
      <4>2. cells \in [1 .. n -> Seq(Cells)]
        BY <3>3, <4>1
      <4> QED BY <2>2, <4>2, AsSeq, Zenon
    <3> HIDE DEF cells, lists, n
    <3>5. lists # <<>> /\ cells # <<>>
      BY <2>2, <2>5, <3>4
    <3>6. FlattenSeq(cells) \in Seq(Cells)
      BY <3>4, <3>5, FlattenParts
    <3>7. Alike(SameId, FlattenSeq(lists), FlattenSeq(cells))
      <4>1. Len(lists) = Len(cells) /\ \A i \in 1 .. Len(lists) : Alike(SameId, lists[i], cells[i])
        BY <2>5, <3>3, <3>4
      <4> QED BY <2>5, <3>4, <3>5, <4>1, FlattenAlike, Zenon
    <3> QED BY <2>4, <3>1, <3>6, <3>7
  <2> QED BY <2>6
<1>3. \A node \in Tree : node \in S
  <2> HIDE DEF S
  <2> QED BY <1>1, <1>2, TreeInduction
<1> QED BY <1>3

(* A least element by two keys and its own value.                          *)
LEMMA LeastByKeys ==
  ASSUME NEW F, F \subseteq Nat, F # {}, NEW g, NEW c,
         \A i \in F : g[i] \in Nat /\ c[i] \in Nat
  PROVE  \E i \in F : \A j \in F :
           \/ g[i] < g[j]
           \/ g[i] = g[j] /\ c[i] < c[j]
           \/ g[i] = g[j] /\ c[i] = c[j] /\ i <= j
<1>1. PICK a \in {g[i] : i \in F} : \A k \in {g[i] : i \in F} : a <= k
  <2>1. {g[i] : i \in F} \subseteq Nat /\ {g[i] : i \in F} # {}
    BY Zenon
  <2> QED BY <2>1, LeastNat, Zenon
<1> DEFINE G == {i \in F : g[i] = a}
<1>2. G # {} /\ G \subseteq F
  BY <1>1
<1>3. \A i \in F : i \notin G => a < g[i]
  <2>1. a \in Nat /\ \A i \in F : a <= g[i]
    BY <1>1
  <2> QED BY <2>1
<1>4. \A i \in G : g[i] = a
  OBVIOUS
<1> HIDE DEF G
<1>5. PICK b \in {c[i] : i \in G} : \A k \in {c[i] : i \in G} : b <= k
  <2>1. {c[i] : i \in G} \subseteq Nat /\ {c[i] : i \in G} # {}
    BY <1>2, Zenon
  <2> QED BY <2>1, LeastNat, Zenon
<1> DEFINE H == {i \in G : c[i] = b}
<1>6. H # {} /\ H \subseteq G
  BY <1>5
<1>7. \A i \in G : i \notin H => b < c[i]
  <2>1. b \in Nat /\ \A i \in G : b <= c[i]
    BY <1>2, <1>5
  <2>2. \A i \in G : c[i] \in Nat
    BY <1>2, Zenon
  <2> QED BY <2>1, <2>2
<1>8. \A i \in H : c[i] = b
  OBVIOUS
<1> HIDE DEF H
<1>9. PICK i \in H : \A j \in H : i <= j
  <2>1. H \subseteq Nat
    BY <1>2, <1>6
  <2> QED BY <1>6, <2>1, LeastNat, Zenon
<1>10. i \in F /\ i \in G /\ g[i] = a /\ c[i] = b
  BY <1>2, <1>4, <1>6, <1>8
<1>11. ASSUME NEW j \in F
       PROVE  \/ g[i] < g[j]
              \/ g[i] = g[j] /\ c[i] < c[j]
              \/ g[i] = g[j] /\ c[i] = c[j] /\ i <= j
  <2>1. CASE j \notin G
    BY <1>3, <1>10, <2>1
  <2>2. CASE j \in G /\ j \notin H
    BY <1>4, <1>7, <1>10, <2>2
  <2>3. CASE j \in H
    BY <1>6, <1>4, <1>8, <1>9, <1>10, <2>3
  <2> QED BY <2>1, <2>2, <2>3
<1> QED BY <1>10, <1>11

LEMMA Distances ==
  ASSUME NEW m \in Int, NEW n \in Int
  PROVE  Distance(m, n) \in Nat
BY DEF Distance

LEMMA Halves ==
  ASSUME NEW x \in Int
  PROVE  x \div 2 \in Int
OBVIOUS

LEMMA GapCross ==
  ASSUME NEW src \in Rects, NEW r \in Rects, NEW dir \in Directions
  PROVE  /\ Gap(src, r, dir) \in Int /\ (Beside(src, r, dir) => Gap(src, r, dir) \in Nat)
         /\ Cross(src, r, dir) \in Nat
<1>1. /\ src.x \in Int /\ src.y \in Int /\ src.w \in Int /\ src.h \in Int
      /\ r.x \in Int /\ r.y \in Int /\ r.w \in Int /\ r.h \in Int
  BY DEF Rects
<1>2. Gap(src, r, dir) \in Int
  BY <1>1 DEF Gap, Directions
<1>3. Beside(src, r, dir) => Gap(src, r, dir) \in Nat
  BY <1>2 DEF Beside
<1>4. /\ src.y + src.h \div 2 \in Int /\ r.y + r.h \div 2 \in Int
      /\ src.x + src.w \div 2 \in Int /\ r.x + r.w \div 2 \in Int
  <2>1. src.h \div 2 \in Int /\ r.h \div 2 \in Int /\ src.w \div 2 \in Int /\ r.w \div 2 \in Int
    BY <1>1, Halves
  <2> QED BY <1>1, <2>1
<1>5. /\ Distance(src.y + src.h \div 2, r.y + r.h \div 2) \in Nat
      /\ Distance(src.x + src.w \div 2, r.x + r.w \div 2) \in Nat
  BY <1>4, Distances
<1>6. Cross(src, r, dir) \in Nat
  BY <1>5, Zenon DEF Cross
<1> QED BY <1>2, <1>3, <1>6

(* The nearest pane is one of those there are.                             *)
LEMMA NearestIn ==
  ASSUME NEW cells \in Seq(Cells), NEW from, NEW dir \in Directions
  PROVE  NearestTo(cells, from, dir) \in {cells[i].id : i \in 1 .. Len(cells)} \cup {None}
<1> DEFINE n == Len(cells)
           src == RectOf(cells, from)
           found == {i \in DOMAIN cells : cells[i].id # from /\ Beside(src, cells[i].rect, dir)}
           gap(i) == Gap(src, cells[i].rect, dir)
           cross(i) == Cross(src, cells[i].rect, dir)
           after(i) == {j \in found :
                          \/ gap(i) < gap(j)
                          \/ gap(i) = gap(j) /\ cross(i) < cross(j)
                          \/ gap(i) = gap(j) /\ cross(i) = cross(j) /\ i <= j}
           chosen == CHOOSE i \in found : found = after(i)
<1>1. DOMAIN cells = 1 .. n /\ n \in Nat /\ \A i \in 1 .. n : cells[i] \in Cells
  OBVIOUS
<1>2. \A i \in 1 .. n : cells[i].rect \in Rects /\ cells[i].id \in Nat
  BY <1>1 DEF Cells
<1>3. Nearest(cells, from, dir) = IF found = {} THEN None ELSE cells[chosen].id
  BY Zenon DEF Nearest
<1>4. CASE \E i \in DOMAIN cells : cells[i].id = from
  <2>1. src \in Rects
    <3> DEFINE at == CHOOSE i \in DOMAIN cells : cells[i].id = from
    <3>1. at \in DOMAIN cells
      BY <1>4
    <3>2. src = cells[at].rect
      BY DEF RectOf
    <3> HIDE DEF at, src
    <3> QED BY <1>1, <1>2, <3>1, <3>2
  <2> HIDE DEF src
  <2>2. found \subseteq 1 .. n /\ \A i \in found : Beside(src, cells[i].rect, dir)
    BY <1>1
  <2>3. CASE found # {}
    <3> DEFINE g == [i \in found |-> gap(i)]
               c == [i \in found |-> cross(i)]
    <3>1. \A i \in found : gap(i) \in Nat /\ cross(i) \in Nat
      <4> SUFFICES ASSUME NEW i \in found PROVE gap(i) \in Nat /\ cross(i) \in Nat
        OBVIOUS
      <4> DEFINE r == cells[i].rect
      <4>1. r \in Rects /\ Beside(src, r, dir)
        BY <1>2, <2>2
      <4> HIDE DEF r
      <4>2. Gap(src, r, dir) \in Nat /\ Cross(src, r, dir) \in Nat
        BY <2>1, <4>1, GapCross
      <4> QED BY <4>2 DEF r
    <3> HIDE DEF gap, cross
    <3>2. \A i \in found : g[i] = gap(i) /\ c[i] = cross(i)
      OBVIOUS
    <3>3. found \subseteq Nat
      BY <1>1, <2>2
    <3> HIDE DEF g, c, found
    <3>9. \A i \in found : g[i] \in Nat /\ c[i] \in Nat
      BY <3>1, <3>2
    <3>4. \E i \in found : \A j \in found :
            \/ g[i] < g[j]
            \/ g[i] = g[j] /\ c[i] < c[j]
            \/ g[i] = g[j] /\ c[i] = c[j] /\ i <= j
      BY <2>3, <3>3, <3>9, LeastByKeys, ZenonT(30)
    <3>5. \E i \in found : found = after(i)
      <4>1. PICK i \in found : \A j \in found :
              \/ g[i] < g[j]
              \/ g[i] = g[j] /\ c[i] < c[j]
              \/ g[i] = g[j] /\ c[i] = c[j] /\ i <= j
        BY <3>4
      <4>2. \A j \in found :
              \/ gap(i) < gap(j)
              \/ gap(i) = gap(j) /\ cross(i) < cross(j)
              \/ gap(i) = gap(j) /\ cross(i) = cross(j) /\ i <= j
        BY <3>2, <4>1
      <4>3. found = after(i)
        BY <4>2
      <4> QED BY <4>3
    <3>6. chosen \in found
      <4> HIDE DEF after
      <4> QED BY <3>5
    <3> HIDE DEF chosen
    <3>7. NearestTo(cells, from, dir) = cells[chosen].id
      BY <1>3, <1>4, <2>3 DEF NearestTo
    <3>8. chosen \in 1 .. Len(cells)
      BY <2>2, <3>6
    <3> QED BY <3>7, <3>8
  <2>4. CASE found = {}
    <3>1. NearestTo(cells, from, dir) = None
      BY <1>3, <1>4, <2>4 DEF NearestTo
    <3> QED BY <3>1
  <2> QED BY <2>3, <2>4
<1>5. CASE ~(\E i \in DOMAIN cells : cells[i].id = from)
  <2>1. NearestTo(cells, from, dir) = None
    BY <1>5 DEF NearestTo
  <2> QED BY <2>1
<1> QED BY <1>4, <1>5

(* What is shown of a layout are panes of it.                              *)
LEMMA ShownIds ==
  ASSUME NEW l, GoodLayout(l), NEW window \in Rects
  PROVE  /\ cascade(l, window) \in Seq(Cells)
         /\ \A i \in 1 .. Len(cascade(l, window)) : cascade(l, window)[i].id \in Ids(l.root)
<1>1. ToSet(leaves(l)) = Ids(l.root) /\ Ids(l.root) \subseteq Nat /\ l.root \in Tree
  BY GoodIs
<1>2. CASE l.zoomed \in ToSet(leaves(l))
  <2> DEFINE c == [id |-> l.zoomed, rect |-> window]
  <2>1. cascade(l, window) = <<c>>
    BY <1>2 DEF cascade
  <2>2. c \in Cells /\ c.id \in Ids(l.root)
    BY <1>1, <1>2 DEF Cells
  <2> HIDE DEF c
  <2>3. <<c>> \in Seq(Cells) /\ Len(<<c>>) = 1 /\ <<c>>[1] = c
    BY <2>2
  <2> QED BY <2>1, <2>2, <2>3
<1>3. CASE l.zoomed \notin ToSet(leaves(l))
  <2> DEFINE s == collect_leaves[l.root]
             c == cascade_node[l.root][window]
  <2>1. cascade(l, window) = c
    BY <1>3 DEF cascade
  <2>2. c \in Seq(Cells) /\ Alike(SameId, s, c)
    BY <1>1, CascadeCells
  <2>3. s \in Seq(Nat) /\ Ids(l.root) = ToSet(s)
    BY <1>1, LeavesTyped DEF Ids
  <2> HIDE DEF s, c
  <2>4. ASSUME NEW i \in 1 .. Len(c) PROVE c[i].id \in Ids(l.root)
    <3>1. i \in 1 .. Len(s) /\ <<s[i], c[i]>> \in SameId
      BY <2>2 DEF Alike
    <3>2. c[i].id = s[i]
      BY <3>1 DEF SameId
    <3>3. s[i] \in ToSet(s)
      BY <2>3, <3>1 DEF ToSet
    <3> QED BY <2>3, <3>2, <3>3
  <2> QED BY <2>1, <2>2, <2>4
<1> QED BY <1>2, <1>3

LEMMA NeighborIn ==
  ASSUME NEW l, GoodLayout(l), NEW window \in Rects, NEW from, NEW dir \in Directions
  PROVE  neighbor(l, from, dir, window) \in Ids(l.root) \cup {None}
<1> DEFINE c == cascade(l, window)
<1>1. c \in Seq(Cells) /\ \A i \in 1 .. Len(c) : c[i].id \in Ids(l.root)
  BY ShownIds
<1>2. neighbor(l, from, dir, window) = NearestTo(c, from, dir)
  BY DEF neighbor
<1> HIDE DEF c
<1>3. NearestTo(c, from, dir) \in {c[i].id : i \in 1 .. Len(c)} \cup {None}
  BY <1>1, NearestIn
<1> QED BY <1>1, <1>2, <1>3

(* Focus and exchange by direction.                                        *)
LEMMA ByDirection ==
  ASSUME NEW l, GoodLayout(l), NEW window \in Rects, NEW dir \in Directions
  PROVE  /\ GoodLayout(focus_dir(l, dir, window)) /\ Ids(focus_dir(l, dir, window).root) = Ids(l.root)
         /\ GoodLayout(swap_focused(l, dir, window)) /\ Ids(swap_focused(l, dir, window).root) = Ids(l.root)
<1> DEFINE to == neighbor(l, l.focused, dir, window)
<1>1. to \in Ids(l.root) \cup {None}
  BY NeighborIn
<1>2. focus_dir(l, dir, window) = FocusOn(l, to) /\ swap_focused(l, dir, window) = SwapWith(l, to)
  BY DEF focus_dir, swap_focused
<1> HIDE DEF to
<1>3. GoodLayout(FocusOn(l, to)) /\ Ids(FocusOn(l, to).root) = Ids(l.root)
  BY <1>1, FocusGood
<1>4. GoodLayout(SwapWith(l, to)) /\ Ids(SwapWith(l, to).root) = Ids(l.root)
  BY <1>1, SwapGood
<1> QED BY <1>2, <1>3, <1>4

-----------------------------------------------------------------------------
(* Shells, cells and window tabs.                                          *)

(* Shells enough for the places are named one to each.                     *)
LEMMA SpawnedIs ==
  ASSUME NEW places, NEW from, IsFiniteSet(places), IsFiniteSet(from),
         Cardinality(places) <= Cardinality(from)
  PROVE  Spawned(places, from) \in [places -> from] /\ IsInjective(Spawned(places, from))
<1> DEFINE m == Cardinality(places)
           n == Cardinality(from)
<1>1. /\ m \in Nat /\ n \in Nat /\ m <= n
      /\ ExistsBijection(1 .. m, places) /\ ExistsBijection(1 .. n, from)
  BY FS_CardinalityType
<1> HIDE DEF m, n
<1>2. ExistsBijection(places, 1 .. m)
  BY <1>1, Fun_ExistsBijSymmetric
<1>3. ExistsInjection(places, 1 .. m) /\ ExistsInjection(1 .. n, from)
  BY <1>1, <1>2 DEF ExistsBijection, ExistsInjection, Bijection
<1>4. ExistsInjection(1 .. m, 1 .. n)
  BY <1>1, Fun_NatInjLeq
<1>5. ExistsInjection(places, 1 .. n)
  BY <1>3, <1>4, Fun_ExistsInjTransitive
<1>6. ExistsInjection(places, from)
  BY <1>3, <1>5, Fun_ExistsInjTransitive
<1>7. \E f \in [places -> from] : IsInjective(f)
  BY <1>6 DEF ExistsInjection, Injection
<1> QED BY <1>7 DEF Spawned

LEMMA OneSpawned ==
  ASSUME NEW from, IsFiniteSet(from), from # {}
  PROVE  Spawned({1}, from)[1] \in from
<1> DEFINE places == {1}
<1>1. IsFiniteSet(places) /\ Cardinality(places) = 1
  BY FS_Singleton, Zenon
<1>2. Cardinality(from) \in Nat /\ Cardinality(from) # 0
  <2>1. Cardinality(from) \in Nat
    BY FS_CardinalityType
  <2>2. Cardinality(from) = 0 <=> from = {}
    BY FS_EmptySet
  <2> QED BY <2>1, <2>2
<1>3. Cardinality(places) <= Cardinality(from)
  BY <1>1, <1>2
<1>4. 1 \in places
  OBVIOUS
<1> HIDE DEF places
<1>5. Spawned(places, from) \in [places -> from]
  BY <1>1, <1>3, SpawnedIs
<1>6. Spawned(places, from)[1] \in from
  BY <1>4, <1>5
<1> QED BY <1>6 DEF places

(* What is left of a sequence when some of it goes: the rest in order.     *)
RestOf(r, s, gone, m) ==
  /\ r \in Seq({s[i] : i \in 1 .. Len(s)}) /\ Len(r) \in Nat
  /\ m \in [1 .. Len(r) -> 1 .. Len(s)]
  /\ \A k, j \in 1 .. Len(r) : m[k] = m[j] => k = j
  /\ \A k \in 1 .. Len(r) : r[k] = s[m[k]] /\ s[m[k]] \notin gone
  /\ \A i \in 1 .. Len(s) : s[i] \notin gone => \E k \in 1 .. Len(r) : m[k] = i
LEMMA DroppingIs ==
  ASSUME NEW s, NEW gone, Len(s) \in Nat
  PROVE  \E m : RestOf(Dropping(s, gone), s, gone, m)
<1>0. PICK f : /\ f[0] = <<>>
               /\ \A i \in 1 .. Len(s) : f[i] = (IF s[i] \in gone THEN f[i - 1] ELSE Append(f[i - 1], s[i]))
               /\ Dropping(s, gone) = f[Len(s)]
  BY DroppingSteps
<1> DEFINE n == Len(s)
           X == {s[i] : i \in 1 .. n}
           Good(r, m, i) ==
             /\ r \in Seq(X) /\ Len(r) \in Nat
             /\ m \in [1 .. Len(r) -> 1 .. i]
             /\ \A k, j \in 1 .. Len(r) : m[k] = m[j] => k = j
             /\ \A k \in 1 .. Len(r) : r[k] = s[m[k]] /\ s[m[k]] \notin gone
             /\ \A j \in 1 .. i : s[j] \notin gone => \E k \in 1 .. Len(r) : m[k] = j
           S == {i \in Nat : i <= n => \E m : Good(f[i], m, i)}
<1>1. 0 \in S
  <2> DEFINE m == [k \in {} |-> 0]
             r == f[0]
  <2>1. r = <<>>
    BY <1>0
  <2>2. Len(r) = 0 /\ r \in Seq(X) /\ 1 .. 0 = {}
    BY <2>1
  <2> HIDE DEF r, X
  <2>3. m \in [1 .. Len(r) -> 1 .. 0]
    BY <2>2
  <2> HIDE DEF m
  <2>4. Good(r, m, 0)
    BY <2>2, <2>3
  <2> QED BY <2>4 DEF r
<1>2. ASSUME NEW i \in Nat, i \in S PROVE i + 1 \in S
  <2> SUFFICES ASSUME i + 1 <= n PROVE \E m : Good(f[i + 1], m, i + 1)
    <3> HIDE DEF Good, n
    <3> QED OBVIOUS
  <2> DEFINE r == f[i]
             w == i + 1
             x == s[w]
  <2>1. i <= n
    BY <1>0
  <2>2. PICK m : Good(r, m, i)
    BY <1>2, <2>1, Zenon
  <2>3. w \in 1 .. n /\ w - 1 = i /\ w \in Nat /\ w = i + 1
    OBVIOUS
  <2>4. f[w] = IF x \in gone THEN r ELSE Append(r, x)
    BY <1>0, <2>3
  <2>5. x \in X
    BY <2>3
  <2> HIDE DEF r, w, X
  <2>6. CASE x \in gone
    <3>1. m \in [1 .. Len(r) -> 1 .. w]
      BY <2>2, <2>3
    <3>2. \A j \in 1 .. w : j \in 1 .. i \/ j = w
      BY <2>3
    <3>3. \A j \in 1 .. w : s[j] \notin gone => \E k \in 1 .. Len(r) : m[k] = j
      BY <2>2, <2>6, <3>2
    <3>4. Good(r, m, w)
      BY <2>2, <3>1, <3>3
    <3> QED BY <2>4, <2>6, <3>4 DEF w
  <2>7. CASE x \notin gone
    <3> DEFINE q == Append(r, x)
               l == Len(r)
               g == [k \in 1 .. l + 1 |-> IF k = l + 1 THEN w ELSE m[k]]
    <3>1. /\ r \in Seq(X) /\ l \in Nat /\ m \in [1 .. l -> 1 .. i]
          /\ \A k, j \in 1 .. l : m[k] = m[j] => k = j
          /\ \A k \in 1 .. l : r[k] = s[m[k]] /\ s[m[k]] \notin gone
          /\ \A j \in 1 .. i : s[j] \notin gone => \E k \in 1 .. l : m[k] = j
      BY <2>2
    <3>2. q \in Seq(X) /\ Len(q) = l + 1 /\ q[l + 1] = x /\ \A k \in 1 .. l : q[k] = r[k]
      BY <2>5, <3>1
    <3>3. g[l + 1] = w /\ \A k \in 1 .. l : g[k] = m[k] /\ k # l + 1
      BY <3>1
    <3>4. g \in [1 .. l + 1 -> 1 .. w]
      <4>1. ASSUME NEW k \in 1 .. l + 1 PROVE (IF k = l + 1 THEN w ELSE m[k]) \in 1 .. w
        <5>1. CASE k = l + 1
          BY <2>3, <5>1
        <5>2. CASE k # l + 1
          <6>1. k \in 1 .. l
            BY <3>1, <5>2
          <6>2. m[k] \in 1 .. i
            BY <3>1, <6>1
          <6> QED BY <2>3, <5>2, <6>2
        <5> QED BY <5>1, <5>2
      <4> QED BY <4>1
    <3> HIDE DEF q, g, l
    <3>5. \A k \in 1 .. l + 1 : k \in 1 .. l \/ k = l + 1
      BY <3>1
    <3>6. \A k \in 1 .. l : m[k] # w
      <4>1. \A k \in 1 .. l : m[k] \in 1 .. i
        BY <3>1
      <4> QED BY <2>3, <4>1
    <3>7. \A k, j \in 1 .. l + 1 : g[k] = g[j] => k = j
      BY <3>1, <3>3, <3>5, <3>6, Zenon
    <3>8. \A k \in 1 .. l + 1 : q[k] = s[g[k]] /\ s[g[k]] \notin gone
      BY <2>7, <3>1, <3>2, <3>3, <3>5
    <3>9. \A j \in 1 .. w : s[j] \notin gone => \E k \in 1 .. l + 1 : g[k] = j
      <4> SUFFICES ASSUME NEW j \in 1 .. w, s[j] \notin gone PROVE \E k \in 1 .. l + 1 : g[k] = j
        OBVIOUS
      <4>1. CASE j = w
        <5>1. l + 1 \in 1 .. l + 1
          BY <3>1
        <5> QED BY <3>3, <4>1, <5>1
      <4>2. CASE j # w
        <5>1. j \in 1 .. i
          BY <2>3, <4>2
        <5>2. PICK k \in 1 .. l : m[k] = j
          BY <3>1, <5>1
        <5>3. k \in 1 .. l + 1 /\ g[k] = j
          BY <3>1, <3>3, <5>2
        <5> QED BY <5>3
      <4> QED BY <4>1, <4>2
    <3>10. l + 1 \in Nat
      BY <3>1
    <3>11. Good(q, g, w)
      BY <3>2, <3>4, <3>7, <3>8, <3>9, <3>10
    <3> QED BY <2>4, <2>7, <3>11 DEF w, q
  <2> QED BY <2>6, <2>7, Zenon
<1> HIDE DEF S
<1>3. n \in S
  BY <1>1, <1>2, SetInduction
<1>4. \E m : Good(f[n], m, n)
  <2>1. n \in Nat /\ n <= n
    OBVIOUS
  <2> HIDE DEF Good, n
  <2> QED BY <1>3, <2>1 DEF S
<1>5. PICK m : Good(f[n], m, n)
  BY <1>4, Zenon
<1>6. RestOf(Dropping(s, gone), s, gone, m)
  BY <1>0, <1>5 DEF RestOf
<1> QED BY <1>6

(* Cells and window tabs that hold together.                               *)
CellRecs == [sessions : Seq(Shells), active : Nat]
CellMaps == UNION {[D -> CellRecs] : D \in SUBSET Nat}
TabRecs == [layout : Layouts, cells : CellMaps]
GoodCell(c) ==
  /\ c \in CellRecs /\ c.sessions # <<>> /\ IsInjective(c.sessions)
  /\ c.active \in 1 .. Len(c.sessions)
CellsApart(cells) ==
  \A a, b \in DOMAIN cells :
    a # b => Disjoint(ToSet(cells[a].sessions), ToSet(cells[b].sessions))
GoodTab(t) ==
  /\ t \in TabRecs /\ GoodLayout(t.layout) /\ DOMAIN t.cells = Ids(t.layout.root)
  /\ (\A id \in DOMAIN t.cells : GoodCell(t.cells[id])) /\ CellsApart(t.cells)
GoodTabs(ts) ==
  /\ ts \in Seq(TabRecs) /\ \A i \in 1 .. Len(ts) : GoodTab(ts[i])
  /\ \A i, j \in 1 .. Len(ts) : i # j => Disjoint(ShellsOf(ts[i]), ShellsOf(ts[j]))
GoodCells(cells) ==
  /\ cells = [id \in DOMAIN cells |-> cells[id]]
  /\ (\A id \in DOMAIN cells : GoodCell(cells[id])) /\ CellsApart(cells)
ShellsAt(cells) == UNION {ToSet(cells[id].sessions) : id \in DOMAIN cells}

LEMMA SingleGood ==
  ASSUME NEW shell \in Shells
  PROVE  /\ GoodCell(Single(shell)) /\ ToSet(Single(shell).sessions) = {shell}
         /\ Single(shell).sessions = <<shell>> /\ Single(shell).active = 1
<1> DEFINE s == <<shell>>
<1>1. /\ s \in Seq(Shells) /\ Len(s) = 1 /\ ToSet(s) = {shell} /\ IsInjective(s) /\ s # <<>>
  BY OneSeq
<1>2. Single(shell) = [sessions |-> s, active |-> 1]
  BY DEF Single
<1> HIDE DEF s
<1>3. 1 \in 1 .. Len(s) /\ 1 \in Nat
  BY <1>1
<1>4. GoodCell([sessions |-> s, active |-> 1])
  BY <1>1, <1>3 DEF GoodCell, CellRecs
<1> QED BY <1>1, <1>2, <1>4 DEF s

LEMMA TabIs ==
  ASSUME NEW t, GoodTab(t)
  PROVE  /\ t = [layout |-> t.layout, cells |-> t.cells] /\ t \in TabRecs
         /\ GoodLayout(t.layout) /\ GoodCells(t.cells) /\ DOMAIN t.cells = Ids(t.layout.root)
         /\ DOMAIN t.cells \subseteq Nat /\ ShellsOf(t) = ShellsAt(t.cells)
         /\ \A id \in DOMAIN t.cells : GoodCell(t.cells[id])
<1>1. t \in TabRecs /\ GoodLayout(t.layout) /\ DOMAIN t.cells = Ids(t.layout.root)
  BY DEF GoodTab
<1>2. t = [layout |-> t.layout, cells |-> t.cells] /\ t.cells \in CellMaps
  BY <1>1 DEF TabRecs
<1>3. PICK D \in SUBSET Nat : t.cells \in [D -> CellRecs]
  BY <1>2, Zenon DEF CellMaps
<1>4. t.cells = [id \in DOMAIN t.cells |-> t.cells[id]] /\ DOMAIN t.cells = D
  BY <1>3
<1>5. GoodCells(t.cells)
  BY <1>4 DEF GoodCells, GoodTab
<1>6. ShellsOf(t) = ShellsAt(t.cells)
  BY DEF ShellsOf, ShellsAt
<1> QED BY <1>1, <1>2, <1>4, <1>5, <1>6 DEF GoodTab

LEMMA MakeTab ==
  ASSUME NEW layout, GoodLayout(layout), NEW cells, GoodCells(cells), DOMAIN cells = Ids(layout.root)
  PROVE  /\ GoodTab([layout |-> layout, cells |-> cells])
         /\ ShellsOf([layout |-> layout, cells |-> cells]) = ShellsAt(cells)
<1> DEFINE t == [layout |-> layout, cells |-> cells]
           D == DOMAIN cells
<1>1. layout \in Layouts /\ Ids(layout.root) \subseteq Nat
  BY GoodIs
<1>2. /\ cells = [id \in D |-> cells[id]] /\ (\A id \in D : GoodCell(cells[id])) /\ CellsApart(cells)
  BY DEF GoodCells
<1>3. \A id \in D : cells[id] \in CellRecs
  BY <1>2 DEF GoodCell
<1>4. cells \in [D -> CellRecs] /\ D \subseteq Nat
  BY <1>1, <1>2, <1>3
<1>5. cells \in CellMaps
  BY <1>4 DEF CellMaps
<1>6. t \in TabRecs /\ t.layout = layout /\ t.cells = cells
  BY <1>1, <1>5 DEF TabRecs
<1> HIDE DEF t
<1>7. GoodTab(t)
  BY <1>2, <1>6 DEF GoodTab
<1>8. ShellsOf(t) = ShellsAt(cells)
  BY <1>6 DEF ShellsOf, ShellsAt
<1> QED BY <1>7, <1>8 DEF t

(* A tab with another layout of the same panes.                            *)
LEMMA Rearranged ==
  ASSUME NEW t, GoodTab(t), NEW l, GoodLayout(l), Ids(l.root) = Ids(t.layout.root)
  PROVE  GoodTab([t EXCEPT !.layout = l]) /\ ShellsOf([t EXCEPT !.layout = l]) = ShellsOf(t)
<1>1. /\ t = [layout |-> t.layout, cells |-> t.cells] /\ GoodCells(t.cells)
      /\ DOMAIN t.cells = Ids(l.root) /\ ShellsOf(t) = ShellsAt(t.cells)
  BY TabIs
<1>2. [t EXCEPT !.layout = l] = [layout |-> l, cells |-> t.cells]
  BY <1>1
<1>3. /\ GoodTab([layout |-> l, cells |-> t.cells])
      /\ ShellsOf([layout |-> l, cells |-> t.cells]) = ShellsAt(t.cells)
  BY <1>1, MakeTab
<1> QED BY <1>1, <1>2, <1>3

(* Cells with one more, one changed, some gone.                            *)
LEMMA AddedCell ==
  ASSUME NEW cells, GoodCells(cells), NEW id, id \notin DOMAIN cells, NEW c, GoodCell(c),
         Disjoint(ToSet(c.sessions), ShellsAt(cells))
  PROVE  LET e == WithCell(cells, id, c)
         IN  GoodCells(e) /\ DOMAIN e = DOMAIN cells \cup {id}
             /\ ShellsAt(e) = ShellsAt(cells) \cup ToSet(c.sessions)
<1> DEFINE D == DOMAIN cells
           e == WithCell(cells, id, c)
<1>4. DOMAIN e = D \cup {id} /\ e = [x \in DOMAIN e |-> e[x]] /\ e[id] = c /\ \A x \in D : e[x] = cells[x]
  BY DEF WithCell
<1> HIDE DEF e
<1>5. GoodCells(e)
  <2>1. \A x \in DOMAIN e : GoodCell(e[x])
    BY <1>4 DEF GoodCells
  <2>2. \A x \in D : ToSet(cells[x].sessions) \subseteq ShellsAt(cells)
    BY DEF ShellsAt
  <2>3. CellsApart(e)
    <3> SUFFICES ASSUME NEW a \in DOMAIN e, NEW b \in DOMAIN e, a # b
                 PROVE  Disjoint(ToSet(e[a].sessions), ToSet(e[b].sessions))
      BY DEF CellsApart
    <3>1. CASE a \in D /\ b \in D
      BY <1>4, <3>1 DEF GoodCells, CellsApart
    <3>2. CASE a = id /\ b \in D
      BY <1>4, <2>2, <3>2 DEF Disjoint
    <3>3. CASE b = id /\ a \in D
      BY <1>4, <2>2, <3>3 DEF Disjoint
    <3> QED BY <1>4, <3>1, <3>2, <3>3
  <2> QED BY <1>4, <2>1, <2>3 DEF GoodCells
<1>6. ShellsAt(e) = ShellsAt(cells) \cup ToSet(c.sessions)
  <2>1. ASSUME NEW x \in ShellsAt(e) PROVE x \in ShellsAt(cells) \cup ToSet(c.sessions)
    BY <1>4 DEF ShellsAt
  <2>2. ASSUME NEW x \in ShellsAt(cells) \cup ToSet(c.sessions) PROVE x \in ShellsAt(e)
    BY <1>4 DEF ShellsAt
  <2> QED BY <2>1, <2>2
<1> QED BY <1>4, <1>5, <1>6 DEF e

LEMMA ChangedCell ==
  ASSUME NEW cells, GoodCells(cells), NEW id \in DOMAIN cells, NEW c, GoodCell(c),
         NEW fresh, Disjoint(fresh, ShellsAt(cells)),
         ToSet(c.sessions) \subseteq ToSet(cells[id].sessions) \cup fresh
  PROVE  LET e == [cells EXCEPT ![id] = c]
         IN  GoodCells(e) /\ DOMAIN e = DOMAIN cells
             /\ ShellsAt(e) = (ShellsAt(cells) \ ToSet(cells[id].sessions)) \cup ToSet(c.sessions)
<1> DEFINE D == DOMAIN cells
           e == [cells EXCEPT ![id] = c]
<1>1. DOMAIN e = D /\ e = [x \in DOMAIN e |-> e[x]] /\ e[id] = c /\ \A x \in D : x # id => e[x] = cells[x]
  BY DEF GoodCells
<1> HIDE DEF e
<1>2. \A x \in D : ToSet(cells[x].sessions) \subseteq ShellsAt(cells)
  BY DEF ShellsAt
<1>3. \A x \in D : x # id => Disjoint(ToSet(cells[x].sessions), ToSet(cells[id].sessions))
  BY DEF GoodCells, CellsApart
<1>4. \A x \in D : x # id => Disjoint(ToSet(cells[x].sessions), ToSet(c.sessions))
  BY <1>2, <1>3 DEF Disjoint
<1>5. GoodCells(e)
  <2>1. \A x \in DOMAIN e : GoodCell(e[x])
    BY <1>1 DEF GoodCells
  <2>2. CellsApart(e)
    <3> SUFFICES ASSUME NEW a \in DOMAIN e, NEW b \in DOMAIN e, a # b
                 PROVE  Disjoint(ToSet(e[a].sessions), ToSet(e[b].sessions))
      BY DEF CellsApart
    <3>1. CASE a # id /\ b # id
      BY <1>1, <3>1 DEF GoodCells, CellsApart
    <3>2. CASE a = id
      BY <1>1, <1>4, <3>2 DEF Disjoint
    <3>3. CASE b = id
      BY <1>1, <1>4, <3>3 DEF Disjoint
    <3> QED BY <3>1, <3>2, <3>3
  <2> QED BY <1>1, <2>1, <2>2 DEF GoodCells
<1>6. ShellsAt(e) = (ShellsAt(cells) \ ToSet(cells[id].sessions)) \cup ToSet(c.sessions)
  <2>1. ASSUME NEW x \in ShellsAt(e)
        PROVE  x \in (ShellsAt(cells) \ ToSet(cells[id].sessions)) \cup ToSet(c.sessions)
    <3>1. PICK k \in D : x \in ToSet(e[k].sessions)
      BY <1>1 DEF ShellsAt
    <3>2. CASE k = id
      BY <1>1, <3>1, <3>2
    <3>3. CASE k # id
      BY <1>1, <1>2, <1>3, <3>1, <3>3 DEF Disjoint
    <3> QED BY <3>2, <3>3
  <2>2. ASSUME NEW x \in ToSet(c.sessions) PROVE x \in ShellsAt(e)
    BY <1>1 DEF ShellsAt
  <2>3. ASSUME NEW x \in ShellsAt(cells), x \notin ToSet(cells[id].sessions) PROVE x \in ShellsAt(e)
    <3>1. PICK k \in D : x \in ToSet(cells[k].sessions)
      BY DEF ShellsAt
    <3>2. k # id
      BY <2>3, <3>1
    <3>3. k \in DOMAIN e /\ x \in ToSet(e[k].sessions)
      BY <1>1, <3>1, <3>2
    <3> QED BY <3>3 DEF ShellsAt
  <2> QED BY <2>1, <2>2, <2>3
<1> QED BY <1>1, <1>5, <1>6, Zenon DEF e

LEMMA RestrictedCells ==
  ASSUME NEW cells, GoodCells(cells), NEW D, D \subseteq DOMAIN cells
  PROVE  LET e == Restrict(cells, D)
         IN  GoodCells(e) /\ DOMAIN e = D
             /\ ShellsAt(e) = UNION {ToSet(cells[id].sessions) : id \in D}
<1> DEFINE e == Restrict(cells, D)
<1>1. DOMAIN e = D /\ e = [x \in DOMAIN e |-> e[x]] /\ \A x \in D : e[x] = cells[x]
  BY DEF Restrict
<1> HIDE DEF e
<1>2. GoodCells(e)
  <2>1. \A x \in DOMAIN e : GoodCell(e[x])
    BY <1>1 DEF GoodCells
  <2>2. CellsApart(e)
    BY <1>1 DEF GoodCells, CellsApart
  <2> QED BY <1>1, <2>1, <2>2 DEF GoodCells
<1>3. ShellsAt(e) = UNION {ToSet(cells[id].sessions) : id \in D}
  <2>1. {ToSet(e[id].sessions) : id \in DOMAIN e} = {ToSet(cells[id].sessions) : id \in D}
    BY <1>1
  <2> QED BY <2>1 DEF ShellsAt
<1> QED BY <1>1, <1>2, <1>3 DEF e

(* What is left of a sequence without repetitions.                         *)
LEMMA RestFacts ==
  ASSUME NEW S, NEW s \in Seq(S), IsInjective(s), NEW gone, NEW r, NEW m, RestOf(r, s, gone, m)
  PROVE  r \in Seq(S) /\ IsInjective(r) /\ ToSet(r) = ToSet(s) \ gone
<1>1. Len(s) \in Nat /\ DOMAIN s = 1 .. Len(s) /\ \A i \in 1 .. Len(s) : s[i] \in S
  OBVIOUS
<1>7. \A i \in 1 .. Len(s) : s[i] \in ToSet(s)
  BY <1>1 DEF ToSet
<1>2. /\ r \in Seq({s[i] : i \in 1 .. Len(s)}) /\ Len(r) \in Nat
      /\ \A k \in 1 .. Len(r) : m[k] \in 1 .. Len(s)
      /\ \A k, j \in 1 .. Len(r) : m[k] = m[j] => k = j
      /\ \A k \in 1 .. Len(r) : r[k] = s[m[k]] /\ s[m[k]] \notin gone
      /\ \A i \in 1 .. Len(s) : s[i] \notin gone => \E k \in 1 .. Len(r) : m[k] = i
  BY Zenon DEF RestOf
<1>3. DOMAIN r = 1 .. Len(r)
  BY <1>2
<1>4. r \in Seq(S)
  <2>1. {s[i] : i \in 1 .. Len(s)} \subseteq S
    BY <1>1
  <2> DEFINE T == {s[i] : i \in 1 .. Len(s)}
  <2>2. r \in Seq(T) /\ T \subseteq S
    BY <1>2, <2>1
  <2> HIDE DEF T
  <2> QED BY <2>2
<1>5. IsInjective(r)
  BY <1>1, <1>2, <1>3 DEF IsInjective
<1>6. ToSet(r) = ToSet(s) \ gone
  <2>1. ASSUME NEW x \in ToSet(r) PROVE x \in ToSet(s) \ gone
    <3>1. PICK k \in 1 .. Len(r) : x = r[k]
      BY <1>3 DEF ToSet
    <3>2. m[k] \in 1 .. Len(s) /\ x = s[m[k]] /\ s[m[k]] \notin gone
      BY <1>2, <3>1
    <3> QED BY <1>7, <3>2
  <2>2. ASSUME NEW x \in ToSet(s) \ gone PROVE x \in ToSet(r)
    <3>1. PICK i \in 1 .. Len(s) : x = s[i]
      BY <1>1 DEF ToSet
    <3>2. PICK k \in 1 .. Len(r) : m[k] = i
      BY <1>2, <3>1
    <3>3. x = r[k]
      BY <1>2, <3>1, <3>2
    <3> QED BY <1>3, <3>3 DEF ToSet
  <2> QED BY <2>1, <2>2
<1> QED BY <1>4, <1>5, <1>6

LEMMA EmptySeqSet ==
  ASSUME NEW S, NEW s \in Seq(S)
  PROVE  s = <<>> <=> ToSet(s) = {}
<1>1. DOMAIN s = 1 .. Len(s) /\ Len(s) \in Nat
  OBVIOUS
<1>2. s # <<>> => 1 \in 1 .. Len(s)
  OBVIOUS
<1>3. s = <<>> => 1 .. Len(s) = {}
  OBVIOUS
<1>4. ToSet(s) = {s[i] : i \in 1 .. Len(s)}
  BY <1>1 DEF ToSet
<1>5. CASE s = <<>>
  <2>1. 1 .. Len(s) = {}
    BY <1>3, <1>5
  <2> QED BY <1>4, <1>5, <2>1
<1>6. CASE s # <<>>
  <2>1. s[1] \in ToSet(s)
    BY <1>2, <1>4, <1>6
  <2> QED BY <1>6, <2>1
<1> QED BY <1>5, <1>6

(* A sequence without one of its places.                                   *)
RemovalOf(r, s, i, m) ==
  /\ m \in [1 .. Len(r) -> 1 .. Len(s)]
  /\ \A k, j \in 1 .. Len(r) : m[k] = m[j] => k = j
  /\ \A k \in 1 .. Len(r) : r[k] = s[m[k]] /\ m[k] # i
  /\ \A k \in 1 .. Len(s) : k # i => \E j \in 1 .. Len(r) : m[j] = k
LEMMA Removal ==
  ASSUME NEW S, NEW s \in Seq(S), NEW i \in 1 .. Len(s)
  PROVE  /\ RemoveAt(s, i) \in Seq(S) /\ Len(RemoveAt(s, i)) = Len(s) - 1
         /\ \E m : RemovalOf(RemoveAt(s, i), s, i, m)
<1> DEFINE r == RemoveAt(s, i)
           n == Len(s)
           m == [k \in 1 .. n - 1 |-> IF k < i THEN k ELSE k + 1]
<1>1. /\ r \in Seq(S) /\ Len(r) = n - 1
      /\ \A k \in 1 .. n - 1 : r[k] = IF k < i THEN s[k] ELSE s[k + 1]
  BY Removed
<1> HIDE DEF r
<1>2. n \in Nat /\ i \in Nat
  OBVIOUS
<1>3. m \in [1 .. n - 1 -> 1 .. n]
  BY <1>2
<1>4. \A k \in 1 .. n - 1 : m[k] = (IF k < i THEN k ELSE k + 1)
  OBVIOUS
<1> HIDE DEF m
<1>5. \A k, j \in 1 .. n - 1 : m[k] = m[j] => k = j
  BY <1>2, <1>4
<1>6. \A k \in 1 .. n - 1 : r[k] = s[m[k]] /\ m[k] # i
  BY <1>1, <1>2, <1>4
<1>7. ASSUME NEW k \in 1 .. n, k # i PROVE \E j \in 1 .. n - 1 : m[j] = k
  <2>1. CASE k < i
    <3>1. k \in 1 .. n - 1
      BY <1>2, <2>1
    <3>2. m[k] = k
      BY <1>4, <2>1, <3>1
    <3> QED BY <3>1, <3>2
  <2>2. CASE k > i
    <3>1. k - 1 \in 1 .. n - 1 /\ ~(k - 1 < i) /\ (k - 1) + 1 = k
      BY <1>2, <2>2
    <3>2. m[k - 1] = k
      BY <1>4, <3>1
    <3> QED BY <3>1, <3>2
  <2> QED BY <1>2, <1>7, <2>1, <2>2
<1>8. n - 1 = Len(r)
  BY <1>1
<1>9. RemovalOf(r, s, i, m)
  BY <1>3, <1>5, <1>6, <1>7, <1>8, Zenon DEF RemovalOf
<1> QED BY <1>1, <1>9 DEF r

LEMMA RemovedSet ==
  ASSUME NEW S, NEW s \in Seq(S), IsInjective(s), NEW i \in 1 .. Len(s)
  PROVE  LET r == RemoveAt(s, i)
         IN  /\ r \in Seq(S) /\ Len(r) = Len(s) - 1 /\ IsInjective(r)
             /\ ToSet(r) = ToSet(s) \ {s[i]}
<1> DEFINE r == RemoveAt(s, i)
<1>1. /\ r \in Seq(S) /\ Len(r) = Len(s) - 1
      /\ \E m : RemovalOf(r, s, i, m)
  BY Removal
<1> HIDE DEF r
<1>2. PICK m : RemovalOf(r, s, i, m)
  BY <1>1
<1>7. /\ \A k \in 1 .. Len(r) : m[k] \in 1 .. Len(s)
      /\ \A k, j \in 1 .. Len(r) : m[k] = m[j] => k = j
      /\ \A k \in 1 .. Len(r) : r[k] = s[m[k]] /\ m[k] # i
      /\ \A k \in 1 .. Len(s) : k # i => \E j \in 1 .. Len(r) : m[j] = k
  BY <1>2, Zenon DEF RemovalOf
<1>8. DOMAIN r = 1 .. Len(r)
  <2> QED BY <1>1
<1>3. /\ DOMAIN r = 1 .. Len(r) /\ DOMAIN s = 1 .. Len(s)
      /\ \A k \in 1 .. Len(r) : m[k] \in 1 .. Len(s)
  BY <1>7, <1>8
<1>6. \A k, j \in 1 .. Len(s) : s[k] = s[j] => k = j
  BY <1>3 DEF IsInjective
<1>4. IsInjective(r)
  <2>1. ASSUME NEW k \in 1 .. Len(r), NEW j \in 1 .. Len(r), r[k] = r[j] PROVE k = j
    <3>1. s[m[k]] = s[m[j]] /\ m[k] \in 1 .. Len(s) /\ m[j] \in 1 .. Len(s)
      BY <1>7, <1>3, <2>1
    <3>2. m[k] = m[j]
      BY <1>6, <3>1, Zenon
    <3> QED BY <1>7, <3>2
  <2> QED BY <1>3, <2>1 DEF IsInjective
<1>5. ToSet(r) = ToSet(s) \ {s[i]}
  <2>1. ASSUME NEW x \in ToSet(r) PROVE x \in ToSet(s) /\ x # s[i]
    <3>1. PICK k \in 1 .. Len(r) : x = r[k]
      BY <1>3 DEF ToSet
    <3>2. x = s[m[k]] /\ m[k] # i /\ m[k] \in DOMAIN s /\ i \in DOMAIN s
      BY <1>7, <1>3, <3>1
    <3> QED BY <3>2 DEF ToSet, IsInjective
  <2>2. ASSUME NEW x \in ToSet(s), x # s[i] PROVE x \in ToSet(r)
    <3>1. PICK k \in 1 .. Len(s) : x = s[k]
      BY <1>3 DEF ToSet
    <3>2. PICK j \in 1 .. Len(r) : m[j] = k
      BY <1>7, <2>2, <3>1
    <3>3. x = r[j]
      BY <1>7, <3>1, <3>2
    <3> QED BY <1>3, <3>3 DEF ToSet
  <2> QED BY <2>1, <2>2
<1> QED BY <1>1, <1>4, <1>5 DEF r

LEMMA Nearby ==
  ASSUME NEW i \in Nat, i >= 1, NEW n \in Nat, n >= 1
  PROVE  Min({i, Max({1, n})}) \in 1 .. n
<1>1. Max({1, n}) = n
  BY MaxTwo
<1>2. Min({i, n}) = IF i <= n THEN i ELSE n
  BY MaxTwo
<1> QED BY <1>1, <1>2

LEMMA MakeCell ==
  ASSUME NEW s \in Seq(Shells), IsInjective(s), s # <<>>, NEW i \in 1 .. Len(s)
  PROVE  GoodCell([sessions |-> s, active |-> i])
<1>1. [sessions |-> s, active |-> i] \in CellRecs
  BY DEF CellRecs
<1> QED BY <1>1 DEF GoodCell

LEMMA CellIs ==
  ASSUME NEW c, GoodCell(c)
  PROVE  /\ c = [sessions |-> c.sessions, active |-> c.active] /\ c.sessions \in Seq(Shells)
         /\ c.sessions # <<>> /\ IsInjective(c.sessions) /\ c.active \in 1 .. Len(c.sessions)
         /\ Len(c.sessions) \in Nat /\ Len(c.sessions) >= 1
         /\ DOMAIN c.sessions = 1 .. Len(c.sessions) /\ c.sessions[c.active] \in ToSet(c.sessions)
         /\ ToSet(c.sessions) \subseteq Shells
<1> DEFINE s == c.sessions
<1>1. /\ c = [sessions |-> s, active |-> c.active] /\ s \in Seq(Shells)
      /\ s # <<>> /\ IsInjective(s) /\ c.active \in 1 .. Len(s)
  BY DEF GoodCell, CellRecs
<1> HIDE DEF s
<1>2. DOMAIN s = 1 .. Len(s) /\ Len(s) \in Nat /\ \A i \in 1 .. Len(s) : s[i] \in Shells
  BY <1>1
<1>3. Len(s) >= 1
  BY <1>1, <1>2
<1>4. s[c.active] \in ToSet(s) /\ ToSet(s) \subseteq Shells
  BY <1>1, <1>2 DEF ToSet
<1> QED BY <1>1, <1>2, <1>3, <1>4 DEF s

(* The seen session of a cell goes.                                        *)
LEMMA ClosedCell ==
  ASSUME NEW c, GoodCell(c), Len(c.sessions) > 1
  PROVE  LET d == CloseAt(c, c.active)
         IN  GoodCell(d) /\ ToSet(d.sessions) = ToSet(c.sessions) \ {c.sessions[c.active]}
<1> DEFINE s == c.sessions
           i == c.active
           r == RemoveAt(s, i)
           at == Min({i, Max({1, Len(r)})})
<1>1. CloseAt(c, c.active) = [sessions |-> r, active |-> at]
  BY DEF CloseAt
<1>2. s \in Seq(Shells) /\ IsInjective(s) /\ i \in 1 .. Len(s) /\ Len(s) > 1
  BY CellIs
<1> HIDE DEF s, i
<1>3. r \in Seq(Shells) /\ Len(r) = Len(s) - 1 /\ IsInjective(r) /\ ToSet(r) = ToSet(s) \ {s[i]}
  BY <1>2, RemovedSet
<1> HIDE DEF r
<1>4. Len(r) \in Nat /\ Len(r) >= 1 /\ i \in Nat /\ i >= 1 /\ r # <<>>
  BY <1>2, <1>3
<1>5. at \in 1 .. Len(r)
  BY <1>4, Nearby, Zenon
<1> HIDE DEF at
<1>6. GoodCell([sessions |-> r, active |-> at])
  BY <1>3, <1>4, <1>5, MakeCell
<1> QED BY <1>1, <1>3, <1>6 DEF s, i

(* The dead shells of a cell go.                                           *)
LEMMA ReapedCellIs ==
  ASSUME NEW c, GoodCell(c)
  PROVE  LET d == ReapedCell(c)
         IN  /\ ToSet(d.sessions) = ToSet(c.sessions) \ dead /\ d.sessions \in Seq(Shells)
             /\ d.sessions # <<>> => GoodCell(d)
<1> DEFINE s == c.sessions
           gone == {i \in DOMAIN s : s[i] \in dead}
           r == Dropping(s, dead)
           top == Max(gone)
           last == Cardinality(1 .. top \ gone) + 1
           at == Min({last, Max({1, Len(r)})})
<1>1. ReapedCell(c) = IF gone = {} THEN c ELSE [sessions |-> r, active |-> at]
  BY DEF ReapedCell
<1>2. s \in Seq(Shells) /\ IsInjective(s) /\ DOMAIN s = 1 .. Len(s) /\ Len(s) \in Nat
  BY CellIs
<1> HIDE DEF s
<1>3. CASE gone = {}
  <2>1. ToSet(s) \cap dead = {}
    BY <1>2, <1>3 DEF ToSet
  <2>2. ReapedCell(c) = c
    BY <1>1, <1>3
  <2> QED BY <1>2, <2>1, <2>2 DEF s
<1>4. CASE gone # {}
  <2>1. PICK m : RestOf(r, s, dead, m)
    BY <1>2, DroppingIs
  <2> HIDE DEF r
  <2>2. r \in Seq(Shells) /\ IsInjective(r) /\ ToSet(r) = ToSet(s) \ dead
    BY <1>2, <2>1, RestFacts
  <2>3. top \in Nat
    <3>1. gone \subseteq Nat /\ \A k \in gone : k <= Len(s)
      BY <1>2
    <3> HIDE DEF gone
    <3>2. \E n \in gone : \A k \in gone : k <= n
      BY <1>2, <1>4, <3>1, GreatestNat, Zenon
    <3>3. top \in gone
      BY <3>2 DEF Max
    <3> QED BY <3>1, <3>3, Zenon
  <2>4. last \in Nat /\ last >= 1
    <3> HIDE DEF top, gone
    <3>1. IsFiniteSet(1 .. top)
      <4> DEFINE a == 1
      <4>1. a \in Int /\ top \in Int
        BY <2>3
      <4> HIDE DEF a
      <4>2. IsFiniteSet(a .. top)
        BY <4>1, FS_Interval
      <4> QED BY <4>2 DEF a
    <3> DEFINE I == 1 .. top
               K == I \ gone
    <3>2. IsFiniteSet(I) /\ K \in SUBSET I
      BY <3>1
    <3> HIDE DEF I
    <3>3. IsFiniteSet(K)
      BY <3>2, FS_Subset
    <3> HIDE DEF K
    <3>4. Cardinality(K) \in Nat
      BY <3>3, FS_CardinalityType
    <3>5. last = Cardinality(K) + 1
      BY DEF K, I
    <3> HIDE DEF last
    <3> QED BY <3>4, <3>5
  <2> HIDE DEF last
  <2>5. ReapedCell(c) = [sessions |-> r, active |-> at]
    BY <1>1, <1>4
  <2>6. r # <<>> => GoodCell([sessions |-> r, active |-> at])
    <3> SUFFICES ASSUME r # <<>> PROVE GoodCell([sessions |-> r, active |-> at])
      OBVIOUS
    <3>1. Len(r) \in Nat /\ Len(r) >= 1
      BY <2>2
    <3>2. at \in 1 .. Len(r)
      BY <2>4, <3>1, Nearby
    <3> HIDE DEF at
    <3> QED BY <2>2, <3>2, MakeCell
  <2> HIDE DEF at
  <2> QED BY <2>2, <2>5, <2>6 DEF s
<1> QED BY <1>3, <1>4

(* A tab of which the dead shells went, and the panes left without one.    *)
LEMMA ReapedTabIs ==
  ASSUME NEW t, GoodTab(t)
  PROVE  LET r == ReapedTab(t)
         IN  (DOMAIN r.cells # {} => GoodTab(r)) /\ ShellsOf(r) = ShellsOf(t) \ dead
<1> DEFINE D == DOMAIN t.cells
           reaped == [id \in DOMAIN t.cells |-> ReapedCell(t.cells[id])]
           emptied == {id \in DOMAIN reaped : reaped[id].sessions = <<>>}
           layout == Without(t.layout, emptied)
           cells == Restrict(reaped, DOMAIN reaped \ emptied)
           r == ReapedTab(t)
<1>1. r = [layout |-> layout, cells |-> cells]
  BY DEF ReapedTab
<1>2. /\ GoodLayout(t.layout) /\ GoodCells(t.cells) /\ D = Ids(t.layout.root)
      /\ ShellsOf(t) = ShellsAt(t.cells) /\ \A id \in D : GoodCell(t.cells[id])
  BY TabIs
<1>3. \A id \in D : /\ ToSet(reaped[id].sessions) = ToSet(t.cells[id].sessions) \ dead
                    /\ reaped[id].sessions \in Seq(Shells)
                    /\ reaped[id].sessions # <<>> => GoodCell(reaped[id])
  <2>1. \A id \in D : reaped[id] = ReapedCell(t.cells[id])
    OBVIOUS
  <2> SUFFICES ASSUME NEW id \in D
               PROVE  /\ ToSet(reaped[id].sessions) = ToSet(t.cells[id].sessions) \ dead
                      /\ reaped[id].sessions \in Seq(Shells)
                      /\ reaped[id].sessions # <<>> => GoodCell(reaped[id])
    BY Zenon
  <2> HIDE DEF reaped
  <2>2. GoodCell(t.cells[id]) /\ reaped[id] = ReapedCell(t.cells[id])
    BY <1>2, <2>1
  <2> QED BY <2>2, ReapedCellIs, Zenon
<1>4. DOMAIN reaped = D
  OBVIOUS
<1> HIDE DEF reaped
<1>5. cells = [id \in D \ emptied |-> reaped[id]] /\ DOMAIN cells = D \ emptied
  BY <1>4 DEF Restrict
<1>6. \A id \in D \ emptied : cells[id] = reaped[id] /\ reaped[id].sessions # <<>>
  BY <1>4, <1>5
<1>7. \A id \in emptied : id \in D /\ reaped[id].sessions = <<>>
  BY <1>4
<1> HIDE DEF emptied, cells
<1>8. GoodCells(cells)
  <2>1. cells = [id \in DOMAIN cells |-> cells[id]]
    BY <1>5, <1>6
  <2>2. \A id \in DOMAIN cells : GoodCell(cells[id])
    BY <1>3, <1>5, <1>6, Zenon
  <2>3. CellsApart(cells)
    <3> SUFFICES ASSUME NEW a \in DOMAIN cells, NEW b \in DOMAIN cells, a # b
                 PROVE  Disjoint(ToSet(cells[a].sessions), ToSet(cells[b].sessions))
      BY DEF CellsApart
    <3>1. a \in D /\ b \in D /\ cells[a] = reaped[a] /\ cells[b] = reaped[b]
      BY <1>5, <1>6
    <3>2. Disjoint(ToSet(t.cells[a].sessions), ToSet(t.cells[b].sessions))
      BY <1>2, <3>1 DEF GoodCells, CellsApart
    <3> QED BY <1>3, <3>1, <3>2, Zenon DEF Disjoint
  <2> QED BY <2>1, <2>2, <2>3 DEF GoodCells
<1>9. ShellsAt(cells) = ShellsAt(t.cells) \ dead
  <2>1. ASSUME NEW x \in ShellsAt(cells) PROVE x \in ShellsAt(t.cells) /\ x \notin dead
    <3>1. PICK id \in D \ emptied : x \in ToSet(cells[id].sessions)
      BY <1>5, Zenon DEF ShellsAt
    <3>2. x \in ToSet(t.cells[id].sessions) \ dead
      BY <1>3, <1>6, <3>1, Zenon
    <3> QED BY <3>2 DEF ShellsAt
  <2>2. ASSUME NEW x \in ShellsAt(t.cells), x \notin dead PROVE x \in ShellsAt(cells)
    <3>1. PICK id \in D : x \in ToSet(t.cells[id].sessions)
      BY DEF ShellsAt
    <3>2. x \in ToSet(reaped[id].sessions)
      BY <1>3, <2>2, <3>1
    <3>3. id \notin emptied
      <4>1. reaped[id].sessions # <<>>
        BY <1>3, <3>2, EmptySeqSet
      <4> QED BY <1>7, <4>1
    <3>4. id \in DOMAIN cells /\ x \in ToSet(cells[id].sessions)
      BY <1>5, <1>6, <3>2, <3>3
    <3> QED BY <3>4 DEF ShellsAt
  <2> QED BY <2>1, <2>2
<1> HIDE DEF layout
<1>10. ShellsOf(r) = ShellsOf(t) \ dead
  <2>1. ShellsOf([layout |-> layout, cells |-> cells]) = ShellsAt(cells)
    BY DEF ShellsOf, ShellsAt
  <2> HIDE DEF r
  <2> QED BY <1>1, <1>2, <1>9, <2>1
<1>11. ASSUME DOMAIN cells # {} PROVE GoodTab([layout |-> layout, cells |-> cells])
  <2>1. PICK kept \in D \ emptied : TRUE
    BY <1>5, <1>11
  <2>2. GoodLayout(layout) /\ Ids(layout.root) = Ids(t.layout.root) \ emptied
    <3>1. kept \in Ids(t.layout.root) /\ kept \notin emptied
      BY <1>2, <2>1
    <3> QED BY <1>2, <3>1, WithoutGood, Zenon DEF layout
  <2>3. DOMAIN cells = Ids(layout.root)
    BY <1>2, <1>5, <2>2
  <2> QED BY <1>8, <2>2, <2>3, MakeTab
<1>12. r.cells = cells
  BY <1>1
<1> HIDE DEF r
<1> QED BY <1>1, <1>10, <1>11, <1>12 DEF r

(* The tabs that have panes.                                               *)
LooseTabs(ts) ==
  /\ Len(ts) \in Nat /\ DOMAIN ts = 1 .. Len(ts)
  /\ \A i \in 1 .. Len(ts) : DOMAIN ts[i].cells # {} => GoodTab(ts[i])
  /\ \A i, j \in 1 .. Len(ts) : i # j => Disjoint(ShellsOf(ts[i]), ShellsOf(ts[j]))
LEMMA WithPanesGood ==
  ASSUME NEW ts, LooseTabs(ts)
  PROVE  GoodTabs(WithPanes(ts)) /\ ShellsIn(WithPanes(ts)) = ShellsIn(ts)
<1> DEFINE bare == {t \in ToSet(ts) : DOMAIN t.cells = {}}
           r == WithPanes(ts)
<1>1. r = Dropping(ts, bare)
  BY DEF WithPanes
<1>2. /\ Len(ts) \in Nat /\ DOMAIN ts = 1 .. Len(ts)
      /\ \A i \in 1 .. Len(ts) : DOMAIN ts[i].cells # {} => GoodTab(ts[i])
      /\ \A i, j \in 1 .. Len(ts) : i # j => Disjoint(ShellsOf(ts[i]), ShellsOf(ts[j]))
  BY DEF LooseTabs
<1>3. \A i \in 1 .. Len(ts) : ts[i] \in bare <=> DOMAIN ts[i].cells = {}
  BY <1>2 DEF ToSet
<1> HIDE DEF bare, r
<1>4. PICK m : RestOf(r, ts, bare, m)
  BY <1>1, <1>2, DroppingIs
<1>5. /\ r \in Seq({ts[i] : i \in 1 .. Len(ts)}) /\ Len(r) \in Nat
      /\ \A k \in 1 .. Len(r) : m[k] \in 1 .. Len(ts)
      /\ \A k, j \in 1 .. Len(r) : m[k] = m[j] => k = j
      /\ \A k \in 1 .. Len(r) : r[k] = ts[m[k]] /\ ts[m[k]] \notin bare
      /\ \A i \in 1 .. Len(ts) : ts[i] \notin bare => \E k \in 1 .. Len(r) : m[k] = i
  BY <1>4, Zenon DEF RestOf
<1>6. DOMAIN r = 1 .. Len(r) /\ r = [k \in 1 .. Len(r) |-> r[k]]
  <2> DEFINE T == {ts[i] : i \in 1 .. Len(ts)}
  <2>1. r \in Seq(T)
    BY <1>5
  <2> HIDE DEF T
  <2> QED BY <2>1
<1>7. \A k \in 1 .. Len(r) : GoodTab(r[k])
  BY <1>2, <1>3, <1>5, Zenon
<1>8. r \in Seq(TabRecs)
  <2>1. \A k \in 1 .. Len(r) : r[k] \in TabRecs
    BY <1>7 DEF GoodTab
  <2>2. r \in [1 .. Len(r) -> TabRecs]
    BY <1>6, <2>1
  <2> QED BY <1>5, <2>2, AsSeq, Zenon
<1>9. \A k, j \in 1 .. Len(r) : k # j => Disjoint(ShellsOf(r[k]), ShellsOf(r[j]))
  <2> SUFFICES ASSUME NEW k \in 1 .. Len(r), NEW j \in 1 .. Len(r), k # j
               PROVE  Disjoint(ShellsOf(r[k]), ShellsOf(r[j]))
    OBVIOUS
  <2>1. m[k] \in 1 .. Len(ts) /\ m[j] \in 1 .. Len(ts) /\ m[k] # m[j] /\ r[k] = ts[m[k]] /\ r[j] = ts[m[j]]
    BY <1>5
  <2> QED BY <1>2, <2>1
<1>10. ShellsIn(r) = ShellsIn(ts)
  <2>1. ASSUME NEW x \in ShellsIn(r) PROVE x \in ShellsIn(ts)
    <3>1. PICK k \in 1 .. Len(r) : x \in ShellsOf(r[k])
      BY <1>6 DEF ShellsIn
    <3>2. m[k] \in DOMAIN ts /\ x \in ShellsOf(ts[m[k]])
      BY <1>2, <1>5, <3>1
    <3> QED BY <3>2 DEF ShellsIn
  <2>2. ASSUME NEW x \in ShellsIn(ts) PROVE x \in ShellsIn(r)
    <3>1. PICK i \in 1 .. Len(ts) : x \in ShellsOf(ts[i])
      BY <1>2 DEF ShellsIn
    <3>2. DOMAIN ts[i].cells # {}
      BY <3>1 DEF ShellsOf
    <3>3. PICK k \in 1 .. Len(r) : m[k] = i
      BY <1>3, <1>5, <3>2
    <3>4. k \in DOMAIN r /\ x \in ShellsOf(r[k])
      BY <1>5, <1>6, <3>1, <3>3
    <3> QED BY <3>4 DEF ShellsIn
  <2> QED BY <2>1, <2>2
<1> QED BY <1>7, <1>8, <1>9, <1>10 DEF GoodTabs, r

LEMMA TabsAre ==
  ASSUME NEW ts, GoodTabs(ts)
  PROVE  /\ ts \in Seq(TabRecs) /\ Len(ts) \in Nat /\ DOMAIN ts = 1 .. Len(ts)
         /\ \A i \in 1 .. Len(ts) : GoodTab(ts[i]) /\ ShellsOf(ts[i]) \subseteq ShellsIn(ts)
         /\ \A i, j \in 1 .. Len(ts) : i # j => Disjoint(ShellsOf(ts[i]), ShellsOf(ts[j]))
<1>1. ts \in Seq(TabRecs) /\ Len(ts) \in Nat /\ DOMAIN ts = 1 .. Len(ts)
  BY DEF GoodTabs
<1>2. \A i \in 1 .. Len(ts) : ShellsOf(ts[i]) \subseteq ShellsIn(ts)
  BY <1>1 DEF ShellsIn
<1> QED BY <1>1, <1>2 DEF GoodTabs

(* Tabs with one changed, one more, one less.                              *)
LEMMA PutTab ==
  ASSUME NEW ts, GoodTabs(ts), NEW i \in 1 .. Len(ts), NEW t, GoodTab(t),
         NEW fresh, Disjoint(fresh, ShellsIn(ts)), ShellsOf(t) \subseteq ShellsOf(ts[i]) \cup fresh
  PROVE  /\ GoodTabs([ts EXCEPT ![i] = t]) /\ Len([ts EXCEPT ![i] = t]) = Len(ts)
         /\ ShellsIn([ts EXCEPT ![i] = t]) = (ShellsIn(ts) \ ShellsOf(ts[i])) \cup ShellsOf(t)
<1> DEFINE e == [ts EXCEPT ![i] = t]
           n == Len(ts)
<1>1. /\ ts \in Seq(TabRecs) /\ n \in Nat /\ DOMAIN ts = 1 .. n
      /\ \A k \in 1 .. n : GoodTab(ts[k]) /\ ShellsOf(ts[k]) \subseteq ShellsIn(ts)
      /\ \A k, j \in 1 .. n : k # j => Disjoint(ShellsOf(ts[k]), ShellsOf(ts[j]))
  BY TabsAre
<1>2. t \in TabRecs
  BY DEF GoodTab
<1>3. e \in Seq(TabRecs) /\ Len(e) = n /\ DOMAIN e = 1 .. n
  BY <1>1, <1>2
<1>4. \A k \in 1 .. n : e[k] = IF k = i THEN t ELSE ts[k]
  BY <1>1
<1> HIDE DEF e, n
<1>5. \A k \in 1 .. n : k # i => Disjoint(ShellsOf(ts[k]), ShellsOf(t))
  <2> SUFFICES ASSUME NEW k \in 1 .. n, k # i PROVE Disjoint(ShellsOf(ts[k]), ShellsOf(t))
    OBVIOUS
  <2>1. i \in 1 .. n
    BY DEF n
  <2>2. Disjoint(ShellsOf(ts[k]), ShellsOf(ts[i])) /\ ShellsOf(ts[k]) \subseteq ShellsIn(ts)
    BY <1>1, <2>1
  <2> QED BY <2>2 DEF Disjoint
<1>6. GoodTabs(e)
  <2>1. \A k \in 1 .. n : GoodTab(e[k])
    BY <1>1, <1>4
  <2>2. ASSUME NEW k \in 1 .. n, NEW j \in 1 .. n, k # j PROVE Disjoint(ShellsOf(e[k]), ShellsOf(e[j]))
    <3>1. CASE k # i /\ j # i
      BY <1>1, <1>4, <2>2, <3>1
    <3>2. CASE k = i
      BY <1>4, <1>5, <2>2, <3>2 DEF Disjoint
    <3>3. CASE j = i
      BY <1>4, <1>5, <2>2, <3>3 DEF Disjoint
    <3> QED BY <3>1, <3>2, <3>3
  <2> QED BY <1>3, <2>1, <2>2 DEF GoodTabs
<1>7. ShellsIn(e) = (ShellsIn(ts) \ ShellsOf(ts[i])) \cup ShellsOf(t)
  <2>1. i \in 1 .. n
    BY DEF n
  <2>2. ASSUME NEW x \in ShellsIn(e) PROVE x \in (ShellsIn(ts) \ ShellsOf(ts[i])) \cup ShellsOf(t)
    <3>1. PICK k \in 1 .. n : x \in ShellsOf(e[k])
      BY <1>3 DEF ShellsIn
    <3>2. CASE k = i
      BY <1>4, <3>1, <3>2
    <3>3. CASE k # i
      BY <1>1, <1>4, <2>1, <3>1, <3>3 DEF Disjoint
    <3> QED BY <3>2, <3>3
  <2>3. ASSUME NEW x \in ShellsOf(t) PROVE x \in ShellsIn(e)
    <3>1. i \in DOMAIN e /\ x \in ShellsOf(e[i])
      BY <1>3, <1>4, <2>1
    <3> QED BY <3>1 DEF ShellsIn
  <2>4. ASSUME NEW x \in ShellsIn(ts), x \notin ShellsOf(ts[i]) PROVE x \in ShellsIn(e)
    <3>1. PICK k \in 1 .. n : x \in ShellsOf(ts[k])
      BY <1>1 DEF ShellsIn
    <3>2. k \in DOMAIN e /\ x \in ShellsOf(e[k])
      BY <1>3, <1>4, <2>4, <3>1
    <3> QED BY <3>2 DEF ShellsIn
  <2> QED BY <2>2, <2>3, <2>4
<1> QED BY <1>3, <1>6, <1>7, Zenon DEF e, n

LEMMA AppendTab ==
  ASSUME NEW ts, GoodTabs(ts), NEW t, GoodTab(t), Disjoint(ShellsOf(t), ShellsIn(ts))
  PROVE  /\ GoodTabs(Append(ts, t)) /\ Len(Append(ts, t)) = Len(ts) + 1
         /\ ShellsIn(Append(ts, t)) = ShellsIn(ts) \cup ShellsOf(t)
<1> DEFINE e == Append(ts, t)
           n == Len(ts)
           w == n + 1
<1>1. /\ ts \in Seq(TabRecs) /\ n \in Nat /\ DOMAIN ts = 1 .. n
      /\ \A k \in 1 .. n : GoodTab(ts[k]) /\ ShellsOf(ts[k]) \subseteq ShellsIn(ts)
      /\ \A k, j \in 1 .. n : k # j => Disjoint(ShellsOf(ts[k]), ShellsOf(ts[j]))
  BY TabsAre
<1>2. t \in TabRecs
  BY DEF GoodTab
<1>3. e \in Seq(TabRecs) /\ Len(e) = w /\ DOMAIN e = 1 .. w
  BY <1>1, <1>2
<1>4. e[w] = t /\ \A k \in 1 .. n : e[k] = ts[k]
  BY <1>1, <1>2
<1>5. \A k \in 1 .. w : k \in 1 .. n \/ k = w
  BY <1>1
<1>6. w \in 1 .. w /\ \A k \in 1 .. n : k \in 1 .. w
  BY <1>1
<1> HIDE DEF e, n, w
<1>7. \A k \in 1 .. n : Disjoint(ShellsOf(ts[k]), ShellsOf(t)) /\ Disjoint(ShellsOf(t), ShellsOf(ts[k]))
  BY <1>1 DEF Disjoint
<1>8. GoodTabs(e)
  <2>1. \A k \in 1 .. w : GoodTab(e[k])
    BY <1>1, <1>4, <1>5
  <2>2. ASSUME NEW k \in 1 .. w, NEW j \in 1 .. w, k # j PROVE Disjoint(ShellsOf(e[k]), ShellsOf(e[j]))
    <3>1. CASE k \in 1 .. n /\ j \in 1 .. n
      BY <1>1, <1>4, <2>2, <3>1
    <3>2. CASE k = w /\ j \in 1 .. n
      BY <1>4, <1>7, <3>2
    <3>3. CASE j = w /\ k \in 1 .. n
      BY <1>4, <1>7, <3>3
    <3> QED BY <1>5, <2>2, <3>1, <3>2, <3>3
  <2> QED BY <1>3, <2>1, <2>2 DEF GoodTabs
<1>9. ShellsIn(e) = ShellsIn(ts) \cup ShellsOf(t)
  <2>1. ASSUME NEW x \in ShellsIn(e) PROVE x \in ShellsIn(ts) \cup ShellsOf(t)
    <3>1. PICK k \in 1 .. w : x \in ShellsOf(e[k])
      BY <1>3 DEF ShellsIn
    <3> QED BY <1>1, <1>4, <1>5, <3>1
  <2>2. ASSUME NEW x \in ShellsOf(t) PROVE x \in ShellsIn(e)
    BY <1>3, <1>4, <1>6 DEF ShellsIn
  <2>3. ASSUME NEW x \in ShellsIn(ts) PROVE x \in ShellsIn(e)
    <3>1. PICK k \in 1 .. n : x \in ShellsOf(ts[k])
      BY <1>1 DEF ShellsIn
    <3>2. k \in DOMAIN e /\ x \in ShellsOf(e[k])
      BY <1>3, <1>4, <1>6, <3>1
    <3> QED BY <3>2 DEF ShellsIn
  <2> QED BY <2>1, <2>2, <2>3
<1> QED BY <1>3, <1>8, <1>9 DEF e, w, n

LEMMA RemoveTab ==
  ASSUME NEW ts, GoodTabs(ts), NEW i \in 1 .. Len(ts)
  PROVE  /\ GoodTabs(RemoveAt(ts, i)) /\ Len(RemoveAt(ts, i)) = Len(ts) - 1
         /\ ShellsIn(RemoveAt(ts, i)) = ShellsIn(ts) \ ShellsOf(ts[i])
<1> DEFINE r == RemoveAt(ts, i)
           n == Len(ts)
<1>1. /\ ts \in Seq(TabRecs) /\ n \in Nat /\ DOMAIN ts = 1 .. n
      /\ \A k \in 1 .. n : GoodTab(ts[k]) /\ ShellsOf(ts[k]) \subseteq ShellsIn(ts)
      /\ \A k, j \in 1 .. n : k # j => Disjoint(ShellsOf(ts[k]), ShellsOf(ts[j]))
  BY TabsAre
<1>10. ts \in Seq(TabRecs)
  BY <1>1
<1>11. r \in Seq(TabRecs) /\ Len(r) = Len(ts) - 1
  BY <1>10, Removal
<1>2. r \in Seq(TabRecs) /\ Len(r) = n - 1
  BY <1>11
<1>12. \E m : RemovalOf(r, ts, i, m)
  BY <1>10, Removal
<1> HIDE DEF r
<1>3. PICK m : RemovalOf(r, ts, i, m)
  BY <1>12
<1>41. \A k \in 1 .. Len(r) : m[k] \in 1 .. Len(ts)
  BY <1>3 DEF RemovalOf
<1>4. /\ \A k, j \in 1 .. Len(r) : m[k] = m[j] => k = j
      /\ \A k \in 1 .. Len(r) : r[k] = ts[m[k]] /\ m[k] # i /\ m[k] \in 1 .. n
      /\ \A k \in 1 .. n : k # i => \E j \in 1 .. Len(r) : m[j] = k
  BY <1>3, <1>41 DEF RemovalOf
<1>5. DOMAIN r = 1 .. Len(r)
  <2> QED BY <1>2
<1>6. i \in 1 .. n
  OBVIOUS
<1> HIDE DEF n
<1>7. GoodTabs(r)
  <2>1. \A k \in 1 .. Len(r) : GoodTab(r[k])
    BY <1>1, <1>4
  <2>2. \A k, j \in 1 .. Len(r) : k # j => Disjoint(ShellsOf(r[k]), ShellsOf(r[j]))
    BY <1>1, <1>4
  <2>3. r \in Seq(TabRecs)
    BY <1>2
  <2> QED BY <2>1, <2>2, <2>3 DEF GoodTabs
<1>8. ShellsIn(r) = ShellsIn(ts) \ ShellsOf(ts[i])
  <2>1. ASSUME NEW x \in ShellsIn(r) PROVE x \in ShellsIn(ts) /\ x \notin ShellsOf(ts[i])
    <3>1. PICK k \in 1 .. Len(r) : x \in ShellsOf(r[k])
      BY <1>5 DEF ShellsIn
    <3>2. m[k] \in 1 .. n /\ m[k] # i /\ x \in ShellsOf(ts[m[k]])
      BY <1>4, <3>1
    <3>3. Disjoint(ShellsOf(ts[m[k]]), ShellsOf(ts[i])) /\ ShellsOf(ts[m[k]]) \subseteq ShellsIn(ts)
      BY <1>1, <1>6, <3>2
    <3> QED BY <3>2, <3>3 DEF Disjoint
  <2>2. ASSUME NEW x \in ShellsIn(ts), x \notin ShellsOf(ts[i]) PROVE x \in ShellsIn(r)
    <3>1. PICK k \in 1 .. n : x \in ShellsOf(ts[k])
      BY <1>1 DEF ShellsIn
    <3>2. k # i
      BY <2>2, <3>1
    <3>3. PICK j \in 1 .. Len(r) : m[j] = k
      BY <1>4, <3>2
    <3>4. j \in DOMAIN r /\ x \in ShellsOf(r[j])
      BY <1>4, <1>5, <3>1, <3>3
    <3> QED BY <3>4 DEF ShellsIn
  <2> QED BY <2>1, <2>2
<1>9. Len(r) = n - 1
  BY <1>2
<1> QED BY <1>7, <1>8, <1>9 DEF r, n

-----------------------------------------------------------------------------
(* The workspace files, the invariant, and one lemma for each action.      *)

(* What a workspace file says of a tab.                                    *)
Snapshots == [root : Tree, focused : Nat]
GoodSnapshot(s) ==
  /\ s \in Snapshots /\ Sound(s.root)
  /\ Ids(s.root) = 0 .. Len(collect_leaves[s.root]) - 1 /\ s.focused \in Ids(s.root)

LEMMA SinglePaneGood ==
  /\ GoodLayout(SinglePane) /\ Ids(SinglePane.root) = {0} /\ SinglePane.focused = 0
  /\ SinglePane.root = Leaf(0)
<1>1. SinglePane = [root |-> Leaf(0), focused |-> 0, zoomed |-> None, next_id |-> 1]
  BY DEF SinglePane, Layout
<1> DEFINE root == Leaf(0)
<1>2. Shape(root, 0, {0}) /\ 0 \in 0 .. Bound
  BY LeafShape, BoundNat
<1>3. root \in Tree /\ Distinct(root) /\ Ids(root) = {0}
  BY <1>2, TreesInTree DEF Shape
<1>4. Cardinality({0}) = 1 /\ 1 <= MAX_PANES
  BY FS_Singleton, BoundNat, Zenon
<1> HIDE DEF root
<1>5. Sound(root) /\ 0 \in Ids(root) /\ None \in Ids(root) \cup {None} /\ \A id \in Ids(root) : id < 1
  BY <1>3, <1>4 DEF Sound
<1>6. GoodLayout([root |-> root, focused |-> 0, zoomed |-> None, next_id |-> 1])
  BY <1>5, MakeGood
<1> QED BY <1>1, <1>3, <1>6 DEF root

LEMMA RestoredGood ==
  ASSUME NEW s, GoodSnapshot(s)
  PROVE  LET l == RestoredLayout(s)
         IN  /\ GoodLayout(l) /\ l.root = s.root /\ l.focused = s.focused /\ l.zoomed = None
             /\ Len(leaves(l)) = Len(collect_leaves[s.root]) /\ leaves(l) = collect_leaves[s.root]
<1> DEFINE n == Len(collect_leaves[s.root])
           l == RestoredLayout(s)
<1>1. l = [root |-> s.root, focused |-> s.focused, zoomed |-> None, next_id |-> n]
  BY DEF RestoredLayout, Layout
<1>2. Sound(s.root) /\ Ids(s.root) = 0 .. n - 1 /\ s.focused \in Ids(s.root)
  BY DEF GoodSnapshot
<1>3. n \in Nat
  BY <1>2, SoundCount
<1>4. None \in Ids(s.root) \cup {None} /\ \A id \in Ids(s.root) : id < n
  BY <1>2, <1>3
<1> HIDE DEF n, l
<1>5. GoodLayout(l)
  BY <1>1, <1>2, <1>3, <1>4, MakeGood
<1>6. l.root = s.root /\ l.focused = s.focused /\ l.zoomed = None
  BY <1>1
<1>7. leaves(l) = collect_leaves[s.root]
  BY <1>6 DEF leaves
<1> QED BY <1>5, <1>6, <1>7 DEF l

(* The place of an id in a sequence without repetitions.                   *)
PlaceOf(ids, id) == CHOOSE i \in DOMAIN ids : ids[i] = id
LEMMA Places ==
  ASSUME NEW S, NEW ids \in Seq(S), IsInjective(ids)
  PROVE  /\ \A x \in ToSet(ids) : PlaceOf(ids, x) \in 1 .. Len(ids) /\ ids[PlaceOf(ids, x)] = x
         /\ \A i \in 1 .. Len(ids) : ids[i] \in ToSet(ids) /\ PlaceOf(ids, ids[i]) = i
<1>1. DOMAIN ids = 1 .. Len(ids)
  OBVIOUS
<1>2. ASSUME NEW x \in ToSet(ids) PROVE PlaceOf(ids, x) \in 1 .. Len(ids) /\ ids[PlaceOf(ids, x)] = x
  <2>1. \E i \in DOMAIN ids : ids[i] = x
    BY DEF ToSet
  <2> QED BY <1>1, <2>1, Zenon DEF PlaceOf
<1>3. \A i \in 1 .. Len(ids) : ids[i] \in ToSet(ids)
  BY <1>1 DEF ToSet
<1>4. ASSUME NEW i \in 1 .. Len(ids) PROVE PlaceOf(ids, ids[i]) = i
  <2>1. PlaceOf(ids, ids[i]) \in 1 .. Len(ids) /\ ids[PlaceOf(ids, ids[i])] = ids[i]
    BY <1>2, <1>3
  <2> QED BY <1>1, <2>1 DEF IsInjective
<1> QED BY <1>2, <1>3, <1>4

Numbers(ids) == [id \in ToSet(ids) |-> PlaceOf(ids, id) - 1]
LEMMA Numbered ==
  ASSUME NEW S, NEW ids \in Seq(S), IsInjective(ids)
  PROVE  /\ \A x \in ToSet(ids) : Numbers(ids)[x] \in 0 .. Len(ids) - 1 /\ Numbers(ids)[x] \in Nat
         /\ \A x, y \in ToSet(ids) : Numbers(ids)[x] = Numbers(ids)[y] => x = y
         /\ {Numbers(ids)[x] : x \in ToSet(ids)} = 0 .. Len(ids) - 1
<1> DEFINE n == Len(ids)
           at(x) == PlaceOf(ids, x)
           name == Numbers(ids)
<1>1. /\ \A x \in ToSet(ids) : at(x) \in 1 .. n /\ ids[at(x)] = x
      /\ \A i \in 1 .. n : ids[i] \in ToSet(ids) /\ at(ids[i]) = i
  BY Places
<1>2. n \in Nat
  OBVIOUS
<1>3. \A x \in ToSet(ids) : name[x] = at(x) - 1
  BY DEF Numbers
<1> HIDE DEF n, at, name
<1>4. \A x \in ToSet(ids) : name[x] \in 0 .. n - 1 /\ name[x] \in Nat
  BY <1>1, <1>2, <1>3
<1>5. \A x, y \in ToSet(ids) : name[x] = name[y] => x = y
  <2> SUFFICES ASSUME NEW x \in ToSet(ids), NEW y \in ToSet(ids), name[x] = name[y] PROVE x = y
    OBVIOUS
  <2>1. at(x) = at(y)
    <3>1. at(x) - 1 = at(y) - 1 /\ at(x) \in Int /\ at(y) \in Int
      BY <1>1, <1>2, <1>3
    <3> QED BY <3>1
  <2> QED BY <1>1, <2>1
<1>6. ASSUME NEW k \in 0 .. n - 1 PROVE \E x \in ToSet(ids) : name[x] = k
  <2>1. k + 1 \in 1 .. n /\ (k + 1) - 1 = k
    BY <1>2
  <2> DEFINE j == k + 1
  <2>2. j \in 1 .. n /\ j - 1 = k
    BY <2>1
  <2> HIDE DEF j
  <2>3. ids[j] \in ToSet(ids) /\ name[ids[j]] = k
    BY <1>1, <1>3, <2>2
  <2> QED BY <2>3
<1>7. {name[x] : x \in ToSet(ids)} = 0 .. n - 1
  BY <1>4, <1>6
<1> QED BY <1>4, <1>5, <1>7 DEF n, name

LEMMA CaptureIs ==
  ASSUME NEW l
  PROVE  Capture(l) = [root |-> Renamed(l.root, Numbers(leaves(l))),
                       focused |-> PlaceOf(leaves(l), l.focused) - 1]
BY DEF Capture, Numbers, PlaceOf

LEMMA CaptureGood ==
  ASSUME NEW l, GoodLayout(l)
  PROVE  GoodSnapshot(Capture(l)) /\ Len(collect_leaves[Capture(l).root]) = Len(leaves(l))
<1> DEFINE ids == leaves(l)
           n == Len(ids)
           name == Numbers(ids)
           root == Renamed(l.root, name)
           f == PlaceOf(ids, l.focused) - 1
           s == Capture(l)
<1>1. /\ Sound(l.root) /\ ids \in Seq(Nat) /\ IsInjective(ids) /\ ToSet(ids) = Ids(l.root)
      /\ l.focused \in Ids(l.root) /\ n \in Nat /\ n >= 1 /\ n <= MAX_PANES
  BY GoodIs
<1>2. /\ \A x \in ToSet(ids) : name[x] \in 0 .. n - 1 /\ name[x] \in Nat
      /\ \A x, y \in ToSet(ids) : name[x] = name[y] => x = y
      /\ {name[x] : x \in ToSet(ids)} = 0 .. n - 1
  BY <1>1, Numbered
<1>3. name[l.focused] = f
  BY <1>1 DEF Numbers
<1>4. s = [root |-> root, focused |-> f]
  BY CaptureIs
<1> HIDE DEF ids, n, name, f, s
<1>5. root \in Tree /\ Distinct(root) /\ Ids(root) = 0 .. n - 1
  <2>1. /\ \A x \in Ids(l.root) : name[x] \in Nat
        /\ \A x, y \in Ids(l.root) : name[x] = name[y] => x = y
        /\ {name[x] : x \in Ids(l.root)} = 0 .. n - 1
    BY <1>1, <1>2
  <2> QED BY <1>1, <2>1, RenamedSound, Zenon
<1> HIDE DEF root
<1>6. Cardinality(0 .. n - 1) = n
  BY <1>1, FS_Interval
<1>7. Sound(root) /\ Len(collect_leaves[root]) = n
  <2>1. Cardinality(Ids(root)) = n /\ n <= MAX_PANES
    BY <1>1, <1>5, <1>6
  <2>2. Sound(root)
    BY <1>5, <2>1 DEF Sound
  <2> QED BY <2>1, <2>2, SoundCount
<1>8. f \in 0 .. n - 1 /\ f \in Nat
  BY <1>1, <1>2, <1>3
<1>9. s.root = root /\ s.focused = f /\ s \in Snapshots
  BY <1>4, <1>5, <1>8 DEF Snapshots
<1>10. GoodSnapshot(s)
  BY <1>5, <1>7, <1>8, <1>9 DEF GoodSnapshot
<1> QED BY <1>7, <1>9, <1>10 DEF s, n, ids

(* The inductive invariant of the window.  PanesAndShellsAgree is of the   *)
(* tabs; it lasts because a workspace file, which a restore turns into     *)
(* tabs, holds only trees whose panes are numbered from 0 and differ       *)
(* (GoodFiles), because a layout has no more panes than are allowed and    *)
(* its counter is past them (GoodLayout), and because the shells of the    *)
(* tabs, the dead ones too, are apart, so that a free one is in no pane.   *)
GoodFile(f) ==
  \/ f.kind \in {"absent", "corrupt"}
  \/ /\ f.kind \in {"one", "all"} /\ f.tabs \in Seq(Snapshots) /\ f.tabs # <<>>
     /\ (\A i \in 1 .. Len(f.tabs) : GoodSnapshot(f.tabs[i]))
     /\ f.active \in Nat /\ f.active >= 1
GoodFiles(fs) == fs = [name \in Files |-> fs[name]] /\ \A name \in Files : GoodFile(fs[name])
WInv ==
  /\ scene \in Scenes /\ GoodTabs(tabs) /\ dead \subseteq ShellsIn(tabs)
  /\ active \in Nat /\ active >= 1 /\ (tabs # <<>> => active <= Len(tabs))
  /\ open \in BOOLEAN /\ (~open => tabs = <<>>) /\ GoodFiles(files)

LEMMA SceneIs ==
  ASSUME scene \in Scenes
  PROVE  /\ scene.faults \in BOOLEAN /\ scene.cwd \in BOOLEAN
         /\ scene.shells \subseteq Shells /\ scene.shells # {} /\ IsFiniteSet(scene.shells)
         /\ scene.window \in Rects /\ scene.window.w \in Int /\ scene.window.h \in Int
         /\ scene.files \in [Files -> {Absent, [kind |-> "corrupt"]}]
<1>1. scene.window \in Rects
  BY WorkspaceAssumption
<1>2. scene.window.w \in Int /\ scene.window.h \in Int
  BY <1>1 DEF Rects
<1> QED BY <1>1, <1>2, WorkspaceAssumption

LEMMA PresetIs ==
  ASSUME scene \in Scenes, NEW p \in scene.presets
  PROVE  Preset(p.axis, p.counts)
BY WorkspaceAssumption DEF Preset

LEMMA FreeIs ==
  ASSUME scene \in Scenes
  PROVE  /\ IsFiniteSet(Free) /\ Free \subseteq Shells /\ Free \subseteq scene.shells
         /\ Disjoint(Free, ShellsIn(tabs))
<1>1. Free \subseteq scene.shells /\ Disjoint(Free, ShellsIn(tabs))
  BY DEF Free, Disjoint
<1>2. IsFiniteSet(Free)
  BY <1>1, SceneIs, FS_Subset
<1> QED BY <1>1, <1>2, SceneIs

(* A window that is open and has a tab.                                    *)
Live == WInv /\ open /\ tabs # <<>>
LEMMA LiveIs ==
  ASSUME Live
  PROVE  /\ GoodTabs(tabs) /\ active \in 1 .. Len(tabs) /\ scene \in Scenes /\ open = TRUE
         /\ GoodFiles(files) /\ dead \subseteq ShellsIn(tabs) /\ active \in Nat /\ active >= 1
         /\ GoodTab(tab) /\ ShellsOf(tab) \subseteq ShellsIn(tabs)
         /\ GoodLayout(tab.layout) /\ GoodCells(tab.cells) /\ DOMAIN tab.cells = Ids(tab.layout.root)
         /\ focused \in Ids(tab.layout.root) /\ GoodCell(cell) /\ tab.layout.focused = focused
         /\ ShellsOf(tab) = ShellsAt(tab.cells) /\ ToSet(cell.sessions) \subseteq ShellsOf(tab)
<1>1. /\ GoodTabs(tabs) /\ active \in Nat /\ active >= 1 /\ active <= Len(tabs) /\ scene \in Scenes
      /\ open = TRUE /\ GoodFiles(files) /\ dead \subseteq ShellsIn(tabs)
  BY DEF Live, WInv
<1>2. Len(tabs) \in Nat
  BY <1>1, TabsAre
<1>3. active \in 1 .. Len(tabs)
  BY <1>1, <1>2
<1>4. GoodTab(tab) /\ ShellsOf(tab) \subseteq ShellsIn(tabs)
  BY <1>1, <1>3, TabsAre DEF tab
<1>5. /\ GoodLayout(tab.layout) /\ GoodCells(tab.cells) /\ DOMAIN tab.cells = Ids(tab.layout.root)
      /\ ShellsOf(tab) = ShellsAt(tab.cells) /\ \A id \in DOMAIN tab.cells : GoodCell(tab.cells[id])
  BY <1>4, TabIs
<1>6. focused \in Ids(tab.layout.root) /\ tab.layout.focused = focused
  BY <1>5, GoodIs DEF focused
<1>7. GoodCell(cell)
  BY <1>5, <1>6 DEF cell
<1>8. ToSet(cell.sessions) \subseteq ShellsOf(tab)
  BY <1>5, <1>6 DEF ShellsAt, cell
<1> QED BY <1>1, <1>3, <1>4, <1>5, <1>6, <1>7, <1>8

(* What a step that puts other tabs in the window has to show.             *)
LEMMA WindowGood ==
  ASSUME WInv, open, NEW new, GoodTabs(new), NEW at \in Nat, at >= 1, new # <<>> => at <= Len(new),
         Window(new, at)
  PROVE  WInv' /\ tabs' = new
<1>1. /\ tabs' = new /\ active' = at /\ dead' = dead \cap ShellsIn(tabs')
      /\ files' = files /\ open' = open /\ scene' = scene
  BY DEF Window
<1>2. dead' \subseteq ShellsIn(tabs')
  BY <1>1
<1>3. GoodTabs(tabs') /\ GoodFiles(files')
  BY <1>1 DEF WInv
<1> QED BY <1>1, <1>2, <1>3 DEF WInv

LEMMA ChangeGood ==
  ASSUME Live, NEW t, GoodTab(t), NEW fresh, Disjoint(fresh, ShellsIn(tabs)),
         ShellsOf(t) \subseteq ShellsOf(tab) \cup fresh,
         Window([tabs EXCEPT ![active] = t], active)
  PROVE  WInv' /\ ShellsIn(tabs') = (ShellsIn(tabs) \ ShellsOf(tab)) \cup ShellsOf(t)
<1> DEFINE e == [tabs EXCEPT ![active] = t]
<1>1. GoodTabs(tabs) /\ active \in 1 .. Len(tabs) /\ active \in Nat /\ active >= 1
  BY LiveIs
<1>2. ShellsOf(t) \subseteq ShellsOf(tabs[active]) \cup fresh
  BY DEF tab
<1>3. /\ GoodTabs(e) /\ Len(e) = Len(tabs)
      /\ ShellsIn(e) = (ShellsIn(tabs) \ ShellsOf(tabs[active])) \cup ShellsOf(t)
  BY <1>1, <1>2, PutTab, Zenon
<1>4. active <= Len(e)
  BY <1>1, <1>3, TabsAre
<1> HIDE DEF e
<1>5. Window(e, active) /\ WInv /\ open
  BY DEF e, Live
<1>6. WInv' /\ tabs' = e
  BY <1>1, <1>3, <1>4, <1>5, WindowGood
<1> QED BY <1>3, <1>6 DEF tab

(* A step that changes the layout of the tab that is shown, and no pane.   *)
LEMMA ArrangeGood ==
  ASSUME Live, NEW l, GoodLayout(l), Ids(l.root) = Ids(tab.layout.root), Arrange(l)
  PROVE  WInv' /\ ShellsIn(tabs') = ShellsIn(tabs)
<1> DEFINE t == [tab EXCEPT !.layout = l]
           none == {}
<1>1. GoodTab(tab) /\ ShellsOf(tab) \subseteq ShellsIn(tabs)
  BY LiveIs
<1>2. GoodTab(t) /\ ShellsOf(t) = ShellsOf(tab)
  BY <1>1, Rearranged
<1>3. Window([tabs EXCEPT ![active] = t], active)
  BY DEF Arrange, ChangeTab
<1>4. Disjoint(none, ShellsIn(tabs))
  BY DEF Disjoint
<1> HIDE DEF t, none
<1>5. WInv' /\ ShellsIn(tabs') = (ShellsIn(tabs) \ ShellsOf(tab)) \cup ShellsOf(t)
  BY <1>2, <1>3, <1>4, ChangeGood
<1> QED BY <1>1, <1>2, <1>5

(* One lemma for each action: the invariant, and the shells that run.      *)
Keeps == ShellsIn(tabs) \ dead \subseteq ShellsIn(tabs')

LEMMA CanIs ==
  ASSUME WInv, NEW op, Can(op)
  PROVE  Live
BY DEF Can, Live

LEMMA FocusDirStep ==
  ASSUME WInv, NEW dir \in Directions, FocusDir(dir)
  PROVE  WInv' /\ Keeps
<1>1. Live /\ Arrange(focus_dir(tab.layout, dir, scene.window))
  BY CanIs DEF FocusDir
<1>2. GoodLayout(tab.layout) /\ scene.window \in Rects
  BY <1>1, LiveIs, SceneIs
<1> DEFINE l == focus_dir(tab.layout, dir, scene.window)
<1>3. GoodLayout(l) /\ Ids(l.root) = Ids(tab.layout.root)
  BY <1>2, ByDirection
<1> HIDE DEF l
<1>4. Arrange(l)
  BY <1>1 DEF l
<1>5. WInv' /\ ShellsIn(tabs') = ShellsIn(tabs)
  BY <1>1, <1>3, <1>4, ArrangeGood
<1> QED BY <1>5 DEF Keeps

LEMMA SwapDirStep ==
  ASSUME WInv, NEW dir \in Directions, swap_dir(dir)
  PROVE  WInv' /\ Keeps
<1>1. Live /\ Arrange(swap_focused(tab.layout, dir, scene.window))
  BY CanIs DEF swap_dir
<1>2. GoodLayout(tab.layout) /\ scene.window \in Rects
  BY <1>1, LiveIs, SceneIs
<1> DEFINE l == swap_focused(tab.layout, dir, scene.window)
<1>3. GoodLayout(l) /\ Ids(l.root) = Ids(tab.layout.root)
  BY <1>2, ByDirection
<1> HIDE DEF l
<1>4. Arrange(l)
  BY <1>1 DEF l
<1>5. WInv' /\ ShellsIn(tabs') = ShellsIn(tabs)
  BY <1>1, <1>3, <1>4, ArrangeGood
<1> QED BY <1>5 DEF Keeps

LEMMA ResizeStep ==
  ASSUME WInv, NEW dir \in Directions, resize_focused(dir)
  PROVE  WInv' /\ Keeps
<1> DEFINE sign == IF dir \in {"Right", "Down"} THEN 1 ELSE -1
           extent == IF dir \in {"Left", "Right"} THEN scene.window.w ELSE scene.window.h
           l == resize(tab.layout, focused, sign, extent)
<1>1. Live /\ Arrange(l)
  BY CanIs DEF resize_focused
<1>2. GoodLayout(tab.layout) /\ focused \in Ids(tab.layout.root) /\ sign \in Int /\ extent \in Int
  BY <1>1, LiveIs, SceneIs
<1> HIDE DEF sign, extent
<1>3. GoodLayout(l) /\ Ids(l.root) = Ids(tab.layout.root)
  BY <1>2, ResizeGood
<1> HIDE DEF l
<1>5. WInv' /\ ShellsIn(tabs') = ShellsIn(tabs)
  BY <1>1, <1>3, ArrangeGood
<1> QED BY <1>5 DEF Keeps

LEMMA ZoomStep ==
  ASSUME WInv, ToggleZoom
  PROVE  WInv' /\ Keeps
<1> DEFINE l == toggle_zoom(tab.layout)
<1>1. Live /\ Arrange(l)
  BY CanIs DEF ToggleZoom
<1>2. GoodLayout(tab.layout)
  BY <1>1, LiveIs
<1>3. GoodLayout(l) /\ Ids(l.root) = Ids(tab.layout.root)
  BY <1>2, ZoomGood
<1> HIDE DEF l
<1>5. WInv' /\ ShellsIn(tabs') = ShellsIn(tabs)
  BY <1>1, <1>3, ArrangeGood
<1> QED BY <1>5 DEF Keeps

LEMMA EqualizeStepGood ==
  ASSUME WInv, Equalize
  PROVE  WInv' /\ Keeps
<1> DEFINE l == equalize(tab.layout)
<1>1. Live /\ Arrange(l)
  BY CanIs DEF Equalize
<1>2. GoodLayout(tab.layout)
  BY <1>1, LiveIs
<1>3. GoodLayout(l) /\ Ids(l.root) = Ids(tab.layout.root)
  BY <1>2, EqualizeGood
<1> HIDE DEF l
<1>5. WInv' /\ ShellsIn(tabs') = ShellsIn(tabs)
  BY <1>1, <1>3, ArrangeGood
<1> QED BY <1>5 DEF Keeps

LEMMA BalanceStep ==
  ASSUME WInv, auto_balance
  PROVE  WInv' /\ Keeps
<1> DEFINE l == rebalance_squarest(tab.layout)
<1>1. Live /\ Arrange(l)
  BY CanIs DEF auto_balance
<1>2. GoodLayout(tab.layout)
  BY <1>1, LiveIs
<1>3. GoodLayout(l) /\ Ids(l.root) = Ids(tab.layout.root)
  BY <1>2, RebalanceGood
<1> HIDE DEF l
<1>5. WInv' /\ ShellsIn(tabs') = ShellsIn(tabs)
  BY <1>1, <1>3, ArrangeGood
<1> QED BY <1>5 DEF Keeps

LEMMA Around ==
  ASSUME NEW n \in Nat, n >= 1, NEW at \in 1 .. n
  PROVE  (at % n) + 1 \in 1 .. n
<1>1. at % n \in 0 .. n - 1
  OBVIOUS
<1> QED BY <1>1

LEMMA NextPaneStep ==
  ASSUME WInv, focus_next_pane
  PROVE  WInv' /\ Keeps
<1> DEFINE ids == leaves(tab.layout)
           at == PlaceOf(ids, focused)
           next == ids[(at % Len(ids)) + 1]
           m == [tab.layout EXCEPT !.focused = next]
<1>1. Live /\ Arrange(m)
  BY CanIs DEF focus_next_pane, PlaceOf
<1>2. GoodLayout(tab.layout) /\ focused \in Ids(tab.layout.root)
  BY <1>1, LiveIs
<1>3. /\ ids \in Seq(Nat) /\ IsInjective(ids) /\ ToSet(ids) = Ids(tab.layout.root)
      /\ Len(ids) \in Nat /\ Len(ids) >= 1
  BY <1>2, GoodIs
<1>4. at \in 1 .. Len(ids)
  BY <1>2, <1>3, Places
<1> HIDE DEF ids, at
<1>5. (at % Len(ids)) + 1 \in 1 .. Len(ids)
  BY <1>3, <1>4, Around
<1>6. next \in Ids(tab.layout.root)
  BY <1>3, <1>5, Places
<1> HIDE DEF next
<1>7. GoodLayout(m) /\ Ids(m.root) = Ids(tab.layout.root)
  <2>1. tab.layout = [root |-> tab.layout.root, focused |-> tab.layout.focused,
                      zoomed |-> tab.layout.zoomed, next_id |-> tab.layout.next_id]
    BY <1>2, GoodIs
  <2>2. m = [root |-> tab.layout.root, focused |-> next,
             zoomed |-> tab.layout.zoomed, next_id |-> tab.layout.next_id]
    BY <2>1
  <2>3. GoodLayout([root |-> tab.layout.root, focused |-> next,
                    zoomed |-> tab.layout.zoomed, next_id |-> tab.layout.next_id])
    <3> DEFINE root == tab.layout.root
               z == tab.layout.zoomed
               w == tab.layout.next_id
    <3>1. /\ Sound(root) /\ next \in Ids(root) /\ z \in Ids(root) \cup {None} /\ w \in Nat
          /\ \A id \in Ids(root) : id < w
      BY <1>2, <1>6, GoodIs
    <3> HIDE DEF root, z, w
    <3>2. GoodLayout([root |-> root, focused |-> next, zoomed |-> z, next_id |-> w])
      BY <3>1, MakeGood
    <3> QED BY <3>2 DEF root, z, w
  <2> QED BY <2>2, <2>3
<1> HIDE DEF m
<1>8. WInv' /\ ShellsIn(tabs') = ShellsIn(tabs)
  BY <1>1, <1>7, ArrangeGood
<1> QED BY <1>8 DEF Keeps

LEMMA FreshIs ==
  ASSUME scene \in Scenes, Free # {}
  PROVE  LET s == Spawned({1}, Free)[1]
         IN  /\ s \in Shells /\ s \in Free /\ Disjoint({s}, ShellsIn(tabs))
             /\ GoodCell(Single(s)) /\ ToSet(Single(s).sessions) = {s}
<1> DEFINE s == Spawned({1}, Free)[1]
<1>1. IsFiniteSet(Free) /\ Free \subseteq Shells /\ Disjoint(Free, ShellsIn(tabs))
  BY FreeIs
<1>2. s \in Free
  BY <1>1, OneSpawned
<1> HIDE DEF s
<1>3. s \in Shells /\ Disjoint({s}, ShellsIn(tabs))
  BY <1>1, <1>2 DEF Disjoint
<1>4. GoodCell(Single(s)) /\ ToSet(Single(s).sessions) = {s}
  BY <1>3, SingleGood
<1> QED BY <1>2, <1>3, <1>4 DEF s

(* A tab whose new shells are fresh takes the place of the one shown.      *)
LEMMA ChangeKeeps ==
  ASSUME Live, NEW t, GoodTab(t), NEW fresh, Disjoint(fresh, ShellsIn(tabs)),
         ShellsOf(t) \subseteq ShellsOf(tab) \cup fresh, ChangeTab(t)
  PROVE  /\ WInv' /\ (ShellsIn(tabs) \ ShellsIn(tabs')) \subseteq ShellsOf(tab) \ ShellsOf(t)
         /\ ShellsOf(tab) \subseteq ShellsOf(t) => Keeps
<1>1. Window([tabs EXCEPT ![active] = t], active)
  BY DEF ChangeTab
<1>2. WInv' /\ ShellsIn(tabs') = (ShellsIn(tabs) \ ShellsOf(tab)) \cup ShellsOf(t)
  BY <1>1, ChangeGood
<1> QED BY <1>2 DEF Keeps

LEMMA SplitStep ==
  ASSUME WInv, NEW axis \in Axis, NEW fails, split_active(axis, fails)
  PROVE  WInv' /\ Keeps
<1> DEFINE layout == try_split(tab.layout, focused, axis)
           id == layout.focused
           back == remove(layout, id)
           s == Spawned({1}, Free)[1]
           c == Single(s)
           cells == WithCell(tab.cells, id, c)
           t == [layout |-> layout, cells |-> cells]
           fresh == {s}
<1>1. /\ Live /\ Free # {} /\ ~at_capacity(tab.layout)
      /\ IF fails THEN Arrange(back) ELSE ChangeTab(t)
  BY CanIs DEF split_active
<1>2. /\ GoodLayout(tab.layout) /\ focused \in Ids(tab.layout.root) /\ scene \in Scenes
      /\ GoodCells(tab.cells) /\ DOMAIN tab.cells = Ids(tab.layout.root)
      /\ ShellsOf(tab) = ShellsAt(tab.cells) /\ ShellsOf(tab) \subseteq ShellsIn(tabs)
  BY <1>1, LiveIs
<1>3. /\ GoodLayout(layout) /\ id = tab.layout.next_id
      /\ Ids(layout.root) = Ids(tab.layout.root) \cup {tab.layout.next_id} /\ ~IsLeaf(layout.root)
  BY <1>1, <1>2, TrySplitGood
<1>4. tab.layout.next_id \notin Ids(tab.layout.root)
  BY <1>2, GoodIs
<1> HIDE DEF layout, id
<1>5. CASE fails
  <2>1. GoodLayout(back) /\ Ids(back.root) = Ids(tab.layout.root)
    <3>1. /\ GoodLayout(back)
          /\ Ids(back.root) = IF id \in Ids(layout.root) /\ ~IsLeaf(layout.root) THEN Ids(layout.root) \ {id}
                              ELSE Ids(layout.root)
      BY <1>3, RemoveGood, Zenon
    <3> HIDE DEF back
    <3> QED BY <1>3, <1>4, <3>1
  <2> HIDE DEF back
  <2>2. WInv' /\ ShellsIn(tabs') = ShellsIn(tabs)
    BY <1>1, <1>5, <2>1, ArrangeGood
  <2> QED BY <2>2 DEF Keeps
<1>6. CASE ~fails
  <2>1. Disjoint(fresh, ShellsIn(tabs)) /\ GoodCell(c) /\ ToSet(c.sessions) = fresh
    BY <1>1, <1>2, FreshIs
  <2> HIDE DEF fresh, c
  <2>2. id \notin DOMAIN tab.cells /\ Disjoint(ToSet(c.sessions), ShellsAt(tab.cells))
    BY <1>2, <1>3, <1>4, <2>1 DEF Disjoint
  <2>3. /\ GoodCells(cells) /\ DOMAIN cells = DOMAIN tab.cells \cup {id}
        /\ ShellsAt(cells) = ShellsAt(tab.cells) \cup ToSet(c.sessions)
    BY <1>2, <2>1, <2>2, AddedCell
  <2> HIDE DEF cells
  <2>4. DOMAIN cells = Ids(layout.root)
    BY <1>2, <1>3, <2>3
  <2>5. GoodTab(t) /\ ShellsOf(t) = ShellsAt(cells)
    BY <1>3, <2>3, <2>4, MakeTab
  <2>6. ChangeTab(t)
    BY <1>1, <1>6
  <2> HIDE DEF t
  <2>7. ShellsOf(t) \subseteq ShellsOf(tab) \cup fresh /\ ShellsOf(tab) \subseteq ShellsOf(t)
    BY <1>2, <2>1, <2>3, <2>5
  <2> QED BY <1>1, <2>1, <2>5, <2>6, <2>7, ChangeKeeps
<1> QED BY <1>5, <1>6

(* The cell with the focus is changed.                                     *)
LEMMA CellGood ==
  ASSUME Live, NEW c, GoodCell(c), NEW fresh, Disjoint(fresh, ShellsIn(tabs)),
         ToSet(c.sessions) \subseteq ToSet(cell.sessions) \cup fresh,
         ChangeCell(c)
  PROVE  /\ WInv' /\ (ShellsIn(tabs) \ ShellsIn(tabs')) \subseteq ToSet(cell.sessions) \ ToSet(c.sessions)
         /\ ToSet(cell.sessions) \subseteq ToSet(c.sessions) => Keeps
<1> DEFINE cells == [tab.cells EXCEPT ![focused] = c]
           t == [layout |-> tab.layout, cells |-> cells]
<1>1. /\ GoodLayout(tab.layout) /\ focused \in DOMAIN tab.cells /\ GoodTab(tab)
      /\ GoodCells(tab.cells) /\ DOMAIN tab.cells = Ids(tab.layout.root)
      /\ ShellsOf(tab) = ShellsAt(tab.cells) /\ ShellsOf(tab) \subseteq ShellsIn(tabs)
      /\ ToSet(cell.sessions) \subseteq ShellsOf(tab)
  BY LiveIs
<1>2. tab = [layout |-> tab.layout, cells |-> tab.cells]
  BY <1>1, TabIs
<1>3. [tab EXCEPT !.cells[focused] = c] = t
  BY <1>2
<1>4. ChangeTab(t)
  BY <1>3 DEF ChangeCell
<1>5. /\ Disjoint(fresh, ShellsAt(tab.cells)) /\ cell = tab.cells[focused]
  BY <1>1 DEF Disjoint, cell
<1>6. ToSet(c.sessions) \subseteq ToSet(tab.cells[focused].sessions) \cup fresh
  BY <1>5
<1>7. /\ GoodCells(cells) /\ DOMAIN cells = DOMAIN tab.cells
      /\ ShellsAt(cells) = (ShellsAt(tab.cells) \ ToSet(tab.cells[focused].sessions)) \cup ToSet(c.sessions)
  BY <1>1, <1>5, <1>6, ChangedCell
<1> HIDE DEF cells
<1>8. DOMAIN cells = Ids(tab.layout.root)
  BY <1>1, <1>7
<1>9. GoodTab(t) /\ ShellsOf(t) = ShellsAt(cells)
  BY <1>1, <1>7, <1>8, MakeTab
<1> HIDE DEF t
<1>10. ShellsOf(t) \subseteq ShellsOf(tab) \cup fresh
  BY <1>1, <1>5, <1>7, <1>9
<1>11. /\ WInv' /\ (ShellsIn(tabs) \ ShellsIn(tabs')) \subseteq ShellsOf(tab) \ ShellsOf(t)
       /\ ShellsOf(tab) \subseteq ShellsOf(t) => Keeps
  BY <1>4, <1>9, <1>10, ChangeKeeps
<1> QED BY <1>1, <1>5, <1>7, <1>9, <1>11

LEMMA AppendedCell ==
  ASSUME NEW c, GoodCell(c), NEW s \in Shells, s \notin ToSet(c.sessions)
  PROVE  LET d == [sessions |-> Append(c.sessions, s), active |-> Len(c.sessions) + 1]
         IN  GoodCell(d) /\ ToSet(d.sessions) = ToSet(c.sessions) \cup {s}
<1> DEFINE b == c.sessions
           n == Len(b)
           a == Append(b, s)
           w == n + 1
<1>1. b \in Seq(Shells) /\ IsInjective(b) /\ n \in Nat /\ n >= 1 /\ DOMAIN b = 1 .. n
  BY CellIs
<1>2. a \in Seq(Shells) /\ Len(a) = w /\ DOMAIN a = 1 .. w /\ a # <<>>
  BY <1>1
<1>3. a[w] = s /\ \A k \in 1 .. n : a[k] = b[k]
  BY <1>1
<1>4. w \in 1 .. w /\ (\A k \in 1 .. n : k \in 1 .. w) /\ \A k \in 1 .. w : k \in 1 .. n \/ k = w
  BY <1>1
<1>5. s \notin ToSet(b)
  OBVIOUS
<1> HIDE DEF b, n, a, w
<1>6. \A k \in 1 .. n : b[k] \in ToSet(b) /\ b[k] # s
  BY <1>1, <1>5 DEF ToSet
<1>7. IsInjective(a)
  <2>1. ASSUME NEW k \in 1 .. w, NEW j \in 1 .. w, a[k] = a[j] PROVE k = j
    <3>1. CASE k \in 1 .. n /\ j \in 1 .. n
      BY <1>1, <1>3, <2>1, <3>1 DEF IsInjective
    <3>2. CASE k \in 1 .. n /\ j = w
      BY <1>3, <1>6, <2>1, <3>2
    <3>3. CASE k = w /\ j \in 1 .. n
      BY <1>3, <1>6, <2>1, <3>3
    <3> QED BY <1>4, <3>1, <3>2, <3>3
  <2> QED BY <1>2, <2>1 DEF IsInjective
<1>8. ToSet(a) = ToSet(b) \cup {s}
  <2>1. ASSUME NEW x \in ToSet(a) PROVE x \in ToSet(b) \cup {s}
    <3>1. PICK k \in 1 .. w : x = a[k]
      BY <1>2 DEF ToSet
    <3> QED BY <1>3, <1>4, <1>6, <3>1
  <2>2. ASSUME NEW x \in ToSet(b) PROVE x \in ToSet(a)
    <3>1. PICK k \in 1 .. n : x = b[k]
      BY <1>1 DEF ToSet
    <3> QED BY <1>2, <1>3, <1>4, <3>1 DEF ToSet
  <2>3. s \in ToSet(a)
    BY <1>2, <1>3, <1>4 DEF ToSet
  <2> QED BY <2>1, <2>2, <2>3
<1>9. w \in 1 .. Len(a)
  BY <1>2, <1>4
<1>10. GoodCell([sessions |-> a, active |-> w])
  BY <1>2, <1>7, <1>9, MakeCell
<1> QED BY <1>8, <1>10 DEF a, b, w, n

LEMMA SpawnCellStep ==
  ASSUME WInv, spawn_cell_tab
  PROVE  WInv' /\ Keeps
<1> DEFINE s == Spawned({1}, Free)[1]
           c == [sessions |-> Append(cell.sessions, s), active |-> Len(cell.sessions) + 1]
           fresh == {s}
<1>1. Live /\ Free # {} /\ ChangeCell(c)
  BY CanIs DEF spawn_cell_tab
<1>2. GoodCell(cell) /\ ToSet(cell.sessions) \subseteq ShellsOf(tab) /\ ShellsOf(tab) \subseteq ShellsIn(tabs)
      /\ scene \in Scenes
  BY <1>1, LiveIs
<1>3. s \in Shells /\ Disjoint(fresh, ShellsIn(tabs))
  BY <1>1, <1>2, FreshIs
<1>4. s \notin ToSet(cell.sessions)
  BY <1>2, <1>3 DEF Disjoint
<1> HIDE DEF s
<1>5. GoodCell(c) /\ ToSet(c.sessions) = ToSet(cell.sessions) \cup fresh
  BY <1>2, <1>3, <1>4, AppendedCell
<1> HIDE DEF c, fresh
<1> QED BY <1>1, <1>3, <1>5, CellGood

LEMMA SeeingGood ==
  ASSUME Live, NEW at \in 1 .. Len(cell.sessions), ChangeCell(Seeing(at))
  PROVE  WInv' /\ Keeps
<1> DEFINE c == [sessions |-> cell.sessions, active |-> at]
           none == {}
<1>1. GoodCell(cell)
  BY LiveIs
<1>2. /\ cell = [sessions |-> cell.sessions, active |-> cell.active] /\ cell.sessions \in Seq(Shells)
      /\ cell.sessions # <<>> /\ IsInjective(cell.sessions)
  BY <1>1, CellIs
<1>3. Seeing(at) = c
  BY <1>2 DEF Seeing
<1>4. GoodCell(c)
  BY <1>2, MakeCell
<1>5. ToSet(c.sessions) = ToSet(cell.sessions)
  OBVIOUS
<1>6. Disjoint(none, ShellsIn(tabs))
  BY DEF Disjoint
<1>7. ChangeCell(c)
  BY <1>3
<1> HIDE DEF c, none
<1> QED BY <1>4, <1>5, <1>6, <1>7, CellGood

LEMMA NextCellStep ==
  ASSUME WInv, next_cell_tab
  PROVE  WInv' /\ Keeps
<1> DEFINE at == (cell.active % Len(cell.sessions)) + 1
<1>1. Live /\ ChangeCell(Seeing(at))
  BY CanIs DEF next_cell_tab
<1>2. Len(cell.sessions) \in Nat /\ Len(cell.sessions) >= 1 /\ cell.active \in 1 .. Len(cell.sessions)
  BY <1>1, LiveIs, CellIs
<1>3. at \in 1 .. Len(cell.sessions)
  BY <1>2, Around
<1> HIDE DEF at
<1> QED BY <1>1, <1>3, SeeingGood

LEMMA PrevCellStep ==
  ASSUME WInv, prev_cell_tab
  PROVE  WInv' /\ Keeps
<1> DEFINE at == IF cell.active = 1 THEN Len(cell.sessions) ELSE cell.active - 1
<1>1. Live /\ ChangeCell(Seeing(at))
  BY CanIs DEF prev_cell_tab
<1>2. Len(cell.sessions) \in Nat /\ Len(cell.sessions) >= 1 /\ cell.active \in 1 .. Len(cell.sessions)
  BY <1>1, LiveIs, CellIs
<1>3. at \in 1 .. Len(cell.sessions)
  BY <1>2
<1> HIDE DEF at
<1> QED BY <1>1, <1>3, SeeingGood

LEMMA NewTabGood ==
  ASSUME NEW s \in Shells
  PROVE  GoodTab(NewTab(s)) /\ ShellsOf(NewTab(s)) = {s}
<1> DEFINE cells == [id \in {0} |-> Single(s)]
<1>1. GoodCell(Single(s)) /\ ToSet(Single(s).sessions) = {s}
  BY SingleGood
<1>2. DOMAIN cells = {0} /\ cells[0] = Single(s) /\ cells = [id \in DOMAIN cells |-> cells[id]]
  OBVIOUS
<1> HIDE DEF cells
<1>3. GoodCells(cells)
  <2>1. CellsApart(cells)
    BY <1>2 DEF CellsApart
  <2>2. \A id \in DOMAIN cells : GoodCell(cells[id])
    BY <1>1, <1>2
  <2> QED BY <1>2, <2>1, <2>2 DEF GoodCells
<1>4. ShellsAt(cells) = {s}
  BY <1>1, <1>2 DEF ShellsAt
<1>5. GoodLayout(SinglePane) /\ DOMAIN cells = Ids(SinglePane.root)
  BY <1>2, SinglePaneGood
<1>6. /\ GoodTab([layout |-> SinglePane, cells |-> cells])
      /\ ShellsOf([layout |-> SinglePane, cells |-> cells]) = ShellsAt(cells)
  BY <1>3, <1>5, MakeTab
<1>7. NewTab(s) = [layout |-> SinglePane, cells |-> cells]
  BY DEF NewTab, cells
<1> QED BY <1>4, <1>6, <1>7

LEMMA SpawnTabStep ==
  ASSUME WInv, spawn_tab
  PROVE  WInv' /\ Keeps
<1> DEFINE s == Spawned({1}, Free)[1]
           t == NewTab(s)
           new == Append(tabs, t)
           at == Len(tabs) + 1
<1>1. open /\ Free # {} /\ Window(new, at)
  BY DEF spawn_tab
<1>2. scene \in Scenes /\ GoodTabs(tabs)
  BY DEF WInv
<1>3. s \in Shells /\ Disjoint({s}, ShellsIn(tabs))
  BY <1>1, <1>2, FreshIs
<1> HIDE DEF s
<1>4. GoodTab(t) /\ ShellsOf(t) = {s}
  BY <1>3, NewTabGood
<1> HIDE DEF t
<1>5. Disjoint(ShellsOf(t), ShellsIn(tabs))
  BY <1>3, <1>4
<1>6. /\ GoodTabs(new) /\ Len(new) = Len(tabs) + 1
      /\ ShellsIn(new) = ShellsIn(tabs) \cup ShellsOf(t)
  BY <1>2, <1>4, <1>5, AppendTab
<1>7. at \in Nat /\ at >= 1 /\ at <= Len(new)
  BY <1>2, <1>6, TabsAre
<1> HIDE DEF new, at
<1>8. WInv' /\ tabs' = new
  BY <1>1, <1>6, <1>7, WindowGood
<1> QED BY <1>6, <1>8 DEF Keeps

LEMMA SwitchStep ==
  ASSUME WInv, NEW i, SwitchTab(i)
  PROVE  WInv' /\ Keeps
<1>1. Live /\ i \in DOMAIN tabs /\ Window(tabs, i)
  BY CanIs DEF SwitchTab
<1>2. GoodTabs(tabs) /\ open
  BY <1>1, LiveIs
<1>3. i \in Nat /\ i >= 1 /\ i <= Len(tabs)
  BY <1>1, <1>2, TabsAre
<1>4. WInv' /\ tabs' = tabs
  BY <1>1, <1>2, <1>3, WindowGood
<1> QED BY <1>4 DEF Keeps

(* The window is gone.                                                     *)
LEMMA NoTabs ==
  GoodTabs(<<>>) /\ ShellsIn(<<>>) = {} /\ Len(<<>>) = 0
<1>1. <<>> \in Seq(TabRecs) /\ Len(<<>>) = 0 /\ DOMAIN <<>> = 1 .. Len(<<>>)
  OBVIOUS
<1>2. 1 .. 0 = {}
  OBVIOUS
<1>3. ShellsIn(<<>>) = {}
  BY <1>1, <1>2 DEF ShellsIn
<1>4. GoodTabs(<<>>)
  BY <1>1, <1>2 DEF GoodTabs
<1> QED BY <1>1, <1>3, <1>4
LEMMA ExitGood ==
  ASSUME WInv, Exit, scene' = scene, GoodFiles(files')
  PROVE  WInv'
<1>1. open' = FALSE /\ tabs' = <<>> /\ dead' = {} /\ active' = 1
  BY DEF Exit
<1>2. GoodTabs(tabs') /\ Len(tabs') = 0
  BY <1>1, NoTabs
<1>3. scene' \in Scenes
  BY DEF WInv
<1>4. dead' \subseteq ShellsIn(tabs') /\ open' \in BOOLEAN
  BY <1>1, Zenon
<1>5. active' \in Nat /\ active' >= 1
  BY <1>1
<1>6. tabs' = <<>>
  BY <1>1
<1> QED BY <1>2, <1>3, <1>4, <1>5, <1>6 DEF WInv

LEMMA OneSession ==
  ASSUME NEW c, GoodCell(c), Len(c.sessions) = 1
  PROVE  ToSet(c.sessions) = {c.sessions[c.active]}
<1>1. DOMAIN c.sessions = 1 .. 1 /\ c.active \in 1 .. 1
  BY CellIs
<1>2. 1 .. 1 = {1} /\ c.active = 1
  BY <1>1
<1> QED BY <1>1, <1>2 DEF ToSet

LEMMA LonePane ==
  ASSUME Live, IsLeaf(tab.layout.root)
  PROVE  ShellsOf(tab) = ToSet(cell.sessions)
<1>1. /\ GoodLayout(tab.layout) /\ DOMAIN tab.cells = Ids(tab.layout.root)
      /\ focused \in Ids(tab.layout.root) /\ ShellsOf(tab) = ShellsAt(tab.cells)
  BY LiveIs
<1>2. Ids(tab.layout.root) = {tab.layout.root.id}
  BY <1>1, GoodIs, OneLeaf
<1>3. DOMAIN tab.cells = {focused}
  BY <1>1, <1>2
<1> QED BY <1>1, <1>3 DEF ShellsAt, cell

\* shells lost by a step
Lost == (ShellsIn(tabs) \ dead) \ ShellsIn(tabs')
Shown1 == {cell.sessions[cell.active]}

LEMMA CloseCellStep ==
  ASSUME Live, Len(cell.sessions) > 1, ChangeCell(CloseAt(cell, cell.active))
  PROVE  WInv' /\ Lost \subseteq Shown1
<1> DEFINE c == CloseAt(cell, cell.active)
           none == {}
<1>1. GoodCell(cell)
  BY LiveIs
<1>2. GoodCell(c) /\ ToSet(c.sessions) = ToSet(cell.sessions) \ {cell.sessions[cell.active]}
  BY <1>1, ClosedCell
<1>3. ChangeCell(c) /\ Disjoint(none, ShellsIn(tabs))
  BY DEF Disjoint
<1> HIDE DEF c, none
<1>4. ToSet(c.sessions) \subseteq ToSet(cell.sessions) \cup none
  BY <1>2
<1>5. /\ WInv'
      /\ (ShellsIn(tabs) \ ShellsIn(tabs')) \subseteq ToSet(cell.sessions) \ ToSet(c.sessions)
  BY <1>2, <1>3, <1>4, CellGood
<1> QED BY <1>2, <1>5 DEF Lost, Shown1

LEMMA ClosePaneStep ==
  ASSUME Live, Len(cell.sessions) = 1, ~IsLeaf(tab.layout.root),
         ChangeTab([layout |-> remove(tab.layout, focused),
                    cells |-> Restrict(tab.cells, DOMAIN tab.cells \ {focused})])
  PROVE  WInv' /\ Lost \subseteq Shown1
<1> DEFINE layout == remove(tab.layout, focused)
           D == DOMAIN tab.cells \ {focused}
           cells == Restrict(tab.cells, D)
           t == [layout |-> layout, cells |-> cells]
           none == {}
<1>1. /\ GoodLayout(tab.layout) /\ focused \in Ids(tab.layout.root) /\ GoodCells(tab.cells)
      /\ DOMAIN tab.cells = Ids(tab.layout.root) /\ GoodCell(cell)
      /\ ShellsOf(tab) = ShellsAt(tab.cells) /\ ShellsOf(tab) \subseteq ShellsIn(tabs)
  BY LiveIs
<1>2. ChangeTab(t) /\ Disjoint(none, ShellsIn(tabs))
  BY DEF Disjoint
<1>3. /\ GoodLayout(layout)
      /\ Ids(layout.root) = IF focused \in Ids(tab.layout.root) /\ ~IsLeaf(tab.layout.root)
                            THEN Ids(tab.layout.root) \ {focused} ELSE Ids(tab.layout.root)
  BY <1>1, RemoveGood, Zenon
<1> HIDE DEF layout
<1>4. GoodLayout(layout) /\ Ids(layout.root) = D
  BY <1>1, <1>3
<1>5. D \subseteq DOMAIN tab.cells
  OBVIOUS
<1>6. \A id \in DOMAIN tab.cells : id # focused => id \in D
  OBVIOUS
<1> HIDE DEF D
<1>7. /\ GoodCells(cells) /\ DOMAIN cells = D
      /\ ShellsAt(cells) = UNION {ToSet(tab.cells[id].sessions) : id \in D}
  BY <1>1, <1>5, RestrictedCells
<1> HIDE DEF cells
<1>8. DOMAIN cells = Ids(layout.root)
  BY <1>4, <1>7
<1>9. GoodTab(t) /\ ShellsOf(t) = ShellsAt(cells)
  BY <1>4, <1>7, <1>8, MakeTab
<1>10. ShellsAt(cells) \subseteq ShellsAt(tab.cells)
  BY <1>5, <1>7 DEF ShellsAt
<1> HIDE DEF t, none
<1>11. ShellsOf(t) \subseteq ShellsOf(tab) \cup none
  BY <1>1, <1>9, <1>10
<1>12. WInv' /\ (ShellsIn(tabs) \ ShellsIn(tabs')) \subseteq ShellsOf(tab) \ ShellsOf(t)
  BY <1>2, <1>9, <1>11, ChangeKeeps
<1>13. ShellsOf(tab) \ ShellsOf(t) \subseteq ToSet(cell.sessions)
  <2> SUFFICES ASSUME NEW x \in ShellsOf(tab), x \notin ShellsOf(t) PROVE x \in ToSet(cell.sessions)
    OBVIOUS
  <2>1. PICK id \in DOMAIN tab.cells : x \in ToSet(tab.cells[id].sessions)
    BY <1>1 DEF ShellsAt
  <2>2. id \notin D
    BY <1>7, <1>9, <2>1
  <2>3. id = focused
    BY <1>6, <2>1, <2>2
  <2> QED BY <2>1, <2>3 DEF cell
<1>14. ToSet(cell.sessions) = Shown1
  BY <1>1, OneSession DEF Shown1
<1> QED BY <1>12, <1>13, <1>14 DEF Lost

LEMMA CloseTabStep ==
  ASSUME Live, Len(cell.sessions) = 1, IsLeaf(tab.layout.root), Len(tabs) > 1,
         Window(RemoveAt(tabs, active), Min({active, Len(tabs) - 1}))
  PROVE  WInv' /\ Lost \subseteq Shown1
<1> DEFINE new == RemoveAt(tabs, active)
           n == Len(tabs)
           m == n - 1
           at == Min({active, m})
<1>1. GoodTabs(tabs) /\ active \in 1 .. n /\ GoodCell(cell) /\ active \in Nat /\ active >= 1
  BY LiveIs
<1>2. n \in Nat
  BY <1>1, TabsAre
<1>3. /\ GoodTabs(new) /\ Len(new) = m
      /\ ShellsIn(new) = ShellsIn(tabs) \ ShellsOf(tabs[active])
  BY <1>1, RemoveTab
<1>4. m \in Int /\ m >= 1
  BY <1>2
<1>5. Window(new, at)
  OBVIOUS
<1> HIDE DEF new, m
<1>11. active \in Int
  BY <1>1
<1>6. at = IF active <= m THEN active ELSE m
  BY <1>4, <1>11, MaxTwo, Zenon
<1>7. at \in Nat /\ at >= 1 /\ at <= Len(new)
  BY <1>1, <1>3, <1>4, <1>6
<1> HIDE DEF at
<1>8. WInv /\ open
  BY DEF Live
<1>9. WInv' /\ tabs' = new
  BY <1>3, <1>5, <1>7, <1>8, WindowGood
<1>10. ShellsOf(tab) = ToSet(cell.sessions) /\ ToSet(cell.sessions) = Shown1
  BY <1>1, LonePane, OneSession DEF Shown1
<1> QED BY <1>3, <1>9, <1>10 DEF Lost, tab

LEMMA CloseWindowStep ==
  ASSUME Live, Len(cell.sessions) = 1, IsLeaf(tab.layout.root), Len(tabs) <= 1,
         Exit, UNCHANGED <<files, scene>>
  PROVE  WInv' /\ Lost \subseteq Shown1
<1>1. GoodTabs(tabs) /\ active \in 1 .. Len(tabs) /\ GoodCell(cell) /\ GoodFiles(files)
  BY LiveIs
<1>2. WInv'
  <2>1. GoodFiles(files') /\ WInv
    BY <1>1 DEF Live
  <2> QED BY <2>1, ExitGood
<1>3. ShellsIn(tabs) = ShellsOf(tab)
  <2>1. Len(tabs) \in Nat /\ DOMAIN tabs = 1 .. Len(tabs)
    BY <1>1, TabsAre
  <2>2. DOMAIN tabs = {active}
    BY <1>1, <2>1
  <2> QED BY <2>2 DEF ShellsIn, tab
<1>4. ShellsOf(tab) = ToSet(cell.sessions) /\ ToSet(cell.sessions) = Shown1
  BY <1>1, LonePane, OneSession DEF Shown1
<1> QED BY <1>2, <1>3, <1>4 DEF Lost

LEMMA CloseStep ==
  ASSUME WInv, close_active_tab
  PROVE  WInv' /\ Lost \subseteq Shown1
<1>1. Live
  BY CanIs DEF close_active_tab
<1> DEFINE k == Len(cell.sessions)
           n == Len(tabs)
           c1 == k > 1
           c2 == k = 1 /\ ~IsLeaf(tab.layout.root)
           c3 == k = 1 /\ IsLeaf(tab.layout.root) /\ n > 1
<1>2. k \in Nat /\ k >= 1 /\ n \in Nat
  BY <1>1, LiveIs, CellIs, TabsAre
<1>3. CASE c1
  <2>1. k # 1
    <3> HIDE DEF k
    <3> QED BY <1>2, <1>3
  <2>2. ChangeCell(CloseAt(cell, cell.active))
    BY <1>3, <2>1 DEF close_active_tab
  <2> QED BY <1>1, <1>3, <2>2, CloseCellStep
<1>4. CASE c2
  <2>1. ~c1
    <3> HIDE DEF k
    <3> QED BY <1>2, <1>4
  <2>2. ChangeTab([layout |-> remove(tab.layout, focused),
                   cells |-> Restrict(tab.cells, DOMAIN tab.cells \ {focused})])
    BY <1>4, <2>1 DEF close_active_tab
  <2> QED BY <1>1, <1>4, <2>2, ClosePaneStep
<1>5. CASE c3
  <2>1. ~c1
    <3> HIDE DEF k, n
    <3> QED BY <1>2, <1>5
  <2>2. Window(RemoveAt(tabs, active), Min({active, Len(tabs) - 1}))
    BY <1>5, <2>1 DEF close_active_tab
  <2> QED BY <1>1, <1>5, <2>2, CloseTabStep
<1>6. CASE ~c1 /\ ~c2 /\ ~c3
  <2>1. Exit /\ UNCHANGED <<files, scene>>
    BY <1>6 DEF close_active_tab
  <2>2. k = 1 /\ IsLeaf(tab.layout.root) /\ n <= 1
    <3>1. k = 1
      <4> HIDE DEF k
      <4> QED BY <1>2, <1>6
    <3>2. IsLeaf(tab.layout.root)
      BY <1>6, <3>1
    <3>3. ~(n > 1)
      BY <1>6, <3>1, <3>2
    <3>4. n <= 1
      <4> HIDE DEF n
      <4> QED BY <1>2, <3>3
    <3> QED BY <3>1, <3>2, <3>4
  <2> QED BY <1>1, <2>1, <2>2, CloseWindowStep
<1> QED BY <1>3, <1>4, <1>5, <1>6

LEMMA FailsIn ==
  ASSUME NEW S, NEW failed \in Fails(S)
  PROVE  failed \subseteq S
BY DEF Fails

(* A cell of one shell for each pane.                                      *)
OneEach(D, x) ==
  /\ \A id \in D : x[id] \in Shells
  /\ \A a, b \in D : x[a] = x[b] => a = b
LEMMA SinglesGood ==
  ASSUME NEW D, NEW x, OneEach(D, x), NEW cells, cells = [id \in D |-> Single(x[id])]
  PROVE  GoodCells(cells) /\ DOMAIN cells = D /\ ShellsAt(cells) = {x[id] : id \in D}
<1>1. DOMAIN cells = D /\ cells = [id \in DOMAIN cells |-> cells[id]] /\ \A id \in D : cells[id] = Single(x[id])
  OBVIOUS
<1>2. (\A id \in D : x[id] \in Shells) /\ \A a, b \in D : x[a] = x[b] => a = b
  BY DEF OneEach
<1>3. \A id \in D : GoodCell(cells[id]) /\ ToSet(cells[id].sessions) = {x[id]}
  <2> SUFFICES ASSUME NEW id \in D PROVE GoodCell(cells[id]) /\ ToSet(cells[id].sessions) = {x[id]}
    OBVIOUS
  <2>1. x[id] \in Shells /\ cells[id] = Single(x[id])
    BY <1>1, <1>2
  <2> QED BY <2>1, SingleGood
<1>4. CellsApart(cells)
  BY <1>1, <1>2, <1>3 DEF CellsApart, Disjoint
<1>5. GoodCells(cells)
  BY <1>1, <1>3, <1>4 DEF GoodCells
<1>6. ShellsAt(cells) = {x[id] : id \in D}
  BY <1>1, <1>3 DEF ShellsAt
<1> QED BY <1>1, <1>5, <1>6

LEMMA PresetStep ==
  ASSUME WInv, NEW p \in scene.presets, apply_preset(p)
  PROVE  WInv' /\ Lost \subseteq ShellsOf(tab) \ Shown1
<1> DEFINE layout == from_preset(p.axis, p.counts)
           n == Len(leaves(layout))
           first == cell.sessions[cell.active]
           places == 1 .. n - 1
           sp == Spawned(places, Free)
           x == [id \in 0 .. n - 1 |-> IF id = 0 THEN first ELSE sp[id]]
<1>1. Live /\ Cardinality(Free) >= n - 1
  BY CanIs DEF apply_preset
<1>2. PICK failed \in Fails(places) :
        ChangeTab([layout |-> Without(layout, failed),
                   cells |-> [id \in (0 .. n - 1) \ failed |-> Single(IF id = 0 THEN first ELSE sp[id])]])
  BY Zenon DEF apply_preset
<1> DEFINE D == (0 .. n - 1) \ failed
           w == Without(layout, failed)
           cells == [id \in D |-> Single(IF id = 0 THEN first ELSE sp[id])]
           t == [layout |-> w, cells |-> cells]
           y == [id \in D |-> IF id = 0 THEN first ELSE sp[id]]
           one == [id \in D |-> Single(y[id])]
<1>3. /\ scene \in Scenes /\ GoodCell(cell) /\ ToSet(cell.sessions) \subseteq ShellsOf(tab)
      /\ ShellsOf(tab) \subseteq ShellsIn(tabs)
  BY <1>1, LiveIs
<1>4. Preset(p.axis, p.counts)
  BY <1>3, PresetIs
<1>5. /\ GoodLayout(layout) /\ Ids(layout.root) = 0 .. Total(p.counts) - 1
      /\ Total(p.counts) \in Nat \ {0}
  BY <1>4, PresetGood
<1>6. n = Cardinality(Ids(layout.root)) /\ n \in Nat /\ n >= 1
  BY <1>5, GoodIs
<1>7. n = Total(p.counts)
  <2> DEFINE total == Total(p.counts)
             hi == total - 1
  <2>1. total \in Nat \ {0} /\ n = Cardinality(0 .. hi)
    BY <1>5, <1>6
  <2> HIDE DEF n, total
  <2>2. hi \in Int
    BY <2>1
  <2>3. Cardinality(0 .. hi) = IF 0 > hi THEN 0 ELSE hi - 0 + 1
    <3> HIDE DEF hi
    <3> QED BY <2>2, FS_Interval
  <2>4. n = total
    BY <2>1, <2>3
  <2> QED BY <2>4 DEF total
<1>8. Ids(layout.root) = 0 .. n - 1 /\ first \in ToSet(cell.sessions) /\ ToSet(cell.sessions) \subseteq Shells
  BY <1>3, <1>5, <1>7, CellIs
<1>9. failed \subseteq places
  <2> HIDE DEF places
  <2> QED BY FailsIn
<1>10. sp \in [places -> Free] /\ IsInjective(sp)
  <2> DEFINE m == n - 1
  <2>1. m \in Int /\ m >= 0
    BY <1>6
  <2>2. IsFiniteSet(1 .. m) /\ Cardinality(1 .. m) = IF 1 > m THEN 0 ELSE m - 1 + 1
    <3> HIDE DEF m
    <3> QED BY <2>1, FS_Interval
  <2>3. Cardinality(1 .. m) = m /\ m <= Cardinality(Free)
    <3>1. m <= Cardinality(Free)
      BY <1>1, FreeIs, <1>3, FS_CardinalityType, <1>6
    <3> HIDE DEF m
    <3> QED BY <2>1, <2>2, <3>1
  <2>4. places = 1 .. m /\ IsFiniteSet(Free)
    BY <1>3, FreeIs
  <2>5. IsFiniteSet(places) /\ Cardinality(places) <= Cardinality(Free)
    BY <2>2, <2>3, <2>4
  <2> HIDE DEF places, m
  <2> QED BY <2>4, <2>5, SpawnedIs, Zenon
<1>11. /\ 0 \in D /\ \A id \in D : id # 0 => id \in places
  BY <1>6, <1>9
<1>12. \A id \in places : sp[id] \in Free
  <2> HIDE DEF sp, places
  <2> QED BY <1>10
<1>13. \A a, b \in places : sp[a] = sp[b] => a = b
  <2> HIDE DEF places
  <2>1. DOMAIN sp = places
    <3> HIDE DEF sp
    <3> QED BY <1>10
  <2> HIDE DEF sp
  <2> QED BY <1>10, <2>1 DEF IsInjective
<1>14. Free \subseteq Shells /\ Disjoint(Free, ShellsIn(tabs)) /\ first \in ShellsIn(tabs) /\ first \in Shells
  BY <1>3, <1>8, FreeIs
<1>15. \A id \in D : y[id] = IF id = 0 THEN first ELSE sp[id]
  OBVIOUS
<1>16. D \subseteq Ids(layout.root) /\ D = Ids(layout.root) \ failed
  BY <1>8
<1>17. ChangeTab(t)
  BY <1>2
<1>18. cells = one
  OBVIOUS
<1> HIDE DEF layout, n, first, sp, D, y, w, places
<1>19. OneEach(D, y)
  <2>1. ASSUME NEW id \in D PROVE y[id] \in Shells
    BY <1>11, <1>12, <1>14, <1>15
  <2>2. ASSUME NEW a \in D, NEW b \in D, y[a] = y[b] PROVE a = b
    <3>1. CASE a = 0 /\ b # 0
      BY <1>11, <1>12, <1>14, <1>15, <2>2, <3>1 DEF Disjoint
    <3>2. CASE a # 0 /\ b = 0
      BY <1>11, <1>12, <1>14, <1>15, <2>2, <3>2 DEF Disjoint
    <3>3. CASE a # 0 /\ b # 0
      BY <1>11, <1>13, <1>15, <2>2, <3>3
    <3> QED BY <3>1, <3>2, <3>3
  <2> QED BY <2>1, <2>2 DEF OneEach
<1>20. GoodCells(one) /\ DOMAIN one = D /\ ShellsAt(one) = {y[id] : id \in D}
  BY <1>19, SinglesGood
<1>21. GoodCells(cells) /\ DOMAIN cells = D /\ ShellsAt(cells) = {y[id] : id \in D}
  BY <1>18, <1>20
<1> HIDE DEF cells
<1>22. GoodLayout(w) /\ Ids(w.root) = D
  <2> DEFINE kept == 0
  <2>1. kept \in Ids(layout.root) /\ kept \notin failed
    BY <1>11, <1>16
  <2> HIDE DEF kept
  <2> QED BY <1>5, <1>16, <2>1, WithoutGood, Zenon DEF w
<1>23. DOMAIN cells = Ids(w.root)
  BY <1>21, <1>22
<1>24. GoodTab(t) /\ ShellsOf(t) = ShellsAt(cells)
  BY <1>21, <1>22, <1>23, MakeTab
<1> HIDE DEF t
<1>25. ShellsOf(t) = {y[id] : id \in D}
  BY <1>21, <1>24
<1>26. first \in ShellsOf(t)
  BY <1>11, <1>15, <1>25
<1>27. ShellsOf(t) \subseteq ShellsOf(tab) \cup Free
  BY <1>3, <1>8, <1>11, <1>12, <1>15, <1>25
<1>28. WInv' /\ (ShellsIn(tabs) \ ShellsIn(tabs')) \subseteq ShellsOf(tab) \ ShellsOf(t)
  BY <1>1, <1>14, <1>17, <1>24, <1>27, ChangeKeeps
<1>29. Shown1 = {first}
  BY DEF Shown1, first
<1> QED BY <1>26, <1>28, <1>29 DEF Lost

(* A tab built for a layout, with a shell for each pane but the failed.    *)
LEMMA PanesAre ==
  ASSUME NEW l, GoodLayout(l)
  PROVE  /\ Panes(l) = Ids(l.root) /\ IsFiniteSet(Panes(l)) /\ Panes(l) # {}
         /\ Cardinality(Panes(l)) = Len(leaves(l))
<1>1. Panes(l) = Ids(l.root) /\ Sound(l.root) /\ Len(leaves(l)) = Cardinality(Ids(l.root))
  BY GoodIs DEF Panes
<1>2. IsFiniteSet(Ids(l.root)) /\ Ids(l.root) # {}
  BY <1>1, SoundCount, IdsNat DEF Sound
<1> QED BY <1>1, <1>2

LEMMA BuildGood ==
  ASSUME NEW l, GoodLayout(l), NEW x, OneEach(Panes(l), x), NEW failed
  PROVE  LET t == build_tab(l, x, failed)
         IN  /\ DOMAIN t.cells = Panes(l) \ failed
             /\ ShellsOf(t) = {x[id] : id \in Panes(l) \ failed}
             /\ Panes(l) \ failed # {} => GoodTab(t)
<1> DEFINE D == Panes(l) \ failed
           w == Without(l, failed)
           cells == [id \in D |-> Single(x[id])]
           t == [layout |-> w, cells |-> cells]
<1>1. build_tab(l, x, failed) = t
  BY DEF build_tab
<1>2. OneEach(D, x)
  BY DEF OneEach
<1>3. Panes(l) = Ids(l.root)
  BY PanesAre
<1>4. D \subseteq Panes(l) /\ D = Panes(l) \ failed
  OBVIOUS
<1> HIDE DEF D
<1>5. GoodCells(cells) /\ DOMAIN cells = D /\ ShellsAt(cells) = {x[id] : id \in D}
  BY <1>2, SinglesGood
<1> HIDE DEF cells, w
<1>6. t.cells = cells /\ ShellsOf(t) = ShellsAt(cells)
  BY DEF ShellsOf, ShellsAt
<1>7. ASSUME D # {} PROVE GoodTab(t)
  <2>1. PICK kept \in D : TRUE
    BY <1>7
  <2>2. kept \in Ids(l.root) /\ kept \notin failed
    BY <1>3, <1>4, <2>1
  <2>3. GoodLayout(w) /\ Ids(w.root) = Ids(l.root) \ failed
    BY <2>2, WithoutGood DEF w
  <2>4. DOMAIN cells = Ids(w.root)
    BY <1>3, <1>4, <1>5, <2>3
  <2> QED BY <1>5, <2>3, <2>4, MakeTab
<1> HIDE DEF t
<1>8. DOMAIN t.cells = D /\ ShellsOf(t) = {x[id] : id \in D}
  BY <1>5, <1>6
<1> QED BY <1>1, <1>4, <1>7, <1>8

LEMMA SpawnedEach ==
  ASSUME NEW places, NEW from, IsFiniteSet(places), IsFiniteSet(from), from \subseteq Shells,
         Cardinality(places) <= Cardinality(from)
  PROVE  OneEach(places, Spawned(places, from)) /\ \A x \in places : Spawned(places, from)[x] \in from
<1> DEFINE f == Spawned(places, from)
<1>1. f \in [places -> from] /\ IsInjective(f)
  BY SpawnedIs
<1> HIDE DEF f
<1>2. DOMAIN f = places /\ \A x \in places : f[x] \in from
  BY <1>1
<1>3. OneEach(places, f)
  BY <1>1, <1>2 DEF OneEach, IsInjective
<1> QED BY <1>2, <1>3 DEF f

LEMMA FileIs ==
  ASSUME NEW f, GoodFile(f), f.kind \in {"one", "all"}
  PROVE  /\ f.tabs \in Seq(Snapshots) /\ f.tabs # <<>> /\ Len(f.tabs) \in Nat /\ Len(f.tabs) >= 1
         /\ DOMAIN f.tabs = 1 .. Len(f.tabs) /\ (\A i \in 1 .. Len(f.tabs) : GoodSnapshot(f.tabs[i]))
         /\ f.active \in Nat /\ f.active >= 1
<1>1. ~(f.kind \in {"absent", "corrupt"})
  OBVIOUS
<1>2. f.tabs \in Seq(Snapshots) /\ f.tabs # <<>> /\ f.active \in Nat /\ f.active >= 1
  BY <1>1 DEF GoodFile
<1>3. \A i \in 1 .. Len(f.tabs) : GoodSnapshot(f.tabs[i])
  BY <1>1 DEF GoodFile
<1>4. Len(f.tabs) \in Nat /\ Len(f.tabs) >= 1 /\ DOMAIN f.tabs = 1 .. Len(f.tabs)
  BY <1>2
<1> QED BY <1>2, <1>3, <1>4

LEMMA RestoreStep ==
  ASSUME WInv, NEW name, restore_workspace(name)
  PROVE  WInv' /\ Lost \subseteq ShellsOf(tab)
<1> DEFINE file == files[name]
           layout == IF file.kind = "one" THEN RestoredLayout(file.tabs[1]) ELSE SinglePane
           n == Len(leaves(layout))
           places == Panes(layout)
           x == Spawned(places, Free)
<1>1. Live /\ name \in DOMAIN files /\ Cardinality(Free) >= n
  BY CanIs DEF restore_workspace
<1>2. PICK failed \in Fails(places) : failed # places /\ ChangeTab(build_tab(layout, x, failed))
  BY DEF restore_workspace
<1> DEFINE t == build_tab(layout, x, failed)
<1>3. scene \in Scenes /\ ShellsOf(tab) \subseteq ShellsIn(tabs) /\ GoodFiles(files)
  BY <1>1, LiveIs
<1>4. IsFiniteSet(Free) /\ Free \subseteq Shells /\ Disjoint(Free, ShellsIn(tabs))
  BY <1>3, FreeIs
<1>5. GoodLayout(layout)
  <2>1. CASE file.kind = "one"
    <3>1. DOMAIN files = Files
      BY <1>3 DEF GoodFiles
    <3>2. GoodFile(file)
      BY <1>1, <1>3, <3>1 DEF GoodFiles
    <3> HIDE DEF file
    <3>3. file.kind \in {"one", "all"}
      BY <2>1
    <3>4. 1 \in 1 .. Len(file.tabs) /\ \A i \in 1 .. Len(file.tabs) : GoodSnapshot(file.tabs[i])
      BY <3>2, <3>3, FileIs
    <3> DEFINE s == file.tabs[1]
    <3>5. GoodSnapshot(s)
      BY <3>4
    <3> HIDE DEF s
    <3>6. GoodLayout(RestoredLayout(s))
      BY <3>5, RestoredGood
    <3> QED BY <2>1, <3>6 DEF s
  <2>2. CASE file.kind # "one"
    BY <2>2, SinglePaneGood
  <2> QED BY <2>1, <2>2
<1> HIDE DEF layout
<1>6. IsFiniteSet(places) /\ Cardinality(places) = n
  BY <1>5, PanesAre
<1>7. Cardinality(places) \in Int /\ Cardinality(Free) \in Int
  BY <1>4, <1>6, FS_CardinalityType
<1>8. Cardinality(places) <= Cardinality(Free)
  BY <1>1, <1>6, <1>7
<1>9. failed \subseteq places
  <2> HIDE DEF places
  <2> QED BY FailsIn
<1>10. places \ failed # {}
  BY <1>2, <1>9, Zenon
<1>11. OneEach(places, x) /\ \A id \in places : x[id] \in Free
  <2> HIDE DEF places
  <2> QED BY <1>4, <1>6, <1>8, SpawnedEach
<1> HIDE DEF x
<1>12. GoodTab(t) /\ ShellsOf(t) = {x[id] : id \in places \ failed}
  BY <1>5, <1>10, <1>11, BuildGood
<1>13. ChangeTab(t)
  BY <1>2
<1> HIDE DEF t, places
<1>14. ShellsOf(t) \subseteq ShellsOf(tab) \cup Free
  BY <1>11, <1>12
<1>15. WInv' /\ (ShellsIn(tabs) \ ShellsIn(tabs')) \subseteq ShellsOf(tab) \ ShellsOf(t)
  BY <1>1, <1>4, <1>12, <1>13, <1>14, ChangeKeeps
<1> QED BY <1>15 DEF Lost

(* The steps that leave the tabs as they are.                              *)
LEMMA SameTabs ==
  ASSUME WInv, tabs' = tabs, active' = active, open' = open, scene' = scene,
         dead' \subseteq ShellsIn(tabs), GoodFiles(files')
  PROVE  WInv' /\ Keeps
<1>1. GoodTabs(tabs') /\ scene' \in Scenes /\ dead' \subseteq ShellsIn(tabs')
  BY DEF WInv
<1>2. WInv'
  BY <1>1 DEF WInv
<1> QED BY <1>2 DEF Keeps

LEMMA DragSteps ==
  ASSUME WInv, (\E leaf \in 0 .. scene.ids : Press(leaf)) \/ cursor_moved \/ cancel
  PROVE  WInv' /\ Keeps
<1>1. /\ tabs' = tabs /\ active' = active /\ open' = open /\ scene' = scene /\ dead' = dead
      /\ files' = files
  BY DEF Press, cursor_moved, cancel
<1>2. dead' \subseteq ShellsIn(tabs) /\ GoodFiles(files')
  BY <1>1 DEF WInv
<1> QED BY <1>1, <1>2, SameTabs

LEMMA ExitsStep ==
  ASSUME WInv, NEW shell, ShellExits(shell)
  PROVE  WInv' /\ Keeps
<1>1. /\ tabs' = tabs /\ active' = active /\ open' = open /\ scene' = scene
      /\ dead' = dead \cup {shell} /\ shell \in ShellsIn(tabs) /\ files' = files
  BY DEF ShellExits
<1>2. dead' \subseteq ShellsIn(tabs) /\ GoodFiles(files')
  BY <1>1 DEF WInv
<1> QED BY <1>1, <1>2, SameTabs

LEMMA PutFile ==
  ASSUME NEW fs, GoodFiles(fs), NEW name, NEW f, GoodFile(f)
  PROVE  GoodFiles([fs EXCEPT ![name] = f])
BY DEF GoodFiles

LEMMA SaveStep ==
  ASSUME WInv, NEW name, save_workspace(name)
  PROVE  WInv' /\ Keeps
<1> DEFINE c == Capture(tab.layout)
           f == [kind |-> "one", tabs |-> <<c>>, active |-> 1]
<1>1. /\ Live /\ files' = [files EXCEPT ![name] = f]
      /\ tabs' = tabs /\ active' = active /\ open' = open /\ scene' = scene /\ dead' = dead
  BY CanIs DEF save_workspace
<1>2. GoodLayout(tab.layout) /\ GoodFiles(files)
  BY <1>1, LiveIs
<1>3. GoodSnapshot(c)
  BY <1>2, CaptureGood
<1> HIDE DEF c
<1>4. GoodFile(f)
  <2>1. c \in Snapshots
    BY <1>3 DEF GoodSnapshot
  <2> DEFINE one == <<c>>
  <2>2. one \in Seq(Snapshots) /\ one # <<>> /\ Len(one) = 1 /\ one[1] = c
    BY <2>1
  <2>3. f.tabs = one /\ f.kind = "one" /\ f.active = 1
    OBVIOUS
  <2> HIDE DEF one, f
  <2>4. \A i \in 1 .. Len(one) : GoodSnapshot(one[i])
    BY <1>3, <2>2
  <2>5. f.kind \in {"one", "all"} /\ f.active \in Nat /\ f.active >= 1
    BY <2>3
  <2>6. f.tabs \in Seq(Snapshots) /\ f.tabs # <<>> /\ \A i \in 1 .. Len(f.tabs) : GoodSnapshot(f.tabs[i])
    BY <2>2, <2>3, <2>4, Zenon
  <2> QED BY <2>5, <2>6 DEF GoodFile
<1> HIDE DEF f
<1>5. GoodFiles(files')
  BY <1>1, <1>2, <1>4, PutFile, Zenon
<1>6. dead' \subseteq ShellsIn(tabs)
  BY <1>1 DEF WInv
<1> QED BY <1>1, <1>5, <1>6, SameTabs

(* The gesture is over when the drop is resolved.                          *)
LEMMA ReleaseStep ==
  ASSUME WInv, NEW under, NEW zone, Release(under, zone)
  PROVE  WInv' /\ Keeps
<1>1. tabs # <<>>
  BY DEF Release
<1>2. Live
  BY <1>1 DEF Live, WInv
<1>3. CASE drag.state = "Dragging"
  <2>1. Window([tabs EXCEPT ![active] = resolve_drop(@, drag.leaf, drag', under, zone)], active)
    BY <1>3 DEF Release
  <2>2. resolve_drop(tabs[active], drag.leaf, drag', under, zone) = tabs[active]
    <3>1. drag' = Idle
      BY <1>3 DEF Release
    <3>2. drag_target(Idle, under) = None
      BY DEF drag_target, Idle
    <3> QED BY <3>1, <3>2 DEF resolve_drop
  <2>3. GoodTabs(tabs) /\ active \in 1 .. Len(tabs) /\ active \in Nat /\ active >= 1
    BY <1>2, LiveIs
  <2>4. [tabs EXCEPT ![active] = tabs[active]] = tabs
    BY <2>3, TabsAre
  <2>5. Window(tabs, active)
    BY <2>1, <2>2, <2>4
  <2>6. active <= Len(tabs) /\ open
    BY <1>2, <2>3 DEF Live, WInv
  <2>7. WInv' /\ tabs' = tabs
    BY <2>3, <2>5, <2>6, WindowGood
  <2> QED BY <2>7 DEF Keeps
<1>4. CASE drag.state # "Dragging"
  <2>1. /\ tabs' = tabs /\ active' = active /\ open' = open /\ scene' = scene /\ dead' = dead
        /\ files' = files
    BY <1>4 DEF Release
  <2>2. dead' \subseteq ShellsIn(tabs) /\ GoodFiles(files')
    BY <2>1 DEF WInv
  <2> QED BY <2>1, <2>2, SameTabs
<1> QED BY <1>3, <1>4

LEMMA ReapStep ==
  ASSUME WInv, reap_dead_panes
  PROVE  WInv' /\ Keeps
<1> DEFINE n == Len(tabs)
           r == [i \in DOMAIN tabs |-> ReapedTab(tabs[i])]
           new == WithPanes(r)
<1>1. /\ tabs' = new /\ dead' = dead \cap ShellsIn(tabs') /\ open' = (tabs' # <<>>)
      /\ active' = Max({1, Min({active, Len(tabs')})}) /\ files' = files /\ scene' = scene
  BY DEF reap_dead_panes
<1>2. /\ GoodTabs(tabs) /\ active \in Nat /\ active >= 1 /\ scene \in Scenes /\ GoodFiles(files)
  BY DEF WInv
<1>3. /\ n \in Nat /\ DOMAIN tabs = 1 .. n
      /\ \A i \in 1 .. n : GoodTab(tabs[i])
      /\ \A i, j \in 1 .. n : i # j => Disjoint(ShellsOf(tabs[i]), ShellsOf(tabs[j]))
  BY <1>2, TabsAre
<1>4. Len(r) = n /\ DOMAIN r = 1 .. n
  <2> DEFINE S == {ReapedTab(tabs[i]) : i \in 1 .. n}
  <2>1. r \in [1 .. n -> S]
    BY <1>3
  <2> HIDE DEF S, r, n
  <2> QED BY <1>3, <2>1, AsSeq
<1>5. \A i \in 1 .. n : r[i] = ReapedTab(tabs[i])
  BY <1>3
<1> HIDE DEF r, n
<1>6. \A i \in 1 .. n : (DOMAIN r[i].cells # {} => GoodTab(r[i])) /\ ShellsOf(r[i]) = ShellsOf(tabs[i]) \ dead
  <2> SUFFICES ASSUME NEW i \in 1 .. n
               PROVE  (DOMAIN r[i].cells # {} => GoodTab(r[i])) /\ ShellsOf(r[i]) = ShellsOf(tabs[i]) \ dead
    OBVIOUS
  <2>1. GoodTab(tabs[i]) /\ r[i] = ReapedTab(tabs[i])
    BY <1>3, <1>5
  <2> QED BY <2>1, ReapedTabIs
<1>7. LooseTabs(r)
  <2>1. \A i, j \in 1 .. n : i # j => Disjoint(ShellsOf(r[i]), ShellsOf(r[j]))
    BY <1>3, <1>6 DEF Disjoint
  <2> QED BY <1>3, <1>4, <1>6, <2>1 DEF LooseTabs
<1>8. ShellsIn(r) = ShellsIn(tabs) \ dead
  <2>1. ASSUME NEW x \in ShellsIn(r) PROVE x \in ShellsIn(tabs) \ dead
    <3>1. PICK i \in 1 .. n : x \in ShellsOf(r[i])
      BY <1>4 DEF ShellsIn
    <3> QED BY <1>3, <1>6, <3>1 DEF ShellsIn
  <2>2. ASSUME NEW x \in ShellsIn(tabs), x \notin dead PROVE x \in ShellsIn(r)
    <3>1. PICK i \in 1 .. n : x \in ShellsOf(tabs[i])
      BY <1>3 DEF ShellsIn
    <3> QED BY <1>4, <1>6, <2>2, <3>1 DEF ShellsIn
  <2> QED BY <2>1, <2>2
<1>9. GoodTabs(new) /\ ShellsIn(new) = ShellsIn(r)
  BY <1>7, WithPanesGood
<1> HIDE DEF new
<1>10. GoodTabs(tabs') /\ ShellsIn(tabs') = ShellsIn(tabs) \ dead
  BY <1>1, <1>8, <1>9
<1>11. Len(new) \in Nat /\ (new # <<>> => Len(new) >= 1)
  <2>1. new \in Seq(TabRecs)
    BY <1>9, TabsAre
  <2> HIDE DEF GoodTabs
  <2> QED BY <2>1
<1> DEFINE m == Len(new)
           least == Min({active, m})
<1>12. active' = Max({1, least})
  BY <1>1
<1>13. least = IF active <= m THEN active ELSE m
  <2>1. active \in Int /\ m \in Int
    BY <1>2, <1>11
  <2> HIDE DEF m
  <2> QED BY <2>1, MaxTwo
<1>14. least \in Int
  <2> HIDE DEF least, m
  <2>1. active \in Int /\ m \in Int
    BY <1>2, <1>11 DEF m
  <2> QED BY <1>13, <2>1
<1>15. active' = IF 1 >= least THEN 1 ELSE least
  <2> HIDE DEF least
  <2> QED BY <1>12, <1>14, MaxTwo
<1>16. active' \in Nat /\ active' >= 1
  <2> HIDE DEF least
  <2> QED BY <1>14, <1>15
<1>17. new # <<>> => active' <= m
  <2>1. m \in Nat /\ (new # <<>> => m >= 1)
    BY <1>11
  <2> HIDE DEF least, m
  <2> QED BY <1>2, <1>13, <1>14, <1>15, <2>1
<1>18. tabs' # <<>> => active' <= Len(tabs')
  BY <1>1, <1>17
<1>19. open' \in BOOLEAN /\ (~open' => tabs' = <<>>) /\ dead' \subseteq ShellsIn(tabs')
  BY <1>1, Zenon
<1>20. GoodFiles(files') /\ scene' \in Scenes
  BY <1>1, <1>2
<1>21. WInv'
  BY <1>10, <1>16, <1>18, <1>19, <1>20 DEF WInv
<1> QED BY <1>10, <1>21 DEF Keeps

(* Leaving.                                                                *)
LEMMA CaptureTabs ==
  ASSUME WInv
  PROVE  GoodFile(capture_workspace)
<1> DEFINE single == <<Capture(SinglePane)>>
           all == [i \in DOMAIN tabs |-> Capture(tabs[i].layout)]
           ts == IF tabs = <<>> THEN single ELSE all
           f == capture_workspace
<1>1. f.kind = "all" /\ f.tabs = ts /\ f.active = active
  BY DEF capture_workspace
<1>2. GoodTabs(tabs) /\ active \in Nat /\ active >= 1
  BY DEF WInv
<1>3. single \in Seq(Snapshots) /\ single # <<>> /\ \A i \in 1 .. Len(single) : GoodSnapshot(single[i])
  <2> DEFINE c == Capture(SinglePane)
  <2>1. GoodSnapshot(c)
    BY SinglePaneGood, CaptureGood
  <2> HIDE DEF c
  <2>2. c \in Snapshots
    BY <2>1 DEF GoodSnapshot
  <2> DEFINE one == <<c>>
  <2>3. one \in Seq(Snapshots) /\ one # <<>> /\ Len(one) = 1 /\ one[1] = c
    BY <2>2
  <2> HIDE DEF one
  <2>4. \A i \in 1 .. Len(one) : GoodSnapshot(one[i])
    BY <2>1, <2>3
  <2> QED BY <2>3, <2>4 DEF one, c
<1>4. ASSUME tabs # <<>>
      PROVE  all \in Seq(Snapshots) /\ all # <<>> /\ \A i \in 1 .. Len(all) : GoodSnapshot(all[i])
  <2> DEFINE n == Len(tabs)
  <2>1. tabs \in Seq(TabRecs) /\ n \in Nat /\ DOMAIN tabs = 1 .. n /\ \A i \in 1 .. n : GoodTab(tabs[i])
    BY <1>2, TabsAre
  <2>2. n >= 1
    BY <1>4, <2>1
  <2>3. \A i \in 1 .. n : all[i] = Capture(tabs[i].layout)
    BY <2>1
  <2>4. \A i \in 1 .. n : GoodSnapshot(all[i])
    <3> HIDE DEF all, n
    <3> SUFFICES ASSUME NEW i \in 1 .. n PROVE GoodSnapshot(all[i])
      OBVIOUS
    <3>1. GoodLayout(tabs[i].layout) /\ all[i] = Capture(tabs[i].layout)
      BY <2>1, <2>3, TabIs
    <3> QED BY <3>1, CaptureGood
  <2>5. all \in [1 .. n -> Snapshots]
    BY <2>1, <2>4 DEF GoodSnapshot
  <2> HIDE DEF all, n
  <2>6. all \in Seq(Snapshots) /\ Len(all) = n
    BY <2>1, <2>5, AsSeq
  <2>7. all # <<>>
    BY <2>2, <2>6
  <2> QED BY <2>4, <2>6, <2>7
<1> HIDE DEF single, all
<1>5. ts \in Seq(Snapshots) /\ ts # <<>> /\ \A i \in 1 .. Len(ts) : GoodSnapshot(ts[i])
  <2>1. CASE tabs = <<>>
    BY <1>3, <2>1
  <2>2. CASE tabs # <<>>
    BY <1>4, <2>2
  <2> QED BY <2>1, <2>2
<1> HIDE DEF ts, f
<1>6. f.kind \in {"one", "all"} /\ f.active \in Nat /\ f.active >= 1
  BY <1>1, <1>2
<1>7. f.tabs \in Seq(Snapshots) /\ f.tabs # <<>> /\ \A i \in 1 .. Len(f.tabs) : GoodSnapshot(f.tabs[i])
  BY <1>1, <1>5
<1>8. GoodFile(f)
  BY <1>6, <1>7 DEF GoodFile
<1> QED BY <1>8 DEF f

LEMMA CloseRequestedStep ==
  ASSUME WInv, CloseRequested
  PROVE  WInv'
<1>1. Exit /\ scene' = scene /\ (files' = files \/ files' = [files EXCEPT !["default"] = capture_workspace])
  BY DEF CloseRequested
<1>2. GoodFiles(files)
  BY DEF WInv
<1> DEFINE f == capture_workspace
           name == "default"
<1>3. GoodFile(f)
  BY CaptureTabs
<1> HIDE DEF f, name
<1>4. GoodFiles([files EXCEPT ![name] = f])
  BY <1>2, <1>3, PutFile
<1>5. GoodFiles(files')
  BY <1>1, <1>2, <1>4 DEF f, name
<1> QED BY <1>1, <1>5, ExitGood

LEMMA QuitStep ==
  ASSUME WInv, Quit
  PROVE  WInv'
<1>1. Exit /\ scene' = scene /\ files' = files
  BY DEF Quit
<1>2. GoodFiles(files')
  BY <1>1 DEF WInv
<1> QED BY <1>1, <1>2, ExitGood

(* The tabs a workspace file brings back.                                  *)
Whole(file) == GoodFile(file) /\ file.kind \in {"one", "all"}
TabOf(file, i) == RestoredLayout(file.tabs[i])
LEMMA PanesOfFile ==
  ASSUME NEW file, Whole(file)
  PROVE  /\ IsFiniteSet(PanesOf(file))
         /\ \A i \in 1 .. Len(file.tabs) : GoodLayout(TabOf(file, i))
         /\ \A i \in 1 .. Len(file.tabs) : \A id \in Panes(TabOf(file, i)) : <<i, id>> \in PanesOf(file)
<1> DEFINE n == Len(file.tabs)
           some == [i \in 1 .. n |-> {i} \X Panes(TabOf(file, i))]
           all == {some[i] : i \in 1 .. n}
<1>1. n \in Nat /\ DOMAIN file.tabs = 1 .. n /\ \A i \in 1 .. n : GoodSnapshot(file.tabs[i])
  BY FileIs DEF Whole
<1>2. ASSUME NEW i \in 1 .. n PROVE GoodLayout(TabOf(file, i))
  <2> DEFINE s == file.tabs[i]
  <2>1. GoodSnapshot(s)
    BY <1>1
  <2> HIDE DEF s
  <2>2. GoodLayout(RestoredLayout(s))
    BY <2>1, RestoredGood
  <2> QED BY <2>2 DEF s, TabOf
<1>3. PanesOf(file) = UNION all
  BY <1>1, Zenon DEF PanesOf, TabOf
<1>4. \A i \in 1 .. n : some[i] = {i} \X Panes(TabOf(file, i))
  OBVIOUS
<1>5. some \in Surjection(1 .. n, all)
  BY Zenon DEF Surjection
<1> HIDE DEF n, some, all
<1>6. \A i \in 1 .. n : IsFiniteSet(some[i])
  <2> SUFFICES ASSUME NEW i \in 1 .. n PROVE IsFiniteSet(some[i])
    OBVIOUS
  <2>1. IsFiniteSet(Panes(TabOf(file, i)))
    BY <1>2, PanesAre
  <2>2. IsFiniteSet({i})
    BY FS_Singleton, Zenon
  <2>3. IsFiniteSet({i} \X Panes(TabOf(file, i)))
    BY <2>1, <2>2, FS_Product
  <2> QED BY <1>4, <2>3
<1>7. IsFiniteSet(1 .. n)
  BY <1>1, FS_Interval
<1>8. IsFiniteSet(all)
  BY <1>5, <1>7, FS_Surjection
<1>9. \A T \in all : IsFiniteSet(T)
  BY <1>6 DEF all
<1>10. IsFiniteSet(PanesOf(file))
  BY <1>3, <1>8, <1>9, FS_UNION
<1>11. ASSUME NEW i \in 1 .. n, NEW id \in Panes(TabOf(file, i)) PROVE <<i, id>> \in PanesOf(file)
  <2>1. <<i, id>> \in some[i] /\ some[i] \in all
    BY <1>4 DEF all
  <2> QED BY <1>3, <2>1
<1> QED BY <1>2, <1>10, <1>11 DEF n

LEMMA MaterializeGood ==
  ASSUME scene \in Scenes, NEW file, Whole(file), NEW failed,
         Cardinality(PanesOf(file)) <= Cardinality(scene.shells)
  PROVE  GoodTabs(materialize_workspace(file, failed))
<1> DEFINE n == Len(file.tabs)
           all == PanesOf(file)
           shells == Spawned(all, scene.shells)
           x(i) == [id \in Panes(TabOf(file, i)) |-> shells[<<i, id>>]]
           gone(i) == {id \in Panes(TabOf(file, i)) : <<i, id>> \in failed}
           r == [i \in 1 .. n |-> build_tab(TabOf(file, i), x(i), gone(i))]
<1>1. n \in Nat /\ DOMAIN file.tabs = 1 .. n
  BY FileIs DEF Whole
<1>2. materialize_workspace(file, failed) = WithPanes(r)
  BY <1>1 DEF materialize_workspace, TabOf
<1>3. /\ IsFiniteSet(all) /\ \A i \in 1 .. n : GoodLayout(TabOf(file, i))
      /\ \A i \in 1 .. n : \A id \in Panes(TabOf(file, i)) : <<i, id>> \in all
  BY PanesOfFile
<1>4. OneEach(all, shells)
  <2> DEFINE from == scene.shells
  <2>1. IsFiniteSet(from) /\ from \subseteq Shells /\ Cardinality(all) <= Cardinality(from)
    BY SceneIs
  <2> HIDE DEF from, all
  <2> QED BY <1>3, <2>1, SpawnedEach DEF from
<1> HIDE DEF all, shells
<1>5. (\A p \in all : shells[p] \in Shells) /\ \A p, q \in all : shells[p] = shells[q] => p = q
  BY <1>4 DEF OneEach
<1>6. ASSUME NEW i \in 1 .. n PROVE OneEach(Panes(TabOf(file, i)), x(i))
  <2> DEFINE D == Panes(TabOf(file, i))
  <2>1. \A id \in D : x(i)[id] = shells[<<i, id>>] /\ <<i, id>> \in all
    BY <1>3
  <2>2. \A a, b \in D : <<i, a>> = <<i, b>> => a = b
    OBVIOUS
  <2> HIDE DEF D, x
  <2>3. \A id \in D : x(i)[id] \in Shells
    BY <1>5, <2>1, Zenon
  <2>4. \A a, b \in D : x(i)[a] = x(i)[b] => a = b
    BY <1>5, <2>1, <2>2, Zenon
  <2>5. OneEach(D, x(i))
    BY <2>3, <2>4 DEF OneEach
  <2> QED BY <2>5 DEF D
<1>7. \A i \in 1 .. n : \A id \in Panes(TabOf(file, i)) : x(i)[id] = shells[<<i, id>>]
  OBVIOUS
<1>8. Len(r) = n /\ DOMAIN r = 1 .. n
  <2> DEFINE S == {build_tab(TabOf(file, i), x(i), gone(i)) : i \in 1 .. n}
  <2>1. r \in [1 .. n -> S]
    BY Zenon
  <2> HIDE DEF S, r, n
  <2> QED BY <1>1, <2>1, AsSeq
<1>9. \A i \in 1 .. n : r[i] = build_tab(TabOf(file, i), x(i), gone(i))
  OBVIOUS
<1> HIDE DEF r, x, gone, n
<1>10. ASSUME NEW i \in 1 .. n
       PROVE  /\ DOMAIN r[i].cells # {} => GoodTab(r[i])
              /\ ShellsOf(r[i]) \subseteq {shells[<<i, id>>] : id \in Panes(TabOf(file, i))}
  <2> DEFINE l == TabOf(file, i)
             f == gone(i)
             y == x(i)
             t == build_tab(l, y, f)
  <2>1. GoodLayout(l) /\ OneEach(Panes(l), y)
    BY <1>3, <1>6
  <2>2. r[i] = t /\ \A id \in Panes(l) : y[id] = shells[<<i, id>>]
    BY <1>7, <1>9
  <2> HIDE DEF l, f, y
  <2>3. /\ DOMAIN t.cells = Panes(l) \ f
        /\ ShellsOf(t) = {y[id] : id \in Panes(l) \ f}
        /\ Panes(l) \ f # {} => GoodTab(t)
    BY <2>1, BuildGood
  <2> HIDE DEF t
  <2>4. DOMAIN r[i].cells # {} => GoodTab(r[i])
    BY <2>2, <2>3
  <2>5. ShellsOf(r[i]) \subseteq {shells[<<i, id>>] : id \in Panes(l)}
    BY <2>2, <2>3
  <2> QED BY <2>4, <2>5 DEF l
<1>11. ASSUME NEW i \in 1 .. n, NEW j \in 1 .. n, i # j PROVE Disjoint(ShellsOf(r[i]), ShellsOf(r[j]))
  <2> SUFFICES ASSUME NEW s, s \in ShellsOf(r[i]), s \in ShellsOf(r[j]) PROVE FALSE
    BY DEF Disjoint
  <2>1. PICK a \in Panes(TabOf(file, i)) : s = shells[<<i, a>>]
    BY <1>10, Zenon
  <2>2. PICK b \in Panes(TabOf(file, j)) : s = shells[<<j, b>>]
    BY <1>10, Zenon
  <2>3. <<i, a>> \in all /\ <<j, b>> \in all
    BY <1>3
  <2>4. <<i, a>> = <<j, b>>
    BY <1>5, <2>1, <2>2, <2>3, Zenon
  <2> QED BY <1>11, <2>4
<1>12. LooseTabs(r)
  BY <1>1, <1>8, <1>10, <1>11 DEF LooseTabs
<1> QED BY <1>2, <1>12, WithPanesGood

LEMMA LaunchStep ==
  ASSUME WInv, Launch
  PROVE  WInv' /\ Keeps
<1>1. /\ tabs = <<>> /\ open' = TRUE /\ dead' = dead /\ scene' = scene /\ scene \in Scenes
      /\ dead \subseteq ShellsIn(tabs) /\ GoodFiles(files)
  BY DEF Launch, WInv
<1>2. ShellsIn(tabs) = {} /\ dead = {}
  BY <1>1, NoTabs
<1> DEFINE file == files["default"]
           s == Spawned({1}, scene.shells)[1]
           one == <<NewTab(s)>>
           nothing == <<>>
<1>3. GoodFile(file)
  BY <1>1 DEF GoodFiles, Files
<1>4. GoodTabs(nothing)
  BY NoTabs
<1>5. GoodTabs(one) /\ one # <<>> /\ Len(one) = 1
  <2>1. s \in Shells
    BY <1>1, SceneIs, OneSpawned
  <2> DEFINE t == NewTab(s)
             none == <<>>
  <2>2. GoodTab(t)
    BY <2>1, NewTabGood
  <2>3. ShellsIn(none) = {} /\ Len(none) = 0
    BY NoTabs
  <2>4. Append(none, t) = one
    OBVIOUS
  <2>5. Disjoint(ShellsOf(t), ShellsIn(none))
    BY <2>3 DEF Disjoint
  <2> HIDE DEF t, none
  <2>6. GoodTabs(none)
    BY <1>4 DEF none
  <2>7. GoodTabs(Append(none, t)) /\ Len(Append(none, t)) = Len(none) + 1
    BY <2>2, <2>5, <2>6, AppendTab
  <2>8. Len(one) = 1
    BY <2>3, <2>4, <2>7
  <2>9. one # <<>>
    OBVIOUS
  <2> QED BY <2>4, <2>7, <2>8, <2>9
<1> DEFINE Starts(new, at) ==
             GoodTabs(new) /\ at \in Nat /\ at >= 1 /\ (new # <<>> => at <= Len(new))
<1>6. Starts(one, 1) /\ Starts(nothing, 1)
  BY <1>4, <1>5
<1>7. Starts(tabs', active') /\ GoodFiles(files')
  <2> HIDE DEF one, s
  <2>1. PICK spawned \in BOOLEAN :
          LET first == IF spawned THEN one ELSE nothing
          IN \/ /\ interesting(file) /\ Cardinality(PanesOf(file)) <= Cardinality(scene.shells)
                /\ \E failed \in Fails(PanesOf(file)) :
                     LET new == materialize_workspace(file, failed)
                     IN /\ tabs' = IF new = <<>> THEN first ELSE new
                        /\ active' = IF new = <<>> THEN 1 ELSE Min({file.active, Len(new)})
                /\ UNCHANGED files
             \/ /\ file.kind # "corrupt" /\ ~interesting(file)
                /\ tabs' = first /\ active' = 1 /\ UNCHANGED files
             \/ /\ file.kind = "corrupt" /\ tabs' = first /\ active' = 1
                /\ \E aside \in (IF scene.faults THEN BOOLEAN ELSE {TRUE}) :
                     files' = IF aside THEN [files EXCEPT !["default"] = Absent] ELSE files
    BY Zenon DEF Launch, one, s
  <2> DEFINE first == IF spawned THEN one ELSE nothing
  <2>2. Starts(first, 1)
    BY <1>6
  <2> HIDE DEF first
  <2>3. CASE interesting(file) /\ Cardinality(PanesOf(file)) <= Cardinality(scene.shells)
             /\ (\E failed \in Fails(PanesOf(file)) :
                  LET new == materialize_workspace(file, failed)
                  IN /\ tabs' = IF new = <<>> THEN first ELSE new
                     /\ active' = IF new = <<>> THEN 1 ELSE Min({file.active, Len(new)}))
             /\ UNCHANGED files
    <3>1. PICK failed \in Fails(PanesOf(file)) :
            LET new == materialize_workspace(file, failed)
            IN /\ tabs' = IF new = <<>> THEN first ELSE new
               /\ active' = IF new = <<>> THEN 1 ELSE Min({file.active, Len(new)})
      BY <2>3, Zenon
    <3> DEFINE new == materialize_workspace(file, failed)
               k == Len(new)
               at == Min({file.active, k})
    <3>2. Whole(file)
      BY <1>3, <2>3 DEF Whole, interesting
    <3>3. GoodTabs(new)
      BY <1>1, <2>3, <3>2, MaterializeGood
    <3>4. tabs' = (IF new = <<>> THEN first ELSE new) /\ active' = IF new = <<>> THEN 1 ELSE at
      BY <3>1
    <3>5. file.active \in Nat /\ file.active >= 1
      BY <3>2, FileIs DEF Whole
    <3> HIDE DEF new, file
    <3>6. k \in Nat /\ (new # <<>> => k >= 1)
      <4>1. new \in Seq(TabRecs)
        BY <3>3, TabsAre
      <4> QED BY <4>1
    <3> HIDE DEF k
    <3>7. at = IF file.active <= k THEN file.active ELSE k
      <4>1. file.active \in Int /\ k \in Int
        BY <3>5, <3>6
      <4> QED BY <4>1, MaxTwo, Zenon
    <3> HIDE DEF at
    <3>8. new # <<>> => at \in Nat /\ at >= 1 /\ at <= k
      BY <3>5, <3>6, <3>7
    <3>9. Starts(tabs', active')
      <4>1. CASE new = <<>>
        BY <2>2, <3>4, <4>1
      <4>2. CASE new # <<>>
        BY <3>3, <3>4, <3>8, <4>2 DEF k
      <4> QED BY <4>1, <4>2
    <3>10. GoodFiles(files')
      BY <1>1, <2>3
    <3> QED BY <3>9, <3>10
  <2>4. CASE file.kind # "corrupt" /\ ~interesting(file) /\ tabs' = first /\ active' = 1 /\ UNCHANGED files
    BY <1>1, <2>2, <2>4
  <2>5. CASE file.kind = "corrupt" /\ tabs' = first /\ active' = 1
             /\ \E aside \in (IF scene.faults THEN BOOLEAN ELSE {TRUE}) :
                  files' = IF aside THEN [files EXCEPT !["default"] = Absent] ELSE files
    <3>1. files' = files \/ files' = [files EXCEPT !["default"] = Absent]
      BY <2>5
    <3> DEFINE f == Absent
               name == "default"
    <3>2. GoodFile(f)
      BY DEF GoodFile, Absent
    <3> HIDE DEF f, name
    <3>3. GoodFiles([files EXCEPT ![name] = f])
      BY <1>1, <3>2, PutFile
    <3>4. GoodFiles(files')
      BY <1>1, <3>1, <3>3 DEF f, name
    <3> QED BY <2>2, <2>5, <3>4
  <2> QED BY <2>1, <2>3, <2>4, <2>5, Zenon DEF first
<1>8. scene' \in Scenes /\ dead' \subseteq ShellsIn(tabs') /\ open' \in BOOLEAN /\ (~open' => tabs' = <<>>)
  BY <1>1, <1>2
<1>9. WInv'
  BY <1>7, <1>8 DEF WInv
<1> QED BY <1>2, <1>9 DEF Keeps

-----------------------------------------------------------------------------
(* The theorems.                                                           *)

(* A step keeps the shells that run, or is one that the user asks for.     *)
Allowed ==
  \/ Lost = {}
  \/ close_active_tab /\ Lost = Shown1
  \/ (\E p \in scene.presets : apply_preset(p)) /\ Lost \subseteq ShellsOf(tab) \ Shown1
  \/ (\E name \in DOMAIN files : restore_workspace(name)) /\ Lost \subseteq ShellsOf(tab)
  \/ CloseRequested \/ Quit

LEMMA Start ==
  ASSUME Init
  PROVE  WInv
<1>1. /\ scene \in Scenes /\ files = scene.files /\ tabs = <<>> /\ active = 1 /\ dead = {} /\ open = FALSE
  BY DEF Init
<1>2. GoodTabs(tabs)
  BY <1>1, NoTabs
<1>3. GoodFiles(files)
  <2>1. scene.files \in [Files -> {Absent, [kind |-> "corrupt"]}]
    BY <1>1, SceneIs
  <2>2. files = [name \in Files |-> files[name]] /\ \A name \in Files : files[name] \in {Absent, [kind |-> "corrupt"]}
    BY <1>1, <2>1
  <2>3. \A name \in Files : files[name].kind \in {"absent", "corrupt"}
    BY <2>2 DEF Absent
  <2> QED BY <2>2, <2>3 DEF GoodFiles, GoodFile
<1>4. active \in Nat /\ active >= 1
  BY <1>1
<1>5. open \in BOOLEAN /\ dead \subseteq ShellsIn(tabs) /\ tabs = <<>> /\ scene \in Scenes
  BY <1>1, Zenon
<1> QED BY <1>2, <1>3, <1>4, <1>5 DEF WInv

LEMMA KeepsIs ==
  ASSUME Keeps
  PROVE  Allowed
<1>1. Lost = {}
  BY DEF Lost, Keeps
<1> QED BY <1>1 DEF Allowed

LEMMA Directed ==
  ASSUME WInv, NEW dir \in Directions, FocusDir(dir) \/ swap_dir(dir) \/ resize_focused(dir)
  PROVE  WInv' /\ Keeps
BY FocusDirStep, SwapDirStep, ResizeStep

LEMMA StepKeeps ==
  ASSUME WInv, [Next]_vars
  PROVE  WInv' /\ Allowed
<1>1. CASE Launch
  BY <1>1, LaunchStep, KeepsIs
<1>2. CASE reap_dead_panes
  BY <1>2, ReapStep, KeepsIs
<1>3. CASE CloseRequested
  BY <1>3, CloseRequestedStep DEF Allowed
<1>4. CASE Quit
  BY <1>4, QuitStep DEF Allowed
<1>5. CASE \E axis \in {"Horizontal", "Vertical"}, fails \in {{}, {"spawn"}} :
             fails \in Fails({"spawn"}) /\ split_active(axis, fails # {})
  <2>1. PICK axis \in Axis, fails \in {{}, {"spawn"}} : split_active(axis, fails # {})
    BY <1>5 DEF Axis
  <2> DEFINE f == fails # {}
  <2>2. split_active(axis, f)
    BY <2>1
  <2> HIDE DEF f
  <2>3. WInv' /\ Keeps
    BY <2>2, SplitStep
  <2> QED BY <2>3, KeepsIs
<1>6. CASE \E dir \in Directions : FocusDir(dir) \/ swap_dir(dir) \/ resize_focused(dir)
  BY <1>6, Directed, KeepsIs
<1>7. CASE focus_next_pane
  BY <1>7, NextPaneStep, KeepsIs
<1>8. CASE ToggleZoom
  BY <1>8, ZoomStep, KeepsIs
<1>9. CASE Equalize
  BY <1>9, EqualizeStepGood, KeepsIs
<1>10. CASE auto_balance
  BY <1>10, BalanceStep, KeepsIs
<1>11. CASE \E preset \in scene.presets : apply_preset(preset)
  <2>1. WInv' /\ Lost \subseteq ShellsOf(tab) \ Shown1
    BY <1>11, PresetStep
  <2> QED BY <1>11, <2>1 DEF Allowed
<1>12. CASE spawn_cell_tab
  BY <1>12, SpawnCellStep, KeepsIs
<1>13. CASE next_cell_tab
  BY <1>13, NextCellStep, KeepsIs
<1>14. CASE prev_cell_tab
  BY <1>14, PrevCellStep, KeepsIs
<1>15. CASE spawn_tab
  BY <1>15, SpawnTabStep, KeepsIs
<1>16. CASE close_active_tab
  <2>1. WInv' /\ Lost \subseteq Shown1
    BY <1>16, CloseStep
  <2>2. Lost = {} \/ Lost = Shown1
    BY <2>1 DEF Shown1
  <2> QED BY <1>16, <2>1, <2>2 DEF Allowed
<1>17. CASE \E i \in 1 .. MaxTabs : SwitchTab(i)
  BY <1>17, SwitchStep, KeepsIs
<1>18. CASE (\E leaf \in 0 .. scene.ids : Press(leaf)) \/ cursor_moved \/ cancel
  BY <1>18, DragSteps, KeepsIs
<1>19. CASE \E under \in 0 .. scene.ids, zone \in Zones : Release(under, zone)
  BY <1>19, ReleaseStep, KeepsIs
<1>20. CASE \E shell \in scene.shells : ShellExits(shell)
  BY <1>20, ExitsStep, KeepsIs
<1>21. CASE \E name \in Files : save_workspace(name)
  BY <1>21, SaveStep, KeepsIs
<1>22. CASE \E name \in Files : restore_workspace(name)
  <2>1. PICK name \in Files : restore_workspace(name)
    BY <1>22
  <2>2. WInv' /\ Lost \subseteq ShellsOf(tab)
    BY <2>1, RestoreStep
  <2>3. name \in DOMAIN files
    BY <2>1 DEF restore_workspace
  <2> QED BY <2>1, <2>2, <2>3 DEF Allowed
<1>23. CASE UNCHANGED vars
  <2>1. /\ tabs' = tabs /\ active' = active /\ open' = open /\ scene' = scene /\ dead' = dead
        /\ files' = files
    BY <1>23 DEF vars
  <2>2. dead' \subseteq ShellsIn(tabs) /\ GoodFiles(files')
    BY <2>1 DEF WInv
  <2>3. WInv' /\ Keeps
    BY <2>1, <2>2, SameTabs
  <2> QED BY <2>3, KeepsIs
<1> QED BY <1>1, <1>2, <1>3, <1>4, <1>5, <1>6, <1>7, <1>8, <1>9, <1>10, <1>11, <1>12, <1>13, <1>14,
           <1>15, <1>16, <1>17, <1>18, <1>19, <1>20, <1>21, <1>22, <1>23, ZenonT(120) DEF Next

\* Whatever is split, moved, closed, reaped, dropped, saved or restored, and
\* whichever shells exit or do not start, the window holds together: every
\* handler of window.rs keeps WInv.
THEOREM WindowHolds == Spec => []WInv
<1>1. Init => WInv
  BY Start
<1>2. WInv /\ [Next]_vars => WInv'
  BY StepKeeps
<1> QED BY <1>1, <1>2, PTL DEF Spec

LEMMA TabAgrees ==
  ASSUME NEW t, GoodTab(t)
  PROVE  LET l == t.layout
             ids == leaves(l)
         IN /\ IsInjective(ids) /\ Len(ids) <= MAX_PANES
            /\ DOMAIN t.cells = ToSet(ids)
            /\ l.focused \in ToSet(ids) /\ l.zoomed \in ToSet(ids) \cup {None}
            /\ \A id \in ToSet(ids) :
                 /\ id < l.next_id
                 /\ t.cells[id].active \in DOMAIN t.cells[id].sessions
                 /\ IsInjective(t.cells[id].sessions)
            /\ \A a, b \in ToSet(ids) :
                 a # b => ToSet(t.cells[a].sessions) \cap ToSet(t.cells[b].sessions) = {}
<1> DEFINE l == t.layout
           ids == leaves(l)
<1>1. /\ GoodLayout(l) /\ DOMAIN t.cells = Ids(l.root) /\ GoodCells(t.cells)
      /\ \A id \in DOMAIN t.cells : GoodCell(t.cells[id])
  BY TabIs
<1>2. /\ IsInjective(ids) /\ Len(ids) <= MAX_PANES /\ ToSet(ids) = Ids(l.root)
      /\ l.focused \in Ids(l.root) /\ l.zoomed \in Ids(l.root) \cup {None}
      /\ \A id \in Ids(l.root) : id < l.next_id
  BY <1>1, GoodIs
<1> HIDE DEF ids, l
<1>3. \A id \in DOMAIN t.cells : /\ t.cells[id].active \in DOMAIN t.cells[id].sessions
                                 /\ IsInjective(t.cells[id].sessions)
  BY <1>1, CellIs
<1>4. \A a, b \in DOMAIN t.cells :
        a # b => ToSet(t.cells[a].sessions) \cap ToSet(t.cells[b].sessions) = {}
  BY <1>1 DEF GoodCells, CellsApart, Disjoint
<1>5. DOMAIN t.cells = ToSet(ids)
  BY <1>1, <1>2
<1> QED BY <1>2, <1>3, <1>4, <1>5, Zenon DEF ids, l

LEMMA HoldsAgrees ==
  ASSUME WInv
  PROVE  PanesAndShellsAgree
<1>1. GoodTabs(tabs) /\ dead \subseteq ShellsIn(tabs) /\ active \in Nat /\ active >= 1
      /\ (tabs # <<>> => active <= Len(tabs))
  BY DEF WInv
<1>2. /\ Len(tabs) \in Nat /\ DOMAIN tabs = 1 .. Len(tabs)
      /\ \A i \in DOMAIN tabs : GoodTab(tabs[i])
      /\ \A i, j \in DOMAIN tabs : i # j => Disjoint(ShellsOf(tabs[i]), ShellsOf(tabs[j]))
  BY <1>1, TabsAre
<1>3. \A i, j \in DOMAIN tabs : i # j => ShellsOf(tabs[i]) \cap ShellsOf(tabs[j]) = {}
  BY <1>2 DEF Disjoint
<1>4. tabs # <<>> => active \in DOMAIN tabs
  BY <1>1, <1>2
<1>5. \A i \in DOMAIN tabs :
        LET l == tabs[i].layout
            ids == leaves(l)
        IN /\ IsInjective(ids) /\ Len(ids) <= MAX_PANES
           /\ DOMAIN tabs[i].cells = ToSet(ids)
           /\ l.focused \in ToSet(ids) /\ l.zoomed \in ToSet(ids) \cup {None}
           /\ \A id \in ToSet(ids) :
                /\ id < l.next_id
                /\ tabs[i].cells[id].active \in DOMAIN tabs[i].cells[id].sessions
                /\ IsInjective(tabs[i].cells[id].sessions)
           /\ \A a, b \in ToSet(ids) :
                a # b => ToSet(tabs[i].cells[a].sessions) \cap ToSet(tabs[i].cells[b].sessions) = {}
  BY <1>2, TabAgrees, Zenon
<1> QED BY <1>1, <1>3, <1>4, <1>5, Zenon DEF PanesAndShellsAgree

\* The leaves of every tree, its cells, its focus, its zoom and its counter say the
\* same, and no shell is in two panes (window.rs, layout/ops.rs, layout/action.rs).
THEOREM PanesAgree == Spec => []PanesAndShellsAgree
<1>1. WInv => PanesAndShellsAgree
  BY HoldsAgrees
<1> QED BY <1>1, WindowHolds, PTL

\* No handler of window.rs loses a shell that runs but a close, a preset, a restore
\* and the end of the program, and these no more than the user asked for.
THEOREM ShellsStay == Spec => ShellsKept
<1>1. WInv /\ [Next]_vars =>
        [LET lost == (ShellsIn(tabs) \ dead) \ ShellsIn(tabs')
         IN \/ lost = {}
            \/ /\ close_active_tab
               /\ lost = {cell.sessions[cell.active]}
            \/ /\ \E p \in scene.presets : apply_preset(p)
               /\ lost \subseteq ShellsOf(tab) \ {cell.sessions[cell.active]}
            \/ /\ \E name \in DOMAIN files : restore_workspace(name)
               /\ lost \subseteq ShellsOf(tab)
            \/ CloseRequested \/ Quit]_vars
  BY StepKeeps DEF Allowed, Lost, Shown1
<1> QED BY <1>1, WindowHolds, PTL DEF Spec, ShellsKept
=============================================================================
