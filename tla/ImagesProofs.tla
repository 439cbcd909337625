---------------------------- MODULE ImagesProofs ----------------------------
(***************************************************************************)
(* What holds of the inline pictures of a pane for every limit, set of     *)
(* ids, scene and order of the steps of programs, reader and painter.      *)
(*                                                                         *)
(* Three invariants, each on top of the one before: IInv, types and        *)
(* limits, with every picture on the line of text it was put on; WInv,     *)
(* each set of pieces in flight belongs to one program and lacks nothing   *)
(* between its first piece and its last; PInv, what is painted and what is *)
(* still to be painted are together what is in the window, and a texture   *)
(* is of its key's picture or its key will not be asked for again.         *)
(*                                                                         *)
(* The hypotheses are KeysRepeat and PlainPaints; the README says what     *)
(* happens without them.                                                   *)
(***************************************************************************)
EXTENDS ImagesProps, Recursion, FiniteSetTheorems

-----------------------------------------------------------------------------
(* Sums and selections along a sequence *)

Piece == Nat \X Nat
Pixels == Seq(Piece)
Image == [pixels : Pixels, line : Nat, tag : Nat]

(* f sums the weights of the pictures of q up to each of them.             *)
Sums(f, q) == /\ f \in [0 .. Len(q) -> Nat] /\ f[0] = 0
              /\ \A i \in 1 .. Len(q) : f[i] = f[i - 1] + Len(q[i].pixels)

(* Bytes adds up the weights.                                              *)
LEMMA BytesIs ==
  ASSUME NEW q \in Seq(Image)
  PROVE  \E f : Sums(f, q) /\ Bytes(q) = f[Len(q)]
<1> DEFINE Eq(f) == f = [i \in 0 .. Len(q) |->
                           IF i = 0 THEN 0 ELSE f[i - 1] + Len(q[i].pixels)]
           F == CHOOSE f : Eq(f)
           g == [p \in Nat \X Nat |->
                   IF p[2] \in DOMAIN q THEN p[1] + Len(q[p[2]].pixels) ELSE p[1]]
<1>1. Len(q) \in Nat /\ DOMAIN q = 1 .. Len(q)
  OBVIOUS
<1>2. ASSUME NEW i \in DOMAIN q PROVE Len(q[i].pixels) \in Nat
  BY DEF Image, Pixels
<1>3. ASSUME NEW x \in Nat, NEW i \in Nat
      PROVE  /\ g[<<x, i>>] \in Nat
             /\ i \in DOMAIN q => g[<<x, i>>] = x + Len(q[i].pixels)
  <2>1. <<x, i>> \in Nat \X Nat
    OBVIOUS
  <2>2. g[<<x, i>>] = IF i \in DOMAIN q THEN x + Len(q[i].pixels) ELSE x
    BY <2>1
  <2> HIDE DEF g
  <2> QED BY <1>2, <2>2
<1> HIDE DEF g
<1>4. PICK f \in [0 .. Len(q) -> Nat] :
        f[0] = 0 /\ \A i \in 1 .. Len(q) : f[i] = g[<<f[i - 1], i>>]
  <2>1. 0 \in Nat /\ StaysIn(g, Nat)
    BY <1>3 DEF StaysIn
  <2>2. \E f \in [0 .. Len(q) -> Nat] : Iterate(f, 0, g, Len(q))
    BY <1>1, <2>1, Iterates
  <2> QED BY <2>2 DEF Iterate
<1>5. \A i \in 1 .. Len(q) : f[i] = f[i - 1] + Len(q[i].pixels)
  <2> TAKE i \in 1 .. Len(q)
  <2>1. f[i - 1] \in Nat /\ i \in DOMAIN q /\ i \in Nat
    BY <1>1, <1>4
  <2> QED BY <1>3, <1>4, <2>1
<1>6. Eq(f)
  <2>1. ASSUME NEW i \in 0 .. Len(q)
        PROVE  f[i] = IF i = 0 THEN 0 ELSE f[i - 1] + Len(q[i].pixels)
    BY <1>1, <1>4, <1>5
  <2>2. DOMAIN f = 0 .. Len(q) /\ f = [i \in DOMAIN f |-> f[i]]
    BY <1>4
  <2> QED BY <2>1, <2>2
<1>7. Bytes(q) = F[Len(q)]
  BY ZenonT(60) DEF Bytes
<1>8. Eq(F)
  <2> HIDE DEF Eq
  <2> QED BY <1>6
<1> HIDE DEF F
<1>9. ASSUME NEW h, Eq(h), NEW i \in 0 .. Len(q)
      PROVE  h[i] = IF i = 0 THEN 0 ELSE h[i - 1] + Len(q[i].pixels)
  BY <1>9
<1> HIDE DEF Eq
<1> DEFINE S == {i \in Nat : i <= Len(q) => F[i] = f[i]}
<1>10. 0 \in S
  <2>1. 0 \in 0 .. Len(q)
    BY <1>1
  <2> QED BY <1>4, <1>8, <1>9, <2>1
<1>11. ASSUME NEW i \in Nat, i \in S PROVE i + 1 \in S
  <2> SUFFICES ASSUME i + 1 <= Len(q) PROVE F[i + 1] = f[i + 1]
    OBVIOUS
  <2>1. i + 1 \in 1 .. Len(q) /\ i + 1 \in 0 .. Len(q) /\ i + 1 # 0 /\ (i + 1) - 1 = i
    BY <1>1
  <2>2. F[i] = f[i]
    BY <1>1, <1>11
  <2>3. F[i + 1] = F[i] + Len(q[i + 1].pixels)
    BY <1>8, <1>9, <2>1
  <2>4. f[i + 1] = f[i] + Len(q[i + 1].pixels)
    BY <1>5, <2>1
  <2> QED BY <2>2, <2>3, <2>4
<1> HIDE DEF S
<1>12. Len(q) \in S
  BY <1>1, <1>10, <1>11, SetInduction
<1>13. F[Len(q)] = f[Len(q)]
  BY <1>1, <1>12 DEF S
<1> QED BY <1>4, <1>5, <1>7, <1>13 DEF Sums

(* Of two sequences of pictures, the one whose pictures are never heavier  *)
(* weighs no more.                                                         *)
LEMMA SumsBelow ==
  ASSUME NEW q, NEW r, NEW f, NEW h, Sums(f, q), Sums(h, r), Len(q) \in Nat, Len(r) \in Nat,
         Len(q) <= Len(r), \A i \in 1 .. Len(q) : Len(q[i].pixels) = Len(r[i].pixels)
  PROVE  f[Len(q)] = h[Len(q)]
<1> DEFINE S == {i \in Nat : i <= Len(q) => f[i] = h[i]}
<1>1. 0 \in S
  BY DEF Sums
<1>2. ASSUME NEW i \in Nat, i \in S PROVE i + 1 \in S
  <2> SUFFICES ASSUME i + 1 <= Len(q) PROVE f[i + 1] = h[i + 1]
    OBVIOUS
  <2>1. i + 1 \in 1 .. Len(q) /\ i + 1 \in 1 .. Len(r) /\ (i + 1) - 1 = i
    OBVIOUS
  <2>2. f[i] = h[i]
    BY <1>2
  <2>3. f[i + 1] = f[i] + Len(q[i + 1].pixels)
    BY <2>1 DEF Sums
  <2>4. h[i + 1] = h[i] + Len(r[i + 1].pixels)
    BY <2>1 DEF Sums
  <2> QED BY <2>1, <2>2, <2>3, <2>4
<1> HIDE DEF S
<1>3. Len(q) \in S
  BY <1>1, <1>2, SetInduction
<1> QED BY <1>3 DEF S

(* A longer sequence weighs what its front and its last picture weigh.     *)
LEMMA BytesAppend ==
  ASSUME NEW q \in Seq(Image), NEW x \in Image
  PROVE  Bytes(Append(q, x)) = Bytes(q) + Len(x.pixels)
<1> DEFINE r == Append(q, x)
<1>1. r \in Seq(Image) /\ Len(r) = Len(q) + 1 /\ r[Len(r)] = x
      /\ \A i \in 1 .. Len(q) : r[i] = q[i]
  OBVIOUS
<1> HIDE DEF r
<1>2. PICK f : Sums(f, q) /\ Bytes(q) = f[Len(q)]
  BY BytesIs
<1>3. PICK h : Sums(h, r) /\ Bytes(r) = h[Len(r)]
  BY <1>1, BytesIs
<1>4. Len(q) \in Nat /\ Len(r) \in Nat
  BY <1>1
<1>5. f[Len(q)] = h[Len(q)]
  BY <1>1, <1>2, <1>3, <1>4, SumsBelow
<1>6. Len(r) \in 1 .. Len(r) /\ Len(r) - 1 = Len(q)
  BY <1>1, <1>4
<1>7. h[Len(r)] = h[Len(q)] + Len(x.pixels)
  BY <1>1, <1>3, <1>6 DEF Sums
<1> QED BY <1>2, <1>3, <1>5, <1>7 DEF r

(* Only the pixels weigh.                                                  *)
LEMMA BytesOfPixels ==
  ASSUME NEW q \in Seq(Image), NEW r \in Seq(Image), Len(q) = Len(r),
         \A i \in DOMAIN q : q[i].pixels = r[i].pixels
  PROVE  Bytes(q) = Bytes(r)
<1>1. PICK f : Sums(f, q) /\ Bytes(q) = f[Len(q)]
  BY BytesIs
<1>2. PICK h : Sums(h, r) /\ Bytes(r) = h[Len(r)]
  BY BytesIs
<1>3. Len(q) \in Nat /\ Len(r) \in Nat /\ \A i \in 1 .. Len(q) : Len(q[i].pixels) = Len(r[i].pixels)
  OBVIOUS
<1>4. f[Len(q)] = h[Len(q)]
  BY <1>1, <1>2, <1>3, SumsBelow
<1> QED BY <1>1, <1>2, <1>4

(* The step of Among.                                                      *)
AmongStep(X, q, S) ==
  [p \in Seq(X) \X Nat |->
     IF p[2] \in DOMAIN q /\ q[p[2]] \in S THEN Append(p[1], q[p[2]]) ELSE p[1]]

(* f[i] has the elements of S among the first i of q.                      *)
Run(f, X, q, S) ==
  /\ f \in [0 .. Len(q) -> Seq(X)] /\ f[0] = <<>>
  /\ \A i \in 1 .. Len(q) : f[i] = IF q[i] \in S THEN Append(f[i - 1], q[i]) ELSE f[i - 1]

(* Among is a recursion along the sequence.                                *)
LEMMA AmongRuns ==
  ASSUME NEW X, NEW q \in Seq(X), NEW S
  PROVE  \E f : Run(f, X, q, S) /\ Among(q, S) = f[Len(q)]
<1> DEFINE Eq(f) == f = [i \in 0 .. Len(q) |->
                           IF i = 0 THEN <<>>
                           ELSE IF q[i] \in S THEN Append(f[i - 1], q[i]) ELSE f[i - 1]]
           F == CHOOSE f : Eq(f)
           g == AmongStep(X, q, S)
<1>1. Len(q) \in Nat /\ DOMAIN q = 1 .. Len(q) /\ <<>> \in Seq(X) /\ \A i \in DOMAIN q : q[i] \in X
  OBVIOUS
<1>3. ASSUME NEW p \in Seq(X), NEW i \in Nat
      PROVE  /\ g[<<p, i>>] \in Seq(X)
             /\ i \in DOMAIN q => g[<<p, i>>] = IF q[i] \in S THEN Append(p, q[i]) ELSE p
  <2>1. <<p, i>> \in Seq(X) \X Nat
    OBVIOUS
  <2>2. g[<<p, i>>] = IF i \in DOMAIN q /\ q[i] \in S THEN Append(p, q[i]) ELSE p
    BY <2>1 DEF AmongStep
  <2>3. i \in DOMAIN q => Append(p, q[i]) \in Seq(X)
    BY <1>1
  <2> QED BY <2>2, <2>3
<1> HIDE DEF g
<1>4. PICK f \in [0 .. Len(q) -> Seq(X)] :
        f[0] = <<>> /\ \A i \in 1 .. Len(q) : f[i] = g[<<f[i - 1], i>>]
  <2> DEFINE Y == Seq(X)
  <2>1. <<>> \in Y /\ StaysIn(g, Y)
    BY <1>1, <1>3 DEF StaysIn
  <2> HIDE DEF Y
  <2>2. \E f \in [0 .. Len(q) -> Y] : Iterate(f, <<>>, g, Len(q))
    BY <1>1, <2>1, Iterates
  <2> QED BY <2>2 DEF Iterate, Y
<1>5. \A i \in 1 .. Len(q) : f[i] = IF q[i] \in S THEN Append(f[i - 1], q[i]) ELSE f[i - 1]
  <2> TAKE i \in 1 .. Len(q)
  <2>1. f[i - 1] \in Seq(X) /\ i \in DOMAIN q /\ i \in Nat
    BY SMTT(30), <1>1, <1>4
  <2> QED BY <1>3, <1>4, <2>1
<1>6. Eq(f)
  <2>1. ASSUME NEW i \in 0 .. Len(q)
        PROVE  f[i] = IF i = 0 THEN <<>>
                      ELSE IF q[i] \in S THEN Append(f[i - 1], q[i]) ELSE f[i - 1]
    <3>1. CASE i = 0
      BY <1>4, <3>1
    <3>2. CASE i # 0
      <4>1. i \in 1 .. Len(q)
        BY <1>1, <3>2
      <4> QED BY <1>5, <3>2, <4>1
    <3> QED BY <3>1, <3>2
  <2>2. DOMAIN f = 0 .. Len(q) /\ f = [i \in DOMAIN f |-> f[i]]
    BY <1>4
  <2> QED BY <2>1, <2>2
<1>7. Among(q, S) = F[Len(q)]
  BY ZenonT(60) DEF Among
<1>8. Eq(F)
  <2> HIDE DEF Eq
  <2> QED BY <1>6
<1> HIDE DEF F
<1>9. ASSUME NEW h, Eq(h), NEW i \in 0 .. Len(q)
      PROVE  h[i] = IF i = 0 THEN <<>>
                    ELSE IF q[i] \in S THEN Append(h[i - 1], q[i]) ELSE h[i - 1]
  BY <1>9
<1> HIDE DEF Eq
<1> DEFINE T == {i \in Nat : i <= Len(q) => F[i] = f[i]}
<1>10. 0 \in T
  <2>1. 0 \in 0 .. Len(q)
    BY <1>1
  <2> QED BY <1>4, <1>8, <1>9, <2>1
<1>11. ASSUME NEW i \in Nat, i \in T PROVE i + 1 \in T
  <2> SUFFICES ASSUME i + 1 <= Len(q) PROVE F[i + 1] = f[i + 1]
    OBVIOUS
  <2>1. i + 1 \in 1 .. Len(q) /\ i + 1 \in 0 .. Len(q) /\ i + 1 # 0 /\ (i + 1) - 1 = i
    BY <1>1
  <2>2. F[i] = f[i]
    BY <1>1, <1>11
  <2>3. F[i + 1] = IF q[i + 1] \in S THEN Append(F[i], q[i + 1]) ELSE F[i]
    BY <1>8, <1>9, <2>1
  <2>4. f[i + 1] = IF q[i + 1] \in S THEN Append(f[i], q[i + 1]) ELSE f[i]
    BY <1>5, <2>1
  <2> QED BY <2>2, <2>3, <2>4
<1> HIDE DEF T
<1>12. Len(q) \in T
  BY <1>1, <1>10, <1>11, SetInduction
<1>13. F[Len(q)] = f[Len(q)]
  BY <1>1, <1>12 DEF T
<1> QED BY <1>4, <1>5, <1>7, <1>13 DEF Run

(* The elements of r are those of the first n of q that are in S; e says   *)
(* where each comes from.                                                  *)
Picks(r, q, S, n, e) ==
  /\ e \in [DOMAIN r -> 1 .. n]
  /\ \A j \in DOMAIN r : r[j] = q[e[j]] /\ q[e[j]] \in S
  /\ \A i, j \in DOMAIN r : i # j => e[i] # e[j]
  /\ \A i \in 1 .. n : q[i] \in S => \E j \in DOMAIN r : e[j] = i

(* Picking goes on with an element that is in the set, ...                 *)
LEMMA PicksIn ==
  ASSUME NEW X, NEW q \in Seq(X), NEW S, NEW n \in Nat, n + 1 \in DOMAIN q, NEW r \in Seq(X),
         NEW e, Picks(r, q, S, n, e), q[n + 1] \in S
  PROVE  \E d : Picks(Append(r, q[n + 1]), q, S, n + 1, d)
<1> DEFINE t == Append(r, q[n + 1])
           m == Len(r) + 1
           d == [j \in DOMAIN t |-> IF j = m THEN n + 1 ELSE e[j]]
<1>1. /\ DOMAIN t = 1 .. m /\ DOMAIN r = 1 .. Len(r) /\ Len(r) \in Nat
      /\ t[m] = q[n + 1] /\ \A j \in DOMAIN r : t[j] = r[j]
  OBVIOUS
<1>2. /\ d[m] = n + 1 /\ m \in DOMAIN t /\ m \notin DOMAIN r
      /\ \A j \in DOMAIN r : j \in DOMAIN t /\ d[j] = e[j] /\ e[j] \in 1 .. n
      /\ DOMAIN t = DOMAIN r \cup {m} /\ DOMAIN d = DOMAIN t
  BY <1>1 DEF Picks
<1> HIDE DEF t, d, m
<1>3. d \in [DOMAIN t -> 1 .. n + 1]
  <2>1. \A j \in DOMAIN t : d[j] \in 1 .. n + 1
    BY <1>2
  <2>2. d = [j \in DOMAIN d |-> d[j]]
    BY DEF d
  <2> QED BY <1>2, <2>1, <2>2
<1>4. \A j \in DOMAIN t : t[j] = q[d[j]] /\ q[d[j]] \in S
  BY <1>1, <1>2 DEF Picks
<1>5. \A i, j \in DOMAIN t : i # j => d[i] # d[j]
  BY <1>2 DEF Picks
<1>6. ASSUME NEW i \in 1 .. n + 1, q[i] \in S PROVE \E j \in DOMAIN t : d[j] = i
  <2>1. CASE i = n + 1
    BY <1>2, <2>1
  <2>2. CASE i # n + 1
    <3>1. i \in 1 .. n
      BY <2>2
    <3>2. PICK j \in DOMAIN r : e[j] = i
      BY <1>6, <3>1 DEF Picks
    <3> QED BY <1>2, <3>2
  <2> QED BY <2>1, <2>2
<1>7. Picks(t, q, S, n + 1, d)
  BY <1>3, <1>4, <1>5, <1>6 DEF Picks
<1> QED BY <1>7 DEF t

(* ... and past one that is not.                                           *)
LEMMA PicksOn ==
  ASSUME NEW q, NEW S, NEW n \in Nat, NEW r, NEW e, Picks(r, q, S, n, e), q[n + 1] \notin S
  PROVE  Picks(r, q, S, n + 1, e)
<1>1. e \in [DOMAIN r -> 1 .. n + 1]
  BY DEF Picks
<1>2. ASSUME NEW i \in 1 .. n + 1, q[i] \in S PROVE \E j \in DOMAIN r : e[j] = i
  <2>1. i \in 1 .. n
    BY <1>2
  <2> QED BY <1>2, <2>1 DEF Picks
<1> QED BY <1>1, <1>2 DEF Picks

(* Among keeps exactly the elements in the set, each once.                 *)
LEMMA AmongIs ==
  ASSUME NEW X, NEW q \in Seq(X), NEW S
  PROVE  /\ Among(q, S) \in Seq(X) /\ Len(Among(q, S)) <= Len(q)
         /\ \E e : Picks(Among(q, S), q, S, Len(q), e)
<1>0. PICK f : Run(f, X, q, S) /\ Among(q, S) = f[Len(q)]
  BY AmongRuns
<1>1. /\ f \in [0 .. Len(q) -> Seq(X)]
      /\ f[0] = <<>> /\ Among(q, S) = f[Len(q)]
      /\ \A i \in 1 .. Len(q) : f[i] = IF q[i] \in S THEN Append(f[i - 1], q[i]) ELSE f[i - 1]
  BY <1>0 DEF Run
<1>2. Len(q) \in Nat /\ DOMAIN q = 1 .. Len(q)
  OBVIOUS
<1> DEFINE T == {i \in Nat : i <= Len(q) => Len(f[i]) <= i /\ \E e : Picks(f[i], q, S, i, e)}
<1>3. 0 \in T
  <2>1. Picks(<<>>, q, S, 0, [j \in {} |-> j])
    BY DEF Picks
  <2> QED BY <1>1, <2>1
<1>4. ASSUME NEW i \in Nat, i \in T PROVE i + 1 \in T
  <2> SUFFICES ASSUME i + 1 <= Len(q)
               PROVE  Len(f[i + 1]) <= i + 1 /\ \E e : Picks(f[i + 1], q, S, i + 1, e)
    OBVIOUS
  <2>1. i + 1 \in 1 .. Len(q) /\ (i + 1) - 1 = i /\ i \in 0 .. Len(q)
    BY <1>2
  <2>2. f[i] \in Seq(X) /\ Len(f[i]) \in Nat /\ Len(f[i]) <= i
    BY <1>1, <1>4, <2>1
  <2>3. PICK e : Picks(f[i], q, S, i, e)
    BY <1>4, <2>1
  <2>4. f[i + 1] = IF q[i + 1] \in S THEN Append(f[i], q[i + 1]) ELSE f[i]
    BY <1>1, <2>1
  <2>5. CASE q[i + 1] \in S
    <3>1. \E d : Picks(Append(f[i], q[i + 1]), q, S, i + 1, d)
      BY <1>2, <2>1, <2>2, <2>3, <2>5, PicksIn
    <3>2. q[i + 1] \in X
      BY <1>2, <2>1
    <3>3. Len(Append(f[i], q[i + 1])) = Len(f[i]) + 1
      BY <2>2, <3>2
    <3> QED BY <2>2, <2>4, <2>5, <3>1, <3>3
  <2>6. CASE q[i + 1] \notin S
    <3>1. Picks(f[i], q, S, i + 1, e)
      BY <2>3, <2>6, PicksOn
    <3> QED BY <2>2, <2>4, <2>6, <3>1
  <2> QED BY <2>5, <2>6
<1> HIDE DEF T
<1>5. Len(q) \in T
  BY <1>2, <1>3, <1>4, SetInduction
<1> QED BY <1>1, <1>2, <1>5 DEF T

(* What is left of a sequence of pictures weighs no more than it.          *)
LEMMA AmongBytes ==
  ASSUME NEW q \in Seq(Image), NEW S
  PROVE  Bytes(Among(q, S)) <= Bytes(q) /\ Bytes(Among(q, S)) \in Nat
<1>0. PICK f : Run(f, Image, q, S) /\ Among(q, S) = f[Len(q)]
  BY AmongRuns
<1>1. /\ f \in [0 .. Len(q) -> Seq(Image)]
      /\ f[0] = <<>> /\ Among(q, S) = f[Len(q)]
      /\ \A i \in 1 .. Len(q) : f[i] = IF q[i] \in S THEN Append(f[i - 1], q[i]) ELSE f[i - 1]
  BY <1>0 DEF Run
<1>2. PICK h : Sums(h, q) /\ Bytes(q) = h[Len(q)]
  BY BytesIs
<1>3. Len(q) \in Nat /\ DOMAIN q = 1 .. Len(q) /\ \A i \in DOMAIN q : q[i] \in Image /\ Len(q[i].pixels) \in Nat
  <2>1. \A i \in DOMAIN q : q[i] \in Image
    OBVIOUS
  <2> QED BY <2>1 DEF Image, Pixels
<1>7. ASSUME NEW r \in Seq(Image) PROVE Bytes(r) \in Nat
  <2>1. PICK g : Sums(g, r) /\ Bytes(r) = g[Len(r)]
    BY BytesIs
  <2> QED BY <2>1 DEF Sums
<1> DEFINE T == {i \in Nat : i <= Len(q) => Bytes(f[i]) <= h[i]}
<1>4. 0 \in T
  <2> DEFINE none == <<>>
  <2>0. none \in Seq(Image) /\ Len(none) = 0
    OBVIOUS
  <2> HIDE DEF none
  <2>1. PICK g : Sums(g, none) /\ Bytes(none) = g[Len(none)]
    BY <2>0, BytesIs
  <2>2. Bytes(<<>>) = 0
    BY <2>0, <2>1 DEF Sums, none
  <2> QED BY <1>1, <1>2, <2>2 DEF Sums
<1>5. ASSUME NEW i \in Nat, i \in T PROVE i + 1 \in T
  <2> SUFFICES ASSUME i + 1 <= Len(q) PROVE Bytes(f[i + 1]) <= h[i + 1]
    OBVIOUS
  <2>1. i + 1 \in 1 .. Len(q) /\ (i + 1) - 1 = i /\ i \in 0 .. Len(q)
    BY <1>3
  <2>2. f[i] \in Seq(Image) /\ q[i + 1] \in Image /\ Len(q[i + 1].pixels) \in Nat
    BY <1>1, <1>3, <2>1
  <2>3. Bytes(f[i]) \in Nat /\ Bytes(f[i]) <= h[i] /\ h[i] \in Nat
    BY <1>7, <1>2, <1>5, <2>1, <2>2 DEF Sums
  <2>4. h[i + 1] = h[i] + Len(q[i + 1].pixels)
    BY <1>2, <2>1 DEF Sums
  <2>5. Bytes(Append(f[i], q[i + 1])) = Bytes(f[i]) + Len(q[i + 1].pixels)
    BY <2>2, BytesAppend
  <2>6. f[i + 1] = IF q[i + 1] \in S THEN Append(f[i], q[i + 1]) ELSE f[i]
    BY <1>1, <2>1
  <2> QED BY <2>2, <2>3, <2>4, <2>5, <2>6
<1> HIDE DEF T
<1>6. Len(q) \in T
  BY <1>3, <1>4, <1>5, SetInduction
<1> QED BY <1>1, <1>2, <1>3, <1>6, <1>7 DEF T

-----------------------------------------------------------------------------
(* What the terminal keeps *)

AllIds == Ids \cup {0}
Chunk == [payload : Pixels, size : Nat]

ImagesOK(q) == q \in Seq(Image) /\ Len(q) <= ImagesMax /\ (Bytes(q) <= BytesMax \/ Len(q) = 1)
Bounded(f) == \E m \in Nat : DOMAIN f \subseteq 0 .. m
StoreOK(f) == /\ f \in [DOMAIN f -> Pixels] /\ DOMAIN f \subseteq AllIds /\ Bounded(f)
              /\ Cardinality(DOMAIN f) <= StoreMax
              /\ Weight(f) <= BytesMax \/ Cardinality(DOMAIN f) <= 1
ChunksOK(f) == /\ f \in [DOMAIN f -> Chunk] /\ DOMAIN f \subseteq AllIds
               /\ IsFiniteSet(DOMAIN f) /\ Cardinality(DOMAIN f) <= ChunksMax
               /\ \A id \in DOMAIN f : Len(f[id].payload) \in 1 .. PayloadMax

(* Nothing weighs nothing.                                                 *)
LEMMA NothingWeighs == Bytes(<<>>) = 0 /\ <<>> \in Seq(Image) /\ Len(<<>>) = 0
<1> DEFINE none == <<>>
<1>1. none \in Seq(Image) /\ Len(none) = 0
  OBVIOUS
<1> HIDE DEF none
<1>2. PICK g : Sums(g, none) /\ Bytes(none) = g[Len(none)]
  BY <1>1, BytesIs
<1>3. Bytes(none) = 0
  BY <1>1, <1>2 DEF Sums
<1> QED BY <1>1, <1>3 DEF none

(* r has pictures of q, each once, n lines further up.                     *)
MovedUp(q, r, n) ==
  \E e : /\ e \in [DOMAIN r -> DOMAIN q] /\ \A i, j \in DOMAIN r : i # j => e[i] # e[j]
         /\ \A j \in DOMAIN r : /\ r[j].pixels = q[e[j]].pixels /\ r[j].tag = q[e[j]].tag
                                /\ q[e[j]].line >= n /\ r[j].line = q[e[j]].line - n

(* Lines that leave take their pictures along; the others move up.         *)
LEMMA ReanchorMoves ==
  ASSUME NEW q, ImagesOK(q), NEW n \in Nat
  PROVE  ImagesOK(reanchor(q, n)) /\ MovedUp(q, reanchor(q, n), n)
<1> DEFINE S == {i \in Range(q) : i.line >= n}
           k == Among(q, S)
           r == [j \in DOMAIN k |-> [k[j] EXCEPT !.line = @ - n]]
<1>1. reanchor(q, n) = r
  BY Zenon DEF reanchor
<1>2. q \in Seq(Image) /\ Len(q) \in Nat /\ DOMAIN q = 1 .. Len(q)
  BY DEF ImagesOK
<1>3. /\ k \in Seq(Image) /\ Len(k) <= Len(q) /\ Bytes(k) <= Bytes(q) /\ Bytes(k) \in Nat
      /\ \E e : Picks(k, q, S, Len(q), e)
  <2> HIDE DEF S
  <2> QED BY <1>2, AmongIs, AmongBytes
<1>4. PICK e : Picks(k, q, S, Len(q), e)
  BY <1>3
<1> HIDE DEF k
<1>5. ASSUME NEW j \in DOMAIN k PROVE e[j] \in DOMAIN q /\ k[j] = q[e[j]] /\ k[j] \in Image /\ k[j].line >= n
  <2>1. e[j] \in DOMAIN q /\ k[j] = q[e[j]] /\ q[e[j]] \in S
    BY <1>2, <1>4 DEF Picks
  <2>2. k[j] \in Image
    BY <1>3
  <2> QED BY <2>1, <2>2
<1> HIDE DEF S
<1>6. ASSUME NEW j \in DOMAIN k
      PROVE  /\ r[j] \in Image /\ r[j].pixels = k[j].pixels /\ r[j].tag = k[j].tag
             /\ r[j].line = k[j].line - n
  <2>1. k[j] = [pixels |-> k[j].pixels, line |-> k[j].line, tag |-> k[j].tag]
        /\ k[j].pixels \in Pixels /\ k[j].line \in Nat /\ k[j].tag \in Nat /\ k[j].line >= n
    BY <1>5 DEF Image
  <2>2. r[j] = [pixels |-> k[j].pixels, line |-> k[j].line - n, tag |-> k[j].tag]
    BY <2>1
  <2>3. k[j].line - n \in Nat
    BY <2>1
  <2> HIDE DEF r
  <2> QED BY <2>1, <2>2, <2>3 DEF Image
<1>7. DOMAIN r = DOMAIN k /\ DOMAIN k = 1 .. Len(k) /\ Len(k) \in Nat
  BY <1>3
<1>8. r = [j \in 1 .. Len(k) |-> r[j]]
  BY <1>7
<1> HIDE DEF r
<1>9. r \in Seq(Image) /\ Len(r) = Len(k)
  <2>1. \A j \in 1 .. Len(k) : r[j] \in Image
    BY <1>6, <1>7
  <2> QED BY <1>7, <1>8, <2>1
<1>10. Bytes(k) = Bytes(r)
  BY <1>3, <1>6, <1>9, BytesOfPixels
<1>11. ImagesOK(r)
  <2>1. Len(r) <= ImagesMax
    BY <1>2, <1>3, <1>7, <1>9, LimitAssumption DEF ImagesOK
  <2>2. CASE Bytes(q) <= BytesMax
    <3>1. Bytes(q) \in Nat
      <4>1. PICK f : Sums(f, q) /\ Bytes(q) = f[Len(q)]
        BY <1>2, BytesIs
      <4> QED BY <1>2, <4>1 DEF Sums
    <3>2. Bytes(r) <= BytesMax
      BY <1>3, <1>10, <2>2, <3>1, LimitAssumption
    <3> QED BY <1>9, <2>1, <3>2 DEF ImagesOK
  <2>3. CASE Len(q) = 1
    <3>1. CASE Len(r) = 1
      BY <1>9, <2>1, <3>1 DEF ImagesOK
    <3>2. CASE Len(r) # 1
      <4>1. Len(r) = 0
        BY <1>3, <1>7, <1>9, <2>3, <3>2
      <4>2. r = <<>>
        BY <1>9, <4>1
      <4>3. Bytes(r) <= BytesMax
        BY <4>2, NothingWeighs, LimitAssumption
      <4> QED BY <1>9, <2>1, <4>3 DEF ImagesOK
    <3> QED BY <3>1, <3>2
  <2> QED BY <2>2, <2>3 DEF ImagesOK
<1>12. MovedUp(q, r, n)
  <2>1. e \in [DOMAIN r -> DOMAIN q] /\ \A i, j \in DOMAIN r : i # j => e[i] # e[j]
    BY <1>2, <1>4, <1>7 DEF Picks
  <2>2. \A j \in DOMAIN r : /\ r[j].pixels = q[e[j]].pixels /\ r[j].tag = q[e[j]].tag
                            /\ q[e[j]].line >= n /\ r[j].line = q[e[j]].line - n
    BY <1>5, <1>6, <1>7
  <2> QED BY <2>1, <2>2 DEF MovedUp
<1> QED BY <1>1, <1>11, <1>12

(* The new picture stays, and of those before it the oldest go.            *)
LEMMA PushKeeps ==
  ASSUME NEW q \in Seq(Image), NEW x \in Image
  PROVE  /\ ImagesOK(push_image(Append(q, x)))
         /\ \E d \in 0 .. Len(q) : push_image(Append(q, x)) = SubSeq(Append(q, x), d + 1, Len(q) + 1)
<1> DEFINE a == Append(q, x)
           Fits(n) == n = 1 \/ (n <= ImagesMax /\ Bytes(Newest(a, n)) <= BytesMax)
           K == {n \in 1 .. Len(a) : Fits(n)}
<1>1. a \in Seq(Image) /\ Len(a) = Len(q) + 1 /\ Len(q) \in Nat
  OBVIOUS
<1>2. push_image(a) = Newest(a, Max(K))
  BY Zenon DEF push_image
<1> HIDE DEF a
<1>3. K \subseteq 1 .. Len(a) /\ 1 \in K /\ \A n \in K : Fits(n)
  BY <1>1
<1> HIDE DEF K
<1>4. Max(K) \in K
  <2>1. K \subseteq Nat /\ K # {} /\ Len(a) \in Nat /\ \A n \in K : n <= Len(a)
    BY <1>1, <1>3
  <2>2. \E n \in K : \A j \in K : j <= n
    BY <2>1, GreatestNat
  <2>3. \E n \in K : \A j \in K : n >= j
    BY <2>1, <2>2
  <2> QED BY <2>3 DEF Max
<1> DEFINE n == Max(K)
           r == Newest(a, n)
           d == Len(a) - n
<1>5. n \in 1 .. Len(a) /\ Fits(n)
  BY <1>3, <1>4
<1> HIDE DEF n
<1>6. d \in 0 .. Len(q) /\ r = SubSeq(a, d + 1, Len(a)) /\ n = Len(a) - d
  BY <1>1, <1>5 DEF Newest
<1>7. r \in Seq(Image) /\ Len(r) = n
  <2> HIDE DEF d, r
  <2>1. d + 1 \in 1 .. Len(a) /\ Len(a) \in Nat
    BY <1>1, <1>6
  <2>2. SubSeq(a, d + 1, Len(a)) \in Seq(Image) /\ Len(SubSeq(a, d + 1, Len(a))) = Len(a) - d
    BY <1>1, <1>6, <2>1
  <2> QED BY <1>6, <2>2
<1>8. ImagesOK(r)
  <2>1. CASE n = 1
    BY <1>7, <2>1, LimitAssumption DEF ImagesOK
  <2>2. CASE n <= ImagesMax /\ Bytes(r) <= BytesMax
    BY <1>7, <2>2 DEF ImagesOK
  <2> QED BY <1>5, <2>1, <2>2
<1> HIDE DEF r, d
<1>9. push_image(a) = r
  BY <1>2 DEF r, n
<1> QED BY <1>1, <1>6, <1>8, <1>9 DEF a

(* The store has the new picture under its id, unless it had to go, and of *)
(* the others some as they were.                                           *)
LEMMA StoreKeeps ==
  ASSUME NEW f, StoreOK(f), NEW id \in AllIds, NEW p \in Pixels
  PROVE  /\ StoreOK(store_kitty_image(f, id, p))
         /\ \A i \in DOMAIN store_kitty_image(f, id, p) :
              /\ i = id \/ i \in DOMAIN f
              /\ store_kitty_image(f, id, p)[i] = IF i = id THEN p ELSE f[i]
<1> DEFINE new == [i \in DOMAIN f \cup {id} |-> IF i = id THEN p ELSE f[i]]
           From(k) == Restrict(new, {i \in DOMAIN new : i >= k})
           Few(k) == Cardinality(DOMAIN From(k))
           Fits(k) == Few(k) = 1 \/ (Few(k) <= StoreMax /\ Weight(From(k)) <= BytesMax)
           K == {k \in DOMAIN new : Fits(k)}
           g == From(Min(K))
<1>1. store_kitty_image(f, id, p) = g
  BY Zenon DEF store_kitty_image
<1>2. /\ DOMAIN new = DOMAIN f \cup {id} /\ DOMAIN new \subseteq AllIds
      /\ \A i \in DOMAIN new : new[i] = (IF i = id THEN p ELSE f[i]) /\ new[i] \in Pixels
  BY DEF StoreOK
<1> HIDE DEF new
<1>3. DOMAIN new \subseteq Nat /\ id \in Nat
  <2>1. Ids \subseteq Nat
    BY LimitAssumption
  <2>2. AllIds \subseteq Nat
    BY <2>1 DEF AllIds
  <2> QED BY <1>2, <2>2
<1>4. PICK m \in Nat : DOMAIN new \subseteq 0 .. m
  <2>1. PICK m \in Nat : DOMAIN f \subseteq 0 .. m
    BY DEF StoreOK, Bounded
  <2>2. m + id \in Nat /\ DOMAIN new \subseteq 0 .. m + id
    BY <1>2, <1>3, <2>1
  <2> QED BY <2>2
<1>5. ASSUME NEW k PROVE /\ DOMAIN From(k) = {i \in DOMAIN new : i >= k}
                         /\ \A i \in DOMAIN From(k) : From(k)[i] = new[i]
                         /\ From(k) = [i \in DOMAIN From(k) |-> From(k)[i]]
  BY DEF Restrict
<1>6. PICK top \in DOMAIN new : \A i \in DOMAIN new : i <= top
  <2>1. DOMAIN new # {} /\ \A i \in DOMAIN new : i <= m
    BY <1>2, <1>4
  <2> QED BY <1>3, <2>1, GreatestNat
<1>7. top \in K
  <2>1. {i \in DOMAIN new : i >= top} = {top}
    BY <1>3, <1>6
  <2>2. Few(top) = 1
    BY <1>5, <2>1, FS_Singleton
  <2> QED BY <2>2
<1> HIDE DEF From
<1>8. Min(K) \in K
  <2>1. K \subseteq Nat /\ K # {}
    BY <1>3, <1>7
  <2> HIDE DEF K
  <2>2. \E n \in K : \A j \in K : n <= j
    BY <2>1, LeastNat
  <2> QED BY <2>2 DEF Min
<1>9. Fits(Min(K)) /\ Min(K) \in DOMAIN new
  BY <1>8
<1> HIDE DEF K
<1>10. /\ DOMAIN g \subseteq DOMAIN new /\ \A i \in DOMAIN g : g[i] = new[i]
       /\ g = [i \in DOMAIN g |-> g[i]]
  BY <1>5
<1>11. Cardinality(DOMAIN g) = 1 \/ (Cardinality(DOMAIN g) <= StoreMax /\ Weight(g) <= BytesMax)
  BY <1>9
<1> HIDE DEF g, Fits, Few
<1>12. StoreOK(g)
  <2>1. g \in [DOMAIN g -> Pixels]
    BY <1>2, <1>10
  <2>2. DOMAIN g \subseteq AllIds /\ Bounded(g)
    BY <1>2, <1>4, <1>10 DEF Bounded
  <2>3. Cardinality(DOMAIN g) <= StoreMax /\ (Weight(g) <= BytesMax \/ Cardinality(DOMAIN g) <= 1)
    BY <1>11, LimitAssumption
  <2> QED BY <2>1, <2>2, <2>3 DEF StoreOK
<1>13. \A i \in DOMAIN g : (i = id \/ i \in DOMAIN f) /\ g[i] = IF i = id THEN p ELSE f[i]
  BY <1>2, <1>10
<1> QED BY <1>1, <1>12, <1>13

(* A command of the graphics protocol.                                     *)
Actions == {"t", "T", "sixel"}
Command == [id : AllIds, action : Actions, size : Nat, piece : Piece, more : BOOLEAN]

(* What its piece makes of the set with its id.                            *)
Without(f, id) == Restrict(f, DOMAIN f \ {id})
With(f, id, c) == [i \in DOMAIN f \cup {id} |-> IF i = id THEN c ELSE f[i]]
Coming(f, cmd) ==
  LET old == IF cmd.id \in DOMAIN f THEN f[cmd.id] ELSE [payload |-> <<>>, size |-> cmd.size]
  IN  [payload |-> Append(old.payload, cmd.piece), size |-> old.size]
Room(f, id) == id \in DOMAIN f \/ Cardinality(DOMAIN f) < ChunksMax
Taken(f, cmd) == Room(f, cmd.id) /\ Len(Coming(f, cmd).payload) <= PayloadMax
Complete(c) == c.size > 0 /\ Len(c.payload) = c.size
Ends(f, cmd) == Taken(f, cmd) /\ ~cmd.more /\ Complete(Coming(f, cmd))

TermRec(t) == t = [hist |-> t.hist, row |-> t.row, view |-> t.view, images |-> t.images,
                   chunks |-> t.chunks, store |-> t.store]
Placed(pixels) == [pixels |-> pixels, line |-> Here, tag |-> gone + Here]

(* What a command does to the pieces in flight, the pictures on lines and  *)
(* the store.                                                              *)
Does(u, cmd) ==
  LET f == term.chunks
      p == Coming(f, cmd).payload
  IN  /\ u.hist = term.hist /\ u.row = term.row /\ u.view = term.view
      /\ u.chunks = IF ~Room(f, cmd.id) THEN f
                    ELSE IF Taken(f, cmd) /\ cmd.more THEN With(f, cmd.id, Coming(f, cmd))
                    ELSE Without(f, cmd.id)
      /\ u.images = IF Ends(f, cmd) /\ cmd.action # "t"
                    THEN push_image(Append(term.images, Placed(p))) ELSE term.images
      /\ u.store = IF Ends(f, cmd) /\ ~(cmd.action = "T" /\ cmd.id = 0)
                   THEN store_kitty_image(term.store, cmd.id, p) ELSE term.store

(* transmit does that and nothing else.                                    *)
LEMMA TransmitDoes ==
  ASSUME TermRec(term), ChunksOK(term.chunks), NEW cmd \in Command
  PROVE  TermRec(transmit(term, cmd)) /\ Does(transmit(term, cmd), cmd)
<1> DEFINE f == term.chunks
           id == cmd.id
           known == id \in DOMAIN f
           old == IF known THEN f[id] ELSE [payload |-> <<>>, size |-> cmd.size]
           c == [old EXCEPT !.payload = Append(@, cmd.piece)]
           d == Coming(f, cmd)
           u == transmit(term, cmd)
<1>1. c = d
  <2>1. old = [payload |-> old.payload, size |-> old.size]
    BY DEF ChunksOK, Chunk
  <2> HIDE DEF old
  <2>2. c = [payload |-> Append(old.payload, cmd.piece), size |-> old.size]
    BY <2>1
  <2>3. d = [payload |-> Append(old.payload, cmd.piece), size |-> old.size]
    BY DEF Coming, old
  <2> QED BY <2>2, <2>3
<1> HIDE DEF d
<1>2. u = IF ~known /\ Cardinality(DOMAIN f) >= ChunksMax THEN term
          ELSE IF Len(d.payload) > PayloadMax THEN [term EXCEPT !.chunks = Without(@, id)]
          ELSE IF cmd.more THEN [term EXCEPT !.chunks = With(@, id, d)]
          ELSE Finish(term, cmd, d)
  <2>1. u = IF ~known /\ Cardinality(DOMAIN term.chunks) >= ChunksMax THEN term
          ELSE IF Len(c.payload) > PayloadMax
               THEN [term EXCEPT !.chunks = Restrict(@, DOMAIN @ \ {cmd.id})]
          ELSE IF cmd.more THEN [term EXCEPT !.chunks = [i \in DOMAIN @ \cup {cmd.id} |->
                                                    IF i = cmd.id THEN c ELSE @[i]]]
          ELSE Finish(term, cmd, c)
    BY ZenonT(60) DEF transmit
  <2> HIDE DEF c, u
  <2> QED BY <1>1, <2>1, Zenon DEF Without, With
<1> DEFINE left == [term EXCEPT !.chunks = Without(@, id)]
           stored == [left EXCEPT !.store = store_kitty_image(@, id, d.payload)]
<1>3. left = [term EXCEPT !.chunks = Without(f, id)] /\ TermRec(left)
      /\ left.chunks = Without(f, id) /\ left.store = term.store /\ left.images = term.images
      /\ left.hist = term.hist /\ left.row = term.row /\ left.view = term.view
  BY DEF TermRec
<1>4. /\ TermRec(stored) /\ stored.chunks = Without(f, id) /\ stored.images = term.images
      /\ stored.store = store_kitty_image(term.store, id, d.payload)
      /\ stored.hist = term.hist /\ stored.row = term.row /\ stored.view = term.view
  <2> HIDE DEF left
  <2> DEFINE sk == store_kitty_image(term.store, id, d.payload)
  <2>1. stored = [left EXCEPT !.store = sk]
    BY <1>3
  <2> HIDE DEF stored, sk
  <2>2. stored = [hist |-> left.hist, row |-> left.row, view |-> left.view,
                  images |-> left.images, chunks |-> left.chunks, store |-> sk]
    BY <1>3, <2>1 DEF TermRec
  <2> QED BY <1>3, <2>2 DEF TermRec, sk
<1>5. Finish(term, cmd, d) = IF decode_kitty(d) = {} THEN left
        ELSE CASE cmd.action = "t" -> stored
               [] cmd.action = "T" /\ cmd.id = 0 -> place(left, d.payload)
               [] OTHER -> place(stored, d.payload)
  BY ZenonT(60) DEF Finish, Without
<1>6. decode_kitty(d) = {} <=> ~Complete(d)
  BY DEF decode_kitty, Complete
<1> HIDE DEF left, stored
<1>7. ASSUME NEW t, TermRec(t)
      PROVE  LET w == place(t, d.payload)
             IN  /\ TermRec(w) /\ w.chunks = t.chunks /\ w.store = t.store
                 /\ w.hist = t.hist /\ w.row = t.row /\ w.view = t.view
                 /\ w.images = push_image(Append(t.images, Placed(d.payload)))
  BY <1>7 DEF place, Placed, TermRec
<1>8. Cardinality(DOMAIN f) \in Nat /\ ChunksMax \in Nat
  BY FS_CardinalityType, LimitAssumption DEF ChunksOK
<1>9. Len(d.payload) \in Nat /\ PayloadMax \in Nat
  <2>1. old.payload \in Pixels /\ cmd.piece \in Piece
    BY DEF ChunksOK, Chunk, Pixels, Command
  <2>2. d.payload = Append(old.payload, cmd.piece)
    BY DEF d, Coming
  <2> HIDE DEF old
  <2>3. d.payload \in Seq(Piece)
    BY <2>1, <2>2 DEF Pixels
  <2> QED BY <2>3, LimitAssumption
<1> HIDE DEF u, old, c
<1>10. CASE ~Room(f, id)
  <2>1. u = term
    BY <1>2, <1>8, <1>10 DEF Room
  <2> QED BY <1>10, <2>1 DEF Does, Ends, Taken, u
<1>11. CASE Room(f, id) /\ ~Taken(f, cmd)
  <2>1. u = left
    BY <1>2, <1>8, <1>9, <1>11 DEF Room, Taken, d, left
  <2> QED BY <1>3, <1>11, <2>1 DEF Does, Ends, u
<1>12. CASE Taken(f, cmd) /\ cmd.more
  <2>1. u = [term EXCEPT !.chunks = With(f, id, d)]
    BY <1>2, <1>8, <1>9, <1>12 DEF Room, Taken, d
  <2>2. TermRec(u) /\ u.chunks = With(f, id, d) /\ u.store = term.store /\ u.images = term.images
        /\ u.hist = term.hist /\ u.row = term.row /\ u.view = term.view
    BY <2>1 DEF TermRec
  <2> QED BY <1>12, <2>2 DEF Does, Ends, Taken, u, d
<1>13. CASE Taken(f, cmd) /\ ~cmd.more
  <2>0. Room(f, id)
    BY <1>13 DEF Taken
  <2>1. u = Finish(term, cmd, d)
    BY <1>2, <1>8, <1>9, <1>13 DEF Room, Taken, d
  <2>2. CASE ~Complete(d)
    <3>1. u = left
      BY <1>5, <1>6, <2>1, <2>2
    <3> QED BY <1>3, <1>13, <2>0, <2>2, <3>1 DEF Does, Ends, u, d
  <2>3. CASE Complete(d)
    <3>0. Ends(f, cmd)
      BY <1>13, <2>3 DEF Ends, d
    <3>1. CASE cmd.action = "t"
      <4>1. u = stored
        BY <1>5, <1>6, <2>1, <2>3, <3>1
      <4> QED BY <1>4, <1>13, <2>0, <3>0, <3>1, <4>1 DEF Does, u, d
    <3>2. CASE cmd.action = "T" /\ cmd.id = 0
      <4>1. u = place(left, d.payload)
        BY <1>5, <1>6, <2>1, <2>3, <3>2
      <4>2. /\ TermRec(u) /\ u.chunks = left.chunks /\ u.store = left.store
            /\ u.hist = left.hist /\ u.row = left.row /\ u.view = left.view
            /\ u.images = push_image(Append(left.images, Placed(d.payload)))
        BY <1>3, <1>7, <4>1
      <4> QED BY <1>3, <1>13, <2>0, <3>0, <3>2, <4>2 DEF Does, u, d
    <3>3. CASE cmd.action # "t" /\ ~(cmd.action = "T" /\ cmd.id = 0)
      <4>1. u = place(stored, d.payload)
        BY <1>5, <1>6, <2>1, <2>3, <3>3
      <4>2. /\ TermRec(u) /\ u.chunks = stored.chunks /\ u.store = stored.store
            /\ u.hist = stored.hist /\ u.row = stored.row /\ u.view = stored.view
            /\ u.images = push_image(Append(stored.images, Placed(d.payload)))
        BY <1>4, <1>7, <4>1
      <4> QED BY <1>4, <1>13, <2>0, <3>0, <3>3, <4>2 DEF Does, u, d
    <3> QED BY <3>1, <3>2, <3>3
  <2> QED BY <2>2, <2>3
<1>14. Taken(f, cmd) => Room(f, id)
  BY DEF Taken
<1> QED BY <1>10, <1>11, <1>12, <1>13, <1>14

-----------------------------------------------------------------------------
(* Types and limits *)

TermOK(t) == /\ TermRec(t) /\ t.hist \in 0 .. scene.cap /\ t.row \in 0 .. scene.rows - 1
             /\ t.view \in 0 .. t.hist
             /\ ImagesOK(t.images) /\ StoreOK(t.store) /\ ChunksOK(t.chunks)

(* The pictures of q are on lines of a terminal with h lines of history,   *)
(* and each is on the line of text it was put on, g lines having left.     *)
OnLines(q, h, g) ==
  \A i \in DOMAIN q : q[i].line <= h + scene.rows - 1 /\ q[i].tag = g + q[i].line

Pic == [id : AllIds, action : Actions, next : Nat, ok : BOOLEAN]

IInv == /\ scene \in Scenes /\ gone \in Nat
        /\ pics \in Seq(Pic) /\ Len(pics) <= Len(scene.sizes)
        /\ TermOK(term) /\ OnLines(term.images, term.hist, gone)

(* What the assumptions say of a scene.                                    *)
LEMMA SceneIs ==
  ASSUME IInv
  PROVE  /\ scene.rows \in Nat \ {0} /\ scene.cap \in Nat \ {0} /\ scene.sizes \in Seq(Nat \ {0})
         /\ term.hist \in Nat /\ term.row \in Nat /\ term.view \in Nat /\ Here \in Nat
         /\ Here <= term.hist + scene.rows - 1
<1>1. scene.rows \in Nat \ {0} /\ scene.cap \in Nat \ {0} /\ scene.sizes \in Seq(Nat \ {0})
  BY SceneAssumption DEF IInv
<1>2. term.hist \in 0 .. scene.cap /\ term.row \in 0 .. scene.rows - 1 /\ term.view \in 0 .. term.hist
  BY DEF IInv, TermOK
<1> QED BY <1>1, <1>2 DEF Here

(* A picture whose next piece is sent.                                     *)
LEMMA Parsed ==
  ASSUME IInv, NEW n \in InFlight
  PROVE  /\ parse_kitty(n) \in Command /\ n \in DOMAIN pics /\ n \in DOMAIN scene.sizes
         /\ pics[n] \in Pic /\ pics[n].next \in 1 .. scene.sizes[n] /\ scene.sizes[n] \in Nat \ {0}
<1>1. n \in DOMAIN pics /\ pics[n].next \in 1 .. scene.sizes[n]
  BY DEF InFlight
<1>2. pics \in Seq(Pic) /\ Len(pics) <= Len(scene.sizes) /\ scene.sizes \in Seq(Nat \ {0})
  BY SceneIs DEF IInv
<1>3. n \in Nat /\ n \in DOMAIN scene.sizes /\ pics[n] \in Pic /\ scene.sizes[n] \in Nat \ {0}
  BY <1>1, <1>2
<1>4. pics[n].id \in AllIds /\ 0 \in AllIds /\ pics[n].action \in Actions /\ "T" \in Actions
      /\ pics[n].next \in Nat
  BY <1>3 DEF Pic, AllIds, Actions
<1>5. <<n, pics[n].next>> \in Piece
  BY <1>3, <1>4 DEF Piece
<1> DEFINE cmd == parse_kitty(n)
           piece == <<n, pics[n].next>>
           keys == pics[n].next = 1 \/ scene.keys = "repeat"
<1>6. cmd = [id |-> IF keys THEN pics[n].id ELSE 0, action |-> IF keys THEN pics[n].action ELSE "T",
             size |-> IF pics[n].next = 1 THEN scene.sizes[n] ELSE 0,
             piece |-> piece, more |-> pics[n].next < scene.sizes[n]]
  BY Zenon DEF parse_kitty
<1> HIDE DEF cmd, piece, keys
<1>7. cmd \in Command
  BY <1>3, <1>4, <1>5, <1>6 DEF Command, piece
<1> QED BY <1>1, <1>3, <1>7 DEF cmd

(* A picture that is placed is on the line of the cursor, the last one,    *)
(* and the others are where they were.                                     *)
LEMMA PlacedIs ==
  ASSUME IInv, NEW p \in Pixels
  PROVE  /\ ImagesOK(push_image(Append(term.images, Placed(p))))
         /\ OnLines(push_image(Append(term.images, Placed(p))), term.hist, gone)
         /\ \E d \in 0 .. Len(term.images) :
              push_image(Append(term.images, Placed(p)))
                = SubSeq(Append(term.images, Placed(p)), d + 1, Len(term.images) + 1)
<1> DEFINE x == Placed(p)
           q == term.images
           a == Append(q, x)
<1>1. q \in Seq(Image) /\ OnLines(q, term.hist, gone) /\ gone \in Nat
  BY DEF IInv, TermOK, ImagesOK
<1>2. x \in Image /\ x.line = Here /\ x.tag = gone + Here /\ x.pixels = p
  BY <1>1, SceneIs DEF Placed, Image
<1> HIDE DEF x
<1>3. ImagesOK(push_image(a)) /\ \E d \in 0 .. Len(q) : push_image(a) = SubSeq(a, d + 1, Len(q) + 1)
  BY <1>1, <1>2, PushKeeps
<1>4. PICK d \in 0 .. Len(q) : push_image(a) = SubSeq(a, d + 1, Len(q) + 1)
  BY <1>3
<1>5. ASSUME NEW i \in DOMAIN SubSeq(a, d + 1, Len(q) + 1)
      PROVE  LET r == SubSeq(a, d + 1, Len(q) + 1)
             IN  r[i].line <= term.hist + scene.rows - 1 /\ r[i].tag = gone + r[i].line
  <2> DEFINE r == SubSeq(a, d + 1, Len(q) + 1)
  <2>1. i + d \in 1 .. Len(q) + 1 /\ r[i] = a[i + d] /\ Len(q) \in Nat
    BY SMTT(30), <1>1, <1>2, <1>5
  <2>2. CASE i + d = Len(q) + 1
    <3>1. r[i] = x
      BY <1>1, <1>2, <2>1, <2>2
    <3> QED BY <1>2, <3>1, SceneIs
  <2>3. CASE i + d # Len(q) + 1
    <3>1. i + d \in DOMAIN q /\ r[i] = q[i + d]
      BY <1>1, <1>2, <2>1, <2>3
    <3> HIDE DEF r
    <3>2. q[i + d].line <= term.hist + scene.rows - 1 /\ q[i + d].tag = gone + q[i + d].line
      BY <1>1, <3>1 DEF OnLines
    <3> QED BY <3>1, <3>2 DEF r
  <2> QED BY <2>2, <2>3
<1>6. OnLines(push_image(a), term.hist, gone)
  BY <1>4, <1>5 DEF OnLines
<1> QED BY <1>3, <1>6 DEF x

(* The pieces of a set, with the one that comes.                           *)
LEMMA ComingIs ==
  ASSUME ChunksOK(term.chunks), NEW cmd \in Command
  PROVE  /\ Coming(term.chunks, cmd) \in Chunk
         /\ Coming(term.chunks, cmd).payload \in Pixels
         /\ Len(Coming(term.chunks, cmd).payload) \in Nat \ {0}
<1> DEFINE f == term.chunks
           old == IF cmd.id \in DOMAIN f THEN f[cmd.id] ELSE [payload |-> <<>>, size |-> cmd.size]
           c == Coming(f, cmd)
<1>1. cmd.size \in Nat /\ cmd.piece \in Piece
  BY DEF Command
<1>2. old.payload \in Seq(Piece) /\ old.size \in Nat
  BY <1>1 DEF ChunksOK, Chunk, Pixels
<1>3. c = [payload |-> Append(old.payload, cmd.piece), size |-> old.size]
  BY DEF Coming
<1> HIDE DEF old, c
<1>4. c.payload \in Seq(Piece) /\ Len(c.payload) \in Nat \ {0} /\ c.size \in Nat
  BY <1>1, <1>2, <1>3
<1>5. c \in Chunk
  BY <1>3, <1>4 DEF Chunk, Pixels
<1> QED BY <1>4, <1>5 DEF c, Pixels

(* The sets in flight stay within their limits.                            *)
LEMMA ChunksKept ==
  ASSUME ChunksOK(term.chunks), NEW cmd \in Command
  PROVE  /\ ChunksOK(Without(term.chunks, cmd.id))
         /\ Taken(term.chunks, cmd) => ChunksOK(With(term.chunks, cmd.id, Coming(term.chunks, cmd)))
<1> DEFINE f == term.chunks
           id == cmd.id
           c == Coming(f, cmd)
           g == Without(f, id)
           h == With(f, id, c)
<1>1. /\ f \in [DOMAIN f -> Chunk] /\ DOMAIN f \subseteq AllIds /\ IsFiniteSet(DOMAIN f)
      /\ Cardinality(DOMAIN f) <= ChunksMax /\ Cardinality(DOMAIN f) \in Nat /\ ChunksMax \in Nat
      /\ \A i \in DOMAIN f : Len(f[i].payload) \in 1 .. PayloadMax
  BY FS_CardinalityType, LimitAssumption DEF ChunksOK
<1>2. id \in AllIds /\ c \in Chunk /\ Len(c.payload) \in Nat \ {0} /\ PayloadMax \in Nat
  BY ComingIs, LimitAssumption DEF Command
<1> HIDE DEF c
<1>3. ChunksOK(g)
  <2>1. DOMAIN g = DOMAIN f \ {id} /\ (\A i \in DOMAIN g : g[i] = f[i]) /\ g = [i \in DOMAIN g |-> g[i]]
    BY DEF Without, Restrict
  <2> HIDE DEF g
  <2>2. IsFiniteSet(DOMAIN g) /\ Cardinality(DOMAIN g) <= Cardinality(DOMAIN f)
        /\ Cardinality(DOMAIN g) \in Nat
    BY <1>1, <2>1, FS_Subset, FS_CardinalityType
  <2>3. g \in [DOMAIN g -> Chunk] /\ DOMAIN g \subseteq AllIds
    BY <1>1, <2>1
  <2> QED BY <1>1, <2>1, <2>2, <2>3 DEF ChunksOK
<1>4. ASSUME Taken(f, cmd) PROVE ChunksOK(h)
  <2>1. DOMAIN h = DOMAIN f \cup {id} /\ (\A i \in DOMAIN h : h[i] = IF i = id THEN c ELSE f[i])
        /\ h = [i \in DOMAIN h |-> h[i]]
    BY DEF With
  <2> HIDE DEF h
  <2>2. IsFiniteSet(DOMAIN h) /\ Cardinality(DOMAIN h) <= ChunksMax
    <3>1. CASE id \in DOMAIN f
      <4>1. DOMAIN h = DOMAIN f
        BY <2>1, <3>1
      <4> QED BY <1>1, <4>1
    <3>2. CASE id \notin DOMAIN f
      <4>1. IsFiniteSet(DOMAIN h) /\ Cardinality(DOMAIN h) = Cardinality(DOMAIN f) + 1
        BY <1>1, <2>1, <3>2, FS_AddElement
      <4>2. Cardinality(DOMAIN f) < ChunksMax
        BY <1>4, <3>2 DEF Taken, Room
      <4> QED BY <1>1, <4>1, <4>2
    <3> QED BY <3>1, <3>2
  <2>3. h \in [DOMAIN h -> Chunk] /\ DOMAIN h \subseteq AllIds
    BY <1>1, <1>2, <2>1
  <2>4. Len(c.payload) \in 1 .. PayloadMax
    BY <1>2, <1>4 DEF Taken, c
  <2>5. \A i \in DOMAIN h : Len(h[i].payload) \in 1 .. PayloadMax
    BY <1>1, <2>1, <2>4
  <2> QED BY <2>2, <2>3, <2>5 DEF ChunksOK
<1> QED BY <1>3, <1>4 DEF c

(* A command of the protocol keeps the terminal within its limits.         *)
LEMMA DoesKeeps ==
  ASSUME IInv, NEW cmd \in Command, NEW u, TermRec(u), Does(u, cmd)
  PROVE  TermOK(u) /\ OnLines(u.images, u.hist, gone)
<1> DEFINE f == term.chunks
           p == Coming(f, cmd).payload
<1>1. TermOK(term) /\ OnLines(term.images, term.hist, gone) /\ ChunksOK(f) /\ StoreOK(term.store)
      /\ ImagesOK(term.images)
  BY DEF IInv, TermOK
<1>2. p \in Pixels /\ cmd.id \in AllIds
  BY <1>1, ComingIs DEF Command
<1>3. ChunksOK(u.chunks)
  BY <1>1, ChunksKept DEF Does
<1> HIDE DEF p
<1>4. StoreOK(u.store)
  <2>1. u.store = term.store \/ u.store = store_kitty_image(term.store, cmd.id, p)
    BY DEF Does, p
  <2> QED BY <1>1, <1>2, <2>1, StoreKeeps
<1>5. ImagesOK(u.images) /\ OnLines(u.images, term.hist, gone)
  <2>1. u.images = term.images \/ u.images = push_image(Append(term.images, Placed(p)))
    BY DEF Does, p
  <2> QED BY <1>1, <1>2, <2>1, PlacedIs
<1>6. u.hist = term.hist /\ u.row = term.row /\ u.view = term.view
  BY DEF Does
<1> QED BY <1>1, <1>3, <1>4, <1>5, <1>6 DEF TermOK

(* What place puts into a terminal that is well formed.                    *)
LEMMA PlaceIs ==
  ASSUME TermRec(term), NEW p
  PROVE  /\ TermRec(place(term, p))
         /\ place(term, p).images = push_image(Append(term.images, Placed(p)))
         /\ place(term, p).chunks = term.chunks /\ place(term, p).store = term.store
         /\ place(term, p).hist = term.hist /\ place(term, p).row = term.row
         /\ place(term, p).view = term.view
BY DEF place, Placed, TermRec

(* So the types and limits stay.                                           *)
LEMMA PlaceKeeps ==
  ASSUME IInv, NEW p \in Pixels
  PROVE  TermOK(place(term, p)) /\ OnLines(place(term, p).images, term.hist, gone)
<1>1. TermOK(term) /\ TermRec(term)
  BY DEF IInv, TermOK
<1> DEFINE u == place(term, p)
<1>2. /\ TermRec(u) /\ u.images = push_image(Append(term.images, Placed(p)))
      /\ u.chunks = term.chunks /\ u.store = term.store
      /\ u.hist = term.hist /\ u.row = term.row /\ u.view = term.view
  BY <1>1, PlaceIs
<1> HIDE DEF u
<1>3. ImagesOK(u.images) /\ OnLines(u.images, term.hist, gone)
  BY <1>2, PlacedIs
<1> QED BY <1>1, <1>2, <1>3 DEF TermOK, u

(* A whole picture is a sequence of pieces.                                *)
LEMMA PictureIs ==
  ASSUME IInv, NEW n \in 1 .. Len(scene.sizes)
  PROVE  Picture(n) \in Pixels /\ Len(Picture(n)) = scene.sizes[n] /\ scene.sizes[n] \in Nat \ {0}
<1>1. scene.sizes[n] \in Nat \ {0} /\ n \in Nat
  BY SceneIs
<1> DEFINE m == scene.sizes[n]
<1>2. Picture(n) = [k \in 1 .. m |-> <<n, k>>]
  BY DEF Picture
<1> HIDE DEF m
<1>3. \A k \in 1 .. m : <<n, k>> \in Piece
  BY <1>1 DEF Piece
<1>4. m \in Nat /\ \A k \in 1 .. m : Picture(n)[k] \in Piece
  BY <1>1, <1>2, <1>3 DEF m
<1>5. Picture(n) \in Seq(Piece) /\ Len(Picture(n)) = m
  BY <1>2, <1>4
<1> QED BY <1>1, <1>5 DEF Pixels, m

(* Lines that leave the terminal: n of them, of a history that shrinks by  *)
(* no more than n.                                                         *)
LEMMA MovedLines ==
  ASSUME IInv, NEW n \in Nat, NEW h \in Nat, h + n >= term.hist
  PROVE  OnLines(reanchor(term.images, n), h, gone + n) /\ ImagesOK(reanchor(term.images, n))
<1> DEFINE q == term.images
           r == reanchor(q, n)
<1>1. ImagesOK(q) /\ OnLines(q, term.hist, gone) /\ gone \in Nat /\ q \in Seq(Image)
  BY DEF IInv, TermOK, ImagesOK
<1>2. ImagesOK(r) /\ MovedUp(q, r, n)
  BY <1>1, ReanchorMoves
<1> HIDE DEF r
<1>3. PICK e : /\ e \in [DOMAIN r -> DOMAIN q]
               /\ \A j \in DOMAIN r : /\ r[j].pixels = q[e[j]].pixels /\ r[j].tag = q[e[j]].tag
                                      /\ q[e[j]].line >= n /\ r[j].line = q[e[j]].line - n
  BY <1>2 DEF MovedUp
<1>4. ASSUME NEW j \in DOMAIN r
      PROVE  r[j].line <= h + scene.rows - 1 /\ r[j].tag = gone + n + r[j].line
  <2>1. e[j] \in DOMAIN q
    BY <1>3
  <2>2. q[e[j]] \in Image /\ q[e[j]].line \in Nat
    <3>1. q[e[j]] \in Image
      BY <1>1, <2>1
    <3> QED BY <3>1 DEF Image
  <2>3. q[e[j]].line <= term.hist + scene.rows - 1 /\ q[e[j]].tag = gone + q[e[j]].line
    BY <1>1, <2>1 DEF OnLines
  <2>4. r[j].tag = q[e[j]].tag /\ r[j].line = q[e[j]].line - n
    BY <1>3
  <2> DEFINE x == q[e[j]].line
  <2>5. x \in Nat /\ x <= term.hist + scene.rows - 1 /\ r[j].line = x - n /\ r[j].tag = gone + x
    BY <2>2, <2>3, <2>4
  <2> HIDE DEF x, r, q
  <2>6. term.hist \in Nat /\ scene.rows \in Nat
    BY SceneIs
  <2> QED BY SMTT(30), <1>1, <2>5, <2>6
<1> QED BY <1>2, <1>4 DEF OnLines, r

-----------------------------------------------------------------------------
(* The types, step by step *)

Paints == \/ Wheel \/ Sweep \/ Paint \/ FrameEnd

(* There is nothing at first.                                              *)
LEMMA InitTypes == Init => IInv
<1> SUFFICES ASSUME Init PROVE IInv
  OBVIOUS
<1>1. /\ scene \in Scenes /\ pics = <<>> /\ gone = 0
      /\ term = [hist |-> 0, row |-> 0, view |-> 0, images |-> <<>>, chunks |-> Empty, store |-> Empty]
  BY DEF Init
<1>2. scene.rows \in Nat \ {0} /\ scene.cap \in Nat \ {0} /\ scene.sizes \in Seq(Nat \ {0})
  BY <1>1, SceneAssumption
<1>3. ImagesOK(<<>>)
  BY NothingWeighs, LimitAssumption DEF ImagesOK
<1>4. DOMAIN Empty = {} /\ IsFiniteSet({}) /\ Cardinality({}) = 0
  BY FS_EmptySet DEF Empty
<1>5. StoreOK(Empty)
  <2>1. Empty \in [DOMAIN Empty -> Pixels] /\ Bounded(Empty)
    BY <1>4 DEF Empty, Bounded
  <2> QED BY <1>4, <2>1, LimitAssumption DEF StoreOK
<1>6. ChunksOK(Empty)
  <2>1. Empty \in [DOMAIN Empty -> Chunk]
    BY <1>4 DEF Empty
  <2> QED BY <1>4, <2>1, LimitAssumption DEF ChunksOK
<1>7. TermOK(term)
  BY <1>1, <1>2, <1>3, <1>5, <1>6 DEF TermOK, TermRec
<1>8. pics \in Seq(Pic) /\ Len(pics) <= Len(scene.sizes) /\ OnLines(term.images, term.hist, gone)
  BY <1>1, <1>2 DEF OnLines
<1> QED BY <1>1, <1>7, <1>8 DEF IInv

(* Beginning a picture, or leaving one, keeps the types.                   *)
LEMMA ProgramsTypes == IInv /\ (Begin \/ Interrupt) => IInv'
<1> SUFFICES ASSUME IInv, Begin \/ Interrupt PROVE IInv'
  OBVIOUS
<1>1. UNCHANGED <<scene, term, gone>>
  BY DEF Begin, Interrupt
<1>2. pics \in Seq(Pic) /\ Len(pics) <= Len(scene.sizes) /\ scene.sizes \in Seq(Nat \ {0})
  BY SceneIs DEF IInv
<1>3. pics' \in Seq(Pic) /\ Len(pics') <= Len(scene.sizes)
  <2>1. CASE Begin
    <3>1. PICK id \in Ids, action \in {"t", "T"} :
            pics' = Append(pics, [id |-> id, action |-> action, next |-> 1, ok |-> TRUE])
      BY <2>1 DEF Begin
    <3> DEFINE p == [id |-> id, action |-> action, next |-> 1, ok |-> TRUE]
    <3>2. p \in Pic /\ Len(pics) < Len(scene.sizes)
      BY <2>1 DEF Pic, AllIds, Actions, Begin
    <3> HIDE DEF p
    <3>3. pics' = Append(pics, p)
      BY <3>1 DEF p
    <3> QED BY <1>2, <3>2, <3>3
  <2>2. CASE Interrupt
    <3>1. PICK n \in InFlight : pics' = [pics EXCEPT ![n].next = 0]
      BY <2>2 DEF Interrupt
    <3>2. n \in DOMAIN pics /\ pics[n] \in Pic
      BY <1>2 DEF InFlight
    <3>3. [pics[n] EXCEPT !.next = 0] \in Pic
      BY <3>2 DEF Pic
    <3> QED BY <1>2, <3>1, <3>2, <3>3
  <2> QED BY <2>1, <2>2
<1>4. TermOK(term)' /\ OnLines(term.images, term.hist, gone)'
  BY <1>1 DEF IInv, TermOK, OnLines
<1> QED BY <1>1, <1>3, <1>4 DEF IInv

(* What a step of the reader is.                                           *)
LEMMA ReaderIs ==
  ASSUME NEW t, Reader(t), scene' = scene, gone' \in Nat, TermOK(t), IInv,
         OnLines(t.images, t.hist, gone'), pics' \in Seq(Pic), Len(pics') <= Len(scene.sizes)
  PROVE  IInv'
<1>1. term' = t
  BY DEF Reader
<1>2. TermOK(term)' /\ OnLines(term.images, term.hist, gone)'
  BY <1>1 DEF TermOK, OnLines
<1> QED BY <1>2 DEF IInv

(* So does a command of the protocol, whatever it says, ...                *)
LEMMA SendTypes == IInv /\ Send => IInv'
<1> SUFFICES ASSUME IInv, Send PROVE IInv'
  OBVIOUS
<1>1. PICK n \in InFlight :
        /\ pics' = [pics EXCEPT ![n].next = @ + 1,
                       ![n].ok = @ /\ (pics[n].next > 1 \/ Cardinality(DOMAIN term.chunks \ {pics[n].id}) < ChunksMax)
                                   /\ scene.sizes[n] <= PayloadMax]
        /\ Reader(transmit(term, parse_kitty(n))) /\ gone' = gone
  BY Zenon DEF Send
<1> DEFINE u == transmit(term, parse_kitty(n))
           b == pics[n].ok /\ (pics[n].next > 1 \/ Cardinality(DOMAIN term.chunks \ {pics[n].id}) < ChunksMax)
                                   /\ scene.sizes[n] <= PayloadMax
<1>2. parse_kitty(n) \in Command /\ n \in DOMAIN pics /\ pics[n] \in Pic
  BY Parsed
<1>3. TermRec(u) /\ Does(u, parse_kitty(n))
  BY <1>2, TransmitDoes DEF IInv, TermOK
<1>4. TermOK(u) /\ OnLines(u.images, u.hist, gone)
  BY <1>2, <1>3, DoesKeeps
<1> HIDE DEF u
<1>5. pics \in Seq(Pic) /\ Len(pics) <= Len(scene.sizes)
  BY DEF IInv
<1>6. pics' = [pics EXCEPT ![n] = [id |-> pics[n].id, action |-> pics[n].action,
                                   next |-> pics[n].next + 1, ok |-> b]]
  <2>1. pics[n] = [id |-> pics[n].id, action |-> pics[n].action, next |-> pics[n].next,
                   ok |-> pics[n].ok]
    BY <1>2 DEF Pic
  <2>2. pics' = [pics EXCEPT ![n] = [[pics[n] EXCEPT !.next = pics[n].next + 1] EXCEPT !.ok = b]]
    BY <1>1, <1>2
  <2> DEFINE p == pics[n]
  <2> HIDE DEF b, p
  <2>3. [[p EXCEPT !.next = p.next + 1] EXCEPT !.ok = b]
          = [id |-> p.id, action |-> p.action, next |-> p.next + 1, ok |-> b]
    <3> DEFINE w == [[p EXCEPT !.next = p.next + 1] EXCEPT !.ok = b]
    <3>1. DOMAIN w = DOMAIN p /\ DOMAIN p = {"id", "action", "next", "ok"}
          /\ w.id = p.id /\ w.action = p.action /\ w.next = p.next + 1 /\ w.ok = b
      BY <2>1 DEF p
    <3>2. w = [x \in DOMAIN w |-> w[x]]
      OBVIOUS
    <3> HIDE DEF w
    <3>3. w = [id |-> p.id, action |-> p.action, next |-> p.next + 1, ok |-> b]
      BY <3>1, <3>2
    <3> QED BY <3>3 DEF w
  <2> QED BY <2>2, <2>3 DEF p
<1> HIDE DEF b
<1>7. b \in BOOLEAN
  BY <1>2 DEF Pic, b
<1>8. [id |-> pics[n].id, action |-> pics[n].action, next |-> pics[n].next + 1, ok |-> b] \in Pic
  BY <1>2, <1>7 DEF Pic
<1>9. pics' \in Seq(Pic) /\ Len(pics') = Len(pics)
  BY <1>2, <1>5, <1>6, <1>8
<1>10. gone' \in Nat /\ scene' = scene
  BY <1>1 DEF IInv, Reader
<1> QED BY <1>1, <1>4, <1>5, <1>9, <1>10, ReaderIs DEF u

(* ... a picture placed from the store or decoded whole, ...               *)
LEMMA PlaceTypes == IInv /\ (Put \/ Sixel) => IInv'
<1> SUFFICES ASSUME IInv, Put \/ Sixel PROVE IInv'
  OBVIOUS
<1>1. pics \in Seq(Pic) /\ Len(pics) <= Len(scene.sizes) /\ scene.sizes \in Seq(Nat \ {0}) /\ gone \in Nat
  BY SceneIs DEF IInv
<1>2. gone' = gone /\ scene' = scene
  BY DEF Put, Sixel, Reader
<1>3. CASE Put
  <2>1. PICK id \in DOMAIN term.store : Reader(place(term, term.store[id]))
    BY <1>3 DEF Put
  <2>2. term.store[id] \in Pixels
    BY <2>1 DEF IInv, TermOK, StoreOK
  <2> DEFINE t == place(term, term.store[id])
  <2>3. TermOK(t) /\ OnLines(t.images, term.hist, gone) /\ t.hist = term.hist
    BY <2>2, PlaceKeeps, PlaceIs DEF IInv, TermOK
  <2> HIDE DEF t
  <2>4. pics' = pics
    BY <1>3 DEF Put
  <2> QED BY <1>1, <1>2, <2>1, <2>3, <2>4, ReaderIs DEF t
<1>4. CASE Sixel
  <2> DEFINE p == [id |-> 0, action |-> "sixel", next |-> 0, ok |-> TRUE]
             n == Len(pics) + 1
             t == place(term, Picture(n))
  <2>1. Len(pics) < Len(scene.sizes) /\ pics' = Append(pics, p) /\ Reader(t)
    BY <1>4 DEF Sixel
  <2>2. p \in Pic
    BY DEF Pic, AllIds, Actions
  <2> HIDE DEF p
  <2>3. n \in 1 .. Len(scene.sizes) /\ pics' \in Seq(Pic) /\ Len(pics') <= Len(scene.sizes)
    BY <1>1, <2>1, <2>2
  <2>4. Picture(n) \in Pixels
    BY <2>3, PictureIs
  <2>5. TermOK(t) /\ OnLines(t.images, term.hist, gone) /\ t.hist = term.hist
    BY <2>4, PlaceKeeps, PlaceIs DEF IInv, TermOK
  <2> HIDE DEF t
  <2> QED BY <1>1, <1>2, <2>1, <2>3, <2>5, ReaderIs
<1> QED BY <1>3, <1>4

(* ... the deletion of what is stored and in flight, ...                   *)
LEMMA DeleteTypes == IInv /\ Delete => IInv'
<1> SUFFICES ASSUME IInv, Delete PROVE IInv'
  OBVIOUS
<1> DEFINE t == [term EXCEPT !.store = Empty, !.chunks = Empty]
<1>1. /\ Reader(t) /\ gone' = gone /\ scene' = scene
      /\ pics' = [n \in DOMAIN pics |-> IF n \in InFlight THEN [pics[n] EXCEPT !.ok = FALSE] ELSE pics[n]]
  BY DEF Delete, Reader
<1>2. pics \in Seq(Pic) /\ Len(pics) <= Len(scene.sizes) /\ gone \in Nat /\ TermOK(term)
      /\ OnLines(term.images, term.hist, gone)
  BY DEF IInv
<1>3. DOMAIN Empty = {} /\ IsFiniteSet({}) /\ Cardinality({}) = 0
  BY FS_EmptySet DEF Empty
<1>4. StoreOK(Empty)
  <2>1. Empty \in [DOMAIN Empty -> Pixels] /\ Bounded(Empty)
    BY <1>3 DEF Empty, Bounded
  <2> QED BY <1>3, <2>1, LimitAssumption DEF StoreOK
<1>5. ChunksOK(Empty)
  <2>1. Empty \in [DOMAIN Empty -> Chunk]
    BY <1>3 DEF Empty
  <2> QED BY <1>3, <2>1, LimitAssumption DEF ChunksOK
<1>6. t = [hist |-> term.hist, row |-> term.row, view |-> term.view, images |-> term.images,
           chunks |-> Empty, store |-> Empty]
  <2>1. TermRec(term)
    BY <1>2 DEF TermOK
  <2>2. /\ DOMAIN t = {"hist", "row", "view", "images", "chunks", "store"}
        /\ t.hist = term.hist /\ t.row = term.row /\ t.view = term.view /\ t.images = term.images
        /\ t.chunks = Empty /\ t.store = Empty /\ t = [x \in DOMAIN t |-> t[x]]
    BY <2>1 DEF TermRec
  <2> HIDE DEF t
  <2> QED BY <2>2
<1> HIDE DEF t
<1>7. TermOK(t) /\ OnLines(t.images, t.hist, gone)
  BY <1>2, <1>4, <1>5, <1>6 DEF TermOK, TermRec
<1>8. pics' \in Seq(Pic) /\ Len(pics') = Len(pics)
  <2>1. \A n \in DOMAIN pics : pics[n] \in Pic /\ [pics[n] EXCEPT !.ok = FALSE] \in Pic
    <3>1. \A n \in DOMAIN pics : pics[n] \in Pic
      BY <1>2
    <3>2. \A p \in Pic : [p EXCEPT !.ok = FALSE] \in Pic
      BY DEF Pic
    <3> QED BY <3>1, <3>2
  <2>2. \A n \in DOMAIN pics : pics'[n] \in Pic
    BY <1>1, <2>1
  <2>3. DOMAIN pics' = 1 .. Len(pics) /\ Len(pics) \in Nat /\ pics' = [n \in 1 .. Len(pics) |-> pics'[n]]
    BY <1>1, <1>2
  <2>4. DOMAIN pics = 1 .. Len(pics)
    BY <1>2
  <2> QED BY <2>2, <2>3, <2>4
<1> QED BY <1>1, <1>2, <1>7, <1>8, ReaderIs

(* ... and the lines that scroll, leave and are cleared.                   *)
LEMMA LinesTypes == IInv /\ (LineFeed \/ CursorUp \/ ClearScrollback \/ HardReset) => IInv'
<1> SUFFICES ASSUME IInv, LineFeed \/ CursorUp \/ ClearScrollback \/ HardReset PROVE IInv'
  OBVIOUS
<1>1. pics \in Seq(Pic) /\ Len(pics) <= Len(scene.sizes) /\ gone \in Nat /\ TermOK(term)
      /\ OnLines(term.images, term.hist, gone)
  BY DEF IInv
<1>2. pics' = pics /\ scene' = scene
  BY DEF LineFeed, CursorUp, ClearScrollback, HardReset, Reader
<1>3. /\ scene.rows \in Nat \ {0} /\ scene.cap \in Nat \ {0}
      /\ term.hist \in 0 .. scene.cap /\ term.row \in 0 .. scene.rows - 1 /\ term.view \in 0 .. term.hist
      /\ term.hist \in Nat /\ term.row \in Nat
      /\ ImagesOK(term.images) /\ StoreOK(term.store) /\ ChunksOK(term.chunks)
      /\ term = [hist |-> term.hist, row |-> term.row, view |-> term.view, images |-> term.images,
                 chunks |-> term.chunks, store |-> term.store]
  BY <1>1, SceneIs DEF TermOK, TermRec
<1> DEFINE T(h, r, v, q) == [hist |-> h, row |-> r, view |-> v, images |-> q,
                             chunks |-> term.chunks, store |-> term.store]
<1>4. ASSUME NEW h \in 0 .. scene.cap, NEW r \in 0 .. scene.rows - 1, NEW v \in 0 .. h, NEW q,
             ImagesOK(q), gone' \in Nat, OnLines(q, h, gone'), Reader(T(h, r, v, q))
      PROVE  IInv'
  <2>1. TermOK(T(h, r, v, q)) /\ OnLines(T(h, r, v, q).images, T(h, r, v, q).hist, gone')
    BY <1>3, <1>4 DEF TermOK, TermRec
  <2> HIDE DEF T
  <2> QED BY <1>1, <1>2, <1>4, <2>1, ReaderIs
<1>5. CASE LineFeed
  <2>1. CASE term.row + 1 < scene.rows
    <3>1. Reader([term EXCEPT !.row = @ + 1]) /\ gone' = gone
      BY <1>5, <2>1 DEF LineFeed
    <3>2. [term EXCEPT !.row = @ + 1] = T(term.hist, term.row + 1, term.view, term.images)
      BY <1>3
    <3>3. term.row + 1 \in 0 .. scene.rows - 1
      BY <1>3, <2>1
    <3> HIDE DEF T
    <3> QED BY <1>1, <1>3, <1>4, <3>1, <3>2, <3>3
  <2>2. CASE ~(term.row + 1 < scene.rows) /\ term.hist < scene.cap
    <3>1. Reader([term EXCEPT !.hist = @ + 1]) /\ gone' = gone
      BY <1>5, <2>2 DEF LineFeed
    <3>2. [term EXCEPT !.hist = @ + 1] = T(term.hist + 1, term.row, term.view, term.images)
      BY <1>3
    <3>3. term.hist + 1 \in 0 .. scene.cap /\ term.view \in 0 .. term.hist + 1
      BY <1>3, <2>2
    <3>4. \A i \in DOMAIN term.images : term.images[i].line \in Nat
      <4>1. term.images \in Seq(Image)
        BY <1>3 DEF ImagesOK
      <4>2. \A i \in DOMAIN term.images : term.images[i] \in Image
        BY <4>1
      <4> QED BY <4>2 DEF Image
    <3>5. OnLines(term.images, term.hist + 1, gone)
      BY <1>1, <1>3, <3>4 DEF OnLines
    <3> HIDE DEF T
    <3> QED BY <1>1, <1>3, <1>4, <3>1, <3>2, <3>3, <3>5
  <2>3. CASE ~(term.row + 1 < scene.rows) /\ ~(term.hist < scene.cap)
    <3> DEFINE q == reanchor(term.images, 1)
    <3>1. Reader([term EXCEPT !.images = reanchor(@, 1)]) /\ gone' = gone + 1
      BY <1>5, <2>3 DEF LineFeed, Going
    <3>2. ImagesOK(q) /\ OnLines(q, term.hist, gone + 1)
      BY <1>3, MovedLines
    <3>3. [term EXCEPT !.images = reanchor(@, 1)] = T(term.hist, term.row, term.view, q)
      BY <1>3
    <3> HIDE DEF T, q
    <3> QED BY SMTT(30), <1>1, <1>3, <1>4, <3>1, <3>2, <3>3
  <2> QED BY <2>1, <2>2, <2>3
<1>6. CASE CursorUp
  <2>1. Reader([term EXCEPT !.row = @ - 1]) /\ gone' = gone /\ term.row > 0
    BY <1>6 DEF CursorUp
  <2>2. [term EXCEPT !.row = @ - 1] = T(term.hist, term.row - 1, term.view, term.images)
    BY <1>3
  <2>3. term.row - 1 \in 0 .. scene.rows - 1
    BY <1>3, <2>1
  <2> HIDE DEF T
  <2> QED BY <1>1, <1>3, <1>4, <2>1, <2>2, <2>3
<1>7. CASE ClearScrollback
  <2> DEFINE q == reanchor(term.images, term.hist)
  <2>1. Reader([term EXCEPT !.hist = 0, !.view = 0, !.images = reanchor(@, term.hist)])
        /\ gone' = gone + term.hist
    BY <1>7 DEF ClearScrollback, Going
  <2>2. ImagesOK(q) /\ OnLines(q, 0, gone + term.hist)
    BY <1>3, MovedLines
  <2>3. [term EXCEPT !.hist = 0, !.view = 0, !.images = reanchor(@, term.hist)] = T(0, term.row, 0, q)
    <3> DEFINE w == [term EXCEPT !.hist = 0, !.view = 0, !.images = reanchor(@, term.hist)]
    <3>1. /\ DOMAIN w = {"hist", "row", "view", "images", "chunks", "store"}
          /\ w.hist = 0 /\ w.row = term.row /\ w.view = 0 /\ w.images = q
          /\ w.chunks = term.chunks /\ w.store = term.store
      BY <1>3
    <3>2. w = [x \in DOMAIN w |-> w[x]]
      OBVIOUS
    <3> HIDE DEF w, q
    <3>3. w = T(0, term.row, 0, q)
      BY <3>1, <3>2
    <3> QED BY <3>3 DEF w
  <2>4. 0 \in 0 .. scene.cap /\ 0 \in 0 .. 0 /\ gone + term.hist \in Nat
    BY <1>1, <1>3
  <2> HIDE DEF T, q
  <2> QED BY <1>3, <1>4, <2>1, <2>2, <2>3, <2>4
<1>8. CASE HardReset
  <2>1. Reader([term EXCEPT !.hist = 0, !.row = 0, !.view = 0, !.images = <<>>])
        /\ gone' = gone + term.hist
    BY <1>8 DEF HardReset, Going
  <2>2. ImagesOK(<<>>) /\ OnLines(<<>>, 0, gone + term.hist)
    BY NothingWeighs, LimitAssumption DEF ImagesOK, OnLines
  <2>3. [term EXCEPT !.hist = 0, !.row = 0, !.view = 0, !.images = <<>>] = T(0, 0, 0, <<>>)
    <3> DEFINE w == [term EXCEPT !.hist = 0, !.row = 0, !.view = 0, !.images = <<>>]
    <3>1. /\ DOMAIN w = {"hist", "row", "view", "images", "chunks", "store"}
          /\ w.hist = 0 /\ w.row = 0 /\ w.view = 0 /\ w.images = <<>>
          /\ w.chunks = term.chunks /\ w.store = term.store
      BY <1>3
    <3>2. w = [x \in DOMAIN w |-> w[x]]
      OBVIOUS
    <3> HIDE DEF w
    <3>3. w = T(0, 0, 0, <<>>)
      BY <3>1, <3>2
    <3> QED BY <3>3 DEF w
  <2>4. 0 \in 0 .. scene.cap /\ 0 \in 0 .. 0 /\ 0 \in 0 .. scene.rows - 1 /\ gone + term.hist \in Nat
    BY <1>1, <1>3
  <2> HIDE DEF T
  <2> QED BY <1>4, <2>1, <2>2, <2>3, <2>4
<1> QED BY <1>5, <1>6, <1>7, <1>8

(* The UI moves nothing but the view.                                      *)
LEMMA PaintsTypes == IInv /\ Paints => IInv'
<1> SUFFICES ASSUME IInv, Paints PROVE IInv'
  OBVIOUS
<1>1. scene' = scene /\ gone' = gone /\ pics' = pics
  BY DEF Paints, Wheel, Sweep, Paint, FrameEnd
<1>2. TermOK(term) /\ OnLines(term.images, term.hist, gone)
  BY DEF IInv
<1>3. TermOK(term') /\ term'.images = term.images /\ term'.hist = term.hist
  <2>1. CASE Wheel
    <3>1. PICK v \in 0 .. term.hist : term' = [term EXCEPT !.view = v]
      BY <2>1 DEF Wheel
    <3>2. term' = [hist |-> term.hist, row |-> term.row, view |-> v, images |-> term.images,
                   chunks |-> term.chunks, store |-> term.store]
      BY <1>2, <3>1 DEF TermOK, TermRec
    <3> QED BY <1>2, <3>2 DEF TermOK, TermRec
  <2>2. CASE Sweep \/ Paint \/ FrameEnd
    BY <1>2, <2>2 DEF Sweep, Paint, FrameEnd
  <2> QED BY <2>1, <2>2 DEF Paints
<1>4. TermOK(term)' /\ OnLines(term.images, term.hist, gone)'
  BY <1>1, <1>2, <1>3 DEF TermOK, OnLines
<1> QED BY <1>1, <1>4 DEF IInv

(* Every step keeps the types and limits.                                  *)
LEMMA NextTypes == IInv /\ [Next]_vars => IInv'
<1> SUFFICES ASSUME IInv, [Next]_vars PROVE IInv'
  OBVIOUS
<1>1. CASE UNCHANGED vars
  BY <1>1 DEF vars, IInv, TermOK, OnLines
<1>2. CASE Next
  BY <1>2, ProgramsTypes, SendTypes, PlaceTypes, DeleteTypes, LinesTypes, PaintsTypes
  DEF Next, Paints
<1> QED BY <1>1, <1>2

(* Rows, history, view and lines of pictures stay in bounds, and what the  *)
(* terminal keeps of pictures, stored, placed and in flight, within the    *)
(* limits of push_image, store_kitty_image and handle_kitty_apc.           *)
THEOREM TypeCorrect == Spec => []TypeOK
<1>1. IInv => TypeOK
  <2> SUFFICES ASSUME IInv PROVE TypeOK
    OBVIOUS
  <2>1. TermOK(term) /\ OnLines(term.images, term.hist, gone) /\ scene.rows \in Nat \ {0}
        /\ term.hist \in Nat
    BY SceneIs DEF IInv
  <2>2. ImagesOK(term.images) /\ StoreOK(term.store) /\ ChunksOK(term.chunks)
    BY <2>1 DEF TermOK
  <2>3. \A i \in DOMAIN term.images : term.images[i].line \in 0 .. (term.hist + scene.rows - 1)
    <3>1. term.images \in Seq(Image)
      BY <2>2 DEF ImagesOK
    <3>2. \A i \in DOMAIN term.images : term.images[i] \in Image
      BY <3>1
    <3>3. \A i \in DOMAIN term.images : term.images[i].line \in Nat
      BY <3>2 DEF Image
    <3> QED BY <2>1, <3>3 DEF OnLines
  <2> QED BY <2>1, <2>2, <2>3 DEF TypeOK, TermOK, ImagesOK, StoreOK, ChunksOK
<1> QED BY <1>1, InitTypes, NextTypes, PTL DEF Spec

-----------------------------------------------------------------------------
(* Whole pictures *)

(* Continuations repeat the keys of the first piece, and no program takes  *)
(* an id under which an interrupted one has left pieces.                   *)
KeysRepeat == \A s \in Scenes : s.keys = "repeat" /\ "reuse" \notin s.ops

(* The first k pieces of picture n.                                        *)
FirstPieces(p, n, k) == Len(p) = k /\ \A j \in 1 .. k : p[j] = <<n, j>>

Pictures == {Picture(n) : n \in DOMAIN pics}
AllFrom(q, P) == \A i \in DOMAIN q : q[i].pixels \in P
StoredFrom(f, P) == \A id \in DOMAIN f : f[id] \in P

(* Each set in flight is of a program that has not sent all; ...           *)
Owned == \A id \in DOMAIN term.chunks :
           \E n \in DOMAIN pics : pics[n].id = id /\ pics[n].next <= scene.sizes[n]
(* ... programs that send use different ids; ...                           *)
Apart == \A m, n \in InFlight : m # n => pics[m].id # pics[n].id
(* ... the set under the id of one that sends has its pieces in order, or  *)
(* lacks the first one, and with it the size; ...                          *)
Ordered == \A n \in InFlight : pics[n].id \in DOMAIN term.chunks =>
             LET c == term.chunks[pics[n].id]
             IN  /\ pics[n].next > 1
                 /\ c.size = 0 \/ (c.size = scene.sizes[n] /\ FirstPieces(c.payload, n, pics[n].next - 1))
(* ... and as long as there was room, it is there and lacks none.          *)
Roomy == \A n \in InFlight : pics[n].ok /\ pics[n].next > 1 =>
           /\ scene.sizes[n] <= PayloadMax /\ pics[n].id \in DOMAIN term.chunks
           /\ term.chunks[pics[n].id].size = scene.sizes[n]

WInv == /\ AllFrom(term.images, Pictures) /\ StoredFrom(term.store, Pictures)
        /\ Owned /\ Apart /\ Ordered /\ Roomy

(* Pictures that are pushed come from those there and the new one.         *)
LEMMA PushFrom ==
  ASSUME IInv, NEW p \in Pixels, NEW P, p \in P, AllFrom(term.images, P)
  PROVE  LET r == push_image(Append(term.images, Placed(p)))
         IN  AllFrom(r, P) /\ r # <<>> /\ r[Len(r)] = Placed(p)
<1> DEFINE x == Placed(p)
           q == term.images
           a == Append(q, x)
           r == push_image(a)
<1>1. q \in Seq(Image) /\ gone \in Nat
  BY DEF IInv, TermOK, ImagesOK
<1>2. x \in Image /\ x.pixels = p
  BY <1>1, SceneIs DEF Placed, Image
<1>3. \E d \in 0 .. Len(q) : r = SubSeq(a, d + 1, Len(q) + 1)
  BY PlacedIs
<1> HIDE DEF x, r
<1>4. PICK d \in 0 .. Len(q) : r = SubSeq(a, d + 1, Len(q) + 1)
  BY <1>3
<1>5. /\ Len(q) \in Nat /\ Len(r) = Len(q) + 1 - d /\ DOMAIN r = 1 .. Len(q) + 1 - d
      /\ \A j \in DOMAIN r : r[j] = a[j + d]
  BY SMTT(30), <1>1, <1>2, <1>4
<1>6. a[Len(q) + 1] = x /\ \A j \in 1 .. Len(q) : a[j] = q[j]
  BY <1>1, <1>2
<1>7. r # <<>> /\ r[Len(r)] = x
  <2>1. Len(r) \in DOMAIN r /\ Len(r) + d = Len(q) + 1
    BY <1>5
  <2> QED BY <1>5, <1>6, <2>1
<1>8. ASSUME NEW j \in DOMAIN r PROVE r[j].pixels \in P
  <2>1. j + d \in 1 .. Len(q) + 1 /\ r[j] = a[j + d]
    BY <1>5
  <2>2. CASE j + d = Len(q) + 1
    BY <1>2, <1>6, <2>1, <2>2
  <2>3. CASE j + d # Len(q) + 1
    <3>1. j + d \in DOMAIN q /\ r[j] = q[j + d]
      BY <1>1, <1>5, <1>6, <2>1, <2>3
    <3> QED BY <3>1 DEF AllFrom
  <2> QED BY <2>2, <2>3
<1> QED BY <1>7, <1>8 DEF AllFrom, r, x

(* The pieces a program sends, with what the terminal has of them.         *)
LEMMA SendIs ==
  ASSUME IInv, WInv, NEW n \in InFlight, scene.keys = "repeat"
  PROVE  LET cmd == parse_kitty(n)
             f == term.chunks
             c == Coming(f, cmd)
         IN  /\ cmd.id = pics[n].id /\ cmd.action = pics[n].action
             /\ cmd.more <=> pics[n].next < scene.sizes[n]
             /\ c.size = 0 \/ (c.size = scene.sizes[n] /\ FirstPieces(c.payload, n, pics[n].next))
             /\ Ends(f, cmd) => pics[n].next = scene.sizes[n] /\ c.payload = Picture(n)
             /\ /\ pics[n].ok /\ scene.sizes[n] <= PayloadMax
                /\ pics[n].next > 1 \/ Cardinality(DOMAIN f \ {pics[n].id}) < ChunksMax
                => Taken(f, cmd) /\ c.size = scene.sizes[n]
<1> DEFINE cmd == parse_kitty(n)
           f == term.chunks
           c == Coming(f, cmd)
           p == pics[n]
           m == scene.sizes[n]
<1>1. /\ cmd.id = p.id /\ cmd.action = p.action /\ (cmd.more <=> p.next < m)
      /\ cmd.size = (IF p.next = 1 THEN m ELSE 0) /\ cmd.piece = <<n, p.next>>
  BY DEF parse_kitty
<1>2. cmd \in Command /\ p.next \in 1 .. m /\ m \in Nat \ {0} /\ n \in Nat /\ n \in 1 .. Len(scene.sizes)
  <2>1. n \in DOMAIN scene.sizes /\ scene.sizes \in Seq(Nat \ {0})
    BY Parsed, SceneIs
  <2> QED BY <2>1, Parsed
<1>3. ChunksOK(f)
  BY DEF IInv, TermOK
<1>4. c \in Chunk /\ c.payload \in Pixels /\ Len(c.payload) \in Nat \ {0}
  BY <1>2, <1>3, ComingIs
<1>5. /\ p.id \in DOMAIN f => c.payload = Append(f[p.id].payload, <<n, p.next>>) /\ c.size = f[p.id].size
      /\ p.id \notin DOMAIN f => c.payload = Append(<<>>, <<n, p.next>>)
                                 /\ c.size = IF p.next = 1 THEN m ELSE 0
  BY <1>1 DEF Coming
<1>6. p.id \in DOMAIN f => /\ p.next > 1
                           /\ f[p.id].size = 0 \/ (f[p.id].size = m /\ FirstPieces(f[p.id].payload, n, p.next - 1))
                           /\ f[p.id].payload \in Seq(Piece)
  <2>1. Ordered
    BY DEF WInv
  <2> QED BY <1>3, <2>1 DEF Ordered, ChunksOK, Chunk, Pixels
<1>7. p.ok /\ p.next > 1 => m <= PayloadMax /\ p.id \in DOMAIN f /\ f[p.id].size = m
  <2>1. Roomy
    BY DEF WInv
  <2> QED BY <2>1 DEF Roomy
<1> HIDE DEF cmd, c, p, m
<1>8. c.size = 0 \/ (c.size = m /\ FirstPieces(c.payload, n, p.next))
  <2>1. CASE p.id \in DOMAIN f /\ c.size # 0
    <3> DEFINE old == f[p.id].payload
    <3>1. c.size = m /\ old \in Seq(Piece) /\ Len(old) = p.next - 1
          /\ \A j \in 1 .. p.next - 1 : old[j] = <<n, j>>
      BY <1>5, <1>6, <2>1 DEF FirstPieces
    <3>2. <<n, p.next>> \in Piece /\ c.payload = Append(old, <<n, p.next>>)
      <4>1. p.next \in Nat
        BY <1>2
      <4>2. <<n, p.next>> \in Piece
        BY <1>2, <4>1 DEF Piece
      <4> QED BY <1>5, <2>1, <4>2
    <3> HIDE DEF old
    <3>3. Len(c.payload) = p.next /\ \A j \in 1 .. p.next : c.payload[j] = <<n, j>>
      BY <1>2, <3>1, <3>2
    <3> QED BY <3>1, <3>3 DEF FirstPieces
  <2>2. CASE p.id \notin DOMAIN f
    <3>1. CASE p.next = 1
      <4>1. c.payload = <<<<n, 1>>>> /\ c.size = m
        BY <1>5, <2>2, <3>1
      <4>2. Len(c.payload) = 1 /\ \A j \in 1 .. 1 : c.payload[j] = <<n, j>>
        BY <4>1
      <4> QED BY <3>1, <4>1, <4>2 DEF FirstPieces
    <3>2. CASE p.next # 1
      BY <1>5, <2>2, <3>2
    <3> QED BY <3>1, <3>2
  <2> QED BY <2>1, <2>2
<1>9. ASSUME Ends(f, cmd) PROVE p.next = m /\ c.payload = Picture(n)
  <2>1. ~cmd.more /\ c.size > 0 /\ Len(c.payload) = c.size
    BY <1>9 DEF Ends, Complete, c
  <2>2. p.next = m /\ c.size = m /\ FirstPieces(c.payload, n, m)
    BY <1>1, <1>2, <1>8, <2>1
  <2>3. Picture(n) = [k \in 1 .. m |-> <<n, k>>]
    BY DEF Picture, m
  <2>4. c.payload \in Seq(Piece) /\ Len(c.payload) = m /\ \A j \in 1 .. m : c.payload[j] = <<n, j>>
    BY <1>4, <2>2 DEF FirstPieces, Pixels
  <2>5. c.payload = [k \in 1 .. m |-> c.payload[k]]
    BY <2>4
  <2> QED BY <2>2, <2>3, <2>4, <2>5
<1>10. ASSUME p.ok, m <= PayloadMax, p.next > 1 \/ Cardinality(DOMAIN f \ {p.id}) < ChunksMax
       PROVE  Taken(f, cmd) /\ c.size = m
  <2>1. c.size = m
    <3>1. CASE p.next > 1
      BY <1>5, <1>7, <1>10, <3>1
    <3>2. CASE p.next = 1
      BY <1>5, <1>6, <3>2
    <3> QED BY <1>2, <3>1, <3>2
  <2>2. Len(c.payload) = p.next /\ PayloadMax \in Nat
    BY <1>2, <1>8, <2>1, LimitAssumption DEF FirstPieces
  <2>3. Room(f, cmd.id)
    <3>1. CASE p.next > 1
      BY <1>1, <1>7, <1>10, <3>1 DEF Room
    <3>2. CASE ~(p.next > 1)
      <4>1. p.id \notin DOMAIN f
        BY <1>6, <3>2
      <4>2. DOMAIN f \ {p.id} = DOMAIN f
        BY <4>1
      <4> QED BY <1>1, <1>10, <3>2, <4>2 DEF Room
    <3> QED BY <3>1, <3>2
  <2> QED BY <1>2, <1>10, <2>1, <2>2, <2>3 DEF Taken, c
<1> QED BY <1>1, <1>8, <1>9, <1>10 DEF cmd, c, p, m

(* No picture is forgotten as long as programs go on.                      *)
LEMMA PicturesStay ==
  ASSUME scene' = scene, DOMAIN pics \subseteq DOMAIN pics', NEW q, NEW f,
         AllFrom(q, Pictures), StoredFrom(f, Pictures)
  PROVE  AllFrom(q, Pictures') /\ StoredFrom(f, Pictures')
<1>1. Pictures \subseteq Pictures'
  BY DEF Pictures, Picture
<1> HIDE DEF Pictures
<1> QED BY <1>1 DEF AllFrom, StoredFrom

(* Whose pieces have been sent up to now.                                  *)
LEMMA FlightIs ==
  ASSUME IInv
  PROVE  \A n \in InFlight : n \in DOMAIN pics /\ n \in 1 .. Len(pics) /\ pics[n] \in Pic
<1>1. pics \in Seq(Pic)
  BY DEF IInv
<1> QED BY <1>1 DEF InFlight

(* Nothing is there, and so nothing is torn.                               *)
LEMMA InitWhole == Init => WInv
<1> SUFFICES ASSUME Init PROVE WInv
  OBVIOUS
<1>1. DOMAIN Empty = {} /\ DOMAIN <<>> = {}
  BY DEF Empty
<1>2. term.images = <<>> /\ term.store = Empty /\ term.chunks = Empty /\ pics = <<>>
  BY DEF Init
<1>3. InFlight = {}
  BY <1>1, <1>2 DEF InFlight
<1> QED BY <1>1, <1>2, <1>3 DEF WInv, AllFrom, StoredFrom, Owned, Apart, Ordered, Roomy

(* A program begins with an id nobody uses, ...                            *)
LEMMA BeginWhole ==
  ASSUME IInv, WInv, Begin, "reuse" \notin scene.ops
  PROVE  WInv'
<1>1. PICK id \in Ids, action \in {"t", "T"} :
        /\ \A n \in InFlight : pics[n].id # id
        /\ id \notin DOMAIN term.chunks
        /\ pics' = Append(pics, [id |-> id, action |-> action, next |-> 1, ok |-> TRUE])
  BY DEF Begin, Can
<1> DEFINE p == [id |-> id, action |-> action, next |-> 1, ok |-> TRUE]
           N == Len(pics) + 1
<1>2. p.id = id /\ p.next = 1
  OBVIOUS
<1>3. pics' = Append(pics, p)
  BY <1>1
<1> HIDE DEF p
<1>4. /\ DOMAIN pics = 1 .. Len(pics) /\ Len(pics) \in Nat /\ DOMAIN pics' = DOMAIN pics \cup {N}
      /\ pics'[N] = p /\ N \notin DOMAIN pics /\ \A n \in DOMAIN pics : pics'[n] = pics[n]
  <2>1. pics \in Seq(Pic)
    BY DEF IInv
  <2> QED BY <1>3, <2>1
<1>5. term' = term /\ scene' = scene
  BY DEF Begin
<1>6. InFlight' \subseteq InFlight \cup {N} /\ InFlight \subseteq DOMAIN pics
  BY <1>4, <1>5 DEF InFlight
<1> HIDE DEF N
<1>7. AllFrom(term.images, Pictures)' /\ StoredFrom(term.store, Pictures)'
  <2>1. AllFrom(term.images, Pictures') /\ StoredFrom(term.store, Pictures')
    BY <1>4, <1>5, PicturesStay DEF WInv
  <2> QED BY <1>5, <2>1
<1>8. Owned'
  BY <1>4, <1>5 DEF WInv, Owned
<1>9. Apart'
  BY <1>1, <1>2, <1>4, <1>6 DEF WInv, Apart
<1>10. Ordered'
  <2> SUFFICES ASSUME NEW n \in InFlight', pics'[n].id \in DOMAIN term.chunks
               PROVE  LET c == term.chunks[pics'[n].id]
                      IN  /\ pics'[n].next > 1
                          /\ c.size = 0 \/ (c.size = scene.sizes[n]
                                            /\ FirstPieces(c.payload, n, pics'[n].next - 1))
    BY <1>5 DEF Ordered, FirstPieces
  <2>1. n # N
    BY <1>1, <1>2, <1>4
  <2>2. n \in InFlight /\ pics'[n] = pics[n]
    BY <1>4, <1>6, <2>1
  <2> QED BY <2>2 DEF WInv, Ordered
<1>11. Roomy'
  <2> SUFFICES ASSUME NEW n \in InFlight', pics'[n].ok, pics'[n].next > 1
               PROVE  /\ scene.sizes[n] <= PayloadMax /\ pics'[n].id \in DOMAIN term.chunks
                      /\ term.chunks[pics'[n].id].size = scene.sizes[n]
    BY <1>5 DEF Roomy
  <2>1. n # N
    BY <1>2, <1>4
  <2>2. n \in InFlight /\ pics'[n] = pics[n]
    BY <1>4, <1>6, <2>1
  <2> QED BY <2>2 DEF WInv, Roomy
<1> QED BY <1>7, <1>8, <1>9, <1>10, <1>11 DEF WInv

(* ... one that is interrupted sends no more, ...                          *)
LEMMA InterruptWhole ==
  ASSUME IInv, WInv, Interrupt
  PROVE  WInv'
<1>1. PICK n \in InFlight : pics' = [pics EXCEPT ![n].next = 0]
  BY DEF Interrupt
<1>2. term' = term /\ scene' = scene
  BY DEF Interrupt
<1>3. n \in DOMAIN pics /\ pics[n] \in Pic
  BY FlightIs
<1>4. /\ DOMAIN pics' = DOMAIN pics /\ pics'[n].id = pics[n].id /\ pics'[n].next = 0
      /\ \A m \in DOMAIN pics : m # n => pics'[m] = pics[m]
  BY <1>1, <1>3 DEF Pic
<1>5. InFlight' \subseteq InFlight \ {n} /\ InFlight \subseteq DOMAIN pics
  BY <1>2, <1>4 DEF InFlight
<1>6. \A m \in InFlight' : m \in InFlight /\ pics'[m] = pics[m]
  BY <1>4, <1>5
<1>7. AllFrom(term.images, Pictures)' /\ StoredFrom(term.store, Pictures)'
  <2>1. AllFrom(term.images, Pictures') /\ StoredFrom(term.store, Pictures')
    BY <1>2, <1>4, PicturesStay DEF WInv
  <2> QED BY <1>2, <2>1
<1>8. Owned'
  <2> SUFFICES ASSUME NEW id \in DOMAIN term.chunks
               PROVE  \E m \in DOMAIN pics' : pics'[m].id = id /\ pics'[m].next <= scene.sizes[m]
    BY <1>2 DEF Owned
  <2>1. PICK m \in DOMAIN pics : pics[m].id = id /\ pics[m].next <= scene.sizes[m]
    BY DEF WInv, Owned
  <2>2. 0 <= scene.sizes[n]
    BY Parsed
  <2> QED BY <1>4, <2>1, <2>2
<1>9. Apart' /\ Ordered' /\ Roomy'
  <2>1. Apart'
    BY <1>6 DEF WInv, Apart
  <2>2. Ordered'
    <3> SUFFICES ASSUME NEW m \in InFlight', pics'[m].id \in DOMAIN term.chunks
                 PROVE  LET c == term.chunks[pics'[m].id]
                        IN  /\ pics'[m].next > 1
                            /\ c.size = 0 \/ (c.size = scene.sizes[m]
                                              /\ FirstPieces(c.payload, m, pics'[m].next - 1))
      BY <1>2 DEF Ordered, FirstPieces
    <3> QED BY <1>6 DEF WInv, Ordered
  <2>3. Roomy'
    BY <1>2, <1>6 DEF WInv, Roomy
  <2> QED BY <2>1, <2>2, <2>3
<1> QED BY <1>7, <1>8, <1>9 DEF WInv

(* ... and what a piece does is right for the program that sends it and    *)
(* leaves the sets of the others alone.                                    *)
LEMMA SendWhole ==
  ASSUME IInv, WInv, Send, scene.keys = "repeat"
  PROVE  WInv'
<1>1. PICK n \in InFlight :
        /\ pics' = [pics EXCEPT ![n].next = @ + 1,
                       ![n].ok = @ /\ (pics[n].next > 1 \/ Cardinality(DOMAIN term.chunks \ {pics[n].id}) < ChunksMax)
                                   /\ scene.sizes[n] <= PayloadMax]
        /\ term' = transmit(term, parse_kitty(n)) /\ scene' = scene
  BY Zenon DEF Send, Reader
<1> DEFINE cmd == parse_kitty(n)
           f == term.chunks
           c == Coming(f, cmd)
           p == pics[n]
           room == p.next > 1 \/ Cardinality(DOMAIN f \ {p.id}) < ChunksMax
<1>2. cmd \in Command /\ n \in DOMAIN pics /\ p \in Pic /\ p.next \in 1 .. scene.sizes[n]
      /\ scene.sizes[n] \in Nat \ {0}
  BY Parsed
<1>3. Does(term', cmd)
  BY <1>1, <1>2, TransmitDoes DEF IInv, TermOK
<1>4. /\ cmd.id = p.id /\ (cmd.more <=> p.next < scene.sizes[n])
      /\ c.size = 0 \/ (c.size = scene.sizes[n] /\ FirstPieces(c.payload, n, p.next))
      /\ Ends(f, cmd) => c.payload = Picture(n)
      /\ p.ok /\ scene.sizes[n] <= PayloadMax /\ room => Taken(f, cmd) /\ c.size = scene.sizes[n]
  BY SendIs
<1>5. /\ DOMAIN pics' = DOMAIN pics /\ pics'[n].id = p.id /\ pics'[n].next = p.next + 1
      /\ pics'[n].ok => p.ok /\ room /\ scene.sizes[n] <= PayloadMax
      /\ \A m \in DOMAIN pics : m # n => pics'[m] = pics[m]
  <2> DEFINE b == p.ok /\ room /\ scene.sizes[n] <= PayloadMax
  <2>1. pics' = [pics EXCEPT ![n].next = p.next + 1, ![n].ok = b]
    BY <1>1, <1>2
  <2> HIDE DEF b
  <2>2. /\ DOMAIN pics' = DOMAIN pics /\ pics'[n].id = p.id /\ pics'[n].next = p.next + 1
        /\ pics'[n].ok = b /\ \A m \in DOMAIN pics : m # n => pics'[m] = pics[m]
    BY <1>2, <2>1 DEF Pic
  <2> QED BY <2>2 DEF b
<1>6. \A m \in InFlight' : m \in InFlight /\ m \in DOMAIN pics
  <2> SUFFICES ASSUME NEW m \in InFlight' PROVE m \in InFlight /\ m \in DOMAIN pics
    OBVIOUS
  <2>1. m \in DOMAIN pics /\ pics'[m].next \in 1 .. scene.sizes[m]
    BY <1>1, <1>5 DEF InFlight
  <2> QED BY <1>5, <2>1 DEF InFlight
<1>7. term'.chunks = IF ~Room(f, cmd.id) THEN f
                     ELSE IF Taken(f, cmd) /\ cmd.more THEN With(f, cmd.id, c) ELSE Without(f, cmd.id)
  BY <1>3 DEF Does
<1> DEFINE g == term'.chunks
<1>8. /\ \A i \in DOMAIN g : i # p.id => i \in DOMAIN f /\ g[i] = f[i]
      /\ \A i \in DOMAIN f : i # p.id => i \in DOMAIN g
      /\ p.id \in DOMAIN g => Taken(f, cmd) /\ cmd.more /\ g[p.id] = c
      /\ Taken(f, cmd) /\ cmd.more => p.id \in DOMAIN g
  <2>1. CASE ~Room(f, p.id)
    BY <1>4, <1>7, <2>1 DEF Room, Taken
  <2>2. CASE Room(f, p.id) /\ Taken(f, cmd) /\ cmd.more
    <3>1. g = With(f, p.id, c)
      BY <1>4, <1>7, <2>2
    <3> HIDE DEF c, g
    <3> QED BY <2>2, <3>1 DEF With
  <2>3. CASE Room(f, p.id) /\ ~(Taken(f, cmd) /\ cmd.more)
    <3>1. g = Without(f, p.id)
      BY <1>4, <1>7, <2>3
    <3> HIDE DEF g
    <3> QED BY <2>3, <3>1 DEF Without, Restrict
  <2> QED BY <2>1, <2>2, <2>3
<1> HIDE DEF c, g, room
<1>9. AllFrom(term.images, Pictures)' /\ StoredFrom(term.store, Pictures)'
  <2>1. AllFrom(term.images, Pictures') /\ StoredFrom(term.store, Pictures')
    BY <1>1, <1>5, PicturesStay DEF WInv
  <2>2. Picture(n) \in Pictures'
    <3>1. Picture(n) = Picture(n)'
      BY <1>1 DEF Picture
    <3> QED BY <1>2, <1>5, <3>1 DEF Pictures
  <2> DEFINE P == Pictures'
  <2> HIDE DEF P
  <2>3. c.payload \in Pixels
    BY <1>2, ComingIs DEF c, IInv, TermOK
  <2>4. AllFrom(term'.images, P)
    <3>1. CASE term'.images = term.images
      BY <2>1, <3>1 DEF P
    <3>2. CASE term'.images # term.images
      <4>1. Ends(f, cmd) /\ term'.images = push_image(Append(term.images, Placed(c.payload)))
        BY <1>3, <3>2 DEF Does, c
      <4>2. c.payload \in P /\ AllFrom(term.images, P)
        BY <1>4, <2>1, <2>2, <4>1 DEF P
      <4> QED BY <2>3, <4>1, <4>2, PushFrom
    <3> QED BY <3>1, <3>2
  <2>5. StoredFrom(term'.store, P)
    <3>1. CASE term'.store = term.store
      BY <2>1, <3>1 DEF P
    <3>2. CASE term'.store # term.store
      <4>1. Ends(f, cmd) /\ term'.store = store_kitty_image(term.store, cmd.id, c.payload)
        BY <1>3, <3>2 DEF Does, c
      <4>2. c.payload \in P /\ StoredFrom(term.store, P)
        BY <1>4, <2>1, <2>2, <4>1 DEF P
      <4>3. StoreOK(term.store) /\ cmd.id \in AllIds
        BY <1>2 DEF IInv, TermOK, Command
      <4>4. \A i \in DOMAIN term'.store : /\ i = cmd.id \/ i \in DOMAIN term.store
                                          /\ term'.store[i] = IF i = cmd.id THEN c.payload ELSE term.store[i]
        BY <2>3, <4>1, <4>3, StoreKeeps
      <4> QED BY <4>2, <4>4 DEF StoredFrom
    <3> QED BY <3>1, <3>2
  <2> QED BY <2>4, <2>5 DEF P
<1>10. Owned'
  <2> SUFFICES ASSUME NEW id \in DOMAIN g
               PROVE  \E m \in DOMAIN pics' : pics'[m].id = id /\ pics'[m].next <= scene.sizes[m]
    BY <1>1 DEF Owned, g
  <2>1. CASE id = p.id
    <3>1. p.next + 1 <= scene.sizes[n]
      BY <1>2, <1>4, <1>8, <2>1
    <3> QED BY <1>2, <1>5, <2>1, <3>1
  <2>2. CASE id # p.id
    <3>1. PICK m \in DOMAIN pics : pics[m].id = id /\ pics[m].next <= scene.sizes[m]
      BY <1>8, <2>2 DEF WInv, Owned
    <3> QED BY <1>5, <2>2, <3>1
  <2> QED BY <2>1, <2>2
<1>11. Apart'
  <2>1. \A m \in DOMAIN pics : pics'[m].id = pics[m].id
    BY <1>5
  <2> QED BY <1>6, <2>1 DEF WInv, Apart
<1>12. \A m \in InFlight' : m # n => pics[m].id # p.id /\ pics'[m] = pics[m]
  BY <1>5, <1>6 DEF WInv, Apart
<1>13. Ordered'
  <2> SUFFICES ASSUME NEW m \in InFlight', pics'[m].id \in DOMAIN g
               PROVE  /\ pics'[m].next > 1
                      /\ g[pics'[m].id].size = 0
                         \/ (g[pics'[m].id].size = scene.sizes[m]
                             /\ FirstPieces(g[pics'[m].id].payload, m, pics'[m].next - 1))
    BY <1>1 DEF Ordered, FirstPieces, g
  <2>1. CASE m = n
    <3>1. g[p.id] = c
      BY <1>5, <1>8, <2>1
    <3>2. p.next + 1 > 1 /\ (p.next + 1) - 1 = p.next
      BY <1>2
    <3> QED BY <1>4, <1>5, <2>1, <3>1, <3>2
  <2>2. CASE m # n
    <3>1. pics'[m] = pics[m] /\ pics[m].id \in DOMAIN f /\ g[pics[m].id] = f[pics[m].id]
      BY <1>8, <1>12, <2>2
    <3> QED BY <1>6, <3>1 DEF WInv, Ordered
  <2> QED BY <2>1, <2>2
<1>14. Roomy'
  <2> SUFFICES ASSUME NEW m \in InFlight', pics'[m].ok, pics'[m].next > 1
               PROVE  /\ scene.sizes[m] <= PayloadMax /\ pics'[m].id \in DOMAIN g
                      /\ g[pics'[m].id].size = scene.sizes[m]
    BY <1>1 DEF Roomy, g
  <2>1. CASE m = n
    <3>1. p.next + 1 <= scene.sizes[n]
      BY <1>1, <1>5, <2>1 DEF InFlight
    <3>2. Taken(f, cmd) /\ c.size = scene.sizes[n] /\ scene.sizes[n] <= PayloadMax /\ cmd.more
      BY <1>2, <1>4, <1>5, <2>1, <3>1
    <3> QED BY <1>5, <1>8, <2>1, <3>2
  <2>2. CASE m # n
    <3>1. pics'[m] = pics[m] /\ pics[m].id # p.id /\ m \in InFlight
      BY <1>6, <1>12, <2>2
    <3>2. scene.sizes[m] <= PayloadMax /\ pics[m].id \in DOMAIN f /\ f[pics[m].id].size = scene.sizes[m]
      BY <3>1 DEF WInv, Roomy
    <3> QED BY <1>8, <3>1, <3>2
  <2> QED BY <2>1, <2>2
<1> QED BY <1>9, <1>10, <1>11, <1>13, <1>14 DEF WInv

(* A step that leaves the programs and the sets alone changes only where   *)
(* pictures are.                                                           *)
LEMMA OthersWhole ==
  ASSUME IInv, WInv, scene' = scene, pics' = pics, term'.chunks = term.chunks,
         AllFrom(term'.images, Pictures), StoredFrom(term'.store, Pictures)
  PROVE  WInv'
<1>1. AllFrom(term.images, Pictures)' /\ StoredFrom(term.store, Pictures)'
  <2>1. AllFrom(term'.images, Pictures') /\ StoredFrom(term'.store, Pictures')
    BY PicturesStay
  <2> QED BY <2>1
<1>2. InFlight' = InFlight
  BY DEF InFlight
<1>3. Owned' /\ Apart' /\ Ordered' /\ Roomy'
  <2>1. Owned' /\ Apart'
    BY <1>2 DEF WInv, Owned, Apart
  <2>2. Ordered'
    BY <1>2 DEF WInv, Ordered, FirstPieces
  <2>3. Roomy'
    BY <1>2 DEF WInv, Roomy
  <2> QED BY <2>1, <2>2, <2>3
<1> QED BY <1>1, <1>3 DEF WInv

(* A picture from the store is whole, as the one it was stored from.       *)
LEMMA PutWhole ==
  ASSUME IInv, WInv, Put
  PROVE  WInv'
<1>1. PICK id \in DOMAIN term.store : term' = place(term, term.store[id])
  BY DEF Put, Reader
<1>2. scene' = scene /\ pics' = pics
  BY DEF Put, Reader
<1> DEFINE p == term.store[id]
<1>3. p \in Pixels /\ p \in Pictures /\ AllFrom(term.images, Pictures) /\ StoredFrom(term.store, Pictures)
  BY DEF IInv, TermOK, StoreOK, WInv, StoredFrom
<1>4. /\ term'.images = push_image(Append(term.images, Placed(p)))
      /\ term'.chunks = term.chunks /\ term'.store = term.store
  BY <1>1, PlaceIs DEF IInv, TermOK
<1> HIDE DEF p
<1> DEFINE P == Pictures
<1>5. AllFrom(term'.images, P)
  <2> HIDE DEF P
  <2>1. p \in P /\ AllFrom(term.images, P)
    BY <1>3 DEF P
  <2> QED BY <1>3, <1>4, <2>1, PushFrom
<1> QED BY <1>2, <1>3, <1>4, <1>5, OthersWhole

(* Deletion takes every set, and with it the room its program had.         *)
LEMMA DeleteWhole ==
  ASSUME IInv, WInv, Delete
  PROVE  WInv'
<1>1. /\ term' = [term EXCEPT !.store = Empty, !.chunks = Empty] /\ scene' = scene
      /\ pics' = [n \in DOMAIN pics |-> IF n \in InFlight THEN [pics[n] EXCEPT !.ok = FALSE] ELSE pics[n]]
  BY DEF Delete, Reader
<1>2. TermRec(term) /\ DOMAIN Empty = {}
  BY DEF IInv, TermOK, Empty
<1>3. term'.images = term.images /\ term'.store = Empty /\ term'.chunks = Empty
  BY <1>1, <1>2 DEF TermRec
<1>4. /\ DOMAIN pics' = DOMAIN pics
      /\ \A n \in DOMAIN pics : pics'[n].id = pics[n].id /\ pics'[n].next = pics[n].next
      /\ \A n \in InFlight : pics'[n].ok = FALSE
  <2>1. \A n \in InFlight : n \in DOMAIN pics /\ pics[n] \in Pic
    BY FlightIs
  <2>2. \A p \in Pic : /\ [p EXCEPT !.ok = FALSE].id = p.id /\ [p EXCEPT !.ok = FALSE].next = p.next
                       /\ [p EXCEPT !.ok = FALSE].ok = FALSE
    BY DEF Pic
  <2>3. \A n \in DOMAIN pics : pics'[n] = IF n \in InFlight THEN [pics[n] EXCEPT !.ok = FALSE] ELSE pics[n]
    BY <1>1
  <2> QED BY <1>1, <2>1, <2>2, <2>3
<1>5. InFlight' = InFlight
  BY <1>1, <1>4 DEF InFlight
<1>6. AllFrom(term.images, Pictures)' /\ StoredFrom(term.store, Pictures)'
  <2>1. StoredFrom(Empty, Pictures) /\ AllFrom(term.images, Pictures)
    BY <1>2 DEF StoredFrom, WInv
  <2>2. AllFrom(term.images, Pictures') /\ StoredFrom(Empty, Pictures')
    BY <1>1, <1>4, <2>1, PicturesStay
  <2> QED BY <1>3, <2>2
<1>7. Owned' /\ Ordered'
  BY <1>2, <1>3 DEF Owned, Ordered
<1>8. Apart'
  <2>1. \A n \in InFlight : n \in DOMAIN pics
    BY FlightIs
  <2> QED BY <1>4, <1>5, <2>1 DEF WInv, Apart
<1>9. Roomy'
  BY <1>4, <1>5 DEF Roomy
<1> QED BY <1>6, <1>7, <1>8, <1>9 DEF WInv

(* A picture that has been begun stays one.                                *)
LEMMA BegunIs ==
  ASSUME scene' = scene, NEW n \in DOMAIN pics'
  PROVE  Picture(n) \in Pictures'
BY DEF Pictures, Picture

(* A picture of another protocol comes whole.                              *)
LEMMA SixelWhole ==
  ASSUME IInv, WInv, Sixel
  PROVE  WInv'
<1> DEFINE N == Len(pics) + 1
           p == [id |-> 0, action |-> "sixel", next |-> 0, ok |-> TRUE]
           P == Pictures'
<1>1. Len(pics) < Len(scene.sizes) /\ pics' = Append(pics, p) /\ term' = place(term, Picture(N))
      /\ scene' = scene
  BY DEF Sixel, Reader
<1>2. p.next = 0
  OBVIOUS
<1> HIDE DEF p
<1>3. /\ DOMAIN pics = 1 .. Len(pics) /\ Len(pics) \in Nat /\ DOMAIN pics' = DOMAIN pics \cup {N}
      /\ pics'[N] = p /\ N \notin DOMAIN pics /\ \A n \in DOMAIN pics : pics'[n] = pics[n]
      /\ N \in 1 .. Len(scene.sizes)
  <2>1. pics \in Seq(Pic)
    BY DEF IInv
  <2>2. scene.sizes \in Seq(Nat \ {0})
    BY SceneIs
  <2> QED BY <1>1, <2>1, <2>2
<1>4. Picture(N) \in Pixels /\ Picture(N) \in Pictures'
  <2>1. PICK n : n = N
    OBVIOUS
  <2>2. Picture(n) \in Pictures'
    BY <1>1, <1>3, <2>1, BegunIs
  <2> QED BY <1>3, <2>1, <2>2, PictureIs
<1>5. /\ term'.images = push_image(Append(term.images, Placed(Picture(N))))
      /\ term'.chunks = term.chunks /\ term'.store = term.store
  BY <1>1, PlaceIs DEF IInv, TermOK
<1>6. InFlight' = InFlight /\ InFlight \subseteq DOMAIN pics
  BY <1>1, <1>2, <1>3 DEF InFlight
<1> HIDE DEF N
<1>7. AllFrom(term.images, P) /\ StoredFrom(term.store, P)
  BY <1>1, <1>3, PicturesStay DEF WInv
<1>8. AllFrom(term'.images, P)
  <2> HIDE DEF P
  <2>1. Picture(N) \in P
    BY <1>4 DEF P
  <2> QED BY <1>4, <1>5, <1>7, <2>1, PushFrom
<1>9. AllFrom(term.images, Pictures)' /\ StoredFrom(term.store, Pictures)'
  BY <1>5, <1>7, <1>8
<1>10. Owned' /\ Apart' /\ Ordered' /\ Roomy'
  <2>1. \A n \in InFlight : pics'[n] = pics[n]
    BY <1>3, <1>6
  <2>2. Owned'
    BY <1>1, <1>3, <1>5 DEF WInv, Owned
  <2>3. Apart'
    BY <1>6, <2>1 DEF WInv, Apart
  <2>4. Ordered'
    BY SMTT(30), <1>1, <1>5, <1>6, <2>1 DEF WInv, Ordered
  <2>5. Roomy'
    BY <1>1, <1>5, <1>6, <2>1 DEF WInv, Roomy
  <2> QED BY <2>2, <2>3, <2>4, <2>5
<1> QED BY <1>9, <1>10 DEF WInv

(* What the lines and the UI do to the pictures: they move up, or go.      *)
LEMMA ImagesMove ==
  ASSUME IInv, LineFeed \/ CursorUp \/ ClearScrollback \/ HardReset \/ Paints
  PROVE  /\ term'.chunks = term.chunks /\ term'.store = term.store /\ pics' = pics /\ scene' = scene
         /\ term'.images = <<>> \/ \E n \in Nat : MovedUp(term.images, term'.images, n)
<1>1. TermRec(term) /\ ImagesOK(term.images) /\ term.hist \in Nat
  BY SceneIs DEF IInv, TermOK
<1>2. \A n \in Nat : MovedUp(term.images, reanchor(term.images, n), n)
  BY <1>1, ReanchorMoves
<1>3. ASSUME term'.images = term.images PROVE MovedUp(term.images, term'.images, 0)
  <2> DEFINE e == [i \in DOMAIN term.images |-> i]
  <2>1. e \in [DOMAIN term'.images -> DOMAIN term.images]
        /\ \A i, j \in DOMAIN term'.images : i # j => e[i] # e[j]
    BY <1>3
  <2>2. \A j \in DOMAIN term.images : term.images[j].line \in Nat
    <3>1. term.images \in Seq(Image)
      BY <1>1 DEF ImagesOK
    <3>2. \A j \in DOMAIN term.images : term.images[j] \in Image
      BY <3>1
    <3> QED BY <3>2 DEF Image
  <2>3. \A j \in DOMAIN term'.images :
          /\ term'.images[j].pixels = term.images[e[j]].pixels
          /\ term'.images[j].tag = term.images[e[j]].tag
          /\ term.images[e[j]].line >= 0 /\ term'.images[j].line = term.images[e[j]].line - 0
    BY <1>3, <2>2
  <2> HIDE DEF e
  <2> QED BY <2>1, <2>3 DEF MovedUp
<1>4. CASE LineFeed
  <2>1. pics' = pics /\ scene' = scene
    BY <1>4 DEF LineFeed, Reader
  <2>2. CASE term' = [term EXCEPT !.row = @ + 1] \/ term' = [term EXCEPT !.hist = @ + 1]
    BY <1>1, <1>3, <2>1, <2>2 DEF TermRec
  <2>3. CASE term' = [term EXCEPT !.images = reanchor(@, 1)]
    <3>1. term'.images = reanchor(term.images, 1) /\ term'.chunks = term.chunks /\ term'.store = term.store
      BY <1>1, <2>3 DEF TermRec
    <3> QED BY <1>2, <2>1, <3>1
  <2> QED BY <1>4, <2>2, <2>3 DEF LineFeed, Reader
<1>5. CASE CursorUp
  BY <1>1, <1>3, <1>5 DEF CursorUp, Reader, TermRec
<1>6. CASE ClearScrollback
  <2>1. term' = [term EXCEPT !.hist = 0, !.view = 0, !.images = reanchor(@, term.hist)]
        /\ pics' = pics /\ scene' = scene
    BY <1>6 DEF ClearScrollback, Reader
  <2>2. term'.images = reanchor(term.images, term.hist) /\ term'.chunks = term.chunks
        /\ term'.store = term.store
    BY <1>1, <2>1 DEF TermRec
  <2> QED BY <1>1, <1>2, <2>1, <2>2
<1>7. CASE HardReset
  BY <1>1, <1>7 DEF HardReset, Reader, TermRec
<1>8. CASE Paints
  <2>1. pics' = pics /\ scene' = scene
    BY <1>8 DEF Paints, Wheel, Sweep, Paint, FrameEnd
  <2>2. term'.images = term.images /\ term'.chunks = term.chunks /\ term'.store = term.store
    BY <1>1, <1>8 DEF Paints, Wheel, Sweep, Paint, FrameEnd, TermRec
  <2> QED BY <1>3, <2>1, <2>2
<1> QED BY <1>4, <1>5, <1>6, <1>7, <1>8

(* Lines that move keep pictures whole.                                    *)
LEMMA LinesWhole ==
  ASSUME IInv, WInv, LineFeed \/ CursorUp \/ ClearScrollback \/ HardReset \/ Paints
  PROVE  WInv'
<1>1. /\ term'.chunks = term.chunks /\ term'.store = term.store /\ pics' = pics /\ scene' = scene
      /\ term'.images = <<>> \/ \E n \in Nat : MovedUp(term.images, term'.images, n)
  BY ImagesMove
<1>2. AllFrom(term'.images, Pictures)
  <2>1. CASE term'.images = <<>>
    BY <2>1 DEF AllFrom
  <2>2. ASSUME NEW n \in Nat, MovedUp(term.images, term'.images, n)
        PROVE  AllFrom(term'.images, Pictures)
    <3>1. PICK e : /\ e \in [DOMAIN term'.images -> DOMAIN term.images]
                   /\ \A j \in DOMAIN term'.images : term'.images[j].pixels = term.images[e[j]].pixels
      BY <2>2 DEF MovedUp
    <3>2. AllFrom(term.images, Pictures)
      BY DEF WInv
    <3> QED BY <3>1, <3>2 DEF AllFrom
  <2> QED BY <1>1, <2>1, <2>2
<1>3. StoredFrom(term'.store, Pictures)
  BY <1>1 DEF WInv
<1> QED BY <1>1, <1>2, <1>3, OthersWhole

(* Every step keeps pictures whole and sets in order.                      *)
LEMMA NextWhole ==
  ASSUME KeysRepeat, IInv, WInv, [Next]_vars
  PROVE  WInv'
<1>1. scene.keys = "repeat" /\ "reuse" \notin scene.ops
  BY DEF KeysRepeat, IInv
<1>2. CASE UNCHANGED vars
  <2>1. scene' = scene /\ pics' = pics /\ term' = term
    BY <1>2 DEF vars
  <2> QED BY <2>1, OthersWhole DEF WInv
<1>3. CASE Next
  BY <1>1, <1>3, BeginWhole, InterruptWhole, SendWhole, PutWhole, DeleteWhole, SixelWhole, LinesWhole
  DEF Next, Paints
<1> QED BY <1>2, <1>3

(* Every picture on a line and in the store is one picture, whole, however *)
(* the pieces of several interleave and whatever is deleted, interrupted   *)
(* or refused on the way; and no set of pieces outlives its program's last *)
(* one. (Without the keys on continuations, pieces of two pictures meet in *)
(* one set.)                                                               *)
THEOREM PicturesAreWhole == KeysRepeat => (Spec => []ImagesWhole)
<1> SUFFICES ASSUME KeysRepeat PROVE Spec => []ImagesWhole
  OBVIOUS
<1>1. IInv /\ WInv /\ [Next]_vars => WInv'
  BY NextWhole
<1>2. WInv => ImagesWhole
  BY DEF WInv, ImagesWhole, AllFrom, StoredFrom, Pictures, Owned
<1> QED BY <1>1, <1>2, InitTypes, NextTypes, InitWhole, PTL DEF Spec

(* The step that sends the last piece of a picture for which there was     *)
(* room.                                                                   *)
LEMMA LastPiece ==
  ASSUME IInv, WInv, scene.keys = "repeat", Next, NEW n \in DOMAIN pics,
         pics[n].next = scene.sizes[n], pics'[n].next > scene.sizes[n], pics'[n].ok
  PROVE  IF pics[n].action = "T"
         THEN /\ term'.images # <<>> /\ Last(term'.images).pixels = Picture(n)
              /\ Last(term'.images).line = Here
         ELSE pics[n].id \in DOMAIN term'.store => term'.store[pics[n].id] = Picture(n)
<1>0. pics \in Seq(Pic) /\ n \in 1 .. Len(pics) /\ pics[n] \in Pic
      /\ scene.sizes[n] \in Nat \ {0} /\ pics[n].next \in Nat
  <2>1. pics \in Seq(Pic) /\ Len(pics) <= Len(scene.sizes) /\ scene.sizes \in Seq(Nat \ {0})
    BY SceneIs DEF IInv
  <2>2. n \in 1 .. Len(pics) /\ pics[n] \in Pic /\ scene.sizes[n] \in Nat \ {0}
    BY <2>1
  <2> QED BY <2>1, <2>2 DEF Pic
<1>1. Send
  <2>1. CASE pics' = pics
    BY <1>0, <2>1
  <2>2. CASE Begin \/ Sixel
    <3>1. PICK p : pics' = Append(pics, p)
      BY <2>2 DEF Begin, Sixel
    <3>2. pics'[n] = pics[n]
      BY <1>0, <3>1
    <3> QED BY <1>0, <3>2
  <2>3. CASE Interrupt
    <3>1. PICK m \in InFlight : pics' = [pics EXCEPT ![m].next = 0]
      BY <2>3 DEF Interrupt
    <3>2. m = n => pics'[n].next = 0
      BY <1>0, <3>1 DEF Pic
    <3>3. m # n => pics'[n] = pics[n]
      BY <1>0, <3>1
    <3> QED BY <1>0, <3>2, <3>3
  <2>4. CASE Delete
    <3>1. pics'[n] = IF n \in InFlight THEN [pics[n] EXCEPT !.ok = FALSE] ELSE pics[n]
      BY <1>0, <2>4 DEF Delete
    <3>2. pics'[n].next = pics[n].next
      BY <1>0, <3>1 DEF Pic
    <3> QED BY <1>0, <3>2
  <2>5. \/ Send \/ pics' = pics \/ Begin \/ Sixel \/ Interrupt \/ Delete
    BY DEF Next, Put, LineFeed, CursorUp, ClearScrollback, HardReset, Wheel, Sweep, Paint, FrameEnd
  <2> QED BY <2>1, <2>2, <2>3, <2>4, <2>5
<1>2. PICK m \in InFlight :
        /\ pics' = [pics EXCEPT ![m].next = @ + 1,
                       ![m].ok = @ /\ (pics[m].next > 1 \/ Cardinality(DOMAIN term.chunks \ {pics[m].id}) < ChunksMax)
                                   /\ scene.sizes[m] <= PayloadMax]
        /\ term' = transmit(term, parse_kitty(m))
  BY <1>1, Zenon DEF Send, Reader
<1>3. m = n
  <2>1. m # n => pics'[n] = pics[n]
    BY <1>0, <1>2
  <2> QED BY <1>0, <2>1
<1> DEFINE cmd == parse_kitty(n)
           f == term.chunks
           c == Coming(f, cmd)
           p == pics[n]
           room == p.next > 1 \/ Cardinality(DOMAIN f \ {p.id}) < ChunksMax
           b == p.ok /\ room /\ scene.sizes[n] <= PayloadMax
<1>4. b
  <2>1. pics' = [pics EXCEPT ![n].next = p.next + 1, ![n].ok = b]
    BY <1>0, <1>2, <1>3
  <2> HIDE DEF b
  <2>2. pics'[n].ok = b
    BY <1>0, <2>1 DEF Pic
  <2> QED BY <2>2
<1>5. cmd \in Command /\ Does(term', cmd)
  BY <1>2, <1>3, Parsed, TransmitDoes DEF IInv, TermOK
<1>6. /\ cmd.id = p.id /\ cmd.action = p.action /\ (cmd.more <=> p.next < scene.sizes[n])
      /\ c.size = 0 \/ (c.size = scene.sizes[n] /\ FirstPieces(c.payload, n, p.next))
      /\ Ends(f, cmd) => c.payload = Picture(n)
      /\ b => Taken(f, cmd) /\ c.size = scene.sizes[n]
  BY <1>3, SendIs
<1>7. Ends(f, cmd) /\ c.payload = Picture(n)
  <2>1. Taken(f, cmd) /\ c.size = scene.sizes[n] /\ Len(c.payload) = p.next /\ ~cmd.more
    BY <1>0, <1>4, <1>6 DEF FirstPieces
  <2> QED BY <1>0, <1>6, <2>1 DEF Ends, Complete
<1>8. c.payload \in Pixels
  BY <1>5, ComingIs DEF IInv, TermOK
<1> HIDE DEF cmd, c, b, room
<1>9. CASE p.action = "T"
  <2>1. term'.images = push_image(Append(term.images, Placed(c.payload)))
    BY <1>5, <1>6, <1>7, <1>9 DEF Does, c
  <2>2. term'.images # <<>> /\ term'.images[Len(term'.images)] = Placed(c.payload)
    <3> DEFINE P == Pictures
    <3>1. AllFrom(term.images, P) /\ c.payload \in P
      BY <1>0, <1>7 DEF WInv, Pictures
    <3> HIDE DEF P
    <3> QED BY <1>8, <2>1, <3>1, PushFrom
  <2>3. Last(term'.images) = Placed(c.payload)
    BY <2>2 DEF Last
  <2> QED BY <1>7, <1>9, <2>2, <2>3 DEF Placed
<1>10. CASE p.action # "T"
  <2>1. term'.store = store_kitty_image(term.store, p.id, c.payload)
    BY <1>5, <1>6, <1>7, <1>10 DEF Does, c
  <2>2. StoreOK(term.store) /\ p.id \in AllIds
    BY <1>0 DEF IInv, TermOK, Pic
  <2>3. \A i \in DOMAIN term'.store :
          term'.store[i] = IF i = p.id THEN c.payload ELSE term.store[i]
    BY <1>8, <2>1, <2>2, StoreKeeps
  <2> QED BY <1>7, <1>10, <2>3
<1> QED BY <1>9, <1>10

(* A picture for which there was room arrives with its last piece, whole:  *)
(* on the line of the cursor, or in the store.                             *)
THEOREM PicturesArrive == KeysRepeat => (Spec => ImagesArrive)
<1> SUFFICES ASSUME KeysRepeat PROVE Spec => ImagesArrive
  OBVIOUS
<1> DEFINE Arrives ==
      \A n \in DOMAIN pics :
       pics[n].next = scene.sizes[n] /\ pics'[n].next > scene.sizes[n] /\ pics'[n].ok =>
         IF pics[n].action = "T"
         THEN LET last == Last(term'.images) IN
              term'.images # <<>> /\ last.pixels = Picture(n) /\ last.line = Here
         ELSE pics[n].id \in DOMAIN term'.store => term'.store[pics[n].id] = Picture(n)
<1>1. IInv /\ WInv /\ [Next]_vars => WInv'
  BY NextWhole
<1>2. IInv /\ WInv /\ Next => Arrives
  <2>1. IInv => scene.keys = "repeat"
    BY DEF KeysRepeat, IInv
  <2> QED BY <2>1, LastPiece
<1>3. IInv /\ WInv /\ [Next]_vars => [Arrives]_vars
  BY <1>2
<1> QED BY <1>1, <1>3, InitTypes, NextTypes, InitWhole, PTL DEF Spec, ImagesArrive

-----------------------------------------------------------------------------
(* What a frame shows *)

(* In the window, no picture is drawn over another or sent again under the *)
(* size of another: programs do not draw where a picture stands, pictures  *)
(* have sizes of their own, and only a lone one is put from the store. (A  *)
(* texture is found by line and size alone, so without this the pixels of  *)
(* one picture can be shown for another: see the runs.)                    *)
PlainPaints ==
  \A s \in Scenes : "paint" \in s.ops =>
    /\ "redraw" \notin s.ops
    /\ \A i, j \in DOMAIN s.sizes : i # j => s.sizes[i] # s.sizes[j]
    /\ "kitty" \notin s.ops \/ Len(s.sizes) = 1

(* The pictures of q are on different lines; ...                           *)
Spread(q) == \A i, j \in DOMAIN q : i # j => q[i].line # q[j].line
(* ... they are of different sizes; ...                                    *)
Unlike(q) == \A i, j \in DOMAIN q : i # j => Len(q[i].pixels) # Len(q[j].pixels)
(* ... and one of size s is above line l.                                  *)
Above(q, s, l) == \A i \in DOMAIN q : Len(q[i].pixels) = s => q[i].line < l

(* A picture of size s has been begun.                                     *)
Begun(s) == \E n \in DOMAIN pics : scene.sizes[n] = s
Sole == Len(scene.sizes) = 1
Single == Sole \/ (Unlike(term.images) /\ InFlight = {})

(* A texture is that of its key's size, or of one that took the line while *)
(* a frame was painted; then the picture the key was for has moved up, and *)
(* none will ask for the key again.                                        *)
KeyOK(k, p) == /\ k.line \in Nat /\ Begun(k.size) /\ p \in Pictures
               /\ Len(p) = k.size \/ (~Sole /\ Above(term.images, k.size, k.line))
CacheOK == \A k \in DOMAIN cache : KeyOK(k, cache[k])

MetaT == [line : Nat, size : Nat, row : Int]
MetaOK(m) == m \in MetaT /\ Begun(m.size) /\ (Sole \/ Above(term.images, m.size, m.line + 1))
MetasOK == \A i \in DOMAIN frame.metas : MetaOK(frame.metas[i])

(* What is in the window, and how it is to be shown.                       *)
Row(i) == term.images[i].line - (term.hist - term.view)
MetaOf(i) == [line |-> term.images[i].line, size |-> Len(term.images[i].pixels), row |-> Row(i)]
ShowOf(i) == [pixels |-> term.images[i].pixels, row |-> Row(i)]
InWindow == {i \in DOMAIN term.images : Row(i) < scene.rows}
Visible == {i \in InWindow : Row(i) + Len(term.images[i].pixels) > 0}

(* What has been painted is right, and what is missing will be painted.    *)
Painted ==
  /\ \A j \in DOMAIN frame.metas : \E i \in InWindow : frame.metas[j] = MetaOf(i)
  /\ \A x \in frame.shown : \E i \in Visible : x = ShowOf(i)
  /\ \A i \in Visible :
       ShowOf(i) \in frame.shown \/ \E j \in DOMAIN frame.metas : frame.metas[j] = MetaOf(i)

FrameOK ==
  /\ frame = [at |-> frame.at, metas |-> frame.metas, seen |-> frame.seen,
              shown |-> frame.shown, raced |-> frame.raced]
  /\ frame.at \in {"Idle", "Paint"} /\ frame.metas \in Seq(MetaT)

PInv ==
  /\ FrameOK
  /\ "paint" \notin scene.ops => frame.at = "Idle"
  /\ "paint" \in scene.ops =>
       /\ Spread(term.images) /\ Single /\ CacheOK /\ MetasOK
       /\ frame.at = "Paint" /\ ~frame.raced => Painted

(* Lines that leave keep the pictures apart.                               *)
LEMMA MovedApart ==
  ASSUME NEW q \in Seq(Image), NEW r, NEW n \in Nat, MovedUp(q, r, n)
  PROVE  /\ Spread(q) => Spread(r)
         /\ Unlike(q) => Unlike(r)
         /\ \A s, l : l \in Nat /\ Above(q, s, l) => Above(r, s, l)
<1>1. PICK e : /\ e \in [DOMAIN r -> DOMAIN q]
               /\ \A i, j \in DOMAIN r : i # j => e[i] # e[j]
               /\ \A j \in DOMAIN r : /\ r[j].pixels = q[e[j]].pixels
                                      /\ q[e[j]].line >= n /\ r[j].line = q[e[j]].line - n
  BY DEF MovedUp
<1>2. \A j \in DOMAIN r : e[j] \in DOMAIN q /\ q[e[j]].line \in Nat
  <2>1. \A i \in DOMAIN q : q[i] \in Image
    OBVIOUS
  <2> QED BY <1>1, <2>1 DEF Image
<1>3. ASSUME Spread(q), NEW i \in DOMAIN r, NEW j \in DOMAIN r, i # j
      PROVE  r[i].line # r[j].line
  <2>1. q[e[i]].line # q[e[j]].line
    BY <1>1, <1>2, <1>3 DEF Spread
  <2> QED BY <1>1, <1>2, <2>1
<1>4. Unlike(q) => Unlike(r)
  BY <1>1, <1>2 DEF Unlike
<1>5. ASSUME NEW s, NEW l \in Nat, Above(q, s, l), NEW j \in DOMAIN r, Len(r[j].pixels) = s
      PROVE  r[j].line < l
  <2>1. q[e[j]].line < l
    BY <1>1, <1>2, <1>5 DEF Above
  <2> QED BY <1>1, <1>2, <2>1
<1> QED BY <1>3, <1>4, <1>5 DEF Spread, Above

(* So does a new picture on a line of its own and of a size of its own.    *)
LEMMA PushedApart ==
  ASSUME NEW q \in Seq(Image), NEW x \in Image, NEW r, NEW d \in 0 .. Len(q),
         r = SubSeq(Append(q, x), d + 1, Len(q) + 1)
  PROVE  /\ Spread(q) /\ (\A i \in DOMAIN q : q[i].line # x.line) => Spread(r)
         /\ Unlike(q) /\ (\A i \in DOMAIN q : Len(q[i].pixels) # Len(x.pixels)) => Unlike(r)
         /\ \A s, l : Above(q, s, l) /\ s # Len(x.pixels) => Above(r, s, l)
<1> DEFINE a == Append(q, x)
<1>1. /\ Len(q) \in Nat /\ DOMAIN q = 1 .. Len(q) /\ DOMAIN r = 1 .. Len(q) + 1 - d
      /\ \A j \in DOMAIN r : r[j] = a[j + d] /\ j + d \in 1 .. Len(q) + 1
  <2>1. a \in Seq(Image) /\ Len(a) = Len(q) + 1 /\ Len(q) \in Nat /\ r = SubSeq(a, d + 1, Len(q) + 1)
    OBVIOUS
  <2> HIDE DEF a
  <2> QED BY <2>1
<1>2. a[Len(q) + 1] = x /\ \A j \in 1 .. Len(q) : a[j] = q[j]
  OBVIOUS
<1> HIDE DEF a
<1>3. \A j \in DOMAIN r : \/ j + d = Len(q) + 1 /\ r[j] = x
                          \/ j + d \in DOMAIN q /\ r[j] = q[j + d]
  BY <1>1, <1>2
<1>4. \A i, j \in DOMAIN r : i # j => i + d # j + d
  BY <1>1
<1>5. ASSUME Spread(q), \A i \in DOMAIN q : q[i].line # x.line PROVE Spread(r)
  BY SMTT(30), <1>3, <1>4, <1>5 DEF Spread
<1>6. ASSUME Unlike(q), \A i \in DOMAIN q : Len(q[i].pixels) # Len(x.pixels),
             NEW i \in DOMAIN r, NEW j \in DOMAIN r, i # j
      PROVE  Len(r[i].pixels) # Len(r[j].pixels)
  <2>1. CASE r[i] = x \/ r[j] = x
    BY <1>1, <1>3, <1>4, <1>6, <2>1
  <2>2. CASE r[i] # x /\ r[j] # x
    BY <1>3, <1>4, <1>6, <2>2 DEF Unlike
  <2> QED BY <2>1, <2>2
<1>7. ASSUME NEW s, NEW l, Above(q, s, l), s # Len(x.pixels) PROVE Above(r, s, l)
  BY <1>3, <1>7 DEF Above
<1> QED BY <1>5, <1>6, <1>7 DEF Unlike

(* A picture that is placed has a line of its own.                         *)
LEMMA PlacedApart ==
  ASSUME IInv, NEW p \in Pixels, Free, "redraw" \notin scene.ops
  PROVE  LET q == term.images
             r == push_image(Append(q, Placed(p)))
         IN  /\ Spread(q) => Spread(r)
             /\ Unlike(q) /\ (\A i \in DOMAIN q : Len(q[i].pixels) # Len(p)) => Unlike(r)
             /\ \A s, l : Above(q, s, l) /\ s # Len(p) => Above(r, s, l)
<1> DEFINE x == Placed(p)
           q == term.images
           r == push_image(Append(q, x))
<1>1. q \in Seq(Image) /\ gone \in Nat
  BY DEF IInv, TermOK, ImagesOK
<1>2. x \in Image /\ x.pixels = p /\ x.line = Here
  BY <1>1, SceneIs DEF Placed, Image
<1>3. \A i \in DOMAIN q : q[i].line # x.line
  BY <1>2 DEF Free, Can
<1>4. \E d \in 0 .. Len(q) : r = SubSeq(Append(q, x), d + 1, Len(q) + 1)
  BY PlacedIs
<1> HIDE DEF x, r
<1>5. PICK d \in 0 .. Len(q) : r = SubSeq(Append(q, x), d + 1, Len(q) + 1)
  BY <1>4
<1> HIDE DEF q
<1>6. /\ Spread(q) => Spread(r)
      /\ Unlike(q) /\ (\A i \in DOMAIN q : Len(q[i].pixels) # Len(x.pixels)) => Unlike(r)
      /\ \A s, l : Above(q, s, l) /\ s # Len(x.pixels) => Above(r, s, l)
  BY <1>1, <1>2, <1>3, <1>5, PushedApart
<1> QED BY <1>2, <1>6 DEF q, r, x

(* In the window a new picture has a size of its own.                      *)
LEMMA NewSize ==
  ASSUME PlainPaints, IInv, WInv, "paint" \in scene.ops, Len(pics) < Len(scene.sizes)
  PROVE  LET N == Len(pics) + 1
         IN  /\ N \in 1 .. Len(scene.sizes) /\ ~Begun(scene.sizes[N])
             /\ \A i \in DOMAIN term.images : Len(term.images[i].pixels) # scene.sizes[N]
<1> DEFINE N == Len(pics) + 1
<1>1. /\ DOMAIN pics = 1 .. Len(pics) /\ Len(pics) \in Nat
      /\ DOMAIN scene.sizes = 1 .. Len(scene.sizes) /\ Len(scene.sizes) \in Nat
  <2>1. pics \in Seq(Pic) /\ scene.sizes \in Seq(Nat \ {0})
    BY SceneIs DEF IInv
  <2> QED BY <2>1
<1>2. N \in 1 .. Len(scene.sizes)
  BY <1>1
<1>3. \A n \in DOMAIN pics : n \in 1 .. Len(scene.sizes) /\ scene.sizes[n] # scene.sizes[N]
  <2>1. \A i, j \in DOMAIN scene.sizes : i # j => scene.sizes[i] # scene.sizes[j]
    BY DEF PlainPaints, IInv
  <2>2. \A n \in DOMAIN pics : n \in DOMAIN scene.sizes /\ n # N
    BY <1>1
  <2> HIDE DEF N
  <2> QED BY <1>1, <1>2, <2>1, <2>2
<1> HIDE DEF N
<1>4. ASSUME NEW i \in DOMAIN term.images PROVE Len(term.images[i].pixels) # scene.sizes[N]
  <2>1. PICK n \in DOMAIN pics : term.images[i].pixels = Picture(n)
    BY DEF WInv, AllFrom, Pictures
  <2> QED BY <1>3, <2>1, PictureIs
<1> QED BY <1>2, <1>3, <1>4 DEF Begun, N

(* What a step in the window does to the pictures on lines.                *)
Onwards ==
  /\ scene' = scene /\ DOMAIN pics \subseteq DOMAIN pics'
  /\ Spread(term'.images) /\ Single'
  /\ \A s, l : l \in Nat /\ Begun(s) /\ ~Sole /\ Above(term.images, s, l) => Above(term'.images, s, l)

(* Programs in the window keep pictures apart, ...                         *)
LEMMA ProgramsOnwards ==
  ASSUME PlainPaints, IInv, WInv, "paint" \in scene.ops, scene.keys = "repeat",
         Spread(term.images), Single, Begin \/ Interrupt \/ Delete \/ Put \/ Send
  PROVE  Onwards
<1>1. Sole /\ scene' = scene /\ Sole' /\ "redraw" \notin scene.ops
  <2>1. scene' = scene /\ ("kitty" \in scene.ops \/ InFlight # {})
    BY DEF Begin, Interrupt, Delete, Put, Send, Reader, Can
  <2>2. scene \in Scenes
    BY DEF IInv
  <2> QED BY <2>1, <2>2 DEF Sole, Single, PlainPaints
<1>2. DOMAIN pics \subseteq DOMAIN pics'
  <2>1. pics \in Seq(Pic)
    BY DEF IInv
  <2>2. CASE Begin
    <3>1. PICK p : pics' = Append(pics, p)
      BY <2>2 DEF Begin
    <3> QED BY <2>1, <3>1
  <2>3. CASE Interrupt
    BY <2>1, <2>3 DEF Interrupt
  <2>4. CASE Delete
    BY <2>1, <2>4 DEF Delete
  <2>5. CASE Put
    BY <2>5 DEF Put
  <2>6. CASE Send
    <3>1. PICK m \in InFlight :
            pics' = [pics EXCEPT ![m].next = @ + 1,
                       ![m].ok = @ /\ (pics[m].next > 1 \/ Cardinality(DOMAIN term.chunks \ {pics[m].id}) < ChunksMax)
                                   /\ scene.sizes[m] <= PayloadMax]
      BY <2>6, Zenon DEF Send
    <3> QED BY <3>1
  <2> QED BY <2>2, <2>3, <2>4, <2>5, <2>6
<1>3. \/ term'.images = term.images
      \/ Free /\ \E p \in Pixels : term'.images = push_image(Append(term.images, Placed(p)))
  <2>1. CASE Begin \/ Interrupt
    BY <2>1 DEF Begin, Interrupt
  <2>2. CASE Delete
    <3>1. term' = [term EXCEPT !.store = Empty, !.chunks = Empty] /\ TermRec(term)
      BY <2>2 DEF Delete, Reader, IInv, TermOK
    <3> QED BY <3>1 DEF TermRec
  <2>3. CASE Put
    <3>1. PICK id \in DOMAIN term.store : term' = place(term, term.store[id])
      BY <2>3 DEF Put, Reader
    <3>2. TermRec(term) /\ term.store[id] \in Pixels
      BY DEF IInv, TermOK, StoreOK
    <3> QED BY <2>3, <3>1, <3>2, PlaceIs DEF Put
  <2>4. CASE Send
    <3>1. PICK n \in InFlight : /\ pics[n].next = scene.sizes[n] => Free
                                /\ term' = transmit(term, parse_kitty(n))
      BY <2>4, Zenon DEF Send, Reader
    <3> DEFINE cmd == parse_kitty(n)
               p == Coming(term.chunks, cmd).payload
    <3>2. cmd \in Command /\ Does(term', cmd)
      BY <3>1, Parsed, TransmitDoes DEF IInv, TermOK
    <3>3. Ends(term.chunks, cmd) => pics[n].next = scene.sizes[n]
      BY SendIs
    <3>4. p \in Pixels
      BY <3>2, ComingIs DEF IInv, TermOK
    <3> HIDE DEF cmd
    <3> QED BY <3>1, <3>2, <3>3, <3>4 DEF Does
  <2> QED BY <2>1, <2>2, <2>3, <2>4
<1>4. Spread(term'.images)
  BY <1>1, <1>3, PlacedApart
<1> QED BY <1>1, <1>2, <1>4 DEF Onwards, Single

(* ... and so do pictures of the other protocol.                           *)
LEMMA SixelOnwards ==
  ASSUME PlainPaints, IInv, WInv, "paint" \in scene.ops, Spread(term.images), Single, Sixel
  PROVE  Onwards
<1> DEFINE N == Len(pics) + 1
           p == [id |-> 0, action |-> "sixel", next |-> 0, ok |-> TRUE]
           P == Picture(N)
<1>1. /\ Len(pics) < Len(scene.sizes) /\ pics' = Append(pics, p) /\ term' = place(term, P)
      /\ scene' = scene /\ Free
  BY DEF Sixel, Reader
<1>2. p.next = 0
  OBVIOUS
<1> HIDE DEF p
<1>3. /\ DOMAIN pics' = DOMAIN pics \cup {N} /\ pics'[N] = p /\ \A n \in DOMAIN pics : pics'[n] = pics[n]
  <2>1. pics \in Seq(Pic)
    BY DEF IInv
  <2> QED BY <1>1, <2>1
<1>4. InFlight' = InFlight
  BY <1>1, <1>2, <1>3 DEF InFlight
<1>5. /\ N \in 1 .. Len(scene.sizes) /\ ~Begun(scene.sizes[N])
      /\ \A i \in DOMAIN term.images : Len(term.images[i].pixels) # scene.sizes[N]
  BY <1>1, NewSize
<1>6. P \in Pixels /\ Len(P) = scene.sizes[N]
  BY <1>5, PictureIs
<1>7. term'.images = push_image(Append(term.images, Placed(P)))
  BY <1>1, <1>6, PlaceIs DEF IInv, TermOK
<1>8. "redraw" \notin scene.ops
  BY DEF IInv, PlainPaints
<1> HIDE DEF N, P
<1>9. /\ Spread(term'.images)
      /\ Unlike(term.images) => Unlike(term'.images)
      /\ \A s, l : Above(term.images, s, l) /\ s # Len(P) => Above(term'.images, s, l)
  BY <1>1, <1>5, <1>6, <1>7, <1>8, PlacedApart
<1>10. Single'
  BY <1>1, <1>4, <1>9 DEF Single, Sole
<1> QED BY <1>1, <1>3, <1>5, <1>6, <1>9, <1>10 DEF Onwards

(* Lines, and the UI, only move them.                                      *)
LEMMA LinesOnwards ==
  ASSUME IInv, Spread(term.images), Single, LineFeed \/ CursorUp \/ ClearScrollback \/ HardReset \/ Paints
  PROVE  Onwards
<1>1. /\ pics' = pics /\ scene' = scene
      /\ term'.images = <<>> \/ \E n \in Nat : MovedUp(term.images, term'.images, n)
  BY ImagesMove
<1>2. term.images \in Seq(Image)
  BY DEF IInv, TermOK, ImagesOK
<1>3. InFlight' = InFlight /\ Sole' = Sole
  BY <1>1 DEF InFlight, Sole
<1>4. /\ Spread(term'.images) /\ (Unlike(term.images) => Unlike(term'.images))
      /\ \A s, l : l \in Nat /\ Above(term.images, s, l) => Above(term'.images, s, l)
  <2>1. CASE term'.images = <<>>
    BY <2>1 DEF Spread, Unlike, Above
  <2>2. CASE \E n \in Nat : MovedUp(term.images, term'.images, n)
    BY <1>2, <2>2, MovedApart
  <2> QED BY <1>1, <2>1, <2>2
<1> QED BY <1>1, <1>3, <1>4 DEF Onwards, Single

(* A step of the terminal or of a program, and one of the UI.              *)
LEMMA NextOnwards ==
  ASSUME PlainPaints, KeysRepeat, IInv, WInv, "paint" \in scene.ops, Spread(term.images), Single, Next
  PROVE  Onwards
<1>1. scene.keys = "repeat"
  BY DEF KeysRepeat, IInv
<1> QED BY <1>1, ProgramsOnwards, SixelOnwards, LinesOnwards DEF Next, Paints

(* A texture that is right stays right, or will not be asked for; ...      *)
LEMMA KeyStays ==
  ASSUME Onwards, NEW k, NEW p, KeyOK(k, p)
  PROVE  KeyOK(k, p)'
<1>1. p \in Pictures'
  <2>1. Pictures \subseteq Pictures'
    BY DEF Pictures, Picture, Onwards
  <2> QED BY <2>1 DEF KeyOK
<1>2. Begun(k.size)' /\ Sole' = Sole
  BY DEF KeyOK, Onwards, Begun, Sole
<1> QED BY <1>1, <1>2 DEF KeyOK, Onwards

(* ... and nothing comes below what a frame has found.                     *)
LEMMA MetaStays ==
  ASSUME Onwards, NEW m, MetaOK(m)
  PROVE  MetaOK(m)'
<1>1. Begun(m.size)' /\ Sole' = Sole
  BY DEF MetaOK, Onwards, Begun, Sole
<1>2. m.line + 1 \in Nat
  BY DEF MetaOK, MetaT
<1> QED BY <1>1, <1>2 DEF MetaOK, Onwards

(* The same of all of them.                                                *)
LEMMA TexturesStay ==
  ASSUME Onwards
  PROVE  /\ CacheOK /\ cache' = cache => CacheOK'
         /\ MetasOK /\ frame'.metas = frame.metas => MetasOK'
<1>1. ASSUME CacheOK, cache' = cache, NEW k \in DOMAIN cache PROVE KeyOK(k, cache[k])'
  <2>1. PICK p : p = cache[k]
    OBVIOUS
  <2>2. KeyOK(k, p)'
    BY <1>1, <2>1, KeyStays DEF CacheOK
  <2> QED BY <1>1, <2>1, <2>2
<1>2. ASSUME MetasOK, frame'.metas = frame.metas, NEW i \in DOMAIN frame.metas
      PROVE  MetaOK(frame.metas[i])'
  <2>1. PICK m : m = frame.metas[i]
    OBVIOUS
  <2>2. MetaOK(m)'
    BY <1>2, <2>1, MetaStays DEF MetasOK
  <2> QED BY <1>2, <2>1, <2>2
<1> QED BY <1>1, <1>2 DEF CacheOK, MetasOK

(* Nothing is in the window at first.                                      *)
LEMMA InitFrame == Init => PInv
<1> SUFFICES ASSUME Init PROVE PInv
  OBVIOUS
<1>1. /\ term.images = <<>> /\ DOMAIN cache = {} /\ pics = <<>>
      /\ frame = [at |-> "Idle", metas |-> <<>>, seen |-> {}, shown |-> {}, raced |-> FALSE]
  BY DEF Init, Empty, Idle
<1>2. DOMAIN <<>> = {} /\ <<>> \in Seq(MetaT)
  OBVIOUS
<1>3. Spread(term.images) /\ Single
  BY <1>1, <1>2 DEF Spread, Single, Unlike, InFlight
<1>4. CacheOK /\ MetasOK /\ FrameOK /\ frame.at = "Idle"
  BY <1>1, <1>2 DEF CacheOK, MetasOK, FrameOK
<1> QED BY <1>3, <1>4 DEF PInv

(* What the others do leaves a frame as it was, or overtakes it.           *)
LEMMA OthersFrame ==
  ASSUME PInv, "paint" \in scene.ops => Onwards, scene' = scene, cache' = cache,
         \/ frame' = [frame EXCEPT !.raced = frame.at # "Idle"]
         \/ frame' = frame /\ term' = term
         \/ frame' = frame /\ frame.at = "Idle"
  PROVE  PInv'
<1>1. /\ FrameOK' /\ frame'.at = frame.at /\ frame'.metas = frame.metas
      /\ frame'.raced \/ frame.at = "Idle" \/ (frame' = frame /\ term' = term)
  <2>1. FrameOK
    BY DEF PInv
  <2>2. CASE frame' = [frame EXCEPT !.raced = frame.at # "Idle"]
    <3> DEFINE b == frame.at # "Idle"
    <3>1. b \in BOOLEAN /\ (b \/ frame.at = "Idle")
      OBVIOUS
    <3>2. frame' = [frame EXCEPT !.raced = b]
      BY <2>2
    <3> HIDE DEF b
    <3>3. /\ frame'.at = frame.at /\ frame'.metas = frame.metas /\ frame'.seen = frame.seen
          /\ frame'.shown = frame.shown /\ frame'.raced = b
          /\ frame' = [at |-> frame.at, metas |-> frame.metas, seen |-> frame.seen,
                       shown |-> frame.shown, raced |-> b]
      BY <2>1, <3>2 DEF FrameOK
    <3> QED BY <2>1, <3>1, <3>3 DEF FrameOK
  <2>3. CASE frame' = frame
    BY <2>1, <2>3 DEF FrameOK
  <2> QED BY <2>2, <2>3
<1>2. ASSUME "paint" \in scene.ops
      PROVE  /\ Spread(term.images)' /\ Single' /\ CacheOK' /\ MetasOK'
             /\ frame'.at = "Paint" /\ ~frame'.raced => Painted'
  <2>1. Spread(term.images)' /\ Single' /\ CacheOK' /\ MetasOK'
    BY <1>1, <1>2, TexturesStay DEF PInv, Onwards, Spread
  <2>2. ASSUME frame'.at = "Paint", ~frame'.raced PROVE Painted'
    <3>1. frame' = frame /\ term' = term
      BY <1>1, <2>2
    <3>2. Painted
      BY <1>2, <2>2, <3>1 DEF PInv
    <3> QED BY <3>1, <3>2 DEF Painted, InWindow, Visible, MetaOf, ShowOf, Row
  <2> QED BY <2>1, <2>2
<1> QED BY <1>1, <1>2 DEF PInv

(* Pictures in the window are told apart by their size.                    *)
LEMMA SamePicture ==
  ASSUME PlainPaints, IInv, "paint" \in scene.ops, NEW p \in Pictures
  PROVE  /\ \E n \in DOMAIN pics : p = Picture(n) /\ Len(p) = scene.sizes[n]
         /\ Begun(Len(p))
         /\ \A r \in Pictures : Len(p) = Len(r) => p = r
         /\ Sole => \A s : Begun(s) => Len(p) = s
<1>1. \A n \in DOMAIN pics : n \in 1 .. Len(scene.sizes) /\ n \in DOMAIN scene.sizes
  <2>1. pics \in Seq(Pic) /\ Len(pics) <= Len(scene.sizes) /\ scene.sizes \in Seq(Nat \ {0})
    BY SceneIs DEF IInv
  <2> QED BY <2>1
<1>2. \A n \in DOMAIN pics : Len(Picture(n)) = scene.sizes[n]
  BY <1>1, PictureIs
<1>3. PICK n \in DOMAIN pics : p = Picture(n)
  BY DEF Pictures
<1>4. \A i, j \in DOMAIN scene.sizes : i # j => scene.sizes[i] # scene.sizes[j]
  BY DEF PlainPaints, IInv
<1>5. ASSUME NEW r \in Pictures, Len(p) = Len(r) PROVE p = r
  <2>1. PICK k \in DOMAIN pics : r = Picture(k)
    BY DEF Pictures
  <2>2. scene.sizes[n] = scene.sizes[k]
    BY <1>2, <1>3, <1>5, <2>1
  <2>3. n = k
    BY <1>1, <1>4, <2>2
  <2> QED BY <1>3, <2>1, <2>3
<1>6. ASSUME Sole, NEW s, Begun(s) PROVE Len(p) = s
  <2>1. PICK k \in DOMAIN pics : scene.sizes[k] = s
    BY <1>6 DEF Begun
  <2>2. k = n
    BY <1>1, <1>6 DEF Sole
  <2> QED BY <1>2, <1>3, <2>1, <2>2
<1> QED BY <1>2, <1>3, <1>5, <1>6 DEF Begun

(* A frame begins with what is in the window.                              *)
LEMMA SweepFrame ==
  ASSUME PlainPaints, IInv, WInv, PInv, Sweep, Onwards
  PROVE  PInv'
<1> DEFINE q == term.images
           S == {i \in Range(q) : i.line - (term.hist - term.view) < scene.rows}
           above == Among(q, S)
           v == visible_image_metas
<1>1. /\ "paint" \in scene.ops /\ scene' = scene /\ term' = term /\ pics' = pics /\ cache' = cache
      /\ frame' = [at |-> "Paint", metas |-> v, seen |-> {}, shown |-> {}, raced |-> FALSE]
  BY DEF Sweep, Can, Idle
<1>2. v = [j \in DOMAIN above |-> [line |-> above[j].line, size |-> Len(above[j].pixels),
                                   row |-> above[j].line - (term.hist - term.view)]]
  BY Zenon DEF visible_image_metas
<1>3. q \in Seq(Image) /\ \A i \in DOMAIN q : q[i].line \in Nat /\ Len(q[i].pixels) \in Nat
  <2>1. q \in Seq(Image)
    BY DEF IInv, TermOK, ImagesOK
  <2>2. \A i \in DOMAIN q : q[i] \in Image
    BY <2>1
  <2> QED BY SMTT(30), <2>1, <2>2 DEF Image, Pixels
<1>4. above \in Seq(Image) /\ \E e : Picks(above, q, S, Len(q), e)
  BY <1>3, AmongIs
<1> HIDE DEF above
<1>5. PICK e : Picks(above, q, S, Len(q), e)
  BY <1>4
<1>6. \A i \in DOMAIN q : q[i] \in S <=> i \in InWindow
  BY DEF InWindow, Row, Range
<1> HIDE DEF S, v
<1>7. /\ DOMAIN v = DOMAIN above
      /\ \A j \in DOMAIN v : e[j] \in InWindow /\ v[j] = MetaOf(e[j])
      /\ \A i \in InWindow : \E j \in DOMAIN v : v[j] = MetaOf(i)
  <2>1. DOMAIN v = DOMAIN above
    BY <1>2
  <2>2. ASSUME NEW j \in DOMAIN v PROVE e[j] \in InWindow /\ v[j] = MetaOf(e[j])
    <3>1. e[j] \in DOMAIN q /\ above[j] = q[e[j]] /\ q[e[j]] \in S
      BY <1>3, <1>5, <2>1 DEF Picks
    <3> QED BY <1>2, <1>6, <2>1, <3>1 DEF MetaOf, Row
  <2>3. ASSUME NEW i \in InWindow PROVE \E j \in DOMAIN v : v[j] = MetaOf(i)
    <3>1. i \in 1 .. Len(q) /\ q[i] \in S
      BY <1>3, <1>6 DEF InWindow
    <3>2. PICK j \in DOMAIN above : e[j] = i
      BY <1>5, <3>1 DEF Picks
    <3> QED BY <2>1, <2>2, <3>2
  <2> QED BY <2>1, <2>2, <2>3
<1>8. ASSUME NEW i \in InWindow PROVE MetaOK(MetaOf(i))
  <2>1. i \in DOMAIN q /\ q[i].line \in Nat /\ Len(q[i].pixels) \in Nat /\ Row(i) \in Int
    <3>1. i \in DOMAIN q /\ term.hist \in Nat /\ term.view \in Nat
      BY SceneIs DEF InWindow
    <3> QED BY <1>3, <3>1 DEF Row
  <2>2. Begun(Len(q[i].pixels))
    <3>1. q[i].pixels \in Pictures
      BY <2>1 DEF WInv, AllFrom
    <3> QED BY <1>1, <3>1, SamePicture
  <2>3. Sole \/ Above(q, Len(q[i].pixels), q[i].line + 1)
    <3>1. Sole \/ Unlike(q)
      BY <1>1 DEF PInv, Single
    <3> QED BY <1>3, <2>1, <3>1 DEF Unlike, Above
  <2>4. MetaOf(i).line = q[i].line /\ MetaOf(i).size = Len(q[i].pixels) /\ MetaOf(i) \in MetaT
    BY <2>1 DEF MetaOf, MetaT
  <2> QED BY <2>2, <2>3, <2>4 DEF MetaOK
<1>9. v \in Seq(MetaT)
  <2>1. \A j \in DOMAIN v : v[j] \in MetaT
    BY <1>7, <1>8 DEF MetaOK
  <2>2. Len(above) \in Nat /\ DOMAIN v = 1 .. Len(above) /\ v = [j \in DOMAIN above |-> v[j]]
    BY <1>2, <1>4, <1>7
  <2> QED BY <2>1, <2>2
<1>10. FrameOK'
  BY <1>1, <1>9 DEF FrameOK
<1>11. MetasOK'
  <2>1. ASSUME NEW j \in DOMAIN frame'.metas PROVE MetaOK(frame.metas[j])'
    <3>1. PICK m : m = v[j]
      OBVIOUS
    <3>2. frame'.metas[j] = m /\ MetaOK(m)
      BY <1>1, <1>7, <1>8, <2>1, <3>1
    <3>3. MetaOK(m)'
      BY <3>2, MetaStays
    <3> QED BY <3>2, <3>3
  <2> QED BY <2>1 DEF MetasOK
<1>12. Painted'
  <2>1. /\ \A i : MetaOf(i)' = MetaOf(i) /\ ShowOf(i)' = ShowOf(i)
        /\ InWindow' = InWindow /\ Visible' = Visible
    BY <1>1 DEF MetaOf, ShowOf, Row, InWindow, Visible
  <2>2. frame'.metas = v /\ frame'.shown = {} /\ Visible \subseteq InWindow
    BY <1>1 DEF Visible
  <2> QED BY <1>7, <2>1, <2>2 DEF Painted
<1>13. Spread(term.images)' /\ Single' /\ CacheOK'
  BY <1>1, TexturesStay DEF PInv, Onwards, Spread
<1> QED BY <1>1, <1>10, <1>11, <1>12, <1>13 DEF PInv

(* The picture a frame has found is looked for under its key, and then on  *)
(* its line.                                                               *)
LEMMA UploadOK ==
  ASSUME PlainPaints, IInv, WInv, "paint" \in scene.ops, Spread(term.images), CacheOK,
         NEW m, MetaOK(m), NEW p \in get_or_upload(m)
  PROVE  KeyOK(ImageKey(m), p)
<1> DEFINE q == term.images
           key == ImageKey(m)
<1>1. key.line = m.line /\ key.size = m.size
  BY DEF ImageKey
<1>2. CASE key \in DOMAIN cache
  BY <1>2 DEF get_or_upload, CacheOK
<1>3. CASE key \notin DOMAIN cache
  <2>1. PICK j \in DOMAIN q : q[j].line = m.line /\ p = q[j].pixels
    BY <1>3 DEF get_or_upload, image_rgba
  <2>2. p \in Pictures
    BY <2>1 DEF WInv, AllFrom
  <2>3. m.line \in Nat /\ Begun(m.size) /\ (Sole \/ Above(q, m.size, m.line + 1))
    BY DEF MetaOK, MetaT
  <2>4. CASE Sole
    BY <1>1, <2>2, <2>3, <2>4, SamePicture DEF KeyOK
  <2>5. CASE ~Sole /\ Len(p) # m.size
    <3>1. ASSUME NEW i \in DOMAIN q, Len(q[i].pixels) = m.size PROVE q[i].line < m.line
      <4>1. i # j /\ q[i].line < m.line + 1
        BY <2>1, <2>3, <2>5, <3>1 DEF Above
      <4>2. q[i].line # m.line
        BY <2>1, <4>1 DEF Spread
      <4>3. q[i].line \in Nat
        <5>1. q \in Seq(Image)
          BY DEF IInv, TermOK, ImagesOK
        <5>2. q[i] \in Image
          BY <5>1
        <5> QED BY <5>2 DEF Image
      <4> QED BY <2>3, <4>1, <4>2, <4>3
    <3> QED BY <1>1, <2>2, <2>3, <2>5, <3>1 DEF KeyOK, Above
  <2>6. CASE Len(p) = m.size
    BY <1>1, <2>2, <2>3, <2>6 DEF KeyOK
  <2> QED BY <2>4, <2>5, <2>6
<1> QED BY <1>2, <1>3

(* If it is still there, what is found is that picture.                    *)
LEMMA UploadIs ==
  ASSUME PlainPaints, IInv, WInv, "paint" \in scene.ops, Spread(term.images), CacheOK,
         NEW i \in DOMAIN term.images, MetaOK(MetaOf(i))
  PROVE  get_or_upload(MetaOf(i)) = {term.images[i].pixels}
<1> DEFINE q == term.images
           m == MetaOf(i)
           key == ImageKey(m)
<1>1. key.line = q[i].line /\ key.size = Len(q[i].pixels) /\ m.line = q[i].line
  BY DEF ImageKey, MetaOf
<1>2. CASE key \in DOMAIN cache
  <2>1. get_or_upload(m) = {cache[key]} /\ KeyOK(key, cache[key])
    BY <1>2 DEF get_or_upload, CacheOK
  <2>2. ~Above(q, key.size, key.line)
    <3>1. q[i].line \in Nat
      BY <1>1, <2>1 DEF KeyOK
    <3> QED BY <1>1, <3>1 DEF Above
  <2>3. Len(cache[key]) = Len(q[i].pixels) /\ cache[key] \in Pictures
    BY <1>1, <2>1, <2>2 DEF KeyOK
  <2>4. q[i].pixels \in Pictures
    BY DEF WInv, AllFrom
  <2>5. cache[key] = q[i].pixels
    BY <2>3, <2>4, SamePicture
  <2> QED BY <2>1, <2>5
<1>3. CASE key \notin DOMAIN cache
  <2> DEFINE there == {j \in DOMAIN q : q[j].line = m.line}
  <2>1. get_or_upload(m) = {q[k].pixels : k \in {j \in there : \A l \in there : j <= l}}
    BY <1>3 DEF get_or_upload, image_rgba
  <2>2. there = {i}
    BY <1>1 DEF Spread
  <2>3. i <= i
    <3>1. q \in Seq(Image)
      BY DEF IInv, TermOK, ImagesOK
    <3> QED BY <3>1
  <2> HIDE DEF there
  <2>4. {j \in there : \A l \in there : j <= l} = {i}
    BY <2>2, <2>3
  <2> QED BY <2>1, <2>4
<1> QED BY <1>2, <1>3

(* Painting one of them.                                                   *)
LEMMA PaintFrame ==
  ASSUME PlainPaints, IInv, WInv, PInv, Paint, Onwards
  PROVE  PInv'
<1> DEFINE q == frame.metas
           m == Head(q)
           key == ImageKey(m)
           up == get_or_upload(m)
           out == m.row + m.size <= 0
           new == {[pixels |-> p, row |-> m.row] : p \in up}
<1>1. /\ "paint" \in scene.ops /\ frame.at = "Paint" /\ q # <<>> /\ q \in Seq(MetaT) /\ FrameOK
      /\ scene' = scene /\ term' = term /\ pics' = pics
  BY DEF PInv, FrameOK, Paint
<1>2. /\ Spread(term.images) /\ CacheOK /\ MetasOK
      /\ ~frame.raced => Painted
  BY <1>1 DEF PInv
<1>3. /\ m = q[1] /\ 1 \in DOMAIN q /\ Tail(q) \in Seq(MetaT) /\ Len(q) \in Nat
      /\ DOMAIN Tail(q) = 1 .. Len(q) - 1 /\ DOMAIN q = 1 .. Len(q)
      /\ \A j \in DOMAIN Tail(q) : Tail(q)[j] = q[j + 1] /\ j + 1 \in DOMAIN q
  BY <1>1
<1>4. MetaOK(m)
  BY <1>2, <1>3 DEF MetasOK
<1>5. \A p \in up : KeyOK(key, p)
  BY <1>1, <1>2, <1>4, UploadOK
<1>6. /\ frame'.at = "Paint" /\ frame'.metas = Tail(q) /\ frame'.raced = frame.raced /\ FrameOK'
      /\ frame'.shown = IF out THEN frame.shown ELSE frame.shown \cup new
  <2>1. CASE out
    <3>1. frame' = [frame EXCEPT !.metas = Tail(@)]
      BY <2>1 DEF Paint
    <3>2. /\ frame'.at = "Paint" /\ frame'.metas = Tail(q) /\ frame'.raced = frame.raced
          /\ frame'.shown = frame.shown /\ frame'.seen = frame.seen
          /\ frame' = [at |-> "Paint", metas |-> Tail(q), seen |-> frame.seen,
                       shown |-> frame.shown, raced |-> frame.raced]
      BY <1>1, <3>1 DEF FrameOK
    <3> QED BY <1>3, <2>1, <3>2 DEF FrameOK
  <2>2. CASE ~out
    <3> DEFINE w == frame.shown \cup new
               z == frame.seen \cup {key}
    <3>1. frame' = [[frame EXCEPT !.metas = Tail(@)] EXCEPT !.seen = z, !.shown = w]
      BY <1>1, <2>2, Zenon DEF Paint, FrameOK
    <3> HIDE DEF w, z
    <3>2. /\ frame'.at = "Paint" /\ frame'.metas = Tail(q) /\ frame'.raced = frame.raced
          /\ frame'.shown = w /\ frame'.seen = z
          /\ frame' = [at |-> "Paint", metas |-> Tail(q), seen |-> z,
                       shown |-> w, raced |-> frame.raced]
      BY <1>1, <3>1 DEF FrameOK
    <3> QED BY <1>3, <2>2, <3>2 DEF FrameOK, w
  <2> QED BY <2>1, <2>2
<1>7. \A k \in DOMAIN cache' : KeyOK(k, cache'[k])
  <2>1. CASE out \/ up = {}
    <3>1. cache' = cache
      BY <2>1 DEF Paint
    <3> QED BY <1>2, <3>1 DEF CacheOK
  <2>2. CASE ~out /\ up # {}
    <3> DEFINE p == CHOOSE p \in up : TRUE
    <3>1. cache' = [k \in DOMAIN cache \cup {key} |-> IF k = key THEN p ELSE cache[k]]
      BY <2>2, Zenon DEF Paint
    <3>2. p \in up
      BY <2>2
    <3> HIDE DEF p, up, key
    <3> QED BY <1>2, <1>5, <3>1, <3>2 DEF CacheOK
  <2> QED BY <2>1, <2>2
<1>8. CacheOK'
  <2>1. ASSUME NEW k \in DOMAIN cache' PROVE KeyOK(k, cache[k])'
    <3>1. PICK p : p = cache'[k]
      OBVIOUS
    <3>2. KeyOK(k, p)'
      BY <1>7, <2>1, <3>1, KeyStays
    <3> QED BY <3>1, <3>2
  <2> QED BY <2>1 DEF CacheOK
<1>9. MetasOK'
  <2>1. ASSUME NEW j \in DOMAIN frame'.metas PROVE MetaOK(frame.metas[j])'
    <3>1. PICK x : x = frame'.metas[j]
      OBVIOUS
    <3>2. MetaOK(x)
      BY <1>2, <1>3, <1>6, <2>1, <3>1 DEF MetasOK
    <3>3. MetaOK(x)'
      BY <3>2, MetaStays
    <3> QED BY <3>1, <3>3
  <2> QED BY <2>1 DEF MetasOK
<1>10. ASSUME ~frame.raced PROVE Painted'
  <2>1. /\ \A i : MetaOf(i)' = MetaOf(i) /\ ShowOf(i)' = ShowOf(i)
        /\ InWindow' = InWindow /\ Visible' = Visible
    BY <1>1 DEF MetaOf, ShowOf, Row, InWindow, Visible
  <2>2. Painted
    BY <1>2, <1>10
  <2>3. PICK i \in InWindow : m = MetaOf(i)
    BY <1>3, <2>2 DEF Painted
  <2>4. /\ i \in DOMAIN term.images /\ m.row = Row(i) /\ m.size = Len(term.images[i].pixels)
        /\ i \in Visible <=> ~(Row(i) + Len(term.images[i].pixels) <= 0)
    <3>1. i \in DOMAIN term.images /\ m.row = Row(i) /\ m.size = Len(term.images[i].pixels)
      BY <2>3 DEF InWindow, MetaOf
    <3>2. m.row \in Int /\ m.size \in Nat
      BY <1>4 DEF MetaOK, MetaT
    <3>3. ~(m.row + m.size <= 0) <=> m.row + m.size > 0
      BY <3>2
    <3> QED BY <3>1, <3>3 DEF Visible
  <2>5. new = {ShowOf(i)}
    <3>1. up = {term.images[i].pixels}
      BY <1>1, <1>2, <1>4, <2>3, <2>4, UploadIs
    <3> QED BY <2>4, <3>1 DEF ShowOf
  <2>6. /\ \A j \in DOMAIN frame'.metas : \E k \in InWindow : frame'.metas[j] = MetaOf(k)
        /\ \A x \in frame'.shown : \E k \in Visible : x = ShowOf(k)
    <3>1. \A j \in DOMAIN frame'.metas : \E k \in InWindow : frame'.metas[j] = MetaOf(k)
      BY <1>3, <1>6, <2>2 DEF Painted
    <3>2. \A x \in frame'.shown : \E k \in Visible : x = ShowOf(k)
      BY <1>6, <2>2, <2>4, <2>5 DEF Painted
    <3> QED BY <3>1, <3>2
  <2>7. ASSUME NEW k \in Visible
        PROVE  ShowOf(k) \in frame'.shown \/ \E j \in DOMAIN frame'.metas : frame'.metas[j] = MetaOf(k)
    <3>1. CASE ShowOf(k) \in frame.shown
      BY <1>6, <3>1
    <3>2. CASE ShowOf(k) \notin frame.shown
      <4>1. PICK j \in DOMAIN q : q[j] = MetaOf(k)
        BY <2>2, <3>2 DEF Painted
      <4>2. CASE j = 1
        <5>1. MetaOf(k) = MetaOf(i)
          BY <1>3, <2>3, <4>1, <4>2
        <5>2. Row(k) = Row(i) /\ term.images[k].line = term.images[i].line
              /\ Len(term.images[k].pixels) = Len(term.images[i].pixels)
          BY <5>1 DEF MetaOf
        <5>3. k = i
          BY <1>2, <2>4, <5>2 DEF Spread, Visible, InWindow
        <5> QED BY <1>6, <2>4, <2>5, <5>3
      <4>3. CASE j # 1
        <5>1. j - 1 \in DOMAIN Tail(q) /\ (j - 1) + 1 = j
          BY <1>3, <4>3
        <5>2. Tail(q)[j - 1] = MetaOf(k)
          BY <1>3, <4>1, <5>1
        <5> QED BY <1>6, <5>1, <5>2
      <4> QED BY <4>2, <4>3
    <3> QED BY <3>1, <3>2
  <2> QED BY <2>1, <2>6, <2>7 DEF Painted
<1>11. Spread(term.images)' /\ Single'
  BY <1>1 DEF PInv, Onwards, Spread
<1> QED BY <1>1, <1>6, <1>8, <1>9, <1>10, <1>11 DEF PInv

(* A frame that ends keeps some of the textures.                           *)
LEMMA EndFrame ==
  ASSUME PInv, FrameEnd, Onwards
  PROVE  PInv'
<1>1. /\ "paint" \in scene.ops /\ scene' = scene
      /\ frame' = [at |-> "Idle", metas |-> <<>>, seen |-> {}, shown |-> {}, raced |-> FALSE]
      /\ cache' = Restrict(cache, DOMAIN cache \cap frame.seen)
  BY DEF FrameEnd, Idle, PInv
<1>2. CacheOK
  BY <1>1 DEF PInv
<1>3. DOMAIN cache' \subseteq DOMAIN cache /\ \A k \in DOMAIN cache' : cache'[k] = cache[k]
  BY <1>1 DEF Restrict
<1>4. CacheOK'
  <2>1. ASSUME NEW k \in DOMAIN cache' PROVE KeyOK(k, cache[k])'
    <3>1. PICK p : p = cache'[k]
      OBVIOUS
    <3>2. KeyOK(k, p)
      BY <1>2, <1>3, <2>1, <3>1 DEF CacheOK
    <3>3. KeyOK(k, p)'
      BY <3>2, KeyStays
    <3> QED BY <3>1, <3>3
  <2> QED BY <2>1 DEF CacheOK
<1>5. FrameOK' /\ MetasOK' /\ frame'.at = "Idle"
  <2>1. <<>> \in Seq(MetaT) /\ DOMAIN <<>> = {}
    OBVIOUS
  <2> QED BY <1>1, <2>1 DEF FrameOK, MetasOK
<1>6. Spread(term.images)' /\ Single'
  BY <1>1 DEF PInv, Onwards, Spread
<1> QED BY <1>1, <1>4, <1>5, <1>6 DEF PInv

(* Every step leaves a frame that was not overtaken right up to now.       *)
LEMMA NextFrame ==
  ASSUME PlainPaints, KeysRepeat, IInv, WInv, PInv, [Next]_vars
  PROVE  PInv'
<1>1. CASE UNCHANGED vars
  <2>1. /\ scene' = scene /\ term' = term /\ pics' = pics /\ cache' = cache /\ frame' = frame
    BY <1>1 DEF vars, view
  <2>2. "paint" \in scene.ops => Onwards
    BY <2>1 DEF PInv, Onwards, Spread, Single, Unlike, InFlight, Sole
  <2> QED BY <2>1, <2>2, OthersFrame
<1>2. CASE Next
  <2>1. "paint" \in scene.ops => Onwards
    BY <1>2, NextOnwards DEF PInv
  <2>2. CASE Begin \/ Interrupt
    BY <2>1, <2>2, OthersFrame DEF Begin, Interrupt, view
  <2>3. CASE Send \/ Put \/ Delete \/ Sixel
    BY <2>1, <2>3, OthersFrame DEF Send, Put, Delete, Sixel, Reader
  <2>4. CASE LineFeed \/ CursorUp \/ ClearScrollback \/ HardReset
    BY <2>1, <2>4, OthersFrame DEF LineFeed, CursorUp, ClearScrollback, HardReset, Reader
  <2>5. CASE Wheel
    BY <2>1, <2>5, OthersFrame DEF Wheel, view
  <2>6. CASE Sweep
    BY <2>1, <2>6, SweepFrame DEF Sweep, Can
  <2>7. CASE Paint
    BY <2>1, <2>7, PaintFrame DEF Paint, PInv
  <2>8. CASE FrameEnd
    BY <2>1, <2>8, EndFrame DEF FrameEnd, PInv
  <2> QED BY <1>2, <2>2, <2>3, <2>4, <2>5, <2>6, <2>7, <2>8 DEF Next
<1> QED BY <1>1, <1>2

(* A frame that the reader did not overtake shows every picture of which a *)
(* row is in the window, with its own pixels, where its line of text is:   *)
(* although what is in the window, and the pixels, are read under two      *)
(* locks, although textures are kept under a line that means another line  *)
(* of text after every eviction, and although a frame that was overtaken   *)
(* can leave the texture of one picture under the key of another.          *)
THEOREM FramesAreTrue == PlainPaints /\ KeysRepeat => (Spec => []PicturesTrue)
<1> SUFFICES ASSUME PlainPaints, KeysRepeat PROVE Spec => []PicturesTrue
  OBVIOUS
<1>1. IInv /\ WInv /\ [Next]_vars => WInv'
  BY NextWhole
<1>2. IInv /\ WInv /\ PInv /\ [Next]_vars => PInv'
  BY NextFrame
<1>3. IInv /\ PInv => PicturesTrue
  <2> DEFINE rowOf(i) == term.images[i].tag - gone - (term.hist - term.view)
             seen == {j \in DOMAIN term.images : /\ rowOf(j) < scene.rows
                                                 /\ rowOf(j) + Len(term.images[j].pixels) > 0}
  <2> SUFFICES ASSUME IInv, PInv, frame.at = "Paint", frame.metas = <<>>, ~frame.raced
               PROVE  frame.shown = {[pixels |-> term.images[i].pixels, row |-> rowOf(i)] : i \in seen}
    BY Zenon DEF PicturesTrue
  <2>1. \A i \in DOMAIN term.images : rowOf(i) = Row(i)
    <3>1. term.images \in Seq(Image) /\ OnLines(term.images, term.hist, gone) /\ gone \in Nat
      BY DEF IInv, TermOK, ImagesOK
    <3>2. ASSUME NEW i \in DOMAIN term.images
          PROVE  term.images[i].line \in Nat /\ term.images[i].tag = gone + term.images[i].line
      <4>1. term.images[i] \in Image
        BY <3>1
      <4> QED BY <3>1, <4>1 DEF Image, OnLines
    <3>3. term.hist \in Nat /\ term.view \in Nat
      BY SceneIs
    <3> QED BY <3>1, <3>2, <3>3 DEF Row
  <2> HIDE DEF rowOf
  <2>2. seen = Visible
    BY <2>1 DEF Visible, InWindow
  <2> HIDE DEF seen
  <2>3. Painted
    BY DEF PInv
  <2>4. \A i \in Visible : ShowOf(i) = [pixels |-> term.images[i].pixels, row |-> rowOf(i)]
    BY <2>1 DEF Visible, InWindow, ShowOf
  <2>5. \A x \in frame.shown : \E i \in Visible : x = ShowOf(i)
    BY <2>3 DEF Painted
  <2>6. \A i \in Visible : ShowOf(i) \in frame.shown
    BY <2>3 DEF Painted
  <2> QED BY <2>2, <2>4, <2>5, <2>6
<1> QED BY <1>1, <1>2, <1>3, InitTypes, NextTypes, InitWhole, InitFrame, PTL DEF Spec
=============================================================================
