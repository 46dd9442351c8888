---------------------------- MODULE IniFileProofs ----------------------------
(***************************************************************************)
(* Proofs about IniFile: what a key reads after another one, or itself,    *)
(* was written, for files of any length and any lines.                     *)
(***************************************************************************)
EXTENDS IniFile, SequenceTheorems, WellFoundedInduction, TLAPS

-------------------------------------------------------------------------------
(* Sets of numbers.                                                        *)

LEMMA Least ==
    ASSUME NEW S \in SUBSET Nat, S # {}
    PROVE  \E x \in S : \A y \in S : x <= y
<1>1. PICK x \in S : \A y \in S : ~(<<y, x>> \in OpToRel(<, Nat))
  BY NatLessThanWellFounded, WFMin
<1>2. ASSUME NEW y \in S, ~(x <= y) PROVE FALSE
  <2>1. y < x /\ y \in Nat /\ x \in Nat
    BY <1>2
  <2>2. <<y, x>> \in OpToRel(<, Nat)
    BY <2>1 DEF OpToRel
  <2>3. QED  BY <1>1, <2>2
<1>3. QED  BY <1>2

\* Induction over a set of numbers.
LEMMA Induction ==
    ASSUME NEW n \in Nat, NEW S, 0 \in S, \A i \in 0..(n - 1) : i \in S => i + 1 \in S
    PROVE  \A i \in 0..n : i \in S
<1> DEFINE R == {i \in 0..n : i \notin S}
<1>1. SUFFICES ASSUME R # {} PROVE FALSE
  OBVIOUS
<1>0. R \in SUBSET Nat
  OBVIOUS
<1> HIDE DEF R
<1>2. PICK x \in R : \A y \in R : x <= y
  BY <1>0, <1>1, Least
<1> USE DEF R
<1>3. x \in Nat /\ x # 0 /\ x <= n
  BY <1>2
<1>4. x - 1 \in 0..(n - 1) /\ x - 1 \in 0..n /\ ~(x <= x - 1) /\ (x - 1) + 1 = x
  BY <1>3
<1>5. x - 1 \in S
  BY <1>2, <1>4
<1>6. QED  BY <1>2, <1>4, <1>5

LEMMA Greatest ==
    ASSUME NEW n \in Nat, NEW S \in SUBSET (0..n), S # {}
    PROVE  Max(S) \in S /\ \A y \in S : y <= Max(S)
<1> DEFINE U == {u \in Nat : \A y \in S : y <= u}
<1>1. n \in U
  OBVIOUS
<1>2. PICK u \in U : \A z \in U : u <= z
  BY <1>1, Least
<1>3. u \in S
  <2>1. SUFFICES ASSUME u \notin S PROVE FALSE
    OBVIOUS
  <2>2. PICK y \in S : y <= u
    BY <1>2
  <2>3. u \in Nat /\ y \in Nat /\ y # u
    BY <2>1, <2>2
  <2>4. u - 1 \in Nat
    BY <2>2, <2>3
  <2>5. \A z \in S : z <= u - 1
    BY <2>1, <2>3, <1>2
  <2>6. u - 1 \in U
    BY <2>4, <2>5
  <2>7. QED  BY <2>3, <2>6, <1>2
<1>4. \A y \in S : u >= y
  BY <1>2
<1>5. Max(S) \in S /\ \A y \in S : Max(S) >= y
  BY <1>3, <1>4 DEF Max
<1>6. QED  BY <1>5

-------------------------------------------------------------------------------
(* The pieces that FlattenSeq puts together.                               *)

\* P[i] is the length of the first i pieces in w, which O holds in order.
Pieces(P, w, O) ==
    /\ P \in [0..Len(w) -> Nat]
    /\ P[0] = 0 /\ P[Len(w)] = Len(O)
    /\ \A i \in 1..Len(w) :
          /\ P[i] = P[i - 1] + Len(w[i])
          /\ \A e \in 1..Len(w[i]) : O[P[i - 1] + e] = w[i][e]

Joined(f, w) == f = [i \in 1..Len(w) |-> IF i = 1 THEN w[i] ELSE f[i - 1] \o w[i]]

LEMMA JoinExists ==
    ASSUME NEW T, NEW w \in Seq(Seq(T))
    PROVE  \E f : Joined(f, w)
<1> DEFINE n == Len(w)
           Good(g, m) == \A i \in 1..m : g[i] = IF i = 1 THEN w[i] ELSE g[i - 1] \o w[i]
           S == {m \in 0..n : \E g \in [1..m -> Seq(T)] : Good(g, m)}
<1>1. n \in Nat /\ n = Len(w) /\ \A i \in 1..n : w[i] \in Seq(T)
  BY LenProperties, ElementOfSeq
<1> HIDE DEF n
<1>2. 0 \in S
  <2> DEFINE z == [i \in 1..0 |-> <<>>]
  <2>1. z \in [1..0 -> Seq(T)]
    OBVIOUS
  <2> HIDE DEF z
  <2>2. Good(z, 0)
    OBVIOUS
  <2>3. 0 \in 0..n
    BY <1>1
  <2>4. QED  BY <2>1, <2>2, <2>3
<1>3. ASSUME NEW m \in 0..(n - 1), m \in S PROVE m + 1 \in S
  <2>1. PICK g \in [1..m -> Seq(T)] : Good(g, m)
    BY <1>3
  <2>2. m \in Nat /\ m + 1 \in 0..n /\ m + 1 \in 1..n
    BY <1>1
  <2> DEFINE x == IF m + 1 = 1 THEN w[m + 1] ELSE g[m] \o w[m + 1]
             h == [i \in 1..(m + 1) |-> IF i <= m THEN g[i] ELSE x]
  <2>3. x \in Seq(T)
    <3>1. w[m + 1] \in Seq(T)
      BY <1>1, <2>2
    <3>2. m + 1 # 1 => g[m] \in Seq(T)
      BY <2>2
    <3>3. QED  BY <3>1, <3>2, ConcatProperties
  <2> HIDE DEF x
  <2>4. h \in [1..(m + 1) -> Seq(T)]
    BY <2>2, <2>3
  <2>5. (\A i \in 1..m : h[i] = g[i]) /\ h[m + 1] = x
    BY <2>2
  <2> HIDE DEF h
  <2>6. ASSUME NEW i \in 1..(m + 1) PROVE h[i] = IF i = 1 THEN w[i] ELSE h[i - 1] \o w[i]
    <3>1. CASE i \in 1..m
      <4>1. i # 1 => i - 1 \in 1..m
        BY <3>1, <2>2
      <4>2. g[i] = IF i = 1 THEN w[i] ELSE g[i - 1] \o w[i]
        BY <2>1, <3>1
      <4>3. QED  BY <4>1, <4>2, <3>1, <2>5
    <3>2. CASE i = m + 1
      <4>1. (m + 1) - 1 = m /\ (m + 1 # 1 => m \in 1..m)
        BY <2>2
      <4>2. QED  BY <4>1, <3>2, <2>5 DEF x
    <3>3. QED  BY <3>1, <3>2, <2>2
  <2>7. Good(h, m + 1)
    BY <2>6
  <2>8. QED  BY <2>2, <2>4, <2>7
<1>4. n \in S
  <2> HIDE DEF S
  <2>1. \A i \in 0..n : i \in S
    BY <1>1, <1>2, <1>3, Induction
  <2>2. QED  BY <2>1, <1>1
<1>5. PICK g \in [1..n -> Seq(T)] : Good(g, n)
  BY <1>4
<1>6. g = [i \in 1..n |-> IF i = 1 THEN w[i] ELSE g[i - 1] \o w[i]]
  BY <1>5
<1>7. Joined(g, w)
  BY <1>6, <1>1 DEF Joined
<1>8. QED  BY <1>7

LEMMA Flattened ==
    ASSUME NEW T, NEW w \in Seq(Seq(T))
    PROVE  FlattenSeq(w) \in Seq(T) /\ \E P : Pieces(P, w, FlattenSeq(w))
<1>1. Len(w) \in Nat /\ \A i \in 1..Len(w) : w[i] \in Seq(T) /\ Len(w[i]) \in Nat
  BY LenProperties, ElementOfSeq
<1>2. CASE Len(w) = 0
  <2>1. w = <<>> /\ FlattenSeq(w) = w
    BY <1>2, EmptySeq DEF FlattenSeq
  <2>2. w \in Seq(T) /\ Len(w) = 0
    BY <2>1, EmptySeq
  <2> DEFINE Z == [i \in 0..0 |-> 0]
  <2>3. Pieces(Z, w, w)
    BY <2>2 DEF Pieces
  <2>4. QED  BY <2>1, <2>2, <2>3
<1>3. CASE Len(w) # 0
  <2> DEFINE n == Len(w)
             f == CHOOSE g : Joined(g, w)
  <2>1. FlattenSeq(w) = f[n]
    BY <1>3 DEF FlattenSeq, Joined
  <2>2. Joined(f, w)
    BY JoinExists
  <2>3. n \in Nat \ {0} /\ n = Len(w)
    BY <1>1, <1>3
  <2> HIDE DEF n, f
  <2>4. \A i \in 1..n : f[i] = IF i = 1 THEN w[i] ELSE f[i - 1] \o w[i]
    BY <2>2, <2>3 DEF Joined
  <2> DEFINE P == [i \in 0..n |-> IF i = 0 THEN 0 ELSE Len(f[i])]
             S == {m \in 0..n : m = 0 \/ f[m] \in Seq(T)}
  <2>5. \A m \in 1..n : f[m] \in Seq(T)
    <3>1. ASSUME NEW m \in 0..(n - 1), m \in S PROVE m + 1 \in S
      <4>1. m + 1 \in 1..n /\ m + 1 \in 0..n /\ (m + 1) - 1 = m /\ (m # 0 => m + 1 # 1)
               /\ (m = 0 => m + 1 = 1)
        BY <2>3
      <4>2. w[m + 1] \in Seq(T) /\ (m # 0 => f[m] \in Seq(T))
        BY <4>1, <1>1, <2>3, <3>1
      <4>a. f[m + 1] = IF m + 1 = 1 THEN w[m + 1] ELSE f[m] \o w[m + 1]
        BY <4>1, <2>4
      <4>b. m # 0 => f[m] \o w[m + 1] \in Seq(T)
        BY <4>2, ConcatProperties
      <4>3. f[m + 1] \in Seq(T)
        BY <4>1, <4>2, <4>a, <4>b
      <4>4. QED  BY <4>1, <4>3
    <3>2. 0 \in S
      BY <2>3
    <3>3. \A m \in 0..n : m \in S
      <4> HIDE DEF S
      <4>1. QED  BY <2>3, <3>1, <3>2, Induction
    <3>4. QED  BY <3>3
  <2>6. P \in [0..n -> Nat] /\ P[0] = 0 /\ \A i \in 1..n : P[i] = Len(f[i]) /\ P[i] \in Nat
    <3>1. \A i \in 1..n : Len(f[i]) \in Nat
      BY <2>5, LenProperties
    <3>2. QED  BY <3>1, <2>3
  <2> HIDE DEF P
  <2>7. ASSUME NEW i \in 1..n
        PROVE  /\ P[i] = P[i - 1] + Len(w[i])
               /\ \A e \in 1..P[i - 1] : i # 1 => f[i][e] = f[i - 1][e]
               /\ \A e \in 1..Len(w[i]) : f[i][P[i - 1] + e] = w[i][e]
    <3>1. w[i] \in Seq(T) /\ Len(w[i]) \in Nat
      BY <1>1, <2>3
    <3>2. CASE i = 1
      <4>1. i - 1 = 0 /\ f[i] = w[i]
        BY <3>2, <2>4
      <4>2. P[i - 1] = 0 /\ P[i] = Len(w[i])
        BY <4>1, <2>6
      <4>3. \A e \in 1..Len(w[i]) : 0 + e = e
        BY <3>1
      <4>4. QED  BY <4>1, <4>2, <4>3, <3>1, <3>2
    <3>3. CASE i # 1
      <4>1. i - 1 \in 1..n
        BY <3>3, <2>3
      <4>2. f[i] = f[i - 1] \o w[i] /\ f[i - 1] \in Seq(T) /\ P[i - 1] = Len(f[i - 1])
               /\ P[i - 1] \in Nat /\ P[i] = Len(f[i])
        BY <3>3, <4>1, <2>4, <2>5, <2>6
      <4>a. PICK a, b, c, d : a = f[i - 1] /\ b = w[i] /\ c = P[i - 1] /\ d = Len(w[i])
        OBVIOUS
      <4>b. a \in Seq(T) /\ b \in Seq(T) /\ c = Len(a) /\ d = Len(b) /\ c \in Nat /\ d \in Nat
        BY <4>2, <4>a, <3>1
      <4>c. /\ Len(a \o b) = c + d
            /\ \A j \in 1..(c + d) : (a \o b)[j] = IF j <= c THEN a[j] ELSE b[j - c]
        BY <4>b, ConcatProperties
      <4>4. ASSUME NEW e \in 1..c PROVE (a \o b)[e] = a[e]
        <5>1. e \in 1..(c + d) /\ e <= c
          BY <4>b
        <5>2. QED  BY <5>1, <4>c
      <4>5. ASSUME NEW e \in 1..d PROVE (a \o b)[c + e] = b[e]
        <5>1. c + e \in 1..(c + d) /\ ~(c + e <= c) /\ (c + e) - c = e
          BY <4>b
        <5>2. QED  BY <5>1, <4>c
      <4>3. f[i] = a \o b /\ P[i] = c + d
        BY <4>2, <4>a, <4>c
      <4>6. QED  BY <4>3, <4>4, <4>5, <4>a
    <3>4. QED  BY <3>2, <3>3
  <2> DEFINE Held(m) == \A i \in 1..m : \A e \in 1..Len(w[i]) : f[m][P[i - 1] + e] = w[i][e]
             R == {m \in 0..n : Held(m)}
  <2>8. Held(n)
    <3>1. 0 \in R
      BY <2>3
    <3>2. ASSUME NEW m \in 0..(n - 1), m \in R PROVE m + 1 \in R
      <4>1. m \in Nat /\ m + 1 \in 1..n /\ m + 1 \in 0..n /\ (m + 1) - 1 = m
        BY <2>3
      <4>2. ASSUME NEW i \in 1..(m + 1), NEW e \in 1..Len(w[i])
            PROVE  f[m + 1][P[i - 1] + e] = w[i][e]
        <5>1. CASE i = m + 1
          BY <5>1, <4>1, <2>7
        <5>2. CASE i \in 1..m
          <6>1. f[m][P[i - 1] + e] = w[i][e]
            BY <5>2, <3>2
          <6>2. m + 1 # 1 /\ m \in 1..n /\ i \in 1..n
            BY <5>2, <4>1, <2>3
          <6>3. P[i - 1] + e \in 1..P[m]
            <7>1. P[i] = P[i - 1] + Len(w[i]) /\ P[i - 1] \in Nat /\ Len(w[i]) \in Nat
              <8>1. i - 1 \in 0..n
                BY <6>2, <2>3
              <8>2. QED  BY <8>1, <6>2, <2>6, <2>7, <1>1, <2>3
            <7>2. P[i] <= P[m]
              <8> DEFINE Q == {q \in 0..m : q >= i => P[i] <= P[q]}
              <8>1. 0 \in Q
                BY <5>2, <4>1
              <8>2. ASSUME NEW q \in 0..(m - 1), q \in Q PROVE q + 1 \in Q
                <9>1. q + 1 \in 1..n /\ q + 1 \in 0..m /\ q \in 0..n /\ (q + 1) - 1 = q
                  BY <4>1, <2>3
                <9>2. P[q + 1] = P[q] + Len(w[q + 1]) /\ P[q] \in Nat /\ Len(w[q + 1]) \in Nat
                  BY <9>1, <2>6, <2>7, <1>1, <2>3
                <9>3. P[q + 1] \in Nat /\ P[i] \in Nat /\ P[q] <= P[q + 1]
                  BY SMTT(30), <9>2, <6>2, <2>6
                <9>4. CASE q >= i
                  <10>1. P[i] <= P[q]
                    BY <8>2, <9>4
                  <10>2. P[i] <= P[q + 1]
                    BY <10>1, <9>2, <9>3
                  <10>3. QED  BY <10>2, <9>1
                <9>5. CASE ~(q >= i)
                  <10>1. q + 1 >= i => q + 1 = i
                    BY <9>5, <5>2
                  <10>2. q + 1 >= i => P[i] <= P[q + 1]
                    BY <10>1, <9>3
                  <10>3. QED  BY <10>2, <9>1
                <9>6. QED  BY <9>4, <9>5
              <8>3. \A q \in 0..m : q \in Q
                <9> HIDE DEF Q
                <9>1. QED  BY <4>1, <8>1, <8>2, Induction
              <8>4. QED  BY <8>3, <5>2, <4>1
            <7>3. QED  BY <7>1, <7>2, <6>2, <2>6
          <6>4. f[m + 1][P[i - 1] + e] = f[m][P[i - 1] + e]
            BY <6>2, <6>3, <4>1, <2>7
          <6>5. QED  BY <6>1, <6>4
        <5>3. QED  BY <5>1, <5>2, <4>1
      <4>3. QED  BY <4>1, <4>2
    <3>3. \A m \in 0..n : m \in R
      <4> HIDE DEF R
      <4>1. QED  BY <2>3, <3>1, <3>2, Induction
    <3>4. n \in R
      BY <3>3, <2>3, SMTT(30)
    <3>5. QED  BY <3>4
  <2>9. Pieces(P, w, f[n])
    <3>1. n \in 1..n
      BY <2>3
    <3>2. QED  BY <3>1, <2>3, <2>6, <2>7, <2>8 DEF Pieces
  <2>10. QED  BY <2>1, <2>3, <2>5, <2>9
<1>4. QED  BY <1>2, <1>3

LEMMA PieceOrder ==
    ASSUME NEW P, NEW w, NEW O, Pieces(P, w, O), NEW T, w \in Seq(Seq(T))
    PROVE  /\ \A i \in 1..Len(w) : Len(w[i]) \in Nat /\ P[i - 1] \in Nat /\ P[i] \in Nat
           /\ \A i, j \in 0..Len(w) : i <= j => P[i] <= P[j]
<1> DEFINE n == Len(w)
<1>1. n = Len(w) /\ n \in Nat /\ \A i \in 1..n : Len(w[i]) \in Nat
  BY LenProperties, ElementOfSeq
<1>2. P \in [0..n -> Nat] /\ \A i \in 1..n : P[i] = P[i - 1] + Len(w[i])
  BY DEF Pieces
<1> HIDE DEF n
<1>3. ASSUME NEW i \in 1..n PROVE P[i - 1] \in Nat /\ P[i] \in Nat /\ P[i - 1] <= P[i]
  <2>1. i - 1 \in 0..n /\ i \in 0..n
    BY <1>1
  <2>2. P[i - 1] \in Nat /\ P[i] \in Nat /\ Len(w[i]) \in Nat
    BY <2>1, <1>1, <1>2
  <2>3. P[i] = P[i - 1] + Len(w[i])
    BY <1>2
  <2>4. QED  BY <2>2, <2>3
<1>4. ASSUME NEW i \in 0..n, NEW j \in 0..n, i <= j PROVE P[i] <= P[j]
  <2> DEFINE Q == {q \in 0..n : i <= q => P[i] <= P[q]}
  <2>1. P[i] \in Nat
    BY <1>2
  <2>2. 0 \in Q
    <3>1. i <= 0 => i = 0
      OBVIOUS
    <3>2. 0 \in 0..n
      BY <1>1
    <3>3. i <= 0 => P[i] <= P[0]
      BY <3>1, <2>1
    <3>4. QED  BY <3>2, <3>3
  <2>3. ASSUME NEW q \in 0..(n - 1), q \in Q PROVE q + 1 \in Q
    <3>1. q + 1 \in 1..n /\ q + 1 \in 0..n /\ (q + 1) - 1 = q
      BY <1>1
    <3>2. P[q] \in Nat /\ P[q + 1] \in Nat /\ P[q] <= P[q + 1]
      BY <3>1, <1>3
    <3>3. CASE i <= q
      BY <3>1, <3>2, <3>3, <2>1, <2>3
    <3>4. CASE ~(i <= q)
      <4>1. i <= q + 1 => i = q + 1
        BY <3>4
      <4>2. i <= q + 1 => P[i] <= P[q + 1]
        BY <4>1, <3>2
      <4>3. QED  BY <4>2, <3>1
    <3>5. QED  BY <3>3, <3>4
  <2>4. \A q \in 0..n : q \in Q
    <3> HIDE DEF Q
    <3>1. QED  BY <1>1, <2>2, <2>3, Induction
  <2>5. QED  BY <2>4, <1>4
<1>5. QED  BY <1>1, <1>3, <1>4

\* Where an element of the whole comes from.
LEMMA PieceAt ==
    ASSUME NEW P, NEW w, NEW O, Pieces(P, w, O), NEW T, w \in Seq(Seq(T)),
           NEW j \in 1..Len(O)
    PROVE  \E i \in 1..Len(w) : \E e \in 1..Len(w[i]) : j = P[i - 1] + e
<1>1. /\ Len(w) \in Nat
      /\ \A i \in 1..Len(w) : Len(w[i]) \in Nat /\ P[i - 1] \in Nat /\ P[i] \in Nat
  BY PieceOrder, LenProperties
<1>2. /\ P \in [0..Len(w) -> Nat] /\ P[0] = 0 /\ P[Len(w)] = Len(O)
      /\ \A i \in 1..Len(w) : P[i] = P[i - 1] + Len(w[i])
  BY DEF Pieces
<1> DEFINE R == {i \in 0..Len(w) : j <= P[i]}
<1>3. Len(w) \in R /\ R \in SUBSET Nat
  BY <1>1, <1>2
<1> HIDE DEF R
<1>4. PICK i \in R : \A y \in R : i <= y
  BY <1>3, Least
<1> USE DEF R
<1>5. i # 0 /\ i \in 1..Len(w) /\ j <= P[i]
  <2>1. i \in 0..Len(w) /\ j <= P[i]
    BY <1>4
  <2>2. i # 0
    BY <2>1, <1>2
  <2>3. QED  BY <2>1, <2>2, <1>1
<1>6. i - 1 \in 0..Len(w) /\ ~(i <= i - 1)
  BY <1>1, <1>5
<1>7. ~(j <= P[i - 1])
  BY <1>4, <1>6
<1>8. P[i] = P[i - 1] + Len(w[i]) /\ P[i - 1] \in Nat /\ Len(w[i]) \in Nat /\ j \in Nat
  BY <1>1, <1>2, <1>5
<1>9. j - P[i - 1] \in 1..Len(w[i]) /\ j = P[i - 1] + (j - P[i - 1])
  BY <1>5, <1>7, <1>8
<1>10. QED  BY <1>5, <1>9

\* Elements of earlier pieces come first.
LEMMA PieceBefore ==
    ASSUME NEW P, NEW w, NEW O, Pieces(P, w, O), NEW T, w \in Seq(Seq(T)),
           NEW i \in 1..Len(w), NEW e \in 1..Len(w[i]),
           NEW h \in 1..Len(w), NEW d \in 1..Len(w[h])
    PROVE  /\ P[i - 1] + e \in 1..Len(O) /\ O[P[i - 1] + e] = w[i][e]
           /\ h < i => P[h - 1] + d < P[i - 1] + e
           /\ h = i => (P[h - 1] + d <= P[i - 1] + e <=> d <= e)
<1>1. /\ Len(w) \in Nat /\ Len(w[i]) \in Nat /\ Len(w[h]) \in Nat
      /\ P[i - 1] \in Nat /\ P[i] \in Nat /\ P[h - 1] \in Nat /\ P[h] \in Nat
      /\ \A x, y \in 0..Len(w) : x <= y => P[x] <= P[y]
  BY PieceOrder, LenProperties
<1>2. /\ P[Len(w)] = Len(O)
      /\ P[i] = P[i - 1] + Len(w[i]) /\ P[h] = P[h - 1] + Len(w[h])
      /\ O[P[i - 1] + e] = w[i][e]
  BY DEF Pieces
<1>3. i \in 0..Len(w) /\ Len(w) \in 0..Len(w) /\ i <= Len(w) /\ h \in 0..Len(w) /\ i - 1 \in 0..Len(w)
  BY <1>1
<1>4. P[i] <= Len(O)
  BY <1>1, <1>2, <1>3
<1>5. P[i - 1] + e <= P[i] /\ P[i - 1] + e \in Nat \ {0} /\ P[h - 1] + d <= P[h]
  <2>1. \A x, y \in Nat : \A z \in 1..y : x + z <= x + y /\ x + z \in Nat \ {0}
    OBVIOUS
  <2>2. P[i - 1] \in Nat /\ Len(w[i]) \in Nat /\ P[h - 1] \in Nat /\ Len(w[h]) \in Nat
    BY <1>1
  <2>3. QED  BY <2>1, <2>2, <1>2
<1>6. P[i - 1] + e \in 1..Len(O)
  <2>1. Len(O) \in Nat
    BY <1>2, <1>3 DEF Pieces
  <2>2. P[i] \in Nat
    BY <1>1
  <2>3. \A x, y, z \in Nat : x # 0 /\ x <= y /\ y <= z => x \in 1..z
    OBVIOUS
  <2>4. QED  BY <2>1, <2>2, <2>3, <1>4, <1>5
<1>7. ASSUME h < i PROVE P[h - 1] + d < P[i - 1] + e
  <2>1. h <= i - 1
    BY <1>7
  <2>2. P[h] <= P[i - 1]
    BY <2>1, <1>1, <1>3
  <2>3. QED  BY <2>2, <1>1, <1>5, SMTT(30)
<1>8. ASSUME h = i PROVE P[h - 1] + d <= P[i - 1] + e <=> d <= e
  BY <1>1, <1>8
<1>9. QED  BY <1>2, <1>6, <1>7, <1>8

-------------------------------------------------------------------------------
(* What Put writes for each line.                                          *)

LineSet(K, I, V) == [kind : K, id : I, val : V]

NewVal(L, k, v, i) == IF KeyOf(L, i) = k THEN v ELSE Get(L, KeyOf(L, i))
New(L, k, i)       == Lines(L, k) = {} /\ EndsBlock(L, i) /\ SectionOf(L, i) = k.sec
Old(L, k, v, i)    == IF IsKey(L, i) THEN <<[L[i] EXCEPT !.val = NewVal(L, k, v, i)]>>
                      ELSE IF L[i].kind \in {"section", "text"} THEN <<L[i]>> ELSE <<>>
Piece(L, k, v, i)  == IF New(L, k, i) THEN Append(Old(L, k, v, i), Entry(k, v))
                      ELSE Old(L, k, v, i)
Written(L, k, v)   == [i \in DOMAIN L |-> Piece(L, k, v, i)]

HasSection(L, s) == \E i \in DOMAIN L : L[i].kind = "section" /\ L[i].id[1] = s

LEMMA PutIs ==
    ASSUME NEW L, NEW k, NEW v
    PROVE  Put(L, k, v) = IF HasSection(L, k.sec) THEN FlattenSeq(Written(L, k, v))
                          ELSE FlattenSeq(Written(L, k, v)) \o <<Header(k.sec), Entry(k, v)>>
BY DEF Put, Written, Piece, Old, New, NewVal, HasSection

LEMMA LineType ==
    ASSUME NEW K, NEW I, NEW V, NEW x \in LineSet(K, I, V)
    PROVE  /\ x.kind \in K /\ x.id \in I /\ x.val \in V
           /\ x = [kind |-> x.kind, id |-> x.id, val |-> x.val]
           /\ \A a \in V : /\ [x EXCEPT !.val = a] \in LineSet(K, I, V)
                           /\ [x EXCEPT !.val = a].kind = x.kind
                           /\ [x EXCEPT !.val = a].id = x.id
                           /\ [x EXCEPT !.val = a].val = a
  BY DEF LineSet

LEMMA LinesIn ==
    ASSUME NEW T, NEW L \in Seq(T), NEW k
    PROVE  Lines(L, k) \subseteq 1..Len(L)
  BY DEF Lines

LEMMA LastHeader ==
    ASSUME NEW L, NEW i \in Nat, Headers(L, i) # {}
    PROVE  /\ Max(Headers(L, i)) \in Headers(L, i)
           /\ \A h \in Headers(L, i) : h <= Max(Headers(L, i))
<1>1. Headers(L, i) \in SUBSET (0..i)
  BY DEF Headers
<1>2. QED  BY <1>1, Greatest

LEMMA GetLine ==
    ASSUME NEW T, NEW L \in Seq(T), NEW k
    PROVE  \/ Lines(L, k) = {} /\ Get(L, k) = Empty
           \/ \E i \in Lines(L, k) : Get(L, k) = L[i].val
<1>1. CASE Lines(L, k) = {}
  BY <1>1 DEF Get
<1>2. CASE Lines(L, k) # {}
  <2>1. Len(L) \in Nat /\ Lines(L, k) \in SUBSET (0..Len(L))
    BY LinesIn, LenProperties
  <2>2. Max(Lines(L, k)) \in Lines(L, k)
    BY <1>2, <2>1, Greatest
  <2>3. QED  BY <1>2, <2>2 DEF Get
<1>3. QED  BY <1>1, <1>2

LEMMA GetType ==
    ASSUME NEW K, NEW I, NEW V, NEW L \in Seq(LineSet(K, I, V)), NEW k, Empty \in V
    PROVE  Get(L, k) \in V
<1>1. CASE \E i \in Lines(L, k) : Get(L, k) = L[i].val
  <2>1. PICK i \in Lines(L, k) : Get(L, k) = L[i].val
    BY <1>1
  <2>2. i \in 1..Len(L)
    BY LinesIn
  <2>3. L[i] \in LineSet(K, I, V)
    BY <2>2, ElementOfSeq
  <2>4. QED  BY <2>1, <2>3, LineType
<1>2. QED  BY <1>1, GetLine

Kept(L, i) == IsKey(L, i) \/ L[i].kind \in {"section", "text"}

\* The line itself, with its key's value, and behind it the new key.
Pieced(w, L, k, v) ==
    \A i \in 1..Len(L) :
       /\ Len(w[i]) = IF New(L, k, i) THEN 2 ELSE IF Kept(L, i) THEN 1 ELSE 0
       /\ Kept(L, i) => /\ w[i][1].kind = L[i].kind /\ w[i][1].id = L[i].id
                        /\ IsKey(L, i) => w[i][1].val = NewVal(L, k, v, i)
       /\ New(L, k, i) => Kept(L, i) /\ w[i][2] = Entry(k, v)

LEMMA WrittenFacts ==
    ASSUME NEW K, NEW I, NEW V, {"section", "key"} \subseteq K, Empty \in V,
           NEW L \in Seq(LineSet(K, I, V)), NEW k, k.id \in I, NEW v \in V,
           NEW w, w = Written(L, k, v)
    PROVE  w \in Seq(Seq(LineSet(K, I, V))) /\ Len(w) = Len(L) /\ Pieced(w, L, k, v)
<1> DEFINE T == LineSet(K, I, V)
<1>1. Len(L) \in Nat /\ DOMAIN L = 1..Len(L) /\ \A i \in 1..Len(L) : L[i] \in T
  BY LenProperties, ElementOfSeq
<1>2. Entry(k, v) \in T
  BY DEF Entry, LineSet
<1>3. ASSUME NEW i \in 1..Len(L)
      PROVE  /\ Piece(L, k, v, i) \in Seq(T)
             /\ Len(Piece(L, k, v, i)) = IF New(L, k, i) THEN 2 ELSE IF Kept(L, i) THEN 1 ELSE 0
             /\ Kept(L, i) => /\ Piece(L, k, v, i)[1].kind = L[i].kind
                              /\ Piece(L, k, v, i)[1].id = L[i].id
                              /\ IsKey(L, i) => Piece(L, k, v, i)[1].val = NewVal(L, k, v, i)
             /\ New(L, k, i) => Kept(L, i) /\ Piece(L, k, v, i)[2] = Entry(k, v)
  <2>1. NewVal(L, k, v, i) \in V
    BY GetType DEF NewVal
  <2>2. New(L, k, i) => Kept(L, i)
    BY DEF New, EndsBlock, Kept
  <2> DEFINE x == IF IsKey(L, i) THEN [L[i] EXCEPT !.val = NewVal(L, k, v, i)] ELSE L[i]
  <2>3. /\ x \in T /\ x.kind = L[i].kind /\ x.id = L[i].id
        /\ IsKey(L, i) => x.val = NewVal(L, k, v, i)
    BY <1>1, <2>1, LineType
  <2>4. Old(L, k, v, i) = IF Kept(L, i) THEN <<x>> ELSE <<>>
    BY DEF Old, Kept
  <2> HIDE DEF x, T
  <2>5. <<x>> \in Seq(T) /\ Len(<<x>>) = 1 /\ <<x>>[1] = x /\ <<>> \in Seq(T) /\ Len(<<>>) = 0
    BY <2>3, EmptySeq
  <2>6. CASE New(L, k, i)
    <3>1. Piece(L, k, v, i) = Append(<<x>>, Entry(k, v))
      BY <2>2, <2>4, <2>6 DEF Piece
    <3>2. /\ Append(<<x>>, Entry(k, v)) \in Seq(T) /\ Len(Append(<<x>>, Entry(k, v))) = 2
          /\ Append(<<x>>, Entry(k, v))[1] = x /\ Append(<<x>>, Entry(k, v))[2] = Entry(k, v)
      BY <2>5, <1>2, AppendProperties
    <3>3. QED  BY <3>1, <3>2, <2>2, <2>3, <2>6
  <2>7. CASE ~New(L, k, i)
    <3>1. Piece(L, k, v, i) = IF Kept(L, i) THEN <<x>> ELSE <<>>
      BY <2>4, <2>7 DEF Piece
    <3>2. QED  BY <3>1, <2>3, <2>5, <2>7
  <2>8. QED  BY <2>6, <2>7
<1>4. w = [i \in 1..Len(L) |-> Piece(L, k, v, i)]
  BY <1>1 DEF Written
<1> HIDE DEF T
<1>5. w \in Seq(Seq(T)) /\ Len(w) = Len(L)
  BY <1>1, <1>3, <1>4
<1>6. \A i \in 1..Len(L) : w[i] = Piece(L, k, v, i)
  BY <1>4
<1>7. Pieced(w, L, k, v)
  BY <1>3, <1>6 DEF Pieced
<1>8. QED  BY <1>5, <1>7 DEF T

-------------------------------------------------------------------------------
(* Reading what was written.                                               *)

\* Line i of L is at A[i] in O, if it is kept, and the new key may be behind it.
Spread(A, L, k, v, O) ==
    /\ Len(O) \in Nat /\ DOMAIN O = 1..Len(O)
    /\ A \in [1..Len(L) -> Nat]
    /\ \A i \in 1..Len(L) : Kept(L, i) =>
          /\ A[i] \in 1..Len(O) /\ O[A[i]].kind = L[i].kind /\ O[A[i]].id = L[i].id
          /\ IsKey(L, i) => O[A[i]].val = NewVal(L, k, v, i)
    /\ \A i \in 1..Len(L) : New(L, k, i) =>
          Kept(L, i) /\ A[i] + 1 \in 1..Len(O) /\ O[A[i] + 1] = Entry(k, v)
    /\ \A j \in 1..Len(O) : \E i \in 1..Len(L) :
          (Kept(L, i) /\ j = A[i]) \/ (New(L, k, i) /\ j = A[i] + 1)
    /\ \A h, i \in 1..Len(L) : h < i /\ Kept(L, h) /\ Kept(L, i) =>
          A[h] < A[i] /\ (New(L, k, h) => A[h] + 1 < A[i])

LEMMA SpreadExists ==
    ASSUME NEW K, NEW I, NEW V, {"section", "key"} \subseteq K, Empty \in V,
           NEW L \in Seq(LineSet(K, I, V)), NEW k, k.id \in I, NEW v \in V,
           NEW O, O = FlattenSeq(Written(L, k, v))
    PROVE  O \in Seq(LineSet(K, I, V)) /\ \E A : Spread(A, L, k, v, O)
<1> DEFINE T == LineSet(K, I, V)
           n == Len(L)
<1>0. PICK w : w = Written(L, k, v)
  OBVIOUS
<1>1. /\ w \in Seq(Seq(T)) /\ Len(w) = n /\ n \in Nat
      /\ \A i \in 1..n :
            /\ Len(w[i]) = IF New(L, k, i) THEN 2 ELSE IF Kept(L, i) THEN 1 ELSE 0
            /\ Kept(L, i) => /\ w[i][1].kind = L[i].kind /\ w[i][1].id = L[i].id
                             /\ IsKey(L, i) => w[i][1].val = NewVal(L, k, v, i)
            /\ New(L, k, i) => Kept(L, i) /\ w[i][2] = Entry(k, v)
  <2>1. w \in Seq(Seq(T)) /\ Len(w) = Len(L) /\ Pieced(w, L, k, v)
    BY <1>0, WrittenFacts
  <2>2. QED  BY <2>1, LenProperties DEF Pieced
<1> HIDE DEF T
<1>2. O \in Seq(T) /\ \E P : Pieces(P, w, O)
  BY <1>0, <1>1, Flattened
<1>3. PICK P : Pieces(P, w, O)
  BY <1>2
<1>4. Len(O) \in Nat /\ DOMAIN O = 1..Len(O)
  BY <1>2, LenProperties
<1> HIDE DEF n
<1>5. \A i \in 1..n : P[i - 1] \in Nat
  BY <1>1, <1>3, PieceOrder
<1>20. w \in Seq(Seq(T)) /\ 1..n = 1..Len(w)
  BY <1>1
<1>6. ASSUME NEW i \in 1..n, NEW e \in 1..Len(w[i])
      PROVE  P[i - 1] + e \in 1..Len(O) /\ O[P[i - 1] + e] = w[i][e]
  <2>1. i \in 1..Len(w)
    BY <1>20
  <2>2. ASSUME NEW d \in 1..Len(w[i])
        PROVE  P[i - 1] + e \in 1..Len(O) /\ O[P[i - 1] + e] = w[i][e]
    BY ONLY <2>1, <1>3, <1>20, PieceBefore, e \in 1..Len(w[i]), d \in 1..Len(w[i])
  <2>3. QED  BY <2>2
<1>7. ASSUME NEW i \in 1..n, NEW h \in 1..n, NEW e \in 1..Len(w[i]), NEW d \in 1..Len(w[h]), h < i
      PROVE  P[h - 1] + d < P[i - 1] + e
  BY ONLY <1>3, <1>20, PieceBefore, i \in 1..n, e \in 1..Len(w[i]), h \in 1..n,
          d \in 1..Len(w[h]), h < i
<1>8. ASSUME NEW j \in 1..Len(O)
      PROVE  \E i \in 1..n : \E e \in 1..Len(w[i]) : j = P[i - 1] + e
  <2>1. \E i \in 1..Len(w) : \E e \in 1..Len(w[i]) : j = P[i - 1] + e
    BY ONLY SMTT(40), <1>20, <1>3, PieceAt, j \in 1..Len(O)
  <2>2. QED  BY <2>1, <1>20
<1> DEFINE A == [i \in 1..n |-> P[i - 1] + 1]
<1>9. A \in [1..n -> Nat] /\ \A i \in 1..n : A[i] = P[i - 1] + 1 /\ P[i - 1] + 2 = A[i] + 1
  BY <1>5
<1> HIDE DEF A
<1>10. ASSUME NEW i \in 1..n, Kept(L, i)
       PROVE  /\ 1 \in 1..Len(w[i]) /\ A[i] \in 1..Len(O)
              /\ O[A[i]].kind = L[i].kind /\ O[A[i]].id = L[i].id
              /\ IsKey(L, i) => O[A[i]].val = NewVal(L, k, v, i)
  <2>0. /\ Len(w[i]) = 1 \/ Len(w[i]) = 2
        /\ w[i][1].kind = L[i].kind /\ w[i][1].id = L[i].id
        /\ IsKey(L, i) => w[i][1].val = NewVal(L, k, v, i)
    BY ONLY <1>1, <1>10, i \in 1..n
  <2>1. 1 \in 1..Len(w[i])
    BY <2>0
  <2>2. A[i] \in 1..Len(O) /\ O[A[i]] = w[i][1]
    BY <2>1, <1>6, <1>9
  <2>3. QED  BY <2>0, <2>1, <2>2
<1>11. ASSUME NEW i \in 1..n, New(L, k, i)
       PROVE  /\ 2 \in 1..Len(w[i]) /\ Kept(L, i)
              /\ A[i] + 1 \in 1..Len(O) /\ O[A[i] + 1] = Entry(k, v)
  <2>0. Len(w[i]) = 2 /\ Kept(L, i) /\ w[i][2] = Entry(k, v)
    BY ONLY <1>1, <1>11, i \in 1..n
  <2>1. 2 \in 1..Len(w[i])
    BY <2>0
  <2>2. P[i - 1] + 2 \in 1..Len(O) /\ O[P[i - 1] + 2] = w[i][2]
    BY <2>1, <1>6
  <2>3. A[i] + 1 \in 1..Len(O) /\ O[A[i] + 1] = w[i][2]
    BY <2>2, <1>9
  <2>4. QED  BY <2>0, <2>1, <2>3
<1>12. ASSUME NEW j \in 1..Len(O)
       PROVE  \E i \in 1..n : (Kept(L, i) /\ j = A[i]) \/ (New(L, k, i) /\ j = A[i] + 1)
  <2>0. PICK i \in 1..n : \E e \in 1..Len(w[i]) : j = P[i - 1] + e
    BY <1>8
  <2>1. PICK e \in 1..Len(w[i]) : j = P[i - 1] + e
    BY <2>0
  <2>2. (e = 1 /\ Kept(L, i)) \/ (e = 2 /\ New(L, k, i))
    <3>1. /\ Len(w[i]) = IF New(L, k, i) THEN 2 ELSE IF Kept(L, i) THEN 1 ELSE 0
          /\ New(L, k, i) => Kept(L, i)
      BY <1>1
    <3>2. CASE New(L, k, i)
      <4>1. e \in 1..2
        BY <3>1, <3>2
      <4>2. QED  BY <4>1, <3>1, <3>2
    <3>3. CASE ~New(L, k, i)
      <4>1. e \in 1..1 \/ e \in 1..0
        BY <3>1, <3>3
      <4>2. CASE Kept(L, i)
        <5>1. e \in 1..1
          BY <3>1, <3>3, <4>2
        <5>2. QED  BY <5>1, <4>2
      <4>3. CASE ~Kept(L, i)
        <5>1. e \in 1..0
          BY <3>1, <3>3, <4>3
        <5>2. QED  BY <5>1
      <4>4. QED  BY <4>2, <4>3
    <3>4. QED  BY <3>2, <3>3
  <2>3. QED  BY <2>1, <2>2, <1>9
<1>13. ASSUME NEW h \in 1..n, NEW i \in 1..n, h < i, Kept(L, h), Kept(L, i)
       PROVE  A[h] < A[i] /\ (New(L, k, h) => A[h] + 1 < A[i])
  <2>1. P[h - 1] + 1 < P[i - 1] + 1 /\ (New(L, k, h) => P[h - 1] + 2 < P[i - 1] + 1)
    BY <1>7, <1>10, <1>11, <1>13
  <2>2. QED  BY <2>1, <1>9
<1>14. Spread(A, L, k, v, O)
  BY <1>4, <1>9, <1>10, <1>11, <1>12, <1>13 DEF Spread, n
<1>15. QED  BY <1>2, <1>14 DEF T

\* The headers above a line are those that were above it.
LEMMA SpreadHeaders ==
    ASSUME NEW A, NEW L, NEW k, NEW v, NEW O, Spread(A, L, k, v, O), Len(L) \in Nat,
           NEW i \in 1..Len(L), Kept(L, i), NEW j, j = A[i] \/ (j = A[i] + 1 /\ New(L, k, i))
    PROVE  Headers(O, j) = {A[h] : h \in Headers(L, i)}
<1>1. /\ Len(O) \in Nat /\ A \in [1..Len(L) -> Nat]
      /\ \A h \in 1..Len(L) : Kept(L, h) =>
            A[h] \in 1..Len(O) /\ O[A[h]].kind = L[h].kind
      /\ \A h \in 1..Len(L) : New(L, k, h) =>
            Kept(L, h) /\ A[h] + 1 \in 1..Len(O) /\ O[A[h] + 1] = Entry(k, v)
      /\ \A x \in 1..Len(O) : \E h \in 1..Len(L) :
            (Kept(L, h) /\ x = A[h]) \/ (New(L, k, h) /\ x = A[h] + 1)
      /\ \A h, g \in 1..Len(L) : h < g /\ Kept(L, h) /\ Kept(L, g) => A[h] < A[g]
  BY DEF Spread
<1>2. j \in 1..Len(O) /\ A[i] \in Nat /\ A[i] <= j /\ j <= A[i] + 1
  BY <1>1
<1>3. ASSUME NEW x \in Headers(O, j) PROVE \E h \in Headers(L, i) : x = A[h]
  <2>1. x \in 1..j /\ O[x].kind = "section" /\ x \in 1..Len(O)
    BY <1>2, <1>3 DEF Headers
  <2>2. PICK h \in 1..Len(L) : (Kept(L, h) /\ x = A[h]) \/ (New(L, k, h) /\ x = A[h] + 1)
    BY <2>1, <1>1
  <2>3. ~(New(L, k, h) /\ x = A[h] + 1)
    <3>1. Entry(k, v).kind = "key"
      BY DEF Entry
    <3>2. QED  BY <3>1, <2>1, <1>1
  <2>4. Kept(L, h) /\ x = A[h] /\ L[h].kind = "section"
    BY <2>1, <2>2, <2>3, <1>1
  <2>5. h <= i
    <3>1. SUFFICES ASSUME i < h PROVE FALSE
      OBVIOUS
    <3>2. A[i] < A[h] /\ (New(L, k, i) => A[i] + 1 < A[h])
      BY <3>1, <2>4 DEF Spread
    <3>3. QED  BY <3>2, <2>1, <2>4, <1>1
  <2>6. QED  BY <2>4, <2>5 DEF Headers
<1>4. ASSUME NEW h \in Headers(L, i) PROVE A[h] \in Headers(O, j)
  <2>1. h \in 1..Len(L) /\ h <= i /\ L[h].kind = "section" /\ Kept(L, h)
    BY DEF Headers, Kept
  <2>2. A[h] \in 1..Len(O) /\ O[A[h]].kind = "section"
    BY <2>1, <1>1
  <2>3. A[h] <= A[i]
    <3>1. CASE h = i
      BY <3>1, <1>2
    <3>2. CASE h < i
      BY <3>2, <2>1, <2>2, <1>1, <1>2
    <3>3. QED  BY <3>1, <3>2, <2>1
  <2>4. QED  BY <2>2, <2>3, <1>2 DEF Headers
<1>5. QED  BY <1>3, <1>4

LEMMA SpreadSection ==
    ASSUME NEW A, NEW L, NEW k, NEW v, NEW O, Spread(A, L, k, v, O), Len(L) \in Nat,
           NEW i \in 1..Len(L), Kept(L, i), NEW j, j = A[i] \/ (j = A[i] + 1 /\ New(L, k, i))
    PROVE  /\ Headers(O, j) # {} <=> Headers(L, i) # {}
           /\ Headers(L, i) # {} => SectionOf(O, j) = SectionOf(L, i)
<1>1. Headers(O, j) = {A[h] : h \in Headers(L, i)}
  BY SpreadHeaders
<1>2. /\ Len(O) \in Nat /\ A \in [1..Len(L) -> Nat]
      /\ \A h \in 1..Len(L) : Kept(L, h) => A[h] \in 1..Len(O) /\ O[A[h]].id = L[h].id
      /\ \A h, g \in 1..Len(L) : h < g /\ Kept(L, h) /\ Kept(L, g) => A[h] < A[g]
      /\ \A h \in 1..Len(L) : New(L, k, h) => A[h] + 1 \in 1..Len(O)
  BY DEF Spread
<1>3. ASSUME Headers(L, i) # {} PROVE SectionOf(O, j) = SectionOf(L, i)
  <2>1. PICK m : m = Max(Headers(L, i))
    OBVIOUS
  <2>2. m \in Headers(L, i) /\ \A h \in Headers(L, i) : h <= m
    BY <2>1, <1>3, LastHeader
  <2>3. PICK x : x = Max(Headers(O, j))
    OBVIOUS
  <2>4. j \in Nat
    BY <1>2
  <2>5. x \in Headers(O, j) /\ \A y \in Headers(O, j) : y <= x
    <3>1. Headers(O, j) # {}
      BY <1>1, <1>3
    <3>2. QED  BY <2>3, <2>4, <3>1, LastHeader
  <2>6. PICK h \in Headers(L, i) : x = A[h]
    BY <2>5, <1>1
  <2>7. \A g \in Headers(L, i) : g \in 1..Len(L) /\ Kept(L, g)
    BY DEF Headers, Kept
  <2>8. h = m
    <3>1. SUFFICES ASSUME h < m PROVE FALSE
      BY <2>2, <2>6, <2>7
    <3>2. A[h] < A[m]
      BY <3>1, <2>2, <2>6, <2>7, <1>2
    <3>3. A[m] <= A[h]
      BY <2>2, <2>5, <2>6, <1>1
    <3>4. A[h] \in Nat /\ A[m] \in Nat
      BY <2>2, <2>6, <2>7, <1>2
    <3>5. QED  BY <3>2, <3>3, <3>4
  <2>9. O[x].id = L[m].id
    BY <2>2, <2>6, <2>7, <2>8, <1>2
  <2>10. QED  BY <2>1, <2>3, <2>9 DEF SectionOf
<1>4. QED  BY <1>1, <1>3

\* The lines of a key are those it had, or the new ones.
LEMMA SpreadLines ==
    ASSUME NEW A, NEW L, NEW k, NEW v, NEW O, Spread(A, L, k, v, O), Len(L) \in Nat,
           DOMAIN L = 1..Len(L), NEW q,
           q = [sec |-> q.sec, id |-> q.id], k = [sec |-> k.sec, id |-> k.id]
    PROVE  \A j : j \in Lines(O, q) <=>
              \/ \E i \in Lines(L, q) : j = A[i]
              \/ q = k /\ \E i \in 1..Len(L) : New(L, k, i) /\ j = A[i] + 1
<1>1. /\ Len(O) \in Nat /\ DOMAIN O = 1..Len(O) /\ A \in [1..Len(L) -> Nat]
      /\ \A i \in 1..Len(L) : Kept(L, i) =>
            A[i] \in 1..Len(O) /\ O[A[i]].kind = L[i].kind /\ O[A[i]].id = L[i].id
      /\ \A i \in 1..Len(L) : New(L, k, i) =>
            Kept(L, i) /\ A[i] + 1 \in 1..Len(O) /\ O[A[i] + 1] = Entry(k, v)
      /\ \A j \in 1..Len(O) : \E i \in 1..Len(L) :
            (Kept(L, i) /\ j = A[i]) \/ (New(L, k, i) /\ j = A[i] + 1)
  BY DEF Spread
<1>2. ASSUME NEW i \in 1..Len(L), Kept(L, i) PROVE A[i] \in Lines(O, q) <=> i \in Lines(L, q)
  <2>1. /\ Headers(O, A[i]) # {} <=> Headers(L, i) # {}
        /\ Headers(L, i) # {} => SectionOf(O, A[i]) = SectionOf(L, i)
    BY <1>2, SpreadSection
  <2>2. A[i] \in DOMAIN O /\ O[A[i]].kind = L[i].kind /\ O[A[i]].id = L[i].id
    BY <1>1, <1>2
  <2>3. QED  BY <2>1, <2>2 DEF Lines, IsKey
<1>3. ASSUME NEW i \in 1..Len(L), New(L, k, i) PROVE A[i] + 1 \in Lines(O, q) <=> q = k
  <2>1. Kept(L, i) /\ A[i] + 1 \in DOMAIN O /\ O[A[i] + 1] = Entry(k, v)
    BY <1>1, <1>3
  <2>2. Headers(L, i) # {}
    <3>1. L[i].kind = "section" => i \in Headers(L, i)
      BY DEF Headers
    <3>2. L[i].kind = "section" \/ IsKey(L, i)
      BY <1>3 DEF New, EndsBlock
    <3>3. QED  BY <3>1, <3>2 DEF IsKey
  <2>3. Headers(O, A[i] + 1) # {} /\ SectionOf(O, A[i] + 1) = k.sec
    <3>1. /\ Headers(O, A[i] + 1) # {} <=> Headers(L, i) # {}
          /\ Headers(L, i) # {} => SectionOf(O, A[i] + 1) = SectionOf(L, i)
      BY <1>3, <2>1, SpreadSection
    <3>2. QED  BY <3>1, <2>2, <1>3 DEF New
  <2>4. Entry(k, v).kind = "key" /\ Entry(k, v).id = k.id
    BY DEF Entry
  <2>5. A[i] + 1 \in Lines(O, q) <=> k.id = q.id /\ k.sec = q.sec
    BY <2>1, <2>3, <2>4 DEF Lines, IsKey
  <2>6. QED  BY <2>5
<1>4. ASSUME NEW i \in Lines(L, q) PROVE i \in 1..Len(L) /\ Kept(L, i)
  BY DEF Lines, Kept
<1>5. ASSUME NEW j \in Lines(O, q)
      PROVE  \/ \E i \in Lines(L, q) : j = A[i]
             \/ q = k /\ \E i \in 1..Len(L) : New(L, k, i) /\ j = A[i] + 1
  <2>1. j \in 1..Len(O)
    BY <1>1 DEF Lines
  <2>2. PICK i \in 1..Len(L) : (Kept(L, i) /\ j = A[i]) \/ (New(L, k, i) /\ j = A[i] + 1)
    BY <2>1, <1>1
  <2>3. QED  BY <2>2, <1>2, <1>3, <1>5
<1>6. QED  BY <1>2, <1>3, <1>4, <1>5

\* A section that is there has a last line, behind which a new key goes.
LEMMA BlockEnds ==
    ASSUME NEW L, Len(L) \in Nat, DOMAIN L = 1..Len(L), NEW k, HasSection(L, k.sec), Lines(L, k) = {}
    PROVE  \E i \in 1..Len(L) : New(L, k, i)
<1>1. PICK h \in 1..Len(L) : L[h].kind = "section" /\ L[h].id[1] = k.sec
  BY DEF HasSection
<1> DEFINE S == {i \in 1..Len(L) : /\ Headers(L, i) = Headers(L, h)
                                   /\ L[i].kind = "section" \/ IsKey(L, i)}
<1>2. h \in S /\ S \in SUBSET (0..Len(L))
  BY <1>1
<1> HIDE DEF S
<1>3. PICK i : i = Max(S)
  OBVIOUS
<1>4. i \in S /\ \A j \in S : j <= i
  BY <1>2, <1>3, Greatest
<1> USE DEF S
<1>5. i \in 1..Len(L) /\ Headers(L, i) = Headers(L, h) /\ (L[i].kind = "section" \/ IsKey(L, i))
  BY <1>4
<1>6. h \in Headers(L, h) /\ \A x \in Headers(L, h) : x <= h
  BY <1>1 DEF Headers
<1>7. Max(Headers(L, h)) = h
  <2>1. /\ Max(Headers(L, h)) \in Headers(L, h)
        /\ \A x \in Headers(L, h) : x <= Max(Headers(L, h))
    BY <1>6, LastHeader
  <2>2. Max(Headers(L, h)) \in Nat
    BY <2>1 DEF Headers
  <2>3. QED  BY <2>1, <2>2, <1>6
<1>8. SectionOf(L, i) = k.sec
  BY <1>1, <1>5, <1>7 DEF SectionOf
<1>9. EndsBlock(L, i)
  <2>1. SUFFICES ASSUME NEW j \in (i + 1)..Len(L), L[j].kind = "key", Headers(L, j) = Headers(L, i)
                 PROVE  FALSE
    BY <1>5 DEF EndsBlock
  <2>2. j \in 1..Len(L) /\ ~(j <= i)
    BY <1>5
  <2>3. IsKey(L, j)
    BY <2>1, <1>5, <1>6 DEF IsKey
  <2>4. j \in S
    BY <2>1, <2>2, <2>3, <1>5
  <2>5. QED  BY <2>2, <2>4, <1>4
<1>10. QED  BY <1>5, <1>8, <1>9 DEF New

\* A key's section has its header.
LEMMA SectionThere ==
    ASSUME NEW L, Len(L) \in Nat, DOMAIN L = 1..Len(L), NEW i \in 1..Len(L), Headers(L, i) # {}
    PROVE  HasSection(L, SectionOf(L, i))
<1>1. PICK m : m = Max(Headers(L, i))
  OBVIOUS
<1>2. i \in Nat /\ m \in Headers(L, i)
  BY <1>1, LastHeader
<1>3. m \in DOMAIN L /\ L[m].kind = "section"
  BY <1>2 DEF Headers
<1>4. L[m].id[1] = SectionOf(L, i)
  BY <1>1 DEF SectionOf
<1>5. QED  BY <1>3, <1>4 DEF HasSection

\* Every line of a key has the value a.
Agreed(O, q, a) ==
    /\ \A j \in Lines(O, q) : O[j].val = a
    /\ Lines(O, q) # {} \/ a = Empty

LEMMA GetIs ==
    ASSUME NEW T, NEW O \in Seq(T), NEW q, NEW a, Agreed(O, q, a)
    PROVE  Get(O, q) = a
BY GetLine DEF Agreed

\* The rewritten lines, without what is appended to them.
LEMMA GetWritten ==
    ASSUME NEW K, NEW I, NEW V, {"section", "key"} \subseteq K, Empty \in V,
           NEW L \in Seq(LineSet(K, I, V)), NEW v \in V,
           NEW k, k.id \in I, k = [sec |-> k.sec, id |-> k.id],
           NEW O, O = FlattenSeq(Written(L, k, v)),
           NEW q, q = [sec |-> q.sec, id |-> q.id]
    PROVE  /\ q # k => Get(O, q) = Get(L, q)
           /\ HasSection(L, k.sec) => Get(O, k) = v
           /\ ~HasSection(L, k.sec) => Lines(O, k) = {} /\ Lines(L, k) = {}
<1>1. Len(L) \in Nat /\ DOMAIN L = 1..Len(L)
  BY LenProperties
<1>2. O \in Seq(LineSet(K, I, V)) /\ \E A : Spread(A, L, k, v, O)
  BY SpreadExists
<1>3. PICK A : Spread(A, L, k, v, O)
  BY <1>2
<1>4. \A j : j \in Lines(O, q) <=>
         \/ \E i \in Lines(L, q) : j = A[i]
         \/ q = k /\ \E i \in 1..Len(L) : New(L, k, i) /\ j = A[i] + 1
  BY <1>1, <1>3, SpreadLines
<1>5. \A j : j \in Lines(O, k) <=>
         \/ \E i \in Lines(L, k) : j = A[i]
         \/ \E i \in 1..Len(L) : New(L, k, i) /\ j = A[i] + 1
  BY <1>1, <1>3, SpreadLines
<1>6. ASSUME NEW r, r = [sec |-> r.sec, id |-> r.id], NEW i \in Lines(L, r)
      PROVE  O[A[i]].val = IF r = k THEN v ELSE Get(L, r)
  <2>1. i \in 1..Len(L) /\ IsKey(L, i) /\ KeyOf(L, i) = r
    BY <1>6 DEF Lines, KeyOf
  <2>2. O[A[i]].val = NewVal(L, k, v, i)
    BY <2>1, <1>3 DEF Spread, Kept
  <2>3. QED  BY <2>1, <2>2 DEF NewVal
<1>7. ASSUME q # k PROVE Get(O, q) = Get(L, q)
  <2>1. \A j \in Lines(O, q) : O[j].val = Get(L, q)
    BY <1>4, <1>6, <1>7
  <2>2. Lines(O, q) = {} => Lines(L, q) = {}
    BY <1>4
  <2>3. Lines(O, q) # {} \/ Get(L, q) = Empty
    BY <2>2, GetLine
  <2>4. Agreed(O, q, Get(L, q))
    BY <2>1, <2>3 DEF Agreed
  <2>5. QED  BY <2>4, <1>2, GetIs
<1>8. \A i \in 1..Len(L) : New(L, k, i) => O[A[i] + 1].val = v
  <2>1. Entry(k, v).val = v
    BY DEF Entry
  <2>2. QED  BY <2>1, <1>3 DEF Spread
<1>9. ASSUME HasSection(L, k.sec) PROVE Get(O, k) = v
  <2>1. \A j \in Lines(O, k) : O[j].val = v
    BY <1>5, <1>6, <1>8
  <2>2. Lines(O, k) # {}
    <3>1. CASE Lines(L, k) # {}
      BY <3>1, <1>5
    <3>2. CASE Lines(L, k) = {}
      BY <3>2, <1>1, <1>5, <1>9, BlockEnds
    <3>3. QED  BY <3>1, <3>2
  <2>3. Agreed(O, k, v)
    BY <2>1, <2>2 DEF Agreed
  <2>4. QED  BY <2>3, <1>2, GetIs
<1>10. ASSUME ~HasSection(L, k.sec) PROVE Lines(O, k) = {} /\ Lines(L, k) = {}
  <2>1. ASSUME NEW i \in Lines(L, k) PROVE FALSE
    <3>1. i \in 1..Len(L) /\ Headers(L, i) # {} /\ SectionOf(L, i) = k.sec
      BY DEF Lines, IsKey
    <3>2. QED  BY <3>1, <1>1, <1>10, SectionThere
  <2>2. ASSUME NEW i \in 1..Len(L), New(L, k, i) PROVE FALSE
    <3>1. L[i].kind = "section" => i \in Headers(L, i)
      BY DEF Headers
    <3>2. Headers(L, i) # {} /\ SectionOf(L, i) = k.sec
      BY <3>1, <2>2 DEF New, EndsBlock, IsKey
    <3>3. QED  BY <3>2, <1>1, <1>10, SectionThere
  <2>3. QED  BY <2>1, <2>2, <1>5
<1>11. QED  BY <1>7, <1>9, <1>10

\* A section of its own behind the lines.
KeyRecord(k) == k = [sec |-> k.sec, id |-> k.id]

Appended(O, k, v) == O \o <<Header(k.sec), Entry(k, v)>>

LEMMA GetAppended ==
    ASSUME NEW T, NEW O \in Seq(T), NEW k, KeyRecord(k), NEW v,
           Header(k.sec) \in T, Entry(k, v) \in T, Lines(O, k) = {},
           NEW q, KeyRecord(q),
           NEW N, N = Appended(O, k, v)
    PROVE  N \in Seq(T) /\ Get(N, q) = IF q = k THEN v ELSE Get(O, q)
<1> DEFINE n == Len(O)
           H == Header(k.sec)
           E == Entry(k, v)
<1>1. n \in Nat /\ n = Len(O) /\ DOMAIN O = 1..n
  BY LenProperties
<1>2. <<H, E>> \in Seq(T) /\ Len(<<H, E>>) = 2 /\ <<H, E>>[1] = H /\ <<H, E>>[2] = E
  OBVIOUS
<1>3. /\ H.kind = "section" /\ H.id[1] = k.sec
      /\ E.kind = "key" /\ E.id = k.id /\ E.val = v
  BY DEF Header, Entry
<1> HIDE DEF n, H, E
<1>4. /\ N \in Seq(T) /\ Len(N) = n + 2
      /\ \A j \in 1..(n + 2) : N[j] = IF j <= n THEN O[j] ELSE <<H, E>>[j - n]
  BY <1>1, <1>2, ConcatProperties DEF H, E, Appended
<1>5. /\ DOMAIN N = 1..(n + 2) /\ (\A j \in 1..n : N[j] = O[j]) /\ N[n + 1] = H /\ N[n + 2] = E
  <2>1. DOMAIN N = 1..(n + 2)
    BY <1>4, LenProperties
  <2>2. ASSUME NEW j \in 1..n PROVE N[j] = O[j]
    <3>1. j \in 1..(n + 2) /\ j <= n
      BY <1>1
    <3>2. QED  BY <3>1, <1>4
  <2>3. /\ n + 1 \in 1..(n + 2) /\ ~(n + 1 <= n) /\ (n + 1) - n = 1
        /\ n + 2 \in 1..(n + 2) /\ ~(n + 2 <= n) /\ (n + 2) - n = 2
    BY <1>1
  <2>4. QED  BY <2>1, <2>2, <2>3, <1>2, <1>4
<1>6. ASSUME NEW j \in 1..n PROVE j \in Lines(N, q) <=> j \in Lines(O, q)
  <2>1. Headers(N, j) = Headers(O, j)
    <3>1. \A x \in 1..j : x \in 1..n
      BY <1>1
    <3>2. QED  BY <3>1, <1>5 DEF Headers
  <2>2. N[j] = O[j] /\ j \in DOMAIN N /\ j \in DOMAIN O
    BY <1>1, <1>5
  <2>3. \A h \in Headers(O, j) : N[h] = O[h]
    <3>1. \A h \in Headers(O, j) : h \in 1..n
      BY <1>1 DEF Headers
    <3>2. QED  BY <3>1, <1>5
  <2>4. Headers(O, j) # {} => Max(Headers(O, j)) \in Headers(O, j)
    BY LastHeader
  <2>5. Headers(O, j) # {} => SectionOf(N, j) = SectionOf(O, j)
    BY <2>1, <2>3, <2>4 DEF SectionOf
  <2>6. QED  BY <2>1, <2>2, <2>5 DEF Lines, IsKey
<1>7. n + 1 \notin Lines(N, q)
  BY <1>3, <1>5 DEF Lines, IsKey
<1>8. n + 2 \in Lines(N, q) <=> q = k
  <2>1. n + 2 \in DOMAIN N /\ n + 2 \in Nat
    BY <1>1, <1>5
  <2>2. n + 1 \in Headers(N, n + 2) /\ \A h \in Headers(N, n + 2) : h <= n + 1
    <3>1. n + 1 \in 1..(n + 2) /\ N[n + 1].kind = "section"
      BY <1>1, <1>3, <1>5
    <3>2. \A h \in 1..(n + 2) : h <= n + 1 \/ h = n + 2
      BY <1>1
    <3>3. N[n + 2].kind # "section"
      BY <1>3, <1>5
    <3>4. QED  BY <3>1, <3>2, <3>3 DEF Headers
  <2>3. Max(Headers(N, n + 2)) = n + 1
    <3>1. PICK m : m = Max(Headers(N, n + 2))
      OBVIOUS
    <3>2. m \in Headers(N, n + 2) /\ \A h \in Headers(N, n + 2) : h <= m
      BY <3>1, <2>1, <2>2, LastHeader
    <3>3. m \in Nat
      BY <3>2 DEF Headers
    <3>4. m <= n + 1 /\ n + 1 <= m
      BY <3>2, <2>2
    <3>5. m = n + 1
      BY <3>3, <3>4, <1>1
    <3>6. QED  BY <3>1, <3>5
  <2>4. SectionOf(N, n + 2) = k.sec
    BY <2>3, <1>3, <1>5 DEF SectionOf
  <2>5. n + 2 \in Lines(N, q) <=> k.id = q.id /\ k.sec = q.sec
    BY <2>1, <2>2, <2>4, <1>3, <1>5 DEF Lines, IsKey
  <2>6. QED  BY <2>5 DEF KeyRecord
<1>9. \A j \in Lines(N, q) : j \in 1..n \/ j = n + 1 \/ j = n + 2
  BY <1>1, <1>5 DEF Lines
<1>10. CASE q = k
  <2>1. Lines(N, q) = {n + 2}
    BY <1>6, <1>7, <1>8, <1>9, <1>10
  <2>2. Agreed(N, q, v)
    BY <2>1, <1>3, <1>5 DEF Agreed
  <2>3. QED  BY <2>2, <1>4, <1>10, GetIs
<1>11. CASE q # k
  <2>1. \A j \in Lines(N, q) : j \in 1..n
    BY <1>7, <1>8, <1>9, <1>11
  <2>2. Lines(N, q) = Lines(O, q)
    BY <2>1, <1>1, <1>6 DEF Lines
  <2>3. \A j \in Lines(O, q) : N[j] = O[j]
    BY <2>1, <2>2, <1>5
  <2>4. Get(N, q) = Get(O, q)
    <3>1. CASE Lines(O, q) = {}
      BY <3>1, <2>2 DEF Get
    <3>2. CASE Lines(O, q) # {}
      <4>1. Lines(O, q) \in SUBSET (0..n)
        BY <1>1 DEF Lines
      <4>2. Max(Lines(O, q)) \in Lines(O, q)
        BY <4>1, <3>2, <1>1, Greatest
      <4>3. QED  BY <4>2, <3>2, <2>2, <2>3 DEF Get
    <3>3. QED  BY <3>1, <3>2
  <2>5. QED  BY <2>4, <1>4, <1>11
<1>12. QED  BY <1>10, <1>11

\* readValue and writeValue set the key they are called for and no other: every
\* value that could be read before is read after the rewrite, whatever keys occur
\* twice, sections repeat and lines are dropped.
THEOREM PutGet ==
    ASSUME NEW K, NEW I, NEW V, {"section", "key"} \subseteq K, Empty \in V,
           NEW L \in Seq(LineSet(K, I, V)), NEW v \in V,
           NEW k, k.id \in I, <<k.sec, 0>> \in I, k = [sec |-> k.sec, id |-> k.id],
           NEW q, q = [sec |-> q.sec, id |-> q.id]
    PROVE  /\ Put(L, k, v) \in Seq(LineSet(K, I, V))
           /\ Get(Put(L, k, v), q) = IF q = k THEN v ELSE Get(L, q)
<1>1. PICK O : O = FlattenSeq(Written(L, k, v))
  OBVIOUS
<1>2. O \in Seq(LineSet(K, I, V))
  BY <1>1, SpreadExists
<1>3. /\ q # k => Get(O, q) = Get(L, q)
      /\ HasSection(L, k.sec) => Get(O, k) = v
      /\ ~HasSection(L, k.sec) => Lines(O, k) = {} /\ Lines(L, k) = {}
  BY <1>1, GetWritten
<1>4. CASE HasSection(L, k.sec)
  <2>1. Put(L, k, v) = O
    BY <1>1, <1>4, PutIs
  <2>2. QED  BY <2>1, <1>2, <1>3, <1>4
<1>5. CASE ~HasSection(L, k.sec)
  <2>1. Put(L, k, v) = O \o <<Header(k.sec), Entry(k, v)>>
    BY <1>1, <1>5, PutIs
  <2>2. PICK N : N = O \o <<Header(k.sec), Entry(k, v)>>
    OBVIOUS
  <2>3. Header(k.sec) \in LineSet(K, I, V) /\ Entry(k, v) \in LineSet(K, I, V)
    BY DEF LineSet, Header, Entry
  <2>a. PICK T : T = LineSet(K, I, V)
    OBVIOUS
  <2>b. /\ O \in Seq(T) /\ Header(k.sec) \in T /\ Entry(k, v) \in T /\ Lines(O, k) = {}
        /\ KeyRecord(k) /\ KeyRecord(q) /\ N = Appended(O, k, v)
    BY <2>2, <2>3, <2>a, <1>2, <1>3, <1>5 DEF KeyRecord, Appended
  <2>c. N \in Seq(T) /\ Get(N, q) = IF q = k THEN v ELSE Get(O, q)
    BY <2>b, GetAppended
  <2>4. N \in Seq(LineSet(K, I, V)) /\ Get(N, q) = IF q = k THEN v ELSE Get(O, q)
    BY <2>a, <2>c
  <2>5. QED  BY <2>1, <2>2, <2>4, <1>3
<1>6. QED  BY <1>4, <1>5

===============================================================================
