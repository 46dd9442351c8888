---------------------------- MODULE FramingProofs ----------------------------
(***************************************************************************)
(* Proofs about Framing, for any commands, sizes and cuts into records.    *)
(*                                                                         *)
(* The argument places the session in the bytes the client has written so  *)
(* far: B holds them in order, Q[i] is where the i-th command (with the    *)
(* content of its file) ends in B, and p is how far the server has read.   *)
(* The records on their way hold B from p on.                              *)
(***************************************************************************)
EXTENDS Framing, SequenceTheorems, WellFoundedInduction, TLAPS

\* What a client writes for a command.
Item(l) == Append(l, NL) \o (IF l = Download THEN Content ELSE <<>>)

\* B holds the items of the commands sent, the i-th up to Q[i]; no NUL but theirs.
Coded(B, Q) ==
    /\ B \in Seq(Byte)
    /\ Q \in [0..Len(sent) -> Nat]
    /\ Q[0] = 0 /\ Q[Len(sent)] = Len(B)
    /\ \A i, j \in 0..Len(sent) : i < j => Q[i] < Q[j]
    /\ \A i \in 0..(Len(sent) - 1) :
          /\ Q[i + 1] = Q[i] + Len(Item(sent[i + 1]))
          /\ \A k \in 1..Len(Item(sent[i + 1])) : B[Q[i] + k] = Item(sent[i + 1])[k]
    /\ Plain => \A k \in 1..Len(B) : B[k] # NUL

\* P cuts B from p on into the records str, none of which crosses a point of X.
Cuts(P, str, B, X, p) ==
    /\ P \in [0..Len(str) -> Nat]
    /\ P[0] = p /\ P[Len(str)] = Len(B)
    /\ \A i, j \in 0..Len(str) : i < j => P[i] < P[j]
    /\ \A j \in 1..Len(str) :
          /\ Len(str[j]) = P[j] - P[j - 1]
          /\ \A k \in 1..Len(str[j]) : str[j][k] = B[P[j - 1] + k]
          /\ \A x \in X : ~(P[j - 1] < x /\ x < P[j])

Streamed(str, B, X, p) == \E P : Cuts(P, str, B, X, p)

\* Where the parts of the items end: commands, and files.
Bounds(Q) ==
    {Q[i] : i \in 0..Len(sent)} \cup
    {Q[i] + Len(sent[i + 1]) + 1 : i \in 0..(Len(sent) - 1)}

\* Only the records of an orderly session keep to them.
Points(Q) == IF orderly THEN Bounds(Q) ELSE {}

\* The session has read p bytes and is about to answer the command after those
\* it has answered.
Place(Q, B, p) ==
    LET a == Len(answers)
    IN /\ a <= Len(sent)
       /\ mode = "command" =>
             /\ p = Q[a] + Len(accumulatedData)
             /\ \A k \in 1..Len(accumulatedData) : accumulatedData[k] = B[Q[a] + k]
             /\ orderly => \/ a = Len(sent) /\ p = Q[a]
                           \/ a < Len(sent) /\ p <= Q[a] + Len(sent[a + 1])
       /\ mode = "file" =>
             /\ orderly /\ a < Len(sent) /\ sent[a + 1] = Download /\ ~TooLong(Download)
             /\ accumulatedData = <<>>
             /\ p = Q[a] + Len(Download) + 1 + totalBytesRead

\* What the invariant is about: the bytes read are then those that were sent.
Claimed == Plain /\ (orderly \/ Download \notin Range(sent))

SegInv ==
    Claimed /\ open =>
        \E B, Q, p : /\ Coded(B, Q)
                     /\ Streamed(stream, B, Points(Q), p)
                     /\ Place(Q, B, p)

Replies == {Nack, Stored} \cup {Answer(l) : l \in Seq(Byte)}

TypeInv ==
    /\ TypeOK
    /\ stream \in Seq(Seq(Byte)) /\ sent \in Seq(Lines)
    /\ accumulatedData \in Seq(Byte) /\ answers \in Seq(Replies)
    /\ open => Len(accumulatedData) <= maxMessageSize
    /\ mode = "file" => totalBytesRead < FileSize
    /\ crashed => ~open

IInv == SegInv /\ AnswersInOrder /\ NoSpuriousEnd

-------------------------------------------------------------------------------
(* Lemmas about records, which no variable takes part in.                  *)

\* What one SSL_read of up to n bytes takes from the records, and what it leaves.
Chunk(str, n) == SubSeq(Head(str), 1, IF Len(Head(str)) < n THEN Len(Head(str)) ELSE n)

Rest(str, n) ==
    IF Len(Head(str)) <= n THEN Tail(str)
    ELSE <<SubSeq(Head(str), n + 1, Len(Head(str)))>> \o Tail(str)

LEMMA Prefix ==
    ASSUME NEW S, NEW s \in Seq(S), NEW n \in 0..Len(s)
    PROVE  /\ SubSeq(s, 1, n) \in Seq(S) /\ Len(SubSeq(s, 1, n)) = n
           /\ \A k \in 1..n : SubSeq(s, 1, n)[k] = s[k]
<1>1. Len(s) \in Nat /\ \A k \in 1..Len(s) : s[k] \in S
  BY LenProperties, ElementOfSeq
<1>2. 1 \in Int /\ n \in Int /\ \A k \in 1..n : s[k] \in S
  BY <1>1
<1>3. /\ SubSeq(s, 1, n) \in Seq(S)
      /\ Len(SubSeq(s, 1, n)) = IF 1 <= n THEN n - 1 + 1 ELSE 0
      /\ \A k \in 1..(n - 1 + 1) : SubSeq(s, 1, n)[k] = s[1 + k - 1]
  BY <1>2, SubSeqProperties
<1>4. (IF 1 <= n THEN n - 1 + 1 ELSE 0) = n /\ n - 1 + 1 = n /\ \A k \in 1..n : 1 + k - 1 = k
  BY <1>1
<1>5. QED  BY <1>3, <1>4

LEMMA Suffix ==
    ASSUME NEW S, NEW s \in Seq(S), NEW n \in 0..Len(s)
    PROVE  /\ SubSeq(s, n + 1, Len(s)) \in Seq(S) /\ Len(SubSeq(s, n + 1, Len(s))) = Len(s) - n
           /\ \A k \in 1..(Len(s) - n) : SubSeq(s, n + 1, Len(s))[k] = s[n + k]
<1> DEFINE d == Len(s)
<1>1. d = Len(s) /\ d \in Nat /\ n \in 0..d /\ \A k \in 1..d : s[k] \in S
  BY LenProperties, ElementOfSeq
<1> HIDE DEF d
<1>2. n + 1 \in Int /\ d \in Int /\ \A k \in (n + 1)..d : s[k] \in S
  BY <1>1
<1>3. /\ SubSeq(s, n + 1, d) \in Seq(S)
      /\ Len(SubSeq(s, n + 1, d)) = IF n + 1 <= d THEN d - (n + 1) + 1 ELSE 0
      /\ \A k \in 1..(d - (n + 1) + 1) : SubSeq(s, n + 1, d)[k] = s[(n + 1) + k - 1]
  BY <1>2, SubSeqProperties
<1>4. /\ (IF n + 1 <= d THEN d - (n + 1) + 1 ELSE 0) = d - n /\ d - (n + 1) + 1 = d - n
      /\ \A k \in 1..(d - n) : (n + 1) + k - 1 = n + k
  BY <1>1
<1>5. QED  BY <1>3, <1>4 DEF d

LEMMA ContentType == Content \in Seq(Byte) /\ Len(Content) = FileSize
BY FramingAssumption DEF Content

LEMMA LineType ==
    ASSUME NEW l \in Lines
    PROVE  /\ l \in Seq(Byte) /\ Len(l) \in Nat
           /\ \A k \in 1..Len(l) : l[k] # NL
           /\ Append(l, NL) \in Seq(Byte) /\ Len(Append(l, NL)) = Len(l) + 1
           /\ \A k \in 1..Len(l) : Append(l, NL)[k] = l[k]
           /\ Append(l, NL)[Len(l) + 1] = NL
<1>1. l \in Seq(Byte) /\ NL \notin Range(l) /\ NL \in Byte
  BY FramingAssumption
<1>2. \A k \in 1..Len(l) : l[k] # NL
  BY <1>1, RangeEquality
<1>3. QED
  BY <1>1, <1>2, AppendProperties, LenProperties

LEMMA ItemType ==
    ASSUME NEW l \in Lines
    PROVE  /\ Item(l) \in Seq(Byte)
           /\ Len(Item(l)) = Len(l) + 1 + (IF l = Download THEN FileSize ELSE 0)
           /\ \A k \in 1..Len(l) : Item(l)[k] = l[k]
           /\ Item(l)[Len(l) + 1] = NL
           /\ l = Download =>
                \A k \in (Len(l) + 2)..Len(Item(l)) : Item(l)[k] = FileByte
<1> DEFINE c == IF l = Download THEN Content ELSE <<>>
<1>1. c \in Seq(Byte) /\ Len(c) = IF l = Download THEN FileSize ELSE 0
  BY ContentType, EmptySeq
<1>2. \A i \in 1..(Len(l) + 1 + Len(c)) :
         Item(l)[i] = IF i <= Len(l) + 1 THEN Append(l, NL)[i] ELSE c[i - (Len(l) + 1)]
  BY <1>1, LineType, ConcatProperties DEF Item
<1>3. Item(l) \in Seq(Byte) /\ Len(Item(l)) = Len(l) + 1 + Len(c)
  BY <1>1, LineType, ConcatProperties DEF Item
<1>4. FileSize \in Nat /\ Len(l) \in Nat
  BY FramingAssumption, LineType
<1>a. Len(c) \in Nat /\ (l = Download => c = Content)
  BY <1>1, <1>4
<1> HIDE DEF c
<1>5. ASSUME l = Download, NEW k \in (Len(l) + 2)..Len(Item(l))
      PROVE  Item(l)[k] = FileByte
  <2>1. k - (Len(l) + 1) \in 1..FileSize /\ ~(k <= Len(l) + 1)
    BY <1>1, <1>3, <1>4, <1>5
  <2>2. c[k - (Len(l) + 1)] = FileByte
    BY <1>5, <2>1, <1>a DEF Content
  <2>3. QED
    BY <1>2, <1>3, <1>4, <1>1, <1>5, <2>1, <2>2
<1>6. \A k \in 1..Len(l) : Item(l)[k] = l[k]
  <2>1. SUFFICES ASSUME NEW k \in 1..Len(l)
                 PROVE  Item(l)[k] = l[k]
    OBVIOUS
  <2>2. k \in 1..(Len(l) + 1 + Len(c)) /\ k <= Len(l) + 1
    BY <1>4, <1>a, <2>1
  <2>3. QED
    BY <1>2, <2>1, <2>2, LineType
<1>7. Item(l)[Len(l) + 1] = NL
  <2>1. Len(l) + 1 \in 1..(Len(l) + 1 + Len(c)) /\ Len(l) + 1 <= Len(l) + 1
    BY <1>4, <1>a
  <2>2. QED
    BY <1>2, <2>1, LineType
<1>8. QED
  BY <1>1, <1>3, <1>5, <1>6, <1>7

\* What a client writes for a command without a NUL has none.
LEMMA ItemPlain ==
    ASSUME NEW l \in Lines, NUL \notin Range(l), NEW k \in 1..Len(Item(l))
    PROVE  Item(l)[k] # NUL
<1>1. /\ l \in Seq(Byte) /\ Len(l) \in Nat /\ DOMAIN l = 1..Len(l)
      /\ Len(Item(l)) = Len(l) + 1 + (IF l = Download THEN FileSize ELSE 0)
      /\ Item(l)[Len(l) + 1] = NL
  BY LineType, ItemType, LenProperties
<1>2. CASE k <= Len(l)
  <2>1. k \in 1..Len(l) /\ Item(l)[k] = l[k]
    BY <1>1, <1>2, ItemType
  <2>2. QED  BY <2>1, <1>1 DEF Range
<1>3. CASE k = Len(l) + 1
  BY <1>1, <1>3, FramingAssumption
<1>4. CASE ~(k <= Len(l) + 1)
  <2>1. l = Download
    BY <1>1, <1>4
  <2>2. k \in (Len(l) + 2)..Len(Item(l))
    BY <1>1, <1>4, <2>1, FramingAssumption
  <2>3. Item(l)[k] = FileByte
    BY <2>1, <2>2, ItemType
  <2>4. QED  BY <2>3, MarkAssumption
<1>5. QED  BY <1>1, <1>2, <1>3, <1>4

LEMMA AppendRecord ==
    ASSUME NEW str \in Seq(Seq(Byte)), NEW B \in Seq(Byte), NEW X \in SUBSET (0..Len(B)),
           NEW p, Streamed(str, B, X, p),
           NEW s \in Seq(Byte), s # <<>>
    PROVE  Streamed(Append(str, s), B \o s, X \cup {Len(B), Len(B) + Len(s)}, p)
<1> DEFINE t == Append(str, s)
           C == B \o s
           n == Len(str)
<1>1. PICK P : Cuts(P, str, B, X, p)
  BY DEF Streamed
<1>2. /\ n = Len(str) /\ n \in Nat /\ Len(B) \in Nat /\ Len(s) \in Nat \ {0}
      /\ \A j \in 1..n : str[j] \in Seq(Byte) /\ Len(str[j]) \in Nat
  BY EmptySeq, LenProperties, ElementOfSeq
<1>3. Len(t) = n + 1 /\ (\A j \in 1..n : t[j] = str[j]) /\ t[n + 1] = s
  BY AppendProperties
<1>4. /\ Len(C) = Len(B) + Len(s)
      /\ \A i \in 1..Len(B) : C[i] = B[i]
      /\ \A i \in 1..Len(s) : C[Len(B) + i] = s[i]
  <2>1. /\ Len(C) = Len(B) + Len(s)
        /\ \A i \in 1..(Len(B) + Len(s)) : C[i] = IF i <= Len(B) THEN B[i] ELSE s[i - Len(B)]
    BY ConcatProperties
  <2>2. ASSUME NEW i \in 1..Len(s) PROVE C[Len(B) + i] = s[i]
    <3>1. Len(B) + i \in 1..(Len(B) + Len(s)) /\ ~(Len(B) + i <= Len(B))
             /\ (Len(B) + i) - Len(B) = i
      BY <1>2
    <3>2. QED  BY <2>1, <3>1
  <2>3. ASSUME NEW i \in 1..Len(B) PROVE C[i] = B[i]
    <3>1. i \in 1..(Len(B) + Len(s)) /\ i <= Len(B)
      BY <1>2
    <3>2. QED  BY <2>1, <3>1
  <2>4. QED  BY <2>1, <2>2, <2>3
<1>5. /\ P \in [0..n -> Nat]
      /\ P[0] = p /\ P[n] = Len(B)
      /\ \A i, j \in 0..n : i < j => P[i] < P[j]
      /\ \A j \in 1..n :
            /\ Len(str[j]) = P[j] - P[j - 1]
            /\ \A k \in 1..Len(str[j]) : str[j][k] = B[P[j - 1] + k]
            /\ \A x \in X : ~(P[j - 1] < x /\ x < P[j])
  BY <1>1, <1>2 DEF Cuts
<1> HIDE DEF n
<1> DEFINE R == [i \in 0..(n + 1) |-> IF i <= n THEN P[i] ELSE Len(B) + Len(s)]
           Y == X \cup {Len(B), Len(B) + Len(s)}
<1>6. (\A i \in 0..n : R[i] = P[i] /\ P[i] \in Nat /\ P[i] <= Len(B)) /\ R[n + 1] = Len(B) + Len(s)
  <2>1. ASSUME NEW i \in 0..n PROVE R[i] = P[i] /\ P[i] \in Nat /\ P[i] <= Len(B)
    <3>1. R[i] = P[i] /\ P[i] \in Nat
      BY <1>2, <1>5
    <3>2. i = n \/ i < n
      BY <1>2
    <3>3. n \in 0..n
      BY <1>2
    <3>4. QED  BY <1>2, <1>5, <3>1, <3>2, <3>3
  <2>2. R[n + 1] = Len(B) + Len(s)
    BY <1>2
  <2>3. QED  BY <2>1, <2>2
<1>7. R \in [0..Len(t) -> Nat]
  BY <1>2, <1>3, <1>5
<1> HIDE DEF t, C, R
<1>8. R[0] = p /\ R[Len(t)] = Len(C)
  BY <1>2, <1>3, <1>4, <1>5, <1>6
<1>9. ASSUME NEW i \in 0..Len(t), NEW j \in 0..Len(t), i < j PROVE R[i] < R[j]
  <2>1. i \in 0..n /\ (j \in 0..n \/ j = n + 1)
    BY <1>2, <1>3, <1>9
  <2>2. QED
    BY <2>1, <1>2, <1>5, <1>6, <1>9
<1>10. ASSUME NEW j \in 1..Len(t)
       PROVE  /\ Len(t[j]) = R[j] - R[j - 1]
              /\ \A k \in 1..Len(t[j]) : t[j][k] = C[R[j - 1] + k]
              /\ \A x \in Y : ~(R[j - 1] < x /\ x < R[j])
  <2>1. CASE j \in 1..n
    <3>1. j \in 0..n /\ j - 1 \in 0..n /\ j - 1 < j
      BY <1>2, <2>1
    <3>2. t[j] = str[j] /\ R[j] = P[j] /\ R[j - 1] = P[j - 1] /\ P[j] <= Len(B)
             /\ P[j] \in Nat /\ P[j - 1] \in Nat
      BY <3>1, <1>3, <1>6, <2>1
    <3>3. ASSUME NEW k \in 1..Len(t[j]) PROVE t[j][k] = C[R[j - 1] + k]
      <4>1. Len(str[j]) \in Nat /\ Len(str[j]) = P[j] - P[j - 1] /\ k \in 1..Len(str[j])
        BY <1>2, <1>5, <2>1, <3>2
      <4>2. P[j - 1] + k \in 1..Len(B)
        BY SMTT(30), <4>1, <3>2, <1>2
      <4>3. C[P[j - 1] + k] = B[P[j - 1] + k]
        BY <4>2, <1>4
      <4>4. str[j][k] = B[P[j - 1] + k]
        BY <4>1, <1>5, <2>1
      <4>5. QED  BY <4>3, <4>4, <3>2
    <3>4. ASSUME NEW x \in Y PROVE ~(R[j - 1] < x /\ x < R[j])
      <4>1. x \in X \/ x = Len(B) \/ x = Len(B) + Len(s)
        OBVIOUS
      <4>2. QED  BY <4>1, <3>2, <1>2, <1>5, <2>1
    <3>5. QED  BY <3>2, <3>3, <3>4, <1>5, <2>1
  <2>2. CASE j = n + 1
    <3>1. n \in 0..n /\ j - 1 = n
      BY <1>2, <2>2
    <3>2. t[j] = s /\ R[j - 1] = Len(B) /\ R[j] = Len(B) + Len(s)
      BY <3>1, <2>2, <1>3, <1>5, <1>6
    <3>3. ASSUME NEW x \in Y PROVE ~(R[j - 1] < x /\ x < R[j])
      <4>1. x \in 0..Len(B) \/ x = Len(B) + Len(s)
        BY <1>2
      <4>2. QED  BY <4>1, <3>2, <1>2
    <3>4. QED  BY <3>2, <3>3, <1>2, <1>4
  <2>3. QED  BY <2>1, <2>2, <1>2, <1>3
<1>11. Cuts(R, t, C, Y, p)
  BY <1>7, <1>8, <1>9, <1>10 DEF Cuts
<1>12. QED  BY <1>11 DEF Streamed, t, C

LEMMA MergeRecord ==
    ASSUME NEW str \in Seq(Seq(Byte)), str # <<>>, NEW B \in Seq(Byte), NEW X,
           NEW p, Streamed(str, B, X, p),
           NEW s \in Seq(Byte), s # <<>>
    PROVE  /\ Streamed(Front(str) \o <<Last(str) \o s>>, B \o s, {}, p)
           /\ Front(str) \o <<Last(str) \o s>> \in Seq(Seq(Byte))
<1> DEFINE t == Front(str) \o <<Last(str) \o s>>
           C == B \o s
           n == Len(str)
           e == Last(str) \o s
<1>1. PICK P : Cuts(P, str, B, X, p)
  BY DEF Streamed
<1>2. /\ n = Len(str) /\ n \in Nat \ {0} /\ Len(B) \in Nat /\ Len(s) \in Nat \ {0}
      /\ \A j \in 1..n : str[j] \in Seq(Byte) /\ Len(str[j]) \in Nat
  BY EmptySeq, LenProperties, ElementOfSeq
<1>3. /\ e \in Seq(Byte) /\ Len(e) = Len(str[n]) + Len(s)
      /\ \A k \in 1..(Len(str[n]) + Len(s)) :
            e[k] = IF k <= Len(str[n]) THEN str[n][k] ELSE s[k - Len(str[n])]
  BY <1>2, ConcatProperties DEF Last
<1>4. t \in Seq(Seq(Byte)) /\ Len(t) = n /\ (\A j \in 1..(n - 1) : t[j] = str[j]) /\ t[n] = e
  <2>1. /\ Front(str) \in Seq(Seq(Byte)) /\ Len(Front(str)) = n - 1
        /\ \A j \in 1..(n - 1) : Front(str)[j] = str[j]
    <3>1. /\ 1 \in Int /\ n - 1 \in Int
          /\ \A i \in 1..(n - 1) : str[i] \in Seq(Byte)
      BY <1>2
    <3>2. /\ SubSeq(str, 1, n - 1) \in Seq(Seq(Byte))
          /\ Len(SubSeq(str, 1, n - 1)) = IF 1 <= n - 1 THEN (n - 1) - 1 + 1 ELSE 0
          /\ \A i \in 1..((n - 1) - 1 + 1) : SubSeq(str, 1, n - 1)[i] = str[1 + i - 1]
      BY <3>1, SubSeqProperties
    <3>3. Front(str) = SubSeq(str, 1, n - 1)
      BY DEF Front
    <3> HIDE DEF n
    <3>4. /\ (IF 1 <= n - 1 THEN (n - 1) - 1 + 1 ELSE 0) = n - 1
          /\ \A i \in 1..(n - 1) : i \in 1..((n - 1) - 1 + 1) /\ 1 + i - 1 = i
      BY <1>2
    <3>5. QED  BY <3>2, <3>3, <3>4
  <2>2. t = Append(Front(str), e)
    BY <1>3, <2>1, AppendIsConcat
  <2> HIDE DEF e, n
  <2>3. /\ Append(Front(str), e) \in Seq(Seq(Byte))
        /\ Len(Append(Front(str), e)) = Len(Front(str)) + 1
        /\ \A i \in 1..Len(Front(str)) : Append(Front(str), e)[i] = Front(str)[i]
        /\ Append(Front(str), e)[Len(Front(str)) + 1] = e
    BY <1>3, <2>1, AppendProperties
  <2> HIDE DEF t
  <2>4. QED
    BY <1>2, <2>1, <2>2, <2>3
<1>5. /\ Len(C) = Len(B) + Len(s)
      /\ \A i \in 1..(Len(B) + Len(s)) : C[i] = IF i <= Len(B) THEN B[i] ELSE s[i - Len(B)]
  BY ConcatProperties
<1>6. /\ P \in [0..n -> Nat]
      /\ P[0] = p /\ P[n] = Len(B)
      /\ \A i, j \in 0..n : i < j => P[i] < P[j]
      /\ \A j \in 1..n :
            /\ Len(str[j]) = P[j] - P[j - 1]
            /\ \A k \in 1..Len(str[j]) : str[j][k] = B[P[j - 1] + k]
  BY <1>1, <1>2 DEF Cuts
<1> HIDE DEF n, t, C, e
<1> DEFINE R == [i \in 0..n |-> IF i < n THEN P[i] ELSE Len(B) + Len(s)]
<1>7. /\ R \in [0..Len(t) -> Nat]
      /\ \A i \in 0..(n - 1) : R[i] = P[i] /\ P[i] \in Nat /\ P[i] < Len(B)
      /\ R[n] = Len(B) + Len(s)
  <2>1. \A i \in 0..(n - 1) : i \in 0..n /\ n \in 0..n /\ i < n
    BY <1>2
  <2>2. \A i \in 0..(n - 1) : R[i] = P[i] /\ P[i] \in Nat /\ P[i] < Len(B)
    BY <2>1, <1>6
  <2>3. R \in [0..Len(t) -> Nat] /\ R[n] = Len(B) + Len(s)
    BY <1>2, <1>4, <1>6
  <2>4. QED  BY <2>2, <2>3
<1> HIDE DEF R
<1>8. R[0] = p /\ R[Len(t)] = Len(C)
  BY <1>2, <1>4, <1>5, <1>6, <1>7
<1>9. ASSUME NEW i \in 0..Len(t), NEW j \in 0..Len(t), i < j PROVE R[i] < R[j]
  <2>1. i \in 0..(n - 1) /\ (j \in 0..(n - 1) \/ j = n) /\ i \in 0..n /\ j \in 0..n
    BY <1>2, <1>4, <1>9
  <2>2. QED
    BY <2>1, <1>2, <1>6, <1>7, <1>9
<1>10. ASSUME NEW j \in 1..Len(t)
       PROVE  /\ Len(t[j]) = R[j] - R[j - 1]
              /\ \A k \in 1..Len(t[j]) : t[j][k] = C[R[j - 1] + k]
  <2>0. /\ j \in 1..n /\ j - 1 \in 0..(n - 1) /\ P[j] \in Nat /\ P[j] <= Len(B) /\ P[j - 1] \in Nat
        /\ R[j - 1] = P[j - 1] /\ Len(str[j]) \in Nat /\ Len(str[j]) = P[j] - P[j - 1]
        /\ (j = n => P[j] = Len(B))
    <3>1. j \in 1..n /\ j - 1 \in 0..(n - 1) /\ (j \in 0..(n - 1) \/ j = n)
      BY <1>2, <1>4
    <3>2. QED  BY SMTT(30), <3>1, <1>2, <1>6, <1>7
  <2>3. ASSUME NEW k \in 1..Len(str[j]) PROVE str[j][k] = C[P[j - 1] + k]
    <3>1. P[j - 1] + k \in 1..(Len(B) + Len(s)) /\ P[j - 1] + k <= Len(B)
      BY <2>0, <1>2, SMTT(30)
    <3>2. QED  BY <3>1, <2>0, <1>5, <1>6
  <2>1. CASE j \in 1..(n - 1)
    <3>1. t[j] = str[j] /\ R[j] = P[j]
      BY <2>1, <1>4, <1>7, <1>2
    <3>2. QED  BY <3>1, <2>0, <2>3
  <2>2. CASE j = n
    <3>1. t[j] = e /\ R[j] = Len(B) + Len(s) /\ P[j] = Len(B) /\ Len(e) = R[j] - R[j - 1]
      <4>1. t[j] = e /\ R[j] = Len(B) + Len(s) /\ P[j] = Len(B)
        BY <2>0, <2>2, <1>4, <1>7
      <4>2. Len(e) = Len(str[j]) + Len(s)
        BY <2>2, <1>3
      <4>3. QED  BY <4>1, <4>2, <2>0, <1>2
    <3>2. ASSUME NEW k \in 1..Len(e) PROVE e[k] = C[P[j - 1] + k]
      <4>1. CASE k <= Len(str[j])
        <5>1. k \in 1..Len(str[j]) /\ k \in 1..(Len(str[n]) + Len(s))
          BY <4>1, <2>0, <2>2, <1>2, <1>3
        <5>2. QED  BY <5>1, <4>1, <2>2, <2>3, <1>3
      <4>2. CASE ~(k <= Len(str[j]))
        <5>1. /\ k \in 1..(Len(str[n]) + Len(s))
              /\ P[j - 1] + k \in 1..(Len(B) + Len(s)) /\ ~(P[j - 1] + k <= Len(B))
              /\ (P[j - 1] + k) - Len(B) = k - Len(str[n])
          <6>1. Len(str[n]) = Len(str[j]) /\ Len(e) = Len(str[j]) + Len(s) /\ P[j] = Len(B)
            BY <2>0, <2>2, <1>3
          <6>2. Len(s) \in Nat /\ Len(str[j]) \in Nat /\ P[j - 1] \in Nat /\ Len(B) \in Nat
            BY <2>0, <1>2
          <6>3. Len(B) = P[j - 1] + Len(str[j])
            <7>1. P[j] \in Nat /\ P[j - 1] \in Nat /\ Len(str[j]) = P[j] - P[j - 1]
              BY <2>0
            <7>2. P[j] = Len(B)
              BY <6>1
            <7>3. QED  BY SMTT(30), <7>1, <7>2
          <6>4. k \in Nat /\ ~(k <= Len(str[j])) /\ 1 <= k /\ k <= Len(str[j]) + Len(s)
            BY <6>1, <6>2, <4>2
          <6>5. \A a, b, c, q \in Nat :
                   b = q + a /\ ~(k <= a) /\ k <= a + c
                   => /\ k \in 1..(a + c)
                      /\ q + k \in 1..(b + c) /\ ~(q + k <= b)
                      /\ (q + k) - b = k - a
            BY <6>4
          <6>6. /\ k \in 1..(Len(str[j]) + Len(s))
                /\ P[j - 1] + k \in 1..(Len(B) + Len(s)) /\ ~(P[j - 1] + k <= Len(B))
                /\ (P[j - 1] + k) - Len(B) = k - Len(str[j])
            BY <6>2, <6>3, <6>4, <6>5, ZenonT(30)
          <6>7. QED  BY <6>1, <6>6
        <5>2. QED  BY <5>1, <4>2, <2>2, <1>3, <1>5
      <4>3. QED  BY <4>1, <4>2
    <3>3. QED  BY <3>1, <3>2, <2>0
  <2>4. QED  BY <2>0, <2>1, <2>2, <1>2
<1>11. Cuts(R, t, C, {}, p)
  BY <1>7, <1>8, <1>9, <1>10 DEF Cuts
<1>12. QED  BY <1>4, <1>11 DEF Streamed, t, C, e

LEMMA ThreeParts ==
    ASSUME NEW B \in Seq(Byte), NEW u \in Seq(Byte), NEW v \in Seq(Byte)
    PROVE  (B \o u) \o v = B \o (u \o v)
BY ConcatAssociative

LEMMA JoinRecords ==
    ASSUME NEW s \in Seq(Seq(Byte)), NEW t \in Seq(Seq(Byte))
    PROVE  /\ s \o t \in Seq(Seq(Byte)) /\ Len(s \o t) = Len(s) + Len(t)
           /\ \A i \in 1..(Len(s) + Len(t)) :
                 (s \o t)[i] = IF i <= Len(s) THEN s[i] ELSE t[i - Len(s)]
BY ConcatProperties

LEMMA FewerPoints ==
    ASSUME NEW str, NEW B, NEW X, NEW Y \in SUBSET X, NEW p, Streamed(str, B, X, p)
    PROVE  Streamed(str, B, Y, p)
BY DEF Streamed, Cuts

\* The records of a write carry the bytes s after B, and unless the first one is
\* merged none of them crosses the place where s starts.
LEMMA WriteStreamed ==
    ASSUME NEW str \in Seq(Seq(Byte)), NEW B \in Seq(Byte), NEW X \in SUBSET (0..Len(B)),
           NEW p, Streamed(str, B, X, p),
           NEW s \in Seq(Byte), s # <<>>, NEW r \in Records(s),
           NEW m \in BOOLEAN, m => str # <<>>
    PROVE  /\ Write(str, r, m) \in Seq(Seq(Byte))
           /\ Streamed(Write(str, r, m), B \o s,
                       IF m THEN {} ELSE X \cup {Len(B), Len(B) + Len(s)}, p)
<1>0. Len(B) \in Nat /\ Len(s) \in Nat \ {0}
  BY EmptySeq, LenProperties
<1>1. CASE r = <<s>>
  <2>1. CASE m
    <3> DEFINE t == Front(str) \o <<Last(str) \o s>>
    <3>1. t \in Seq(Seq(Byte)) /\ Streamed(t, B \o s, {}, p)
      BY <2>1, MergeRecord
    <3>2. Write(str, r, m) = t \o <<>>
      BY <1>1, <2>1 DEF Write
    <3> HIDE DEF t
    <3>3. t \o <<>> = t
      BY <3>1, ConcatEmptySeq
    <3>4. QED  BY <2>1, <3>1, <3>2, <3>3
  <2>2. CASE ~m
    <3>1. Write(str, r, m) = Append(str, s)
      BY <1>1, <2>2, AppendIsConcat DEF Write
    <3>2. Append(str, s) \in Seq(Seq(Byte))
      BY AppendProperties
    <3>3. QED  BY <2>2, <3>1, <3>2, AppendRecord
  <2>3. QED  BY <2>1, <2>2
<1>2. CASE \E i \in 1..(Len(s) - 1) : r = <<SubSeq(s, 1, i), SubSeq(s, i + 1, Len(s))>>
  <2>1. PICK i \in 1..(Len(s) - 1) : r = <<SubSeq(s, 1, i), SubSeq(s, i + 1, Len(s))>>
    BY <1>2
  <2> DEFINE u == SubSeq(s, 1, i)
             v == SubSeq(s, i + 1, Len(s))
  <2>2. u \in Seq(Byte) /\ v \in Seq(Byte) /\ Len(u) = i /\ Len(v) = Len(s) - i
    <3>1. \A k \in 1..Len(s) : s[k] \in Byte
      BY ElementOfSeq
    <3>2. 1 \in Int /\ i \in Int /\ i + 1 \in Int /\ Len(s) \in Int /\ 1 <= i /\ i + 1 <= Len(s)
      BY <1>0
    <3>3. (\A k \in 1..i : s[k] \in Byte) /\ (\A k \in (i + 1)..Len(s) : s[k] \in Byte)
      BY <3>1, <3>2
    <3>4. /\ u \in Seq(Byte)
          /\ Len(u) = IF 1 <= i THEN i - 1 + 1 ELSE 0
      BY <3>2, <3>3, SubSeqProperties
    <3>5. /\ v \in Seq(Byte)
          /\ Len(v) = IF i + 1 <= Len(s) THEN Len(s) - (i + 1) + 1 ELSE 0
      BY <3>2, <3>3, SubSeqProperties
    <3> HIDE DEF u, v
    <3>6. QED  BY <3>2, <3>4, <3>5
  <2>3. u \o v = s
    <3>1. 1 \in 1..(Len(s) + 1) /\ i \in (1 - 1)..Len(s) /\ Len(s) \in i..Len(s)
      BY <1>0
    <3>2. u \o v = SubSeq(s, 1, Len(s))
      BY <3>1, ConcatAdjacentSubSeq
    <3>3. QED  BY <3>2, SubSeqFull
  <2>4. r = <<u, v>>
    BY <2>1
  <2> HIDE DEF u, v
  <2>5. u # <<>> /\ v # <<>>
    BY <2>2, <1>0, EmptySeq
  <2>6. (B \o u) \o v = B \o s /\ B \o u \in Seq(Byte) /\ Len(B \o u) = Len(B) + i
    <3>1. (B \o u) \o v = B \o (u \o v)
      BY <2>2, ThreeParts
    <3>2. B \o u \in Seq(Byte) /\ Len(B \o u) = Len(B) + Len(u)
      BY <2>2, ConcatProperties
    <3>3. QED  BY <2>2, <2>3, <3>1, <3>2
  <2>7. CASE m
    <3> DEFINE t == Front(str) \o <<Last(str) \o u>>
    <3>1. t \in Seq(Seq(Byte)) /\ Streamed(t, B \o u, {}, p)
      BY <2>2, <2>5, <2>7, MergeRecord
    <3>2. Write(str, r, m) = t \o <<v>>
      BY <2>4, <2>7 DEF Write
    <3> HIDE DEF t
    <3>3. Write(str, r, m) = Append(t, v) /\ Append(t, v) \in Seq(Seq(Byte))
      BY <2>2, <3>1, <3>2, AppendIsConcat, AppendProperties
    <3> DEFINE Y == {} \cup {Len(B \o u), Len(B \o u) + Len(v)}
    <3>4. Streamed(Append(t, v), (B \o u) \o v, Y, p)
      BY <2>2, <2>5, <2>6, <3>1, AppendRecord
    <3>5. Streamed(Append(t, v), (B \o u) \o v, {}, p)
      <4>1. {} \in SUBSET Y
        OBVIOUS
      <4> HIDE DEF Y
      <4>2. QED  BY <3>4, <4>1, FewerPoints
    <3>6. QED  BY <2>6, <2>7, <3>3, <3>5
  <2>8. CASE ~m
    <3> DEFINE t == Append(str, u)
               Y == X \cup {Len(B), Len(B) + Len(u)}
               Z == Y \cup {Len(B \o u), Len(B \o u) + Len(v)}
    <3>1. t \in Seq(Seq(Byte)) /\ Streamed(t, B \o u, Y, p)
      BY <2>2, <2>5, AppendProperties, AppendRecord
    <3>2. Write(str, r, m) = Append(t, v)
      <4>1. Write(str, r, m) = str \o (<<u>> \o <<v>>)
        <5>1. <<u, v>> = Append(<<u>>, v)
          OBVIOUS
        <5>2. Append(<<u>>, v) = <<u>> \o <<v>>
          BY <2>2, AppendIsConcat
        <5>3. QED  BY <2>4, <2>8, <5>1, <5>2 DEF Write
      <4>2. str \o (<<u>> \o <<v>>) = (str \o <<u>>) \o <<v>>
        <5>1. <<u>> \in Seq(Seq(Byte)) /\ <<v>> \in Seq(Seq(Byte))
          BY <2>2
        <5>2. QED  BY <5>1, ConcatAssociative, SMTT(30)
      <4>3. QED  BY <2>2, <3>1, <4>1, <4>2, AppendIsConcat
    <3>3. Append(t, v) \in Seq(Seq(Byte))
      BY <2>2, <3>1, AppendProperties
    <3>4. Y \in SUBSET (0..Len(B \o u))
      <4>1. Len(B \o u) = Len(B) + i /\ Len(u) = i /\ i \in Nat
        BY <2>2, <2>6, <1>0
      <4>2. X \subseteq 0..(Len(B) + i)
        BY <1>0, <4>1
      <4>3. Len(B) \in 0..(Len(B) + i) /\ Len(B) + Len(u) \in 0..(Len(B) + i)
        BY <1>0, <4>1
      <4> HIDE DEF t
      <4>4. QED  BY <4>1, <4>2, <4>3
    <3> HIDE DEF t
    <3>5. Streamed(Append(t, v), (B \o u) \o v, Z, p)
      <4> HIDE DEF Y
      <4>1. QED  BY <2>2, <2>5, <2>6, <3>1, <3>4, AppendRecord
    <3>6. X \cup {Len(B), Len(B) + Len(s)} \in SUBSET Z
      <4>1. Len(B \o u) + Len(v) = Len(B) + Len(s)
        BY <2>2, <2>6, <1>0
      <4>2. QED  BY <4>1
    <3> HIDE DEF Z
    <3>7. Streamed(Append(t, v), (B \o u) \o v, X \cup {Len(B), Len(B) + Len(s)}, p)
      BY <3>5, <3>6, FewerPoints
    <3>8. QED  BY <2>6, <2>8, <3>2, <3>3, <3>7
  <2>9. QED  BY <2>7, <2>8
<1>3. QED  BY <1>1, <1>2 DEF Records

\* One SSL_read of up to n bytes returns the next bytes of B, and no more than up to
\* the next point of X.
LEMMA ReadStreamed ==
    ASSUME NEW str \in Seq(Seq(Byte)), str # <<>>, NEW B \in Seq(Byte), NEW X \in SUBSET Int,
           NEW p, Streamed(str, B, X, p), NEW n \in Nat \ {0},
           NEW g, g = Chunk(str, n), NEW rest, rest = Rest(str, n)
    PROVE  /\ p \in Nat
           /\ Len(Head(str)) \in Nat \ {0} /\ p + Len(Head(str)) <= Len(B)
           /\ \A k \in 1..Len(Head(str)) : Head(str)[k] = B[p + k]
           /\ \A x \in X : ~(p < x /\ x < p + Len(Head(str)))
           /\ g \in Seq(Byte) /\ Len(g) \in 1..n /\ Len(g) <= Len(Head(str))
           /\ \A k \in 1..Len(g) : g[k] = B[p + k]
           /\ rest \in Seq(Seq(Byte)) /\ Streamed(rest, B, X, p + Len(g))
<1> DEFINE h == Head(str)
           c == Len(str)
           w == IF Len(h) < n THEN Len(h) ELSE n
<1>1. PICK P : Cuts(P, str, B, X, p)
  BY DEF Streamed
<1>2. /\ c = Len(str) /\ c \in Nat \ {0} /\ Len(B) \in Nat
      /\ \A j \in 1..c : str[j] \in Seq(Byte) /\ Len(str[j]) \in Nat
  BY EmptySeq, LenProperties, ElementOfSeq
<1>3. /\ h = str[1] /\ h \in Seq(Byte) /\ Len(h) \in Nat
      /\ Tail(str) \in Seq(Seq(Byte)) /\ Len(Tail(str)) = c - 1
      /\ \A j \in 1..(c - 1) : Tail(str)[j] = str[j + 1]
  BY <1>2, HeadTailProperties
<1>4. /\ P \in [0..c -> Nat]
      /\ P[0] = p /\ P[c] = Len(B)
      /\ \A i, j \in 0..c : i < j => P[i] < P[j]
      /\ \A j \in 1..c :
            /\ Len(str[j]) = P[j] - P[j - 1]
            /\ \A k \in 1..Len(str[j]) : str[j][k] = B[P[j - 1] + k]
            /\ \A x \in X : ~(P[j - 1] < x /\ x < P[j])
  BY <1>1, <1>2 DEF Cuts
<1> HIDE DEF c, h
<1>5. /\ p \in Nat /\ P[1] \in Nat /\ Len(h) = P[1] - p /\ p < P[1] /\ P[1] <= Len(B)
  <2>1. 0 \in 0..c /\ 1 \in 0..c /\ c \in 0..c /\ 1 \in 1..c /\ (c = 1 \/ 1 < c) /\ 1 - 1 = 0 /\ 0 < 1
    BY <1>2
  <2>2. Len(str[1]) = P[1] - P[0]
    BY <2>1, <1>4
  <2>3. P[0] \in Nat /\ P[1] \in Nat
    BY <2>1, <1>4
  <2>4. P[0] < P[1]
    BY <2>1, <1>4
  <2>5. CASE c = 1
    BY <2>2, <2>3, <2>4, <2>5, <1>3, <1>4, <1>2
  <2>6. CASE 1 < c
    <3>1. P[1] < P[c]
      BY <2>1, <2>6, <1>4
    <3>2. QED  BY <3>1, <2>2, <2>3, <2>4, <1>3, <1>4, <1>2
  <2>7. QED  BY <2>1, <2>5, <2>6
<1>b. /\ \A k \in 1..Len(h) : h[k] = B[p + k]
      /\ \A x \in X : ~(p < x /\ x < P[1])
  <2>1. 1 \in 1..c /\ 1 - 1 = 0
    BY <1>2
  <2>2. QED  BY <2>1, <1>3, <1>4
<1>6. Len(h) \in Nat \ {0} /\ P[1] = p + Len(h)
  <2>1. \A a, b, d \in Nat : d = b - a /\ a < b => d # 0 /\ b = a + d
    OBVIOUS
  <2>2. Len(h) \in Nat
    BY <1>3
  <2>3. QED  BY <1>5, <2>1, <2>2
<1>7. w \in 1..n /\ w <= Len(h) /\ w \in 1..Len(h) /\ (Len(h) <= n => w = Len(h)) /\ (n < Len(h) => w = n)
  BY <1>6
<1> HIDE DEF w
<1>8. /\ g \in Seq(Byte) /\ Len(g) = w
      /\ \A k \in 1..w : g[k] = h[k]
  <2>1. \A k \in 1..w : h[k] \in Byte
    BY <1>3, <1>6, <1>7, ElementOfSeq
  <2>2. g = SubSeq(h, 1, w)
    BY DEF w, h, Chunk
  <2>3. 1 \in Int /\ w \in Int /\ 1 <= w /\ w - 1 + 1 = w
    BY <1>7
  <2>4. /\ SubSeq(h, 1, w) \in Seq(Byte)
        /\ Len(SubSeq(h, 1, w)) = IF 1 <= w THEN w - 1 + 1 ELSE 0
        /\ \A i \in 1..(w - 1 + 1) : SubSeq(h, 1, w)[i] = h[1 + i - 1]
    BY <2>1, <2>3, SubSeqProperties
  <2>5. \A i \in 1..w : 1 + i - 1 = i
    BY <1>7
  <2>6. QED  BY <2>2, <2>3, <2>4, <2>5
<1>9. \A k \in 1..Len(g) : g[k] = B[p + k]
  <2>1. SUFFICES ASSUME NEW k \in 1..Len(g)
                 PROVE  g[k] = B[p + k]
    OBVIOUS
  <2>2. k \in 1..w /\ k \in 1..Len(h)
    BY <1>6, <1>7, <1>8
  <2>3. QED  BY <2>2, <1>b, <1>8
<1>10. CASE Len(h) <= n
  <2>1. rest = Tail(str) /\ p + Len(g) = P[1]
    BY <1>10, <1>6, <1>7, <1>8 DEF h, Rest
  <2> DEFINE R == [i \in 0..(c - 1) |-> P[i + 1]]
  <2>2. /\ \A i \in 0..(c - 1) : R[i] = P[i + 1] /\ i + 1 \in 0..c
        /\ R \in [0..(c - 1) -> Nat]
    BY <1>2, <1>4
  <2> HIDE DEF R
  <2>3. R[0] = P[1] /\ R[c - 1] = Len(B)
    <3>1. 0 \in 0..(c - 1) /\ c - 1 \in 0..(c - 1) /\ 0 + 1 = 1 /\ (c - 1) + 1 = c
      BY <1>2
    <3>2. QED  BY <3>1, <2>2, <1>4
  <2>4. ASSUME NEW i \in 0..(c - 1), NEW j \in 0..(c - 1), i < j PROVE R[i] < R[j]
    <3>1. i + 1 < j + 1
      BY <2>4, <1>2
    <3>2. QED  BY <3>1, <2>2, <1>4
  <2>5. ASSUME NEW j \in 1..(c - 1)
        PROVE  /\ Len(Tail(str)[j]) = R[j] - R[j - 1]
               /\ \A k \in 1..Len(Tail(str)[j]) : Tail(str)[j][k] = B[R[j - 1] + k]
               /\ \A x \in X : ~(R[j - 1] < x /\ x < R[j])
    <3>1. j \in 0..(c - 1) /\ j - 1 \in 0..(c - 1) /\ (j - 1) + 1 = j /\ j + 1 \in 1..c /\ (j + 1) - 1 = j
      BY <1>2
    <3>2. Tail(str)[j] = str[j + 1] /\ R[j] = P[j + 1] /\ R[j - 1] = P[j]
      BY <3>1, <2>2, <1>3
    <3>3. /\ Len(str[j + 1]) = P[j + 1] - P[j]
          /\ \A k \in 1..Len(str[j + 1]) : str[j + 1][k] = B[P[j] + k]
          /\ \A x \in X : ~(P[j] < x /\ x < P[j + 1])
      BY <3>1, <1>4
    <3>4. QED  BY <3>2, <3>3
  <2>6. Cuts(R, Tail(str), B, X, P[1])
    BY <2>2, <2>3, <2>4, <2>5, <1>3 DEF Cuts
  <2>7. Streamed(rest, B, X, p + Len(g))
    BY <2>1, <2>6 DEF Streamed
  <2>8. QED  BY <2>1, <2>7, <1>3, <1>5, <1>b, <1>6, <1>7, <1>8, <1>9 DEF h
<1>11. CASE ~(Len(h) <= n)
  <2> DEFINE v == SubSeq(h, n + 1, Len(h))
  <2>1. w = n /\ n < Len(h) /\ Len(g) = n
    BY <1>11, <1>6, <1>7, <1>8
  <2>2. v \in Seq(Byte) /\ Len(v) = Len(h) - n /\ \A k \in 1..(Len(h) - n) : v[k] = h[n + k]
    <3>1. \A k \in (n + 1)..Len(h) : h[k] \in Byte
      BY <1>3, <1>6, ElementOfSeq
    <3>2. n + 1 \in Int /\ Len(h) \in Int /\ n + 1 <= Len(h) /\ Len(h) - (n + 1) + 1 = Len(h) - n
      BY <1>6, <2>1
    <3>3. /\ v \in Seq(Byte)
          /\ Len(v) = IF n + 1 <= Len(h) THEN Len(h) - (n + 1) + 1 ELSE 0
          /\ \A i \in 1..(Len(h) - (n + 1) + 1) : v[i] = h[(n + 1) + i - 1]
      BY <3>1, <3>2, SubSeqProperties
    <3>4. \A i \in 1..(Len(h) - n) : (n + 1) + i - 1 = n + i
      BY <1>6
    <3> HIDE DEF v
    <3>5. QED  BY <3>2, <3>3, <3>4
  <2>3. rest = <<v>> \o Tail(str)
    BY <1>11 DEF h, Rest
  <2> HIDE DEF v
  <2>4. /\ rest \in Seq(Seq(Byte)) /\ Len(rest) = c
        /\ rest[1] = v /\ \A j \in 2..c : rest[j] = str[j]
    <3> DEFINE u == <<v>>
    <3>1. u \in Seq(Seq(Byte)) /\ Len(u) = 1 /\ u[1] = v
      BY <2>2
    <3>0. rest = u \o Tail(str)
      BY <2>3
    <3> HIDE DEF u
    <3>2. /\ rest \in Seq(Seq(Byte)) /\ Len(rest) = Len(u) + Len(Tail(str))
          /\ \A i \in 1..(Len(u) + Len(Tail(str))) :
                rest[i] = IF i <= Len(u) THEN u[i] ELSE Tail(str)[i - Len(u)]
      <4>1. Tail(str) \in Seq(Seq(Byte))
        BY <1>3
      <4>2. u \in Seq(Seq(Byte))
        BY <3>1
      <4> HIDE DEF c
      <4> DEFINE tl == Tail(str)
      <4> HIDE DEF tl
      <4>3. /\ u \o tl \in Seq(Seq(Byte)) /\ Len(u \o tl) = Len(u) + Len(tl)
            /\ \A i \in 1..(Len(u) + Len(tl)) :
                  (u \o tl)[i] = IF i <= Len(u) THEN u[i] ELSE tl[i - Len(u)]
        BY <4>1, <4>2, JoinRecords DEF tl
      <4>4. QED  BY <3>0, <4>3 DEF tl
    <3>3. \A j \in 2..c : j \in 1..(1 + (c - 1)) /\ ~(j <= 1) /\ j - 1 \in 1..(c - 1) /\ (j - 1) + 1 = j
      BY <1>2
    <3>4. 1 \in 1..(1 + (c - 1)) /\ 1 + (c - 1) = c
      BY <1>2
    <3>5. rest[1] = v
      <4>1. rest[1] = IF 1 <= Len(u) THEN u[1] ELSE Tail(str)[1 - Len(u)]
        BY <3>1, <3>2, <3>4, <1>3
      <4>2. 1 <= Len(u)
        BY <3>1
      <4>3. QED  BY <4>1, <4>2, <3>1
    <3>6. ASSUME NEW j \in 2..c PROVE rest[j] = str[j]
      <4>1. rest[j] = Tail(str)[j - 1]
        BY <3>1, <3>2, <3>3, <1>3
      <4>2. QED  BY <4>1, <3>3, <1>3
    <3>7. QED  BY <3>1, <3>2, <3>4, <3>5, <3>6, <1>3
  <2> DEFINE R == [i \in 0..c |-> IF i = 0 THEN p + n ELSE P[i]]
  <2>5. R \in [0..c -> Nat] /\ R[0] = p + n /\ \A i \in 1..c : R[i] = P[i] /\ P[i] \in Nat
    <3>1. p + n \in Nat /\ 0 \in 0..c /\ \A i \in 1..c : i \in 0..c /\ i # 0
      BY <1>2, <1>5
    <3>2. QED  BY <3>1, <1>4
  <2> HIDE DEF R
  <2>6. R[c] = Len(B)
    BY <2>5, <1>2, <1>4
  <2>7. p + n < P[1]
    BY <2>1, <1>5, <1>6
  <2>8. ASSUME NEW i \in 0..c, NEW j \in 0..c, i < j PROVE R[i] < R[j]
    <3>1. CASE i = 0
      <4>1. j \in 1..c /\ 1 \in 0..c /\ (j = 1 \/ 1 < j)
        BY <3>1, <2>8, <1>2
      <4>2. P[1] <= P[j]
        <5>1. CASE j = 1
          BY <5>1, <1>5
        <5>2. CASE 1 < j
          BY <5>2, <4>1, <2>8, <2>5, <1>4, <1>5
        <5>3. QED  BY <4>1, <5>1, <5>2
      <4>3. QED  BY <4>1, <4>2, <3>1, <2>5, <2>7, <1>5
    <3>2. CASE i # 0
      <4>1. i \in 1..c /\ j \in 1..c
        BY <3>2, <2>8, <1>2
      <4>2. QED  BY <4>1, <2>5, <2>8, <1>4
    <3>3. QED  BY <3>1, <3>2
  <2>9. ASSUME NEW j \in 1..c
        PROVE  /\ Len(rest[j]) = R[j] - R[j - 1]
               /\ \A k \in 1..Len(rest[j]) : rest[j][k] = B[R[j - 1] + k]
               /\ \A x \in X : ~(R[j - 1] < x /\ x < R[j])
    <3>1. CASE j = 1
      <4>1. rest[j] = v /\ R[j] = P[1] /\ R[j - 1] = p + n
        BY <3>1, <2>4, <2>5, <1>2
      <4>2. Len(v) = P[1] - (p + n)
        BY <2>2, <1>5, <1>6
      <4>3. ASSUME NEW k \in 1..Len(v) PROVE v[k] = B[(p + n) + k]
        <5>1. k \in 1..(Len(h) - n) /\ n + k \in 1..Len(h) /\ p + (n + k) = (p + n) + k
          BY <2>1, <2>2, <1>5, <1>6
        <5>2. QED  BY <5>1, <2>2, <1>b
      <4>4. ASSUME NEW x \in X, p + n < x, x < P[1] PROVE FALSE
        <5>1. ~(p < x /\ x < P[1])
          BY <1>b
        <5>2. QED  BY <4>4, <5>1, <1>5
      <4>5. QED  BY <4>1, <4>2, <4>3, <4>4
    <3>2. CASE j # 1
      <4>1. j \in 2..c /\ j - 1 \in 1..c
        BY <3>2, <1>2
      <4>2. rest[j] = str[j] /\ R[j] = P[j] /\ R[j - 1] = P[j - 1]
        BY <4>1, <2>4, <2>5
      <4>3. j \in 1..c
        BY <4>1
      <4>4. QED  BY <4>2, <4>3, <1>4
    <3>3. QED  BY <3>1, <3>2
  <2>10. Cuts(R, rest, B, X, p + n)
    BY <2>4, <2>5, <2>6, <2>8, <2>9 DEF Cuts
  <2>11. Streamed(rest, B, X, p + Len(g))
    BY <2>1, <2>10 DEF Streamed
  <2>12. QED  BY <2>4, <2>11, <1>5, <1>b, <1>6, <1>7, <1>8, <1>9 DEF h
<1>12. QED  BY <1>10, <1>11

-------------------------------------------------------------------------------
(* The first '\n' of what was read.                                        *)

LEMMA LeastNat ==
    ASSUME NEW S \in SUBSET Nat, S # {}
    PROVE  Min(S) \in S /\ \A y \in S : Min(S) <= y
<1>1. \E x \in S : \A y \in S : ~(<<y, x>> \in OpToRel(<, Nat))
  BY NatLessThanWellFounded, WFMin
<1>2. \E x \in S : \A y \in S : x <= y
  <2>1. PICK x \in S : \A y \in S : ~(<<y, x>> \in OpToRel(<, Nat))
    BY <1>1
  <2>2. ASSUME NEW y \in S, ~(x <= y) PROVE FALSE
    <3>1. y < x /\ y \in Nat /\ x \in Nat
      BY <2>2
    <3>2. <<y, x>> \in OpToRel(<, Nat)
      BY <3>1 DEF OpToRel
    <3>3. QED  BY <2>1, <3>2
  <2>3. QED  BY <2>2
<1>3. QED  BY <1>2 DEF Min

LEMMA FirstNL ==
    ASSUME NEW data \in Seq(Byte), NL \in Range(data),
           NEW p, p = SelectInSeq(data, LAMBDA b : b = NL)
    PROVE  /\ p \in 1..Len(data) /\ data[p] = NL
           /\ \A q \in 1..Len(data) : q < p => data[q] # NL
<1> DEFINE I == {i \in 1..Len(data) : data[i] = NL}
<1>1. Len(data) \in Nat
  BY LenProperties
<1>2. I \in SUBSET Nat
  BY <1>1
<1>3. I # {}
  BY RangeEquality
<1>4. p = Min(I)
  BY <1>3 DEF SelectInSeq
<1>5. p \in I /\ \A y \in I : p <= y
  <2> HIDE DEF I
  <2>1. QED  BY <1>2, <1>3, <1>4, LeastNat, ZenonT(30)
<1>6. p \in 1..Len(data) /\ data[p] = NL
  BY <1>5
<1>7. ASSUME NEW q \in 1..Len(data), q < p PROVE data[q] # NL
  <2>1. q \in Nat /\ p \in Nat /\ ~(p <= q)
    BY <1>1, <1>6, <1>7
  <2>2. QED  BY <2>1, <1>5
<1>8. QED  BY <1>6, <1>7

\* What `accumulatedData += buffer' appends: a part, and all that has no NUL.
LEMMA FirstNUL ==
    ASSUME NEW s \in Seq(Byte), NUL \in Range(s),
           NEW p, p = SelectInSeq(s, LAMBDA b : b = NUL)
    PROVE  p \in 1..Len(s)
<1> DEFINE I == {i \in 1..Len(s) : s[i] = NUL}
<1>1. I \in SUBSET Nat /\ I # {}
  BY LenProperties, RangeEquality
<1>2. p = Min(I)
  BY <1>1 DEF SelectInSeq
<1>3. p \in I
  <2> HIDE DEF I
  <2>1. QED  BY <1>1, <1>2, LeastNat, ZenonT(30)
<1>4. QED  BY <1>3

LEMMA TextType ==
    ASSUME NEW s \in Seq(Byte)
    PROVE  Text(s) \in Seq(Byte) /\ Len(Text(s)) \in Nat /\ Len(Text(s)) <= Len(s)
<1>1. Len(s) \in Nat
  BY LenProperties
<1>2. CASE NUL \notin Range(s)
  BY <1>1, <1>2 DEF Text
<1>3. CASE NUL \in Range(s)
  <2>1. PICK p : p = SelectInSeq(s, LAMBDA b : b = NUL)
    OBVIOUS
  <2>2. p \in 1..Len(s)
    BY <1>3, <2>1, FirstNUL
  <2>3. p - 1 \in 0..Len(s)
    BY <1>1, <2>2
  <2>4. SubSeq(s, 1, p - 1) \in Seq(Byte) /\ Len(SubSeq(s, 1, p - 1)) = p - 1
    BY <2>3, Prefix
  <2>5. Text(s) = SubSeq(s, 1, p - 1)
    BY <1>3, <2>1 DEF Text
  <2>6. QED  BY <1>1, <2>3, <2>4, <2>5
<1>4. QED  BY <1>2, <1>3

LEMMA WholeText ==
    ASSUME NEW s \in Seq(Byte), \A k \in 1..Len(s) : s[k] # NUL
    PROVE  Text(s) = s
<1>1. NUL \notin Range(s)
  BY RangeEquality
<1>2. QED  BY <1>1 DEF Text

-------------------------------------------------------------------------------
(* Types.                                                                  *)

LEMMA RecordsType ==
    ASSUME NEW s \in Seq(Byte), NEW r \in Records(s)
    PROVE  r \in Seq(Seq(Byte)) /\ r # <<>>
<1>1. CASE r = <<s>>
  BY <1>1
<1>2. ASSUME NEW i \in 1..(Len(s) - 1), r = <<SubSeq(s, 1, i), SubSeq(s, i + 1, Len(s))>>
      PROVE  r \in Seq(Seq(Byte)) /\ r # <<>>
  <2>1. Len(s) \in Nat /\ \A k \in 1..Len(s) : s[k] \in Byte
    BY LenProperties, ElementOfSeq
  <2>2. /\ 1 \in Int /\ i \in Int /\ i + 1 \in Int /\ Len(s) \in Int
        /\ (\A k \in 1..i : s[k] \in Byte) /\ (\A k \in (i + 1)..Len(s) : s[k] \in Byte)
    BY <2>1
  <2>3. SubSeq(s, 1, i) \in Seq(Byte)
    BY <2>2, SubSeqProperties
  <2>4. SubSeq(s, i + 1, Len(s)) \in Seq(Byte)
    BY <2>2, SubSeqProperties
  <2>5. QED  BY <1>2, <2>3, <2>4
<1>3. QED  BY <1>1, <1>2 DEF Records

LEMMA WriteType ==
    ASSUME NEW str \in Seq(Seq(Byte)), NEW s \in Seq(Byte), NEW r \in Records(s),
           NEW m \in BOOLEAN, m => str # <<>>
    PROVE  Write(str, r, m) \in Seq(Seq(Byte)) /\ Write(str, r, m) # <<>>
<1>1. r \in Seq(Seq(Byte)) /\ r # <<>>
  BY RecordsType
<1>2. Head(r) \in Seq(Byte) /\ Tail(r) \in Seq(Seq(Byte))
  BY <1>1, HeadTailProperties
<1>3. CASE ~m
  <2>1. str \o r \in Seq(Seq(Byte)) /\ Len(str \o r) = Len(str) + Len(r)
    BY <1>1, JoinRecords
  <2>2. Len(r) \in Nat \ {0} /\ Len(str) \in Nat
    BY <1>1, EmptySeq, LenProperties
  <2>3. str \o r # <<>>
    BY <2>1, <2>2, EmptySeq
  <2>4. QED  BY <1>3, <2>1, <2>3 DEF Write
<1>4. CASE m
  <2> DEFINE t == Front(str) \o <<Last(str) \o Head(r)>>
  <2>1. Len(str) \in Nat \ {0} /\ \A k \in 1..Len(str) : str[k] \in Seq(Byte)
    BY <1>4, EmptySeq, ElementOfSeq
  <2>2. Last(str) \in Seq(Byte)
    BY <2>1 DEF Last
  <2>3. Front(str) \in Seq(Seq(Byte))
    <3>1. 1 \in Int /\ Len(str) - 1 \in Int /\ \A k \in 1..(Len(str) - 1) : str[k] \in Seq(Byte)
      BY <2>1
    <3>2. SubSeq(str, 1, Len(str) - 1) \in Seq(Seq(Byte))
      BY <3>1, SubSeqProperties
    <3>3. QED  BY <3>2 DEF Front
  <2>4. Last(str) \o Head(r) \in Seq(Byte)
    BY <1>2, <2>2, ConcatProperties
  <2>5. t \in Seq(Seq(Byte)) /\ Len(t) # 0
    <3> DEFINE u == <<Last(str) \o Head(r)>>
    <3>1. u \in Seq(Seq(Byte)) /\ Len(u) = 1
      BY <2>4
    <3> HIDE DEF u
    <3>2. Front(str) \o u \in Seq(Seq(Byte)) /\ Len(Front(str) \o u) = Len(Front(str)) + Len(u)
      BY <2>3, <3>1, JoinRecords
    <3>3. Len(Front(str)) \in Nat
      BY <2>3, LenProperties
    <3>4. QED  BY <3>1, <3>2, <3>3 DEF u
  <2>6. Write(str, r, m) = t \o Tail(r)
    BY <1>4 DEF Write
  <2> HIDE DEF t
  <2>7. t \o Tail(r) \in Seq(Seq(Byte)) /\ Len(t \o Tail(r)) = Len(t) + Len(Tail(r))
    BY <1>2, <2>5, JoinRecords
  <2>8. Len(t) \in Nat \ {0} /\ Len(Tail(r)) \in Nat
    BY <1>2, <2>5, LenProperties
  <2>9. t \o Tail(r) # <<>>
    BY <2>7, <2>8, EmptySeq
  <2>10. QED  BY <2>6, <2>7, <2>9
<1>5. QED  BY <1>3, <1>4

LEMMA ReadType ==
    ASSUME NEW str \in Seq(Seq(Byte)), str # <<>>, NEW n \in Nat \ {0},
           NEW g, g = Chunk(str, n), NEW rest, rest = Rest(str, n)
    PROVE  g \in Seq(Byte) /\ Len(g) \in 0..n /\ rest \in Seq(Seq(Byte))
<1> DEFINE h == Head(str)
           w == IF Len(h) < n THEN Len(h) ELSE n
<1>1. h \in Seq(Byte) /\ Tail(str) \in Seq(Seq(Byte))
  BY HeadTailProperties
<1> HIDE DEF h
<1>2. Len(h) \in Nat /\ \A k \in 1..Len(h) : h[k] \in Byte
  BY <1>1, LenProperties, ElementOfSeq
<1>3. w \in 0..n /\ w <= Len(h) /\ 1 \in Int /\ w \in Int /\ \A k \in 1..w : h[k] \in Byte
  BY <1>2
<1>4. g = SubSeq(h, 1, w)
  BY DEF h, Chunk
<1> HIDE DEF w
<1>5. SubSeq(h, 1, w) \in Seq(Byte) /\ Len(SubSeq(h, 1, w)) = IF 1 <= w THEN w - 1 + 1 ELSE 0
  BY <1>3, SubSeqProperties
<1>6. g \in Seq(Byte) /\ Len(g) \in 0..n
  BY <1>3, <1>4, <1>5
<1>7. CASE Len(h) <= n
  BY <1>1, <1>6, <1>7 DEF h, Rest
<1>8. CASE ~(Len(h) <= n)
  <2> DEFINE u == <<SubSeq(h, n + 1, Len(h))>>
  <2>1. n + 1 \in Int /\ Len(h) \in Int /\ \A k \in (n + 1)..Len(h) : h[k] \in Byte
    BY <1>2
  <2>2. SubSeq(h, n + 1, Len(h)) \in Seq(Byte)
    BY <2>1, SubSeqProperties
  <2>3. u \in Seq(Seq(Byte))
    BY <2>2
  <2>4. rest = u \o Tail(str)
    BY <1>8 DEF h, Rest
  <2> HIDE DEF u
  <2>5. rest \in Seq(Seq(Byte))
    BY <1>1, <2>3, <2>4, JoinRecords
  <2>6. QED  BY <1>6, <2>5
<1>9. QED  BY <1>7, <1>8

LEMMA Sizes ==
    /\ FileSize \in Nat \ {0} /\ maxMessageSize \in Nat \ {0} /\ BufferSize \in Nat \ {0}
    /\ NL \in Byte /\ FileByte \in Byte /\ Download \in Lines /\ Download # <<>>
BY FramingAssumption

LEMMA ReadStep ==
    ASSUME NEW n \in Nat \ {0}, Read(n), stream \in Seq(Seq(Byte))
    PROVE  Got(n) \in Seq(Byte) /\ Len(Got(n)) \in 0..n /\ stream' \in Seq(Seq(Byte))
<1>1. stream # <<>> /\ stream' = Rest(stream, n)
  BY DEF Read, Rest
<1>2. Got(n) = Chunk(stream, n)
  BY DEF Got, Chunk
<1>3. QED  BY <1>1, <1>2, ReadType

\* What Parse leaves in the session's variables.
LEMMA ParseStep ==
    ASSUME TypeInv, NEW data \in Seq(Byte), Parse(data)
    PROVE  /\ accumulatedData' \in Seq(Byte) /\ Len(accumulatedData') <= Len(data)
           /\ answers' \in Seq(Replies) /\ orderly' \in BOOLEAN
           /\ open' \in BOOLEAN /\ crashed' \in BOOLEAN /\ (crashed' => ~open')
           /\ mode' \in {"command", "file"}
           /\ \/ mode' = mode /\ totalBytesRead' = totalBytesRead
              \/ totalBytesRead' = 0
<1>1. Len(data) \in Nat /\ \A i \in 1..Len(data) : data[i] \in Byte
  BY LenProperties, ElementOfSeq
<1>2. CASE NL \notin Range(data)
  BY <1>1, <1>2 DEF Parse, TypeInv, TypeOK
<1>3. CASE NL \in Range(data)
  <2> DEFINE p == SelectInSeq(data, LAMBDA b : b = NL)
  <2>1. p \in 1..Len(data)
    BY <1>3, FirstNL
  <2>2. accumulatedData' = SubSeq(data, p + 1, Len(data)) /\ Obey(SubSeq(data, 1, p - 1))
    BY <1>3 DEF Parse
  <2> HIDE DEF p
  <2>3. SubSeq(data, p + 1, Len(data)) \in Seq(Byte)
        /\ Len(SubSeq(data, p + 1, Len(data))) = IF p + 1 <= Len(data) THEN Len(data) - (p + 1) + 1 ELSE 0
    <3>1. p + 1 \in Int /\ Len(data) \in Int /\ \A i \in (p + 1)..Len(data) : data[i] \in Byte
      BY <1>1, <2>1
    <3>2. QED  BY <3>1, SubSeqProperties
  <2>4. SubSeq(data, 1, p - 1) \in Seq(Byte)
    <3>1. 1 \in Int /\ p - 1 \in Int /\ \A i \in 1..(p - 1) : data[i] \in Byte
      BY <1>1, <2>1
    <3>2. QED  BY <3>1, SubSeqProperties
  <2> DEFINE l == SubSeq(data, 1, p - 1)
             u == SubSeq(data, p + 1, Len(data))
  <2> HIDE DEF l, u
  <2>5. Answer(l) \in Replies /\ Nack \in Replies
    BY <2>4 DEF Replies, l
  <2>6. Len(u) <= Len(data) /\ u \in Seq(Byte) /\ accumulatedData' = u /\ Obey(l)
    BY <1>1, <2>1, <2>2, <2>3 DEF u, l
  <2>7. \A e \in Replies : Append(answers, e) \in Seq(Replies)
    BY AppendProperties DEF TypeInv
  <2> DEFINE Kept == /\ answers' \in Seq(Replies) /\ orderly' \in BOOLEAN
                     /\ open' \in BOOLEAN /\ crashed' \in BOOLEAN /\ (crashed' => ~open')
                     /\ mode' \in {"command", "file"}
                     /\ \/ mode' = mode /\ totalBytesRead' = totalBytesRead
                        \/ totalBytesRead' = 0
  <2>8. ASSUME Reply(l) PROVE Kept
    BY <2>5, <2>7, <2>8 DEF Reply, TypeInv, TypeOK
  <2>9. ASSUME Crash PROVE Kept
    BY <2>9 DEF Crash, TypeInv, TypeOK
  <2>10. ASSUME StartFile PROVE Kept
    BY <2>10 DEF StartFile, TypeInv, TypeOK
  <2>11. ASSUME Refuse PROVE Kept
    BY <2>5, <2>7, <2>11 DEF Refuse, TypeInv, TypeOK
  <2>12. Kept
    BY <2>6, <2>8, <2>9, <2>10, <2>11 DEF Obey
  <2>13. QED  BY <2>6, <2>12
<1>4. QED  BY <1>2, <1>3

LEMMA TypeStep == TypeInv /\ [Next]_vars => TypeInv'
<1> SUFFICES ASSUME TypeInv, [Next]_vars PROVE TypeInv'
  OBVIOUS
<1> USE Sizes
<1>0. /\ hungup \in BOOLEAN /\ open \in BOOLEAN /\ crashed \in BOOLEAN /\ orderly \in BOOLEAN
      /\ crashed => ~open
      /\ Len(accumulatedData) <= 2 * maxMessageSize /\ mode \in {"command", "file"}
      /\ totalBytesRead \in 0..(FileSize + BufferSize - 1)
      /\ stream \in Seq(Seq(Byte)) /\ sent \in Seq(Lines)
      /\ accumulatedData \in Seq(Byte) /\ Len(accumulatedData) \in Nat
      /\ answers \in Seq(Replies)
      /\ open => Len(accumulatedData) <= maxMessageSize
      /\ mode = "file" => totalBytesRead < FileSize
  BY LenProperties DEF TypeInv, TypeOK
<1>a. \A e \in Replies : Append(answers, e) \in Seq(Replies)
  BY <1>0, AppendProperties
<1>b. Nack \in Replies /\ Stored \in Replies
  BY DEF Replies
<1>1. ASSUME NEW l \in Lines, SendCommand(l) PROVE TypeInv'
  <2>1. Append(l, NL) \in Seq(Byte) /\ Content \in Seq(Byte)
    BY LineType, ContentType
  <2>2. PICK r \in Records(Append(l, NL)), m \in {stream # <<>>, FALSE} :
           LET str == Write(stream, r, m)
           IN IF l = Download
              THEN \E c \in Records(Content), n \in BOOLEAN :
                      /\ stream' = Write(str, c, n)
                      /\ orderly' = (orderly /\ ~m /\ ~n)
              ELSE /\ stream' = str
                   /\ orderly' = (orderly /\ ~m)
    BY <1>1 DEF SendCommand
  <2> DEFINE str == Write(stream, r, m)
  <2>3. m \in BOOLEAN /\ (m => stream # <<>>)
    OBVIOUS
  <2>4. str \in Seq(Seq(Byte))
    BY <2>1, <2>3, <1>0, WriteType
  <2>5. stream' \in Seq(Seq(Byte)) /\ orderly' \in BOOLEAN
    <3>1. CASE l # Download
      BY <3>1, <2>2, <2>4, <2>3, <1>0
    <3>2. CASE l = Download
      <4>1. PICK c \in Records(Content), n \in BOOLEAN :
               stream' = Write(str, c, n) /\ orderly' = (orderly /\ ~m /\ ~n)
        BY <3>2, <2>2
      <4>2. str # <<>>
        BY <2>1, <2>3, <1>0, WriteType
      <4> HIDE DEF str
      <4>3. QED  BY <4>1, <4>2, <2>1, <2>4, WriteType
    <3>3. QED  BY <3>1, <3>2
  <2>6. sent' = Append(sent, l) /\ UNCHANGED <<hungup, serverVars>>
    BY <1>1 DEF SendCommand
  <2>7. sent' \in Seq(Lines)
    BY <2>6, <1>0, AppendProperties
  <2>8. QED
    BY <2>5, <2>6, <2>7, <1>0 DEF TypeInv, TypeOK, serverVars
<1>2. CASE HangUp
  BY <1>0, <1>2 DEF HangUp, serverVars, TypeInv, TypeOK
<1>3. CASE ReadCommand
  <2> DEFINE g == Text(Got(maxMessageSize))
             data == accumulatedData \o g
  <2>1. /\ open /\ mode = "command" /\ Read(maxMessageSize) /\ UNCHANGED clientVars
        /\ IF Len(data) > maxMessageSize THEN Reject(data) ELSE Parse(data)
    BY <1>3 DEF ReadCommand
  <2>2. /\ stream' \in Seq(Seq(Byte))
        /\ g \in Seq(Byte) /\ Len(g) \in 0..maxMessageSize
    <3>1. stream' \in Seq(Seq(Byte))
          /\ Got(maxMessageSize) \in Seq(Byte) /\ Len(Got(maxMessageSize)) \in 0..maxMessageSize
      BY <2>1, <1>0, ReadStep
    <3>2. g \in Seq(Byte) /\ Len(g) \in Nat /\ Len(g) <= Len(Got(maxMessageSize))
      BY <3>1, TextType
    <3>3. QED  BY <3>1, <3>2
  <2> HIDE DEF g
  <2>3. data \in Seq(Byte) /\ Len(data) = Len(accumulatedData) + Len(g)
    BY <2>2, <1>0, ConcatProperties
  <2> HIDE DEF data
  <2>4. Len(data) <= 2 * maxMessageSize /\ Len(data) \in Nat
    BY <2>1, <2>2, <2>3, <1>0
  <2>5. CASE Len(data) > maxMessageSize
    BY <2>1, <2>2, <2>3, <2>4, <2>5, <1>0, <1>a, <1>b DEF Reject, TypeInv, TypeOK, clientVars
  <2>6. CASE ~(Len(data) > maxMessageSize)
    <3>1. /\ accumulatedData' \in Seq(Byte) /\ Len(accumulatedData') <= Len(data)
          /\ answers' \in Seq(Replies) /\ orderly' \in BOOLEAN
          /\ open' \in BOOLEAN /\ crashed' \in BOOLEAN /\ (crashed' => ~open')
          /\ mode' \in {"command", "file"}
          /\ \/ mode' = mode /\ totalBytesRead' = totalBytesRead
             \/ totalBytesRead' = 0
      BY <2>1, <2>3, <2>6, ParseStep
    <3>2. totalBytesRead' \in 0..(FileSize + BufferSize - 1) /\ (mode' = "file" => totalBytesRead' < FileSize)
      BY <3>1, <1>0
    <3>3. Len(accumulatedData') \in Nat
      BY <3>1, LenProperties
    <3>4. Len(accumulatedData') <= maxMessageSize /\ Len(accumulatedData') <= 2 * maxMessageSize
      BY <3>1, <3>3, <2>4, <2>6
    <3>5. QED  BY <3>1, <3>2, <3>4, <2>1, <2>2, <2>6, <1>0 DEF TypeInv, TypeOK, clientVars
  <2>7. QED  BY <2>5, <2>6
<1>4. CASE ReadFile
  <2>1. /\ open /\ mode = "file" /\ Read(BufferSize)
        /\ totalBytesRead' = totalBytesRead + Len(Got(BufferSize))
        /\ IF totalBytesRead' >= FileSize
           THEN EndFile(totalBytesRead')
           ELSE UNCHANGED <<mode, answers>>
        /\ UNCHANGED <<clientVars, accumulatedData, open, crashed, orderly>>
    BY <1>4 DEF ReadFile
  <2>2. stream' \in Seq(Seq(Byte)) /\ Len(Got(BufferSize)) \in 0..BufferSize
    BY <2>1, <1>0, ReadStep
  <2>3. totalBytesRead' \in 0..(FileSize + BufferSize - 1)
    BY <2>1, <2>2, <1>0
  <2>4. /\ mode' \in {"command", "file"} /\ (mode' = "file" => totalBytesRead' < FileSize)
        /\ answers' \in Seq(Replies)
    <3>1. CASE totalBytesRead' >= FileSize
      BY <2>1, <3>1, <1>a, <1>b DEF EndFile
    <3>2. CASE ~(totalBytesRead' >= FileSize)
      BY <2>1, <2>3, <3>2, <1>0
    <3>3. QED  BY <3>1, <3>2
  <2>5. QED  BY <2>1, <2>2, <2>3, <2>4, <1>0 DEF TypeInv, TypeOK, clientVars
<1>5. CASE ReadFails
  BY <1>0, <1>5, <1>a, <1>b DEF ReadFails, EndFile, TypeInv, TypeOK, clientVars
<1>6. CASE UNCHANGED vars
  BY <1>0, <1>6 DEF vars, clientVars, serverVars, TypeInv, TypeOK
<1>7. QED  BY <1>1, <1>2, <1>3, <1>4, <1>5, <1>6 DEF Next, ServerStep

LEMMA InitType == Init => TypeInv
<1>1. /\ <<>> \in Seq(Seq(Byte)) /\ <<>> \in Seq(Lines) /\ <<>> \in Seq(Byte)
      /\ <<>> \in Seq(Replies) /\ Len(<<>>) = 0
  BY EmptySeq
<1>2. 0 \in 0..(FileSize + BufferSize - 1) /\ 0 <= 2 * maxMessageSize /\ 0 <= maxMessageSize
  BY Sizes
<1>3. QED  BY <1>1, <1>2 DEF Init, TypeInv, TypeOK

\* The session's variables keep their types, and what has been read of commands
\* stays below twice the size the server accepts (handleClient tests it after
\* each read).
THEOREM TypeCorrect == Spec => []TypeOK
<1>1. TypeInv => TypeOK
  BY DEF TypeInv
<1>2. QED  BY <1>1, InitType, TypeStep, PTL DEF Spec

-------------------------------------------------------------------------------
(* The bytes of the commands sent.                                         *)

\* What B holds after the first a items.
LEMMA CodedAt ==
    ASSUME sent \in Seq(Lines), NEW B, NEW Q, Coded(B, Q), NEW a \in Nat, a < Len(sent)
    PROVE  LET l == sent[a + 1]
           IN /\ l \in Lines /\ Len(l) \in Nat
              /\ Q[a] \in Nat /\ Q[a + 1] \in Nat /\ Q[a + 1] <= Len(B) /\ Len(B) \in Nat
              /\ Q[a + 1] = Q[a] + Len(l) + 1 + (IF l = Download THEN FileSize ELSE 0)
              /\ \A k \in 1..Len(l) : B[Q[a] + k] = l[k]
              /\ B[Q[a] + Len(l) + 1] = NL
              /\ l = Download =>
                    \A k \in (Len(l) + 2)..(Len(l) + 1 + FileSize) : B[Q[a] + k] = FileByte
<1> DEFINE l == sent[a + 1]
           c == Len(sent)
<1>1. c \in Nat /\ a \in 0..(c - 1) /\ a \in 0..c /\ a + 1 \in 0..c /\ a + 1 \in 1..c /\ c \in 0..c
      /\ c = Len(sent) /\ (a + 1 = c \/ a + 1 < c)
  BY LenProperties
<1>2. l \in Lines
  BY <1>1, ElementOfSeq
<1>3. /\ Q \in [0..c -> Nat] /\ Q[c] = Len(B) /\ B \in Seq(Byte)
      /\ \A i, j \in 0..c : i < j => Q[i] < Q[j]
      /\ Q[a + 1] = Q[a] + Len(Item(l))
      /\ \A k \in 1..Len(Item(l)) : B[Q[a] + k] = Item(l)[k]
  BY <1>1 DEF Coded
<1>4. Q[a] \in Nat /\ Q[a + 1] \in Nat /\ Q[c] \in Nat
  BY <1>1, <1>3
<1> HIDE DEF l, c
<1>5. Q[a + 1] <= Len(B) /\ Len(B) \in Nat
  <2>1. CASE a + 1 = c
    BY <2>1, <1>3, <1>4
  <2>2. CASE a + 1 < c
    <3>1. Q[a + 1] < Q[c]
      BY <2>2, <1>1, <1>3
    <3>2. QED  BY <3>1, <1>3, <1>4
  <2>3. QED  BY <2>1, <2>2, <1>1
<1>6. /\ Len(l) \in Nat /\ FileSize \in Nat
      /\ Len(Item(l)) = Len(l) + 1 + (IF l = Download THEN FileSize ELSE 0)
      /\ \A k \in 1..Len(l) : Item(l)[k] = l[k]
      /\ Item(l)[Len(l) + 1] = NL
      /\ l = Download => \A k \in (Len(l) + 2)..Len(Item(l)) : Item(l)[k] = FileByte
  BY <1>2, ItemType, LineType, Sizes
<1>7. /\ \A k \in 1..Len(l) : k \in 1..Len(Item(l))
      /\ Len(l) + 1 \in 1..Len(Item(l))
  <2>1. CASE l = Download
    BY <1>6, <2>1
  <2>2. CASE l # Download
    BY <1>6, <2>2
  <2>3. QED  BY <2>1, <2>2
<1>8. \A k \in 1..Len(l) : B[Q[a] + k] = l[k]
  BY <1>3, <1>6, <1>7
<1>9. B[Q[a] + Len(l) + 1] = NL
  <2>1. B[Q[a] + (Len(l) + 1)] = NL
    BY <1>3, <1>6, <1>7
  <2>2. Len(l) \in Nat /\ Q[a] \in Nat
    BY <1>4, <1>6
  <2>3. Q[a] + (Len(l) + 1) = Q[a] + Len(l) + 1
    BY <2>2
  <2>4. QED  BY <2>1, <2>3
<1>10. ASSUME l = Download, NEW k \in (Len(l) + 2)..(Len(l) + 1 + FileSize)
       PROVE  B[Q[a] + k] = FileByte
  <2>1. k \in (Len(l) + 2)..Len(Item(l)) /\ k \in 1..Len(Item(l))
    BY <1>6, <1>10
  <2>2. QED  BY <2>1, <1>3, <1>6, <1>10
<1>11. Q[a + 1] = Q[a] + Len(l) + 1 + (IF l = Download THEN FileSize ELSE 0)
  <2>1. CASE l = Download
    BY <2>1, <1>3, <1>4, <1>6
  <2>2. CASE l # Download
    <3>1. Len(Item(l)) = Len(l) + 1 + 0
      BY <2>2, <1>6
    <3>2. Q[a + 1] = Q[a] + (Len(l) + 1 + 0)
      BY <3>1, <1>3
    <3>3. \A x, y \in Nat : x + (y + 1 + 0) = x + y + 1 + 0
      OBVIOUS
    <3>4. Q[a + 1] = Q[a] + Len(l) + 1 + 0
      BY <3>2, <3>3, <1>4, <1>6
    <3>5. QED  BY <3>4, <2>2
  <2>3. QED  BY <2>1, <2>2
<1>12. QED  BY <1>2, <1>4, <1>5, <1>6, <1>8, <1>9, <1>10, <1>11 DEF l

LEMMA CodedLast ==
    ASSUME sent \in Seq(Lines), NEW B, NEW Q, Coded(B, Q)
    PROVE  /\ B \in Seq(Byte) /\ Len(B) \in Nat /\ Q[Len(sent)] = Len(B)
           /\ \A a \in 0..Len(sent) : Q[a] \in Nat /\ Q[a] <= Len(B)
           /\ Bounds(Q) \in SUBSET (0..Len(B))
<1> DEFINE c == Len(sent)
<1>1. c \in Nat /\ c = Len(sent)
  BY LenProperties
<1>2. /\ Q \in [0..c -> Nat] /\ Q[c] = Len(B) /\ B \in Seq(Byte)
      /\ \A i, j \in 0..c : i < j => Q[i] < Q[j]
  BY DEF Coded
<1>3. Len(B) \in Nat
  BY <1>2, LenProperties
<1>4. ASSUME NEW a \in 0..c PROVE Q[a] \in Nat /\ Q[a] <= Len(B)
  <2> HIDE DEF c
  <2>1. c \in 0..c /\ (a = c \/ a < c) /\ Q[a] \in Nat
    BY <1>1, <1>2
  <2>2. CASE a = c
    BY <2>1, <2>2, <1>2, <1>3
  <2>3. CASE a < c
    <3>1. Q[a] < Q[c]
      BY <2>1, <2>3, <1>2
    <3>2. QED  BY <2>1, <3>1, <1>2, <1>3
  <2>4. QED  BY <2>1, <2>2, <2>3
<1>5. ASSUME NEW i \in 0..(c - 1) PROVE Q[i] + Len(sent[i + 1]) + 1 \in 0..Len(B)
  <2>1. i \in Nat /\ i < Len(sent)
    BY <1>1
  <2> DEFINE l == sent[i + 1]
  <2>2. /\ Len(l) \in Nat /\ Q[i] \in Nat /\ Q[i + 1] \in Nat /\ Q[i + 1] <= Len(B)
        /\ Q[i + 1] = Q[i] + Len(l) + 1 + (IF l = Download THEN FileSize ELSE 0)
    BY <2>1, CodedAt
  <2> HIDE DEF l
  <2>3. Q[i] + Len(l) + 1 <= Q[i + 1]
    <3>1. CASE l = Download
      BY <3>1, <2>2, Sizes
    <3>2. CASE l # Download
      BY <3>2, <2>2
    <3>3. QED  BY <3>1, <3>2
  <2>4. Q[i] + Len(l) + 1 \in 0..Len(B)
    BY <2>2, <2>3, <1>3
  <2>5. QED  BY <2>4 DEF l
<1>6. Bounds(Q) \in SUBSET (0..Len(B))
  <2>1. ASSUME NEW i \in 0..c PROVE Q[i] \in 0..Len(B)
    BY <1>3, <1>4
  <2>2. QED  BY <2>1, <1>5 DEF Bounds
<1>7. QED  BY <1>2, <1>3, <1>4, <1>6

LEMMA SendCoded ==
    ASSUME sent \in Seq(Lines), NEW B, NEW Q, Coded(B, Q), NEW l \in Lines, sent' = Append(sent, l)
    PROVE  \E R :
              /\ Coded(B \o Item(l), R)'
              /\ \A a \in 0..Len(sent) : R[a] = Q[a]
              /\ Bounds(R)' \in SUBSET (Bounds(Q) \cup {Len(B), Len(B) + Len(l) + 1, Len(B) + Len(Item(l))})
<1>0. PICK R : R = [i \in 0..(Len(sent) + 1) |->
                       IF i <= Len(sent) THEN Q[i] ELSE Len(B) + Len(Item(l))]
  OBVIOUS
<1> DEFINE c == Len(sent)
           w == Len(Item(l))
           C == B \o Item(l)
<1>1. /\ c = Len(sent) /\ c \in Nat /\ Len(sent') = c + 1 /\ sent'[c + 1] = l
      /\ \A i \in 1..c : sent'[i] = sent[i]
  BY LenProperties, AppendProperties
<1>2. /\ Q \in [0..c -> Nat] /\ Q[0] = 0 /\ Q[c] = Len(B) /\ B \in Seq(Byte)
      /\ \A i, j \in 0..c : i < j => Q[i] < Q[j]
      /\ \A i \in 0..(c - 1) :
            /\ Q[i + 1] = Q[i] + Len(Item(sent[i + 1]))
            /\ \A k \in 1..Len(Item(sent[i + 1])) : B[Q[i] + k] = Item(sent[i + 1])[k]
      /\ Plain => \A k \in 1..Len(B) : B[k] # NUL
  BY DEF Coded
<1>3. Len(B) \in Nat /\ \A a \in 0..c : Q[a] \in Nat /\ Q[a] <= Len(B)
  BY CodedLast
<1>4. w \in Nat \ {0} /\ Item(l) \in Seq(Byte)
  <2>1. /\ Len(Item(l)) = Len(l) + 1 + (IF l = Download THEN FileSize ELSE 0)
        /\ Len(l) \in Nat /\ FileSize \in Nat /\ Item(l) \in Seq(Byte)
    BY ItemType, LineType, Sizes
  <2>2. QED  BY <2>1
<1>5. /\ C \in Seq(Byte) /\ Len(C) = Len(B) + w
      /\ \A i \in 1..(Len(B) + w) : C[i] = IF i <= Len(B) THEN B[i] ELSE Item(l)[i - Len(B)]
  BY <1>2, <1>4, ConcatProperties
<1> HIDE DEF c, w, C
<1>6. /\ R \in [0..(c + 1) -> Nat] /\ R[c + 1] = Len(B) + w
      /\ \A a \in 0..c : R[a] = Q[a]
  <2>1. R = [i \in 0..(c + 1) |-> IF i <= c THEN Q[i] ELSE Len(B) + w]
    BY <1>0 DEF c, w
  <2>2. Len(B) + w \in Nat /\ c + 1 \in 0..(c + 1) /\ ~(c + 1 <= c)
        /\ \A a \in 0..c : a \in 0..(c + 1) /\ a <= c
    BY <1>1, <1>3, <1>4
  <2>3. QED  BY <2>1, <2>2, <1>1, <1>3
<1>7. R[0] = 0 /\ R[c] = Len(B)
  <2>1. 0 \in 0..c /\ c \in 0..c
    BY <1>1
  <2>2. QED  BY <2>1, <1>2, <1>6
<1>8. ASSUME NEW i \in 0..(c + 1), NEW j \in 0..(c + 1), i < j PROVE R[i] < R[j]
  <2>1. i \in 0..c /\ (j \in 0..c \/ j = c + 1)
    BY <1>1, <1>8
  <2>2. CASE j \in 0..c
    BY <2>1, <2>2, <1>2, <1>6, <1>8
  <2>3. CASE j = c + 1
    <3>1. R[i] = Q[i] /\ Q[i] \in Nat /\ Q[i] <= Len(B)
      BY <2>1, <1>3, <1>6
    <3>2. R[j] = Len(B) + w
      BY <2>3, <1>6
    <3>3. QED  BY <3>1, <3>2, <1>3, <1>4
  <2>4. QED  BY <2>1, <2>2, <2>3
<1>9. ASSUME NEW i \in 0..c
      PROVE  /\ R[i + 1] = R[i] + Len(Item(sent'[i + 1]))
             /\ \A k \in 1..Len(Item(sent'[i + 1])) : C[R[i] + k] = Item(sent'[i + 1])[k]
  <2>1. CASE i = c
    <3>1. R[i] = Len(B) /\ R[i + 1] = Len(B) + w /\ sent'[i + 1] = l
      BY <2>1, <1>1, <1>6, <1>7
    <3>2. ASSUME NEW k \in 1..w PROVE C[Len(B) + k] = Item(l)[k]
      <4>1. Len(B) + k \in 1..(Len(B) + w) /\ ~(Len(B) + k <= Len(B)) /\ (Len(B) + k) - Len(B) = k
        BY <1>3, <1>4
      <4>2. QED  BY <4>1, <1>5
    <3>3. QED  BY <3>1, <3>2 DEF w
  <2>2. CASE i \in 0..(c - 1)
    <3>1. i + 1 \in 1..c /\ i + 1 \in 0..c
      BY <2>2, <1>1
    <3> DEFINE e == Item(sent[i + 1])
    <3>2. sent'[i + 1] = sent[i + 1] /\ R[i] = Q[i] /\ R[i + 1] = Q[i + 1]
      BY <3>1, <1>1, <1>6
    <3>3. Q[i + 1] = Q[i] + Len(e) /\ \A k \in 1..Len(e) : B[Q[i] + k] = e[k]
      BY <2>2, <1>2
    <3>4. e \in Seq(Byte) /\ Len(e) \in Nat
      <4>1. sent[i + 1] \in Lines
        BY <3>1, <1>1, ElementOfSeq DEF c
      <4>2. QED  BY <4>1, ItemType, LenProperties
    <3> HIDE DEF e
    <3>5. ASSUME NEW k \in 1..Len(e) PROVE C[Q[i] + k] = e[k]
      <4>1. Q[i] \in Nat /\ Q[i + 1] <= Len(B) /\ Q[i + 1] \in Nat
        BY <3>1, <1>3
      <4>2. Q[i] + k \in 1..(Len(B) + w) /\ Q[i] + k <= Len(B)
        BY <4>1, <3>3, <3>4, <1>3, <1>4
      <4>3. QED  BY <4>2, <3>3, <1>5
    <3>6. QED  BY <3>2, <3>3, <3>5 DEF e
  <2>3. i = c \/ i \in 0..(c - 1)
    BY <1>1
  <2>4. QED  BY <2>1, <2>2, <2>3
<1>a. ASSUME Plain', NEW k \in 1..Len(C) PROVE C[k] # NUL
  <2>1. Plain /\ NUL \notin Range(l)
    <3>1. DOMAIN sent = 1..c /\ DOMAIN sent' = 1..(c + 1) /\ c + 1 \in 1..(c + 1)
          /\ \A i \in 1..c : i \in 1..(c + 1)
      <4>1. sent' \in Seq(Lines)
        BY AppendProperties
      <4>2. QED  BY <4>1, <1>1, LenProperties
    <3>2. QED  BY <3>1, <1>1, <1>a DEF Plain
  <2>2. k \in 1..(Len(B) + w)
    BY <1>5
  <2>3. CASE k <= Len(B)
    <3>1. k \in 1..Len(B)
      BY <2>2, <2>3, <1>3
    <3>2. QED  BY <3>1, <2>1, <2>2, <2>3, <1>2, <1>5
  <2>4. CASE ~(k <= Len(B))
    <3>1. k - Len(B) \in 1..Len(Item(l))
      BY <2>2, <2>4, <1>3, <1>4 DEF w
    <3>2. Item(l)[k - Len(B)] # NUL
      BY <3>1, <2>1, ItemPlain
    <3>3. QED  BY <3>2, <2>2, <2>4, <1>5
  <2>5. QED  BY <2>3, <2>4
<1>10. Coded(C, R)'
  <2>1. /\ C \in Seq(Byte) /\ R \in [0..Len(sent') -> Nat]
        /\ R[0] = 0 /\ R[Len(sent')] = Len(C)
        /\ \A i, j \in 0..Len(sent') : i < j => R[i] < R[j]
    BY <1>1, <1>5, <1>6, <1>7, <1>8
  <2>2. \A i \in 0..(Len(sent') - 1) : i \in 0..c
    BY <1>1
  <2>3. QED  BY <2>1, <2>2, <1>9, <1>a DEF Coded
<1>11. Bounds(R)' \in SUBSET (Bounds(Q) \cup {Len(B), Len(B) + Len(l) + 1, Len(B) + w})
  <2>1. SUFFICES ASSUME NEW x, \/ \E i \in 0..Len(sent') : x = R[i]
                              \/ \E i \in 0..(Len(sent') - 1) : x = R[i] + Len(sent'[i + 1]) + 1
                 PROVE  x \in Bounds(Q) \cup {Len(B), Len(B) + Len(l) + 1, Len(B) + w}
    BY DEF Bounds
  <2>2. ASSUME NEW i \in 0..(c + 1), x = R[i]
        PROVE  x \in Bounds(Q) \cup {Len(B), Len(B) + Len(l) + 1, Len(B) + w}
    <3>1. i \in 0..c \/ i = c + 1
      BY <1>1
    <3>2. CASE i \in 0..c
      BY <3>2, <2>2, <1>6 DEF Bounds, c
    <3>3. QED  BY <3>1, <3>2, <2>2, <1>6
  <2>3. ASSUME NEW i \in 0..c, x = R[i] + Len(sent'[i + 1]) + 1
        PROVE  x \in Bounds(Q) \cup {Len(B), Len(B) + Len(l) + 1, Len(B) + w}
    <3>1. CASE i = c
      BY <3>1, <2>3, <1>1, <1>7
    <3>2. CASE i \in 0..(c - 1)
      <4>1. i + 1 \in 1..c
        BY <3>2, <1>1
      <4>2. x = Q[i] + Len(sent[i + 1]) + 1
        BY <4>1, <2>3, <1>1, <1>6
      <4>3. QED  BY <3>2, <4>2 DEF Bounds, c
    <3>3. i = c \/ i \in 0..(c - 1)
      BY <1>1
    <3>4. QED  BY <3>1, <3>2, <3>3
  <2>4. 0..Len(sent') = 0..(c + 1) /\ 0..(Len(sent') - 1) = 0..c
    BY <1>1
  <2>5. QED  BY <2>1, <2>2, <2>3, <2>4
<1>12. QED  BY <1>6, <1>10, <1>11 DEF c, C, w

-------------------------------------------------------------------------------
(* The client sends.                                                       *)

LEMMA SendStreamed ==
    ASSUME TypeInv, NEW l \in Lines, SendCommand(l),
           NEW B, NEW Q, NEW p, Coded(B, Q), Streamed(stream, B, Points(Q), p),
           NEW Y, Y \in SUBSET (Bounds(Q) \cup {Len(B), Len(B) + Len(l) + 1, Len(B) + Len(Item(l))})
    PROVE  Streamed(stream', B \o Item(l), IF orderly' THEN Y ELSE {}, p) /\ (orderly' => orderly)
<1> DEFINE w == Append(l, NL)
           C == B \o w
<1>1. /\ B \in Seq(Byte) /\ Len(B) \in Nat /\ Bounds(Q) \in SUBSET (0..Len(B))
      /\ stream \in Seq(Seq(Byte)) /\ sent \in Seq(Lines) /\ orderly \in BOOLEAN
  BY CodedLast DEF TypeInv, TypeOK
<1>2. /\ w \in Seq(Byte) /\ Len(w) = Len(l) + 1 /\ Len(l) \in Nat /\ w # <<>>
      /\ Content \in Seq(Byte) /\ Len(Content) = FileSize /\ FileSize \in Nat \ {0} /\ Content # <<>>
  BY LineType, ContentType, Sizes, EmptySeq
<1>3. PICK r \in Records(w), m \in {stream # <<>>, FALSE} :
         LET str == Write(stream, r, m)
         IN IF l = Download
            THEN \E c \in Records(Content), n \in BOOLEAN :
                    /\ stream' = Write(str, c, n)
                    /\ orderly' = (orderly /\ ~m /\ ~n)
            ELSE /\ stream' = str
                 /\ orderly' = (orderly /\ ~m)
  BY DEF SendCommand
<1>4. m \in BOOLEAN /\ (m => stream # <<>>)
  OBVIOUS
<1> DEFINE str == Write(stream, r, m)
           X == Points(Q)
           X1 == IF m THEN {} ELSE X \cup {Len(B), Len(B) + Len(w)}
<1>5. X \in SUBSET (0..Len(B))
  BY <1>1 DEF Points
<1>6. C \in Seq(Byte) /\ Len(C) = Len(B) + Len(w)
  BY <1>1, <1>2, ConcatProperties
<1> HIDE DEF w
<1>7. str \in Seq(Seq(Byte)) /\ str # <<>> /\ Streamed(str, C, X1, p)
  BY <1>1, <1>2, <1>4, <1>5, WriteStreamed, WriteType
<1>8. X1 \in SUBSET (0..Len(C)) /\ Len(C) = Len(B) + Len(l) + 1
  <2>1. Len(B) \in 0..Len(C) /\ Len(C) \in 0..Len(C) /\ 0..Len(B) \subseteq 0..Len(C)
           /\ Len(C) = Len(B) + Len(l) + 1
    BY <1>1, <1>2, <1>6
  <2> HIDE DEF C, X
  <2>2. QED  BY <2>1, <1>5, <1>6
<1>9. orderly /\ ~m => X1 = Bounds(Q) \cup {Len(B), Len(B) + Len(l) + 1}
  BY <1>6, <1>8 DEF Points
<1> HIDE DEF C, str, X, X1
<1>10. CASE l # Download
  <2>1. stream' = str /\ orderly' = (orderly /\ ~m)
    BY <1>3, <1>10 DEF str
  <2>2. B \o Item(l) = C /\ Len(Item(l)) = Len(w)
    <3>1. Item(l) = w
      BY <1>2, <1>10, ConcatEmptySeq DEF Item, w
    <3>2. QED  BY <3>1 DEF C
  <2>3. orderly' => Y \in SUBSET X1
    <3>1. Len(B) + Len(Item(l)) = Len(B) + Len(l) + 1
      BY <1>1, <1>2, <2>2
    <3>2. QED  BY <2>1, <3>1, <1>9
  <2>4. {} \in SUBSET X1
    OBVIOUS
  <2>5. QED  BY <2>1, <2>2, <2>3, <2>4, <1>7, FewerPoints
<1>11. CASE l = Download
  <2>1. PICK c \in Records(Content), n \in BOOLEAN :
           stream' = Write(str, c, n) /\ orderly' = (orderly /\ ~m /\ ~n)
    BY <1>3, <1>11 DEF str
  <2> DEFINE X2 == IF n THEN {} ELSE X1 \cup {Len(C), Len(C) + Len(Content)}
  <2>2. Streamed(stream', C \o Content, X2, p)
    BY <2>1, <1>2, <1>6, <1>7, <1>8, WriteStreamed
  <2>3. C \o Content = B \o Item(l) /\ Len(Item(l)) = Len(w) + Len(Content)
    <3>1. Item(l) = w \o Content
      BY <1>11 DEF Item, w
    <3>2. C \o Content = B \o (w \o Content)
      BY <1>1, <1>2, ThreeParts DEF C
    <3>3. Len(w \o Content) = Len(w) + Len(Content)
      BY ONLY <1>2, ConcatProperties
    <3>4. QED  BY <3>1, <3>2, <3>3
  <2>4. orderly' => Y \in SUBSET X2
    <3>1. Len(B) + Len(Item(l)) = Len(C) + Len(Content)
      BY <2>3, <1>1, <1>2, <1>6
    <3>2. orderly' => X2 = X1 \cup {Len(C), Len(C) + Len(Content)} /\ X1 = Bounds(Q) \cup {Len(B), Len(B) + Len(l) + 1}
      BY <2>1, <1>9
    <3> HIDE DEF X2
    <3>3. QED  BY <3>1, <3>2
  <2>5. {} \in SUBSET X2
    OBVIOUS
  <2> HIDE DEF X2
  <2>6. QED  BY <2>1, <2>2, <2>3, <2>4, <2>5, FewerPoints
<1>12. QED  BY <1>10, <1>11

LEMMA StreamedEnd ==
    ASSUME NEW str \in Seq(Seq(Byte)), NEW B \in Seq(Byte), NEW X, NEW p, Streamed(str, B, X, p)
    PROVE  p \in Nat /\ p <= Len(B) /\ (str = <<>> => p = Len(B)) /\ (str # <<>> => p < Len(B))
<1>1. PICK P : Cuts(P, str, B, X, p)
  BY DEF Streamed
<1>2. Len(str) \in Nat /\ Len(B) \in Nat /\ (str = <<>> <=> Len(str) = 0)
  BY EmptySeq, LenProperties
<1>3. /\ P \in [0..Len(str) -> Nat]
      /\ P[0] = p /\ P[Len(str)] = Len(B)
      /\ \A i, j \in 0..Len(str) : i < j => P[i] < P[j]
  BY <1>1 DEF Cuts
<1>4. 0 \in 0..Len(str) /\ Len(str) \in 0..Len(str)
  BY <1>2
<1>5. CASE Len(str) = 0
  BY <1>2, <1>3, <1>4, <1>5
<1>6. CASE Len(str) # 0
  <2>1. 0 < Len(str)
    BY <1>2, <1>6
  <2>2. P[0] < P[Len(str)] /\ P[0] \in Nat
    BY <2>1, <1>3, <1>4
  <2>3. QED  BY <2>2, <1>2, <1>3, <1>6
<1>7. QED  BY <1>5, <1>6

LEMMA SendStep ==
    ASSUME TypeInv, IInv, NEW l \in Lines, SendCommand(l)
    PROVE  IInv'
<1>1. /\ sent \in Seq(Lines) /\ Len(sent) \in Nat /\ stream \in Seq(Seq(Byte))
      /\ accumulatedData \in Seq(Byte) /\ Len(accumulatedData) \in Nat
      /\ answers \in Seq(Replies) /\ Len(answers) \in Nat /\ DOMAIN answers = 1..Len(answers)
      /\ DOMAIN sent = 1..Len(sent) /\ orderly \in BOOLEAN /\ mode \in {"command", "file"}
  BY LenProperties DEF TypeInv, TypeOK
<1>2. /\ sent' = Append(sent, l) /\ hungup' = hungup /\ answers' = answers /\ open' = open
      /\ accumulatedData' = accumulatedData /\ mode' = mode /\ totalBytesRead' = totalBytesRead
  BY DEF SendCommand, serverVars
<1>3. /\ Len(sent') = Len(sent) + 1 /\ (\A i \in 1..Len(sent) : sent'[i] = sent[i])
      /\ sent'[Len(sent) + 1] = l /\ sent' \in Seq(Lines) /\ DOMAIN sent' = 1..(Len(sent) + 1)
  BY <1>1, <1>2, AppendProperties, LenProperties
<1>4. orderly' \in BOOLEAN /\ (orderly' => orderly)
  <2>1. PICK r \in Records(Append(l, NL)), m \in {stream # <<>>, FALSE} :
           LET str == Write(stream, r, m)
           IN IF l = Download
              THEN \E c \in Records(Content), n \in BOOLEAN :
                      /\ stream' = Write(str, c, n)
                      /\ orderly' = (orderly /\ ~m /\ ~n)
              ELSE /\ stream' = str
                   /\ orderly' = (orderly /\ ~m)
    BY DEF SendCommand
  <2>2. QED  BY <2>1, <1>1
<1>5. Range(sent) \subseteq Range(sent')
  <2>1. SUFFICES ASSUME NEW i \in 1..Len(sent) PROVE sent[i] \in Range(sent')
    BY <1>1 DEF Range
  <2>2. i \in 1..(Len(sent) + 1) /\ sent[i] = sent'[i]
    BY <1>1, <1>3
  <2>3. QED  BY <2>2, <1>3 DEF Range
<1>a. Plain' => Plain
  <2>1. \A i \in 1..Len(sent) : i \in 1..(Len(sent) + 1) /\ sent'[i] = sent[i]
    BY <1>1, <1>3
  <2>2. QED  BY <2>1, <1>1, <1>3 DEF Plain
<1>6. Claimed' => Claimed
  BY <1>4, <1>5, <1>a DEF Claimed
<1>7. AnswersInOrder'
  <2>1. SUFFICES ASSUME Claimed'
                 PROVE  /\ Len(answers) <= Len(sent')
                        /\ \A i \in 1..Len(answers) : answers[i] = Expected(sent'[i]) \/ Cut(i)'
    BY <1>1, <1>2 DEF AnswersInOrder, Claimed, Expected, TooLong
  <2>2. /\ Len(answers) <= Len(sent)
        /\ \A i \in 1..Len(answers) : answers[i] = Expected(sent[i]) \/ Cut(i)
    BY <2>1, <1>1, <1>6 DEF IInv, AnswersInOrder, Claimed
  <2>3. \A i \in 1..Len(answers) : i \in 1..Len(sent) /\ sent'[i] = sent[i]
    BY <2>2, <1>1, <1>3
  <2>4. \A i \in 1..Len(answers) : Cut(i) => Cut(i)'
    BY <1>2, <1>4 DEF Cut
  <2>5. QED  BY <2>2, <2>3, <2>4, <1>1, <1>3
<1>8. NoSpuriousEnd'
  <2>1. SUFFICES ASSUME Plain', orderly', ~open', ~hungup'
                 PROVE  IF crashed
                        THEN Len(answers) < Len(sent') /\ sent'[Len(answers) + 1] = <<>>
                        ELSE Len(answers) \in 1..(Len(sent) + 1) /\ TooLong(sent'[Len(answers)])
    <3>1. crashed' = crashed
      BY DEF SendCommand, serverVars
    <3>2. QED  BY <3>1, <1>2, <1>3 DEF NoSpuriousEnd, TooLong
  <2>2. IF crashed
        THEN Len(answers) < Len(sent) /\ sent[Len(answers) + 1] = <<>>
        ELSE Len(answers) \in 1..Len(sent) /\ TooLong(sent[Len(answers)])
    BY <2>1, <1>1, <1>2, <1>4, <1>a DEF IInv, NoSpuriousEnd
  <2>3. CASE crashed
    <3>1. Len(answers) + 1 \in 1..Len(sent) /\ Len(answers) < Len(sent) + 1
      BY <2>2, <2>3, <1>1
    <3>2. QED  BY <3>1, <2>2, <2>3, <1>3
  <2>4. CASE ~crashed
    <3>1. Len(answers) \in 1..(Len(sent) + 1)
      BY <2>2, <2>4, <1>1
    <3>2. QED  BY <3>1, <2>2, <2>4, <1>3
  <2>5. QED  BY <2>3, <2>4
<1>9. SegInv'
  <2>1. SUFFICES ASSUME Claimed', open'
                 PROVE  (\E B, Q, p : Coded(B, Q) /\ Streamed(stream, B, Points(Q), p) /\ Place(Q, B, p))'
    BY DEF SegInv
  <2>2. PICK B, Q, p : Coded(B, Q) /\ Streamed(stream, B, Points(Q), p) /\ Place(Q, B, p)
    BY <2>1, <1>2, <1>6 DEF IInv, SegInv
  <2> DEFINE C == B \o Item(l)
  <2>3. PICK R :
           /\ Coded(C, R)'
           /\ \A a \in 0..Len(sent) : R[a] = Q[a]
           /\ Bounds(R)' \in SUBSET (Bounds(Q) \cup {Len(B), Len(B) + Len(l) + 1, Len(B) + Len(Item(l))})
    <3>1. sent \in Seq(Lines) /\ sent' = Append(sent, l) /\ Coded(B, Q)
      BY <2>2, <1>1, <1>2
    <3>2. QED  BY <3>1, SendCoded
  <2>4. Streamed(stream', C, IF orderly' THEN Bounds(R)' ELSE {}, p)
    BY <2>2, <2>3, SendStreamed
  <2>5. /\ B \in Seq(Byte) /\ Len(B) \in Nat /\ Q[Len(sent)] = Len(B)
        /\ \A a \in 0..Len(sent) : Q[a] \in Nat /\ Q[a] <= Len(B)
    BY <2>2, <1>1, CodedLast
  <2>6. p \in Nat /\ p <= Len(B)
    BY <2>2, <2>5, <1>1, StreamedEnd
  <2>7. \A i \in 1..Len(B) : C[i] = B[i]
    <3>1. Item(l) \in Seq(Byte) /\ Len(Item(l)) \in Nat
      BY ItemType, LenProperties
    <3>2. \A i \in 1..(Len(B) + Len(Item(l))) : C[i] = IF i <= Len(B) THEN B[i] ELSE Item(l)[i - Len(B)]
      BY <2>5, <3>1, ConcatProperties
    <3> HIDE DEF C
    <3>3. QED  BY <3>1, <3>2, <2>5
  <2> HIDE DEF C
  <2> DEFINE a == Len(answers)
  <2>8. a <= Len(sent) /\ a \in 0..Len(sent) /\ R[a] = Q[a] /\ Q[a] \in Nat
    <3>1. a <= Len(sent) /\ a \in Nat
      BY <2>2, <1>1 DEF Place
    <3> HIDE DEF a
    <3>2. a \in 0..Len(sent)
      BY <3>1, <1>1
    <3>3. QED  BY <3>1, <3>2, <2>3, <2>5
  <2>9. (a < Len(sent) => sent'[a + 1] = sent[a + 1]) /\ (a = Len(sent) => sent'[a + 1] = l)
    <3>1. a < Len(sent) => a + 1 \in 1..Len(sent)
      BY <1>1
    <3>2. QED  BY <3>1, <1>3
  <2>10. a <= Len(sent')
    BY <2>8, <1>1, <1>3
  <2>11. ASSUME mode = "command"
         PROVE  /\ p = R[a] + Len(accumulatedData)
                /\ \A k \in 1..Len(accumulatedData) : accumulatedData[k] = C[R[a] + k]
                /\ orderly' => \/ a = Len(sent') /\ p = R[a]
                               \/ a < Len(sent') /\ p <= R[a] + Len(sent'[a + 1])
    <3>1. /\ p = Q[a] + Len(accumulatedData)
          /\ \A k \in 1..Len(accumulatedData) : accumulatedData[k] = B[Q[a] + k]
          /\ orderly => \/ a = Len(sent) /\ p = Q[a]
                        \/ a < Len(sent) /\ p <= Q[a] + Len(sent[a + 1])
      BY <2>2, <2>11 DEF Place
    <3>2. ASSUME NEW k \in 1..Len(accumulatedData) PROVE accumulatedData[k] = C[R[a] + k]
      <4>1. Q[a] + k \in 1..Len(B)
        <5> HIDE DEF a
        <5>1. Q[a] \in Nat /\ Q[a] + Len(accumulatedData) <= Len(B)
          BY <3>1, <2>6, <2>8
        <5>2. QED  BY <5>1, <2>5, <1>1
      <4>2. QED  BY <4>1, <3>1, <2>7, <2>8
    <3>3. ASSUME orderly'
          PROVE  a < Len(sent') /\ p <= R[a] + Len(sent'[a + 1])
      <4>1. CASE a = Len(sent) /\ p = Q[a]
        <5>1. Len(l) \in Nat
          BY LineType
        <5>2. QED  BY <4>1, <5>1, <2>8, <2>9, <1>1, <1>3
      <4>2. CASE a < Len(sent) /\ p <= Q[a] + Len(sent[a + 1])
        <5> HIDE DEF a
        <5>1. a < Len(sent') /\ sent'[a + 1] = sent[a + 1] /\ R[a] = Q[a]
          <6>1. a < Len(sent) + 1
            BY <4>2, <2>8, <1>1
          <6>2. QED  BY <4>2, <6>1, <2>8, <2>9, <1>3
        <5>2. QED  BY <4>2, <5>1
      <4>3. QED  BY <3>1, <3>3, <4>1, <4>2, <1>4
    <3>4. QED  BY <3>1, <3>2, <3>3, <2>8
  <2>12. ASSUME mode = "file"
         PROVE  /\ orderly' /\ a < Len(sent') /\ sent'[a + 1] = Download /\ ~TooLong(Download)
                /\ accumulatedData = <<>>
                /\ p = R[a] + Len(Download) + 1 + totalBytesRead
    <3>1. /\ orderly /\ a < Len(sent) /\ sent[a + 1] = Download /\ ~TooLong(Download)
          /\ accumulatedData = <<>>
          /\ p = Q[a] + Len(Download) + 1 + totalBytesRead
      BY <2>2, <2>12 DEF Place
    <3>2. Download \in Range(sent')
      <4>1. a + 1 \in 1..(Len(sent) + 1) /\ sent'[a + 1] = Download
        <5> HIDE DEF a
        <5>1. a + 1 \in 1..(Len(sent) + 1)
          BY <3>1, <2>8, <1>1
        <5>2. QED  BY <5>1, <3>1, <2>9
      <4>2. QED  BY <4>1, <1>3 DEF Range
    <3>3. orderly'
      BY <2>1, <3>2 DEF Claimed
    <3> HIDE DEF a
    <3>4. a < Len(sent')
      BY <3>1, <2>8, <1>1, <1>3
    <3>5. QED  BY <3>1, <3>3, <3>4, <2>8, <2>9
  <2>13. Place(R, C, p)'
    <3>1. answers' = answers /\ accumulatedData' = accumulatedData /\ mode' = mode
             /\ totalBytesRead' = totalBytesRead
      BY <1>2
    <3>2. TooLong(Download)' <=> TooLong(Download)
      BY DEF TooLong
    <3>3. QED  BY <2>10, <2>11, <2>12, <3>1, <3>2 DEF Place
  <2>14. Points(R)' = IF orderly' THEN Bounds(R)' ELSE {}
    BY DEF Points
  <2>15. QED  BY <2>3, <2>4, <2>13, <2>14
<1>10. QED  BY <1>7, <1>8, <1>9 DEF IInv

-------------------------------------------------------------------------------
(* The server reads.                                                       *)

EndOf(data) == SelectInSeq(data, LAMBDA b : b = NL)

\* data are the bytes of B after q, and the bytes after q start with l.
HeldAt(data, B, q) == \A k \in 1..Len(data) : data[k] = B[q + k]

CommandAt(l, B, q) == (\A k \in 1..Len(l) : B[q + k] = l[k]) /\ B[q + Len(l) + 1] = NL

\* The bytes in data start with the command l, whole when data has its end at n.
Splits(data, l, B, q, n) ==
    /\ NL \in Range(data) <=> Len(l) + 1 <= Len(data)
    /\ NL \in Range(data) =>
          /\ n = Len(l) + 1
          /\ SubSeq(data, 1, n - 1) = l
          /\ SubSeq(data, n + 1, Len(data)) \in Seq(Byte)
          /\ Len(SubSeq(data, n + 1, Len(data))) = Len(data) - (Len(l) + 1)
          /\ \A k \in 1..(Len(data) - (Len(l) + 1)) :
                SubSeq(data, n + 1, Len(data))[k] = B[q + (Len(l) + 1) + k]

\* The first command in data, which starts where command l starts in B.
LEMMA FirstCommand ==
    ASSUME NEW l \in Lines, NEW data \in Seq(Byte), NEW B, NEW q \in Nat,
           HeldAt(data, B, q), CommandAt(l, B, q)
    PROVE  Splits(data, l, B, q, EndOf(data))
<1>0. PICK p : p = EndOf(data)
  OBVIOUS
<1>1. /\ Len(data) \in Nat /\ Len(l) \in Nat /\ l \in Seq(Byte) /\ DOMAIN data = 1..Len(data)
      /\ \A k \in 1..Len(l) : l[k] # NL
      /\ \A k \in 1..Len(data) : data[k] \in Byte
  BY LineType, LenProperties, ElementOfSeq
<1>a. /\ \A k \in 1..Len(data) : data[k] = B[q + k]
      /\ \A k \in 1..Len(l) : B[q + k] = l[k]
      /\ B[q + Len(l) + 1] = NL
  BY DEF HeldAt, CommandAt
<1>2. ASSUME Len(l) + 1 <= Len(data)
      PROVE  Len(l) + 1 \in 1..Len(data) /\ data[Len(l) + 1] = NL
  <2>1. Len(l) + 1 \in 1..Len(data) /\ q + (Len(l) + 1) = q + Len(l) + 1
    BY <1>1, <1>2
  <2>2. data[Len(l) + 1] = B[q + (Len(l) + 1)]
    BY <2>1, <1>a
  <2>3. QED  BY <2>1, <2>2, <1>a
<1>3. ASSUME NEW k \in 1..Len(data), data[k] = NL PROVE ~(k <= Len(l))
  <2>1. SUFFICES ASSUME k <= Len(l) PROVE FALSE
    OBVIOUS
  <2>2. k \in 1..Len(l)
    BY <1>1, <2>1
  <2>3. QED  BY <2>2, <1>a, <1>1, <1>3
<1>4. NL \in Range(data) <=> Len(l) + 1 <= Len(data)
  <2>1. ASSUME NL \in Range(data) PROVE Len(l) + 1 <= Len(data)
    <3>1. PICK k \in 1..Len(data) : data[k] = NL
      BY <2>1, <1>1 DEF Range
    <3>2. QED  BY <3>1, <1>1, <1>3
  <2>2. ASSUME Len(l) + 1 <= Len(data) PROVE NL \in Range(data)
    BY <2>2, <1>1, <1>2 DEF Range
  <2>3. QED  BY <2>1, <2>2
<1>5. ASSUME NL \in Range(data)
      PROVE  /\ p = Len(l) + 1
             /\ SubSeq(data, 1, p - 1) = l
             /\ SubSeq(data, p + 1, Len(data)) \in Seq(Byte)
             /\ Len(SubSeq(data, p + 1, Len(data))) = Len(data) - (Len(l) + 1)
             /\ \A k \in 1..(Len(data) - (Len(l) + 1)) :
                   SubSeq(data, p + 1, Len(data))[k] = B[q + (Len(l) + 1) + k]
  <2>1. p \in 1..Len(data) /\ data[p] = NL /\ \A k \in 1..Len(data) : k < p => data[k] # NL
    BY <1>0, <1>5, FirstNL DEF EndOf
  <2>2. Len(l) + 1 <= Len(data)
    BY <1>4, <1>5
  <2>3. p = Len(l) + 1
    <3>1. ~(p <= Len(l)) /\ ~(Len(l) + 1 < p)
      BY <2>1, <2>2, <1>2, <1>3
    <3>2. QED  BY <3>1, <2>1, <1>1
  <2>4. SubSeq(data, 1, p - 1) = l
    <3>1. Len(l) \in 0..Len(data) /\ p - 1 = Len(l)
      BY <2>2, <2>3, <1>1
    <3> DEFINE u == SubSeq(data, 1, Len(l))
    <3>2. u \in Seq(Byte) /\ Len(u) = Len(l) /\ \A k \in 1..Len(l) : u[k] = data[k]
      BY <3>1, Prefix
    <3> HIDE DEF u
    <3>3. \A k \in 1..Len(l) : u[k] = l[k]
      <4>1. SUFFICES ASSUME NEW k \in 1..Len(l) PROVE u[k] = l[k]
        OBVIOUS
      <4>2. k \in 1..Len(data)
        BY <3>1, <1>1
      <4>3. data[k] = B[q + k] /\ B[q + k] = l[k]
        BY <4>2, <1>a
      <4>4. QED  BY <4>3, <3>2
    <3>4. u = l
      BY <3>2, <3>3, <1>1, SeqEqual
    <3>5. QED  BY <3>1, <3>4 DEF u
  <2>5. /\ SubSeq(data, p + 1, Len(data)) \in Seq(Byte)
        /\ Len(SubSeq(data, p + 1, Len(data))) = Len(data) - (Len(l) + 1)
        /\ \A k \in 1..(Len(data) - (Len(l) + 1)) :
              SubSeq(data, p + 1, Len(data))[k] = B[q + (Len(l) + 1) + k]
    <3> DEFINE w == Len(l) + 1
               v == SubSeq(data, w + 1, Len(data))
    <3>1. w \in 0..Len(data) /\ w \in Nat
      BY <2>2, <1>1
    <3> HIDE DEF w
    <3>2. /\ v \in Seq(Byte) /\ Len(v) = Len(data) - w
          /\ \A k \in 1..(Len(data) - w) : v[k] = data[w + k]
      BY <3>1, Suffix
    <3> HIDE DEF v
    <3>3. ASSUME NEW k \in 1..(Len(data) - w) PROVE v[k] = B[q + w + k]
      <4>1. w + k \in 1..Len(data) /\ q + (w + k) = q + w + k
        BY <3>1, <1>1
      <4>2. data[w + k] = B[q + (w + k)]
        BY <4>1, <1>a
      <4>3. QED  BY <4>1, <4>2, <3>2
    <3>4. QED  BY <2>3, <3>2, <3>3 DEF v, w
  <2>6. QED  BY <2>3, <2>4, <2>5
<1>6. Splits(data, l, B, q, p)
  BY <1>4, <1>5 DEF Splits
<1>7. QED  BY <1>0, <1>6

LEMMA ReadAhead ==
    ASSUME TypeInv, NEW n \in Nat \ {0}, Read(n),
           NEW B, NEW Q, NEW p, Coded(B, Q), Streamed(stream, B, Points(Q), p)
    PROVE  /\ p \in Nat /\ p < Len(B) /\ Len(B) \in Nat
           /\ Got(n) \in Seq(Byte) /\ Len(Got(n)) \in 1..n
           /\ p + Len(Got(n)) <= p + Len(Head(stream))
           /\ p + Len(Head(stream)) <= Len(B) /\ Len(Head(stream)) \in Nat \ {0}
           /\ \A k \in 1..Len(Got(n)) : Got(n)[k] = B[p + k]
           /\ \A k \in 1..Len(Head(stream)) : Head(stream)[k] = B[p + k]
           /\ \A x \in Points(Q) : ~(p < x /\ x < p + Len(Head(stream)))
           /\ Streamed(stream', B, Points(Q), p + Len(Got(n)))
<1>1. stream # <<>> /\ stream' = Rest(stream, n)
  BY DEF Read, Rest
<1>2. Got(n) = Chunk(stream, n)
  BY DEF Got, Chunk
<1>3. /\ stream \in Seq(Seq(Byte)) /\ B \in Seq(Byte) /\ Len(B) \in Nat
      /\ Points(Q) \in SUBSET Int
  <2>1. sent \in Seq(Lines) /\ stream \in Seq(Seq(Byte))
    BY DEF TypeInv
  <2>2. B \in Seq(Byte) /\ Len(B) \in Nat /\ Bounds(Q) \in SUBSET (0..Len(B))
    BY <2>1, CodedLast
  <2>3. 0..Len(B) \subseteq Int
    BY <2>2
  <2>4. QED  BY <2>1, <2>2, <2>3 DEF Points
<1> DEFINE g == Got(n)
           h == Head(stream)
<1>4. /\ p \in Nat
      /\ Len(h) \in Nat \ {0} /\ p + Len(h) <= Len(B)
      /\ \A k \in 1..Len(h) : h[k] = B[p + k]
      /\ \A x \in Points(Q) : ~(p < x /\ x < p + Len(h))
      /\ g \in Seq(Byte) /\ Len(g) \in 1..n /\ Len(g) <= Len(h)
      /\ \A k \in 1..Len(g) : g[k] = B[p + k]
      /\ Streamed(stream', B, Points(Q), p + Len(g))
  <2>1. stream \in Seq(Seq(Byte)) /\ stream # <<>> /\ B \in Seq(Byte) /\ Points(Q) \in SUBSET Int
    BY <1>1, <1>3
  <2> HIDE DEF g, h
  <2>2. /\ p \in Nat
        /\ Len(Head(stream)) \in Nat \ {0} /\ p + Len(Head(stream)) <= Len(B)
        /\ \A k \in 1..Len(Head(stream)) : Head(stream)[k] = B[p + k]
        /\ \A x \in Points(Q) : ~(p < x /\ x < p + Len(Head(stream)))
        /\ Chunk(stream, n) \in Seq(Byte) /\ Len(Chunk(stream, n)) \in 1..n
        /\ Len(Chunk(stream, n)) <= Len(Head(stream))
        /\ \A k \in 1..Len(Chunk(stream, n)) : Chunk(stream, n)[k] = B[p + k]
        /\ Streamed(Rest(stream, n), B, Points(Q), p + Len(Chunk(stream, n)))
    BY <2>1, ReadStreamed
  <2>3. QED  BY <2>2, <1>1, <1>2 DEF g, h
<1> HIDE DEF g, h
<1>5. p < Len(B) /\ p + Len(g) <= p + Len(h)
  BY <1>3, <1>4
<1>6. QED  BY <1>3, <1>4, <1>5 DEF g, h

Data == accumulatedData \o Got(maxMessageSize)

\* What handleClient holds after a read belongs to the command it is about to
\* answer, and in an orderly session to that command alone.
LEMMA Gathered ==
    ASSUME TypeInv, mode = "command", Read(maxMessageSize),
           NEW B, NEW Q, NEW p, Coded(B, Q), Streamed(stream, B, Points(Q), p), Place(Q, B, p)
    PROVE  LET a == Len(answers)
               data == Data
           IN /\ a \in Nat /\ a < Len(sent)
              /\ data \in Seq(Byte) /\ Len(data) \in Nat
              /\ Q[a] + Len(data) <= Len(B)
              /\ \A k \in 1..Len(data) : data[k] = B[Q[a] + k]
              /\ orderly => Len(data) <= Len(sent[a + 1]) + 1
              /\ Streamed(stream', B, Points(Q), Q[a] + Len(data))
<1>0. PICK a, data : a = Len(answers) /\ data = accumulatedData \o Got(maxMessageSize)
  OBVIOUS
<1> DEFINE acc == accumulatedData
           g == Got(maxMessageSize)
           h == Head(stream)
<1>1. /\ p \in Nat /\ p < Len(B) /\ Len(B) \in Nat
      /\ g \in Seq(Byte) /\ Len(g) \in Nat
      /\ p + Len(g) <= p + Len(h)
      /\ p + Len(h) <= Len(B) /\ Len(h) \in Nat \ {0}
      /\ \A k \in 1..Len(g) : g[k] = B[p + k]
      /\ \A x \in Points(Q) : ~(p < x /\ x < p + Len(h))
      /\ Streamed(stream', B, Points(Q), p + Len(g))
  BY Sizes, ReadAhead
<1> HIDE DEF g, h
<1>2. /\ sent \in Seq(Lines) /\ Len(sent) \in Nat /\ acc \in Seq(Byte) /\ Len(acc) \in Nat /\ a \in Nat
  BY <1>0, LenProperties DEF TypeInv
<1>3. /\ a <= Len(sent) /\ p = Q[a] + Len(acc)
      /\ \A k \in 1..Len(acc) : acc[k] = B[Q[a] + k]
      /\ orderly => \/ a = Len(sent) /\ p = Q[a]
                    \/ a < Len(sent) /\ p <= Q[a] + Len(sent[a + 1])
  BY <1>0 DEF Place
<1>4. Q[Len(sent)] = Len(B) /\ Q[a] \in Nat
  <2>1. a \in 0..Len(sent)
    BY <1>2, <1>3
  <2>2. QED  BY <2>1, <1>2, CodedLast
<1>5. a < Len(sent)
  <2>1. SUFFICES ASSUME a = Len(sent) PROVE FALSE
    BY <1>2, <1>3
  <2>2. Q[a] = Len(B)
    BY <2>1, <1>4
  <2>3. QED  BY <2>2, <1>1, <1>2, <1>3, <1>4
<1>6. /\ data \in Seq(Byte) /\ Len(data) = Len(acc) + Len(g)
      /\ \A k \in 1..(Len(acc) + Len(g)) : data[k] = IF k <= Len(acc) THEN acc[k] ELSE g[k - Len(acc)]
  BY <1>0, <1>1, <1>2, ConcatProperties DEF g
<1>7. p + Len(g) = Q[a] + Len(data) /\ Len(data) \in Nat
  BY <1>1, <1>2, <1>3, <1>4, <1>6
<1>8. ASSUME NEW k \in 1..Len(data) PROVE data[k] = B[Q[a] + k]
  <2>1. k \in 1..(Len(acc) + Len(g))
    BY <1>6
  <2>2. CASE k <= Len(acc)
    <3>1. k \in 1..Len(acc)
      BY <2>1, <2>2, <1>2
    <3>2. QED  BY <3>1, <2>1, <2>2, <1>3, <1>6
  <2>3. CASE ~(k <= Len(acc))
    <3>1. k - Len(acc) \in 1..Len(g)
      BY <2>1, <2>3, <1>1, <1>2
    <3>2. p + (k - Len(acc)) = Q[a] + k
      BY <2>1, <1>1, <1>2, <1>3, <1>4
    <3>3. QED  BY <3>1, <3>2, <2>1, <2>3, <1>1, <1>6
  <2>4. QED  BY <2>2, <2>3
<1>9. ASSUME orderly PROVE Len(data) <= Len(sent[a + 1]) + 1
  <2> DEFINE l == sent[a + 1]
  <2>1. Len(l) \in Nat
    BY <1>2, <1>5, CodedAt
  <2>2. p <= Q[a] + Len(l)
    BY <1>3, <1>5, <1>9, <1>2
  <2>3. Q[a] + Len(l) + 1 \in Points(Q)
    <3>1. a \in 0..(Len(sent) - 1)
      BY <1>2, <1>5
    <3>2. QED  BY <3>1, <1>9 DEF Points, Bounds
  <2> HIDE DEF l
  <2>4. ~(p < Q[a] + Len(l) + 1 /\ Q[a] + Len(l) + 1 < p + Len(h))
    BY <2>3, <1>1
  <2>5. p + Len(h) <= Q[a] + Len(l) + 1
    BY <2>1, <2>2, <2>4, <1>1, <1>4
  <2>6. Q[a] + Len(data) <= Q[a] + Len(l) + 1
    BY <2>1, <2>5, <1>1, <1>4, <1>7
  <2>7. Len(data) <= Len(l) + 1
    BY <2>1, <2>6, <1>4, <1>7
  <2>8. QED  BY <2>7 DEF l
<1>10. Q[a] + Len(data) <= Len(B)
  BY <1>1, <1>7
<1>11. Streamed(stream', B, Points(Q), Q[a] + Len(data))
  BY <1>1, <1>7
<1>12. QED
  <2>1. a = Len(answers) /\ data = Data
    BY <1>0 DEF Data
  <2>2. QED  BY <2>1, <1>2, <1>5, <1>6, <1>7, <1>8, <1>9, <1>10, <1>11

\* The answers stay in order when none is added, and when the right one is.
LEMMA NoAnswer ==
    ASSUME TypeInv, AnswersInOrder, Claimed, open, answers' = answers, sent' = sent
    PROVE  AnswersInOrder'
<1>1. /\ Len(answers) <= Len(sent)
      /\ \A i \in DOMAIN answers : answers[i] = Expected(sent[i])
  BY DEF AnswersInOrder, Claimed, Cut
<1>2. \A i \in DOMAIN answers : answers'[i] = Expected(sent'[i])
  BY <1>1
<1>3. QED  BY <1>1, <1>2 DEF AnswersInOrder, Expected, TooLong

LEMMA OneAnswer ==
    ASSUME TypeInv, AnswersInOrder, Claimed, open, sent' = sent,
           Len(answers) < Len(sent), NEW e \in Replies, answers' = Append(answers, e),
           \/ e = Expected(sent[Len(answers) + 1])
           \/ e = Nack /\ ~open' /\ ~orderly'
    PROVE  AnswersInOrder'
<1> DEFINE a == Len(answers)
<1>1. /\ a = Len(answers) /\ a \in Nat /\ Len(sent) \in Nat /\ DOMAIN answers = 1..a
      /\ answers \in Seq(Replies)
  BY LenProperties DEF TypeInv
<1>2. \A i \in 1..a : answers[i] = Expected(sent[i])
  BY <1>1 DEF AnswersInOrder, Claimed, Cut
<1>3. /\ Len(answers') = a + 1 /\ (\A i \in 1..a : answers'[i] = answers[i])
      /\ answers'[a + 1] = e /\ answers' \in Seq(Replies)
  BY <1>1, AppendProperties
<1>4. DOMAIN answers' = 1..(a + 1)
  BY <1>3, LenProperties
<1> HIDE DEF a
<1>5. a + 1 <= Len(sent)
  BY <1>1
<1>6. ASSUME NEW i \in 1..(a + 1)
      PROVE  \/ answers'[i] = Expected(sent[i])
             \/ i = a + 1 /\ answers'[i] = Nack /\ ~open' /\ ~orderly'
  <2>1. i \in 1..a \/ i = a + 1
    BY <1>1
  <2>2. CASE i \in 1..a
    BY <2>2, <1>2, <1>3
  <2>3. CASE i = a + 1
    BY <2>3, <1>3, <1>1
  <2>4. QED  BY <2>1, <2>2, <2>3
<1>7. \A i \in DOMAIN answers' : (answers'[i] = Expected(sent'[i])) \/ Cut(i)'
  <2>1. \A i : (i = a + 1 /\ answers'[i] = Nack /\ ~open' /\ ~orderly') => Cut(i)'
    BY <1>3 DEF Cut, Nack
  <2>2. QED  BY <2>1, <1>4, <1>6
<1>8. Len(answers') <= Len(sent')
  BY <1>3, <1>5
<1>9. QED  BY <1>7, <1>8 DEF AnswersInOrder, Expected, TooLong

LEMMA CommandStep ==
    ASSUME TypeInv, IInv, ReadCommand
    PROVE  IInv'
<1>0. PICK a, data : a = Len(answers) /\ data = accumulatedData \o Text(Got(maxMessageSize))
  OBVIOUS
<1>1. /\ open /\ mode = "command" /\ Read(maxMessageSize)
      /\ sent' = sent /\ hungup' = hungup
      /\ IF Len(data) > maxMessageSize THEN Reject(data) ELSE Parse(data)
      /\ ~crashed
  BY <1>0 DEF ReadCommand, clientVars, TypeInv
<1>2. /\ sent \in Seq(Lines) /\ Len(sent) \in Nat /\ answers \in Seq(Replies)
      /\ maxMessageSize \in Nat /\ Nack \in Replies /\ orderly \in BOOLEAN
  BY Sizes, LenProperties DEF TypeInv, TypeOK, Replies
<1>3. orderly' => orderly
  BY <1>1, <1>2 DEF Parse, Obey, Reply, Crash, StartFile, Refuse, Reject
<1>4. SUFFICES ASSUME Claimed' PROVE IInv'
  BY DEF IInv, SegInv, AnswersInOrder, NoSpuriousEnd, Claimed
<1>5. Claimed
  BY <1>1, <1>3, <1>4 DEF Claimed, Plain
<1>6. PICK B, Q, p : Coded(B, Q) /\ Streamed(stream, B, Points(Q), p) /\ Place(Q, B, p)
  BY <1>1, <1>5 DEF IInv, SegInv
<1> DEFINE l == sent[a + 1]
           q == Q[a] + Len(data)
<1>7. /\ a \in Nat /\ a < Len(sent)
      /\ data \in Seq(Byte) /\ Len(data) \in Nat
      /\ q <= Len(B)
      /\ \A k \in 1..Len(data) : data[k] = B[Q[a] + k]
      /\ orderly => Len(data) <= Len(l) + 1
      /\ Streamed(stream', B, Points(Q), q)
  <2>1. /\ p \in Nat /\ Len(B) \in Nat /\ Got(maxMessageSize) \in Seq(Byte)
        /\ Len(Got(maxMessageSize)) \in Nat
        /\ p + Len(Got(maxMessageSize)) <= p + Len(Head(stream))
        /\ p + Len(Head(stream)) <= Len(B) /\ Len(Head(stream)) \in Nat
        /\ \A k \in 1..Len(Got(maxMessageSize)) : Got(maxMessageSize)[k] = B[p + k]
    BY <1>1, <1>6, Sizes, ReadAhead
  <2>2. ASSUME NEW k \in 1..Len(Got(maxMessageSize)) PROVE Got(maxMessageSize)[k] # NUL
    <3>1. p + k \in 1..Len(B)
      BY <2>1
    <3>2. B[p + k] # NUL
      BY <3>1, <1>5, <1>6 DEF Coded, Claimed
    <3>3. QED  BY <3>2, <2>1
  <2>3. Text(Got(maxMessageSize)) = Got(maxMessageSize)
    BY <2>1, <2>2, WholeText
  <2>4. a = Len(answers) /\ data = Data
    BY <1>0, <2>3 DEF Data
  <2>5. QED  BY <2>4, <1>1, <1>6, Gathered
<1>8. /\ l \in Lines /\ Len(l) \in Nat
      /\ Q[a] \in Nat
      /\ Q[a + 1] = Q[a] + Len(l) + 1 + (IF l = Download THEN FileSize ELSE 0)
      /\ \A k \in 1..Len(l) : B[Q[a] + k] = l[k]
      /\ B[Q[a] + Len(l) + 1] = NL
  BY <1>2, <1>6, <1>7, CodedAt
<1>9. Coded(B, Q)' /\ (orderly' = orderly => Points(Q)' = Points(Q))
  BY <1>1, <1>6 DEF Coded, Points, Bounds, Plain
<1>10. CASE Len(data) > maxMessageSize
  <2>1. /\ answers' = Append(answers, Nack) /\ open' = FALSE /\ orderly' = orderly
        /\ crashed' = crashed
    BY <1>1, <1>10 DEF Reject
  <2>2. orderly => TooLong(l)
    BY <1>2, <1>7, <1>8, <1>10 DEF TooLong
  <2>3. AnswersInOrder'
    <3>1. Nack = Expected(l) \/ (~open' /\ ~orderly')
      BY <2>1, <2>2 DEF Expected
    <3>2. QED  BY <2>1, <3>1, <1>0, <1>1, <1>2, <1>5, <1>7, OneAnswer DEF IInv
  <2>4. NoSpuriousEnd'
    <3>1. a + 1 \in DOMAIN sent
      BY <1>2, <1>7, LenProperties
    <3>2. Len(answers') = a + 1
      BY <2>1, <1>0, <1>2, AppendProperties
    <3>3. QED  BY <2>1, <2>2, <3>1, <3>2, <1>1 DEF NoSpuriousEnd, TooLong
  <2>5. QED  BY <2>1, <2>3, <2>4 DEF IInv, SegInv
<1>11. CASE ~(Len(data) > maxMessageSize)
  <2>0. PICK n : n = EndOf(data)
    OBVIOUS
  <2>1. Parse(data)
    BY <1>1, <1>11
  <2>2. /\ NL \in Range(data) <=> Len(l) + 1 <= Len(data)
        /\ NL \in Range(data) =>
              /\ n = Len(l) + 1
              /\ SubSeq(data, 1, n - 1) = l
              /\ SubSeq(data, n + 1, Len(data)) \in Seq(Byte)
              /\ Len(SubSeq(data, n + 1, Len(data))) = Len(data) - (Len(l) + 1)
              /\ \A k \in 1..(Len(data) - (Len(l) + 1)) :
                    SubSeq(data, n + 1, Len(data))[k] = B[Q[a] + (Len(l) + 1) + k]
    <3> HIDE DEF l, q
    <3>1. /\ l \in Lines /\ data \in Seq(Byte) /\ Q[a] \in Nat
          /\ HeldAt(data, B, Q[a]) /\ CommandAt(l, B, Q[a])
      BY <1>7, <1>8 DEF HeldAt, CommandAt
    <3>2. Splits(data, l, B, Q[a], EndOf(data))
      BY <3>1, FirstCommand
    <3>3. Splits(data, l, B, Q[a], n)
      BY <2>0, <3>2
    <3>4. QED  BY <3>3 DEF Splits
  <2>3. open' => NoSpuriousEnd'
    BY DEF NoSpuriousEnd
  <2>4. CASE NL \notin Range(data)
    <3>1. /\ accumulatedData' = data /\ mode' = mode /\ totalBytesRead' = totalBytesRead
          /\ answers' = answers /\ orderly' = orderly /\ open'
      BY <2>1, <2>4, <1>1 DEF Parse
    <3>2. AnswersInOrder'
      BY <3>1, <1>1, <1>5, NoAnswer DEF IInv
    <3>3. orderly => q <= Q[a] + Len(l)
      BY <2>2, <2>4, <1>7, <1>8
    <3>4. Place(Q, B, q)'
      BY <3>1, <3>3, <1>0, <1>1, <1>7 DEF Place
    <3>5. SegInv'
      BY <3>1, <3>4, <1>7, <1>9 DEF SegInv
    <3>6. QED  BY <2>3, <3>1, <3>2, <3>5 DEF IInv
  <2>5. CASE NL \in Range(data)
    <3> DEFINE u == SubSeq(data, n + 1, Len(data))
    <3>1. accumulatedData' = u /\ Obey(l)
      BY <2>0, <2>1, <2>2, <2>5 DEF Parse, EndOf
    <3>2. /\ Len(l) + 1 <= Len(data)
          /\ u \in Seq(Byte) /\ Len(u) = Len(data) - (Len(l) + 1)
          /\ \A k \in 1..(Len(data) - (Len(l) + 1)) : u[k] = B[Q[a] + (Len(l) + 1) + k]
          /\ Len(u) \in Nat
      <4> HIDE DEF l, q
      <4>1. /\ Len(l) + 1 <= Len(data)
            /\ u \in Seq(Byte) /\ Len(u) = Len(data) - (Len(l) + 1)
            /\ \A k \in 1..(Len(data) - (Len(l) + 1)) : u[k] = B[Q[a] + (Len(l) + 1) + k]
        BY <2>2, <2>5
      <4>2. QED  BY <4>1, LenProperties
    <3> HIDE DEF u
    <3>3. ~TooLong(l)
      BY <3>2, <1>2, <1>7, <1>8, <1>11 DEF TooLong
    <3>4. orderly => u = <<>>
      <4>1. orderly => Len(u) = 0
        <5> HIDE DEF l, q
        <5>1. Len(data) \in Nat /\ Len(l) \in Nat
          BY <1>7, <1>8
        <5>2. SUFFICES ASSUME orderly PROVE Len(u) = 0
          OBVIOUS
        <5>3. Len(data) <= Len(l) + 1
          BY <5>2, <1>7
        <5>4. QED  BY <5>1, <5>3, <3>2
      <4>2. QED  BY <4>1, <3>2, EmptySeq
    <3>a. CASE l = <<>>
      <4>1. ~open' /\ crashed' /\ answers' = answers
        BY <3>1, <3>a, Sizes DEF Obey, Crash
      <4>2. AnswersInOrder'
        BY <4>1, <1>1, <1>5, NoAnswer DEF IInv
      <4>3. NoSpuriousEnd'
        BY <4>1, <3>a, <1>0, <1>1, <1>7 DEF NoSpuriousEnd
      <4>4. QED  BY <4>1, <4>2, <4>3 DEF IInv, SegInv
    <3>5. CASE l \notin {<<>>, Download}
      <4>1. /\ answers' = Append(answers, Answer(l))
            /\ mode' = mode /\ totalBytesRead' = totalBytesRead /\ orderly' = orderly /\ open'
        BY <3>1, <3>5, <1>1 DEF Obey, Reply
      <4>2. Answer(l) \in Replies
        BY <1>8, LineType DEF Replies
      <4>3. AnswersInOrder'
        <5>1. Answer(l) = Expected(l)
          BY <3>3, <3>5 DEF Expected
        <5>2. QED  BY <4>1, <4>2, <5>1, <1>0, <1>1, <1>5, <1>7, OneAnswer DEF IInv
      <4>4. Place(Q, B, q)'
        <5>1. Len(answers') = a + 1
          BY <4>1, <4>2, <1>0, <1>2, AppendProperties
        <5>2. Q[a + 1] = Q[a] + (Len(l) + 1)
          <6>1. Q[a + 1] = Q[a] + Len(l) + 1 + 0
            BY <3>5, <1>8
          <6>2. Len(l) \in Nat /\ Q[a] \in Nat
            BY <1>8
          <6>3. \A x, y \in Nat : x + y + 1 + 0 = x + (y + 1)
            OBVIOUS
          <6>4. QED  BY <6>1, <6>2, <6>3
        <5>3. q = Q[a + 1] + Len(u)
          BY <5>2, <3>2, <1>7, <1>8
        <5>4. \A k \in 1..Len(u) : u[k] = B[Q[a + 1] + k]
          BY <5>2, <3>2
        <5>5. orderly => \/ a + 1 = Len(sent) /\ q = Q[a + 1]
                         \/ a + 1 < Len(sent) /\ q <= Q[a + 1] + Len(sent[(a + 1) + 1])
          <6>1. SUFFICES ASSUME orderly, a + 1 # Len(sent)
                         PROVE  a + 1 < Len(sent) /\ q <= Q[a + 1] + Len(sent[(a + 1) + 1])
            <7>1. orderly => q = Q[a + 1]
              BY <5>3, <3>4, <5>2, <1>7, <1>8, EmptySeq
            <7>2. QED  BY <7>1
          <6>2. q = Q[a + 1] /\ Q[a + 1] \in Nat
            BY <5>3, <3>4, <5>2, <6>1, <1>7, <1>8, EmptySeq
          <6>3. a + 1 \in Nat /\ a + 1 < Len(sent)
            BY <6>1, <1>2, <1>7
          <6>4. Len(sent[(a + 1) + 1]) \in Nat
            BY <6>3, <1>2, <1>6, CodedAt
          <6>5. QED  BY <6>2, <6>3, <6>4
        <5>6. a + 1 <= Len(sent)
          BY <1>2, <1>7
        <5>7. QED  BY <3>1, <4>1, <5>1, <5>3, <5>4, <5>5, <5>6, <1>1 DEF Place
      <4>5. SegInv'
        BY <4>1, <4>4, <1>7, <1>9 DEF SegInv
      <4>6. QED  BY <2>3, <4>1, <4>3, <4>5 DEF IInv
    <3>6. CASE l = Download
      <4>1. Download \in Range(sent')
        <5>1. a + 1 \in DOMAIN sent
          BY <1>2, <1>7, LenProperties
        <5>2. QED  BY <3>6, <5>1, <1>1 DEF Range
      <4>2. orderly'
        BY <4>1, <1>4 DEF Claimed
      <4>3. /\ mode' = "file" /\ totalBytesRead' = 0
            /\ answers' = answers /\ orderly' = orderly /\ open'
        BY <3>1, <3>6, <4>2, <1>1, Sizes DEF Obey, StartFile, Refuse
      <4>4. AnswersInOrder'
        BY <4>3, <1>1, <1>5, NoAnswer DEF IInv
      <4>5. Place(Q, B, q)'
        <5>1. u = <<>> /\ Len(data) = Len(l) + 1
          <6>1. u = <<>> /\ Len(u) = 0
            BY <3>4, <4>2, <4>3, EmptySeq
          <6>2. QED  BY <6>1, <3>2, <1>7, <1>8
        <5>2. q = Q[a] + Len(Download) + 1 + 0
          <6>1. Len(l) \in Nat /\ Q[a] \in Nat /\ Len(data) = Len(l) + 1
            BY <5>1, <1>8
          <6>2. \A x, y \in Nat : x + (y + 1) = x + y + 1 + 0
            OBVIOUS
          <6>3. q = Q[a] + Len(l) + 1 + 0
            BY <6>1, <6>2
          <6>4. QED  BY <6>3, <3>6
        <5>3. ~TooLong(Download)'
          BY <3>3, <3>6 DEF TooLong
        <5>4. Len(answers') = a /\ a <= Len(sent) /\ a < Len(sent')
          BY <4>3, <1>0, <1>1, <1>2, <1>7
        <5>5. QED  BY <3>1, <3>6, <4>2, <4>3, <5>1, <5>2, <5>3, <5>4, <1>1 DEF Place
      <4>6. SegInv'
        BY <4>3, <4>5, <1>7, <1>9 DEF SegInv
      <4>7. QED  BY <2>3, <4>3, <4>4, <4>6 DEF IInv
    <3>7. QED  BY <3>a, <3>5, <3>6
  <2>6. QED  BY <2>4, <2>5
<1>12. QED  BY <1>10, <1>11

\* handleFileDownloadFromClient reads what is left of the file, and no more.
LEMMA FileStep ==
    ASSUME TypeInv, IInv, ReadFile
    PROVE  IInv'
<1>0. PICK a, t, w : a = Len(answers) /\ t = totalBytesRead /\ w = Len(Got(BufferSize))
  OBVIOUS
<1>1. /\ open /\ mode = "file" /\ Read(BufferSize)
      /\ sent' = sent /\ hungup' = hungup /\ accumulatedData' = accumulatedData
      /\ open' = open /\ orderly' = orderly
      /\ totalBytesRead' = t + w
      /\ IF t + w >= FileSize THEN EndFile(t + w) ELSE mode' = mode /\ answers' = answers
  BY <1>0 DEF ReadFile, clientVars
<1>2. /\ sent \in Seq(Lines) /\ Len(sent) \in Nat /\ answers \in Seq(Replies)
      /\ a \in Nat /\ t \in Nat /\ t < FileSize
      /\ FileSize \in Nat /\ BufferSize \in Nat \ {0} /\ Stored \in Replies
  BY <1>0, <1>1, Sizes, LenProperties DEF TypeInv, TypeOK, Replies
<1>3. NoSpuriousEnd'
  BY <1>1 DEF NoSpuriousEnd
<1>4. SUFFICES ASSUME Claimed' PROVE SegInv' /\ AnswersInOrder'
  BY <1>3 DEF IInv, SegInv, AnswersInOrder, Claimed
<1>5. Claimed
  BY <1>1, <1>4 DEF Claimed, Plain
<1>6. PICK B, Q, p : Coded(B, Q) /\ Streamed(stream, B, Points(Q), p) /\ Place(Q, B, p)
  BY <1>1, <1>5 DEF IInv, SegInv
<1>7. /\ orderly /\ a < Len(sent) /\ sent[a + 1] = Download /\ ~TooLong(Download)
      /\ accumulatedData = <<>>
      /\ p = Q[a] + Len(Download) + 1 + t
  BY <1>0, <1>1, <1>6 DEF Place
<1>8. /\ Q[a] \in Nat /\ Len(Download) \in Nat /\ Q[a + 1] \in Nat
      /\ Q[a + 1] = Q[a] + Len(Download) + 1 + FileSize
  BY <1>2, <1>6, <1>7, CodedAt
<1>a. PICK c : c = Q[a] + Len(Download) + 1
  OBVIOUS
<1>b. c \in Nat /\ p = c + t /\ Q[a + 1] = c + FileSize
  BY <1>7, <1>8, <1>a
<1>9. Q[a + 1] \in Points(Q)
  <2>1. a + 1 \in 0..Len(sent)
    BY <1>2, <1>7
  <2>2. QED  BY <2>1, <1>7 DEF Points, Bounds
<1> DEFINE h == Len(Head(stream))
<1>10. /\ p \in Nat /\ w \in Nat \ {0} /\ p + w <= p + h /\ h \in Nat
       /\ \A x \in Points(Q) : ~(p < x /\ x < p + h)
       /\ Streamed(stream', B, Points(Q), p + w)
  <2>1. BufferSize \in Nat \ {0} /\ Read(BufferSize)
    BY <1>1, <1>2
  <2>2. /\ p \in Nat /\ Len(Got(BufferSize)) \in 1..BufferSize
        /\ p + Len(Got(BufferSize)) <= p + Len(Head(stream)) /\ Len(Head(stream)) \in Nat \ {0}
        /\ \A x \in Points(Q) : ~(p < x /\ x < p + Len(Head(stream)))
        /\ Streamed(stream', B, Points(Q), p + Len(Got(BufferSize)))
    BY <2>1, <1>6, ReadAhead
  <2>3. QED  BY <2>2, <1>0, <1>2
<1> HIDE DEF h
<1>11. p + w <= Q[a + 1] /\ t + w <= FileSize
  <2>1. p < Q[a + 1]
    BY <1>2, <1>7, <1>8
  <2>2. ~(p < Q[a + 1] /\ Q[a + 1] < p + h)
    BY <1>9, <1>10
  <2>3. p + w <= Q[a + 1]
    BY <2>1, <2>2, <1>8, <1>10
  <2>4. (c + t) + w <= c + FileSize /\ w \in Nat
    BY <2>3, <1>b, <1>10
  <2>5. t + w <= FileSize
    BY <2>4, <1>2, <1>b
  <2>6. QED  BY <2>3, <2>5
<1>12. Coded(B, Q)' /\ Points(Q)' = Points(Q)
  BY <1>1, <1>6 DEF Coded, Points, Bounds, Plain
<1>13. CASE t + w >= FileSize
  <2>1. t + w = FileSize /\ p + w = Q[a + 1]
    <3>1. w \in Nat /\ t + w <= FileSize
      BY <1>10, <1>11
    <3>2. t + w = FileSize
      BY <3>1, <1>2, <1>13
    <3>3. (c + t) + w = c + FileSize
      BY <3>1, <3>2, <1>2, <1>b
    <3>4. QED  BY <3>2, <3>3, <1>b
  <2>2. mode' = "command" /\ answers' = Append(answers, Stored)
    BY <2>1, <1>1, <1>13 DEF EndFile
  <2>3. AnswersInOrder'
    <3>1. Stored = Expected(sent[Len(answers) + 1])
      BY <1>0, <1>7 DEF Expected
    <3>2. QED  BY <2>2, <3>1, <1>0, <1>1, <1>2, <1>5, <1>7, OneAnswer DEF IInv
  <2>4. Place(Q, B, p + w)'
    <3>1. Len(answers') = a + 1
      BY <2>2, <1>0, <1>2, AppendProperties
    <3>2. accumulatedData' = <<>> /\ Len(<<>>) = 0
      BY <1>1, <1>7, EmptySeq
    <3>3. p + w = Q[a + 1] + 0
      BY <2>1, <1>8
    <3>4. orderly => \/ a + 1 = Len(sent) /\ p + w = Q[a + 1]
                     \/ a + 1 < Len(sent) /\ p + w <= Q[a + 1] + Len(sent[(a + 1) + 1])
      <4>1. CASE a + 1 = Len(sent)
        BY <4>1, <2>1
      <4>2. CASE a + 1 < Len(sent)
        <5>1. a + 1 \in Nat
          BY <1>2
        <5>2. Len(sent[(a + 1) + 1]) \in Nat
          BY <5>1, <4>2, <1>2, <1>6, CodedAt
        <5>3. QED  BY <4>2, <5>2, <2>1, <1>8
      <4>3. QED  BY <4>1, <4>2, <1>2, <1>7
    <3>5. a + 1 <= Len(sent)
      BY <1>2, <1>7
    <3>6. /\ \A k \in 1..Len(accumulatedData') : accumulatedData'[k] = B[Q[a + 1] + k]
          /\ p + w = Q[a + 1] + Len(accumulatedData')
      BY <3>2, <3>3
    <3>7. QED  BY <2>2, <3>1, <3>4, <3>5, <3>6, <1>1 DEF Place
  <2>5. SegInv'
    BY <2>4, <1>10, <1>12 DEF SegInv
  <2>6. QED  BY <2>3, <2>5
<1>14. CASE ~(t + w >= FileSize)
  <2>1. mode' = mode /\ answers' = answers
    BY <1>1, <1>14
  <2>2. AnswersInOrder'
    BY <2>1, <1>1, <1>5, NoAnswer DEF IInv
  <2>3. p + w = Q[a] + Len(Download) + 1 + (t + w)
    <3>1. w \in Nat
      BY <1>10
    <3>2. (c + t) + w = c + (t + w)
      BY <3>1, <1>2, <1>b
    <3>3. QED  BY <3>2, <1>a, <1>b
  <2>4. Place(Q, B, p + w)'
    <3>1. ~TooLong(Download)'
      BY <1>7 DEF TooLong
    <3>2. a <= Len(sent)
      BY <1>2, <1>7
    <3>3. QED  BY <2>1, <2>3, <3>1, <3>2, <1>0, <1>1, <1>7 DEF Place
  <2>5. SegInv'
    BY <2>4, <1>10, <1>12 DEF SegInv
  <2>6. QED  BY <2>2, <2>5
<1>15. QED  BY <1>13, <1>14

\* A read fails in an orderly session only when all commands are answered.
LEMMA FailStep ==
    ASSUME TypeInv, IInv, ReadFails
    PROVE  IInv'
<1>1. /\ open /\ hungup /\ stream = <<>>
      /\ sent' = sent /\ hungup' = hungup /\ orderly' = orderly
      /\ accumulatedData' = accumulatedData /\ totalBytesRead' = totalBytesRead
  BY DEF ReadFails, clientVars
<1>2. NoSpuriousEnd'
  BY <1>1 DEF NoSpuriousEnd
<1>3. SUFFICES ASSUME Claimed' PROVE SegInv' /\ AnswersInOrder'
  BY <1>2 DEF IInv, SegInv, AnswersInOrder, Claimed
<1>4. Claimed
  BY <1>1, <1>3 DEF Claimed, Plain
<1>5. PICK B, Q, p : Coded(B, Q) /\ Streamed(stream, B, Points(Q), p) /\ Place(Q, B, p)
  BY <1>1, <1>4 DEF IInv, SegInv
<1>6. sent \in Seq(Lines) /\ Len(sent) \in Nat /\ stream \in Seq(Seq(Byte)) /\ Len(answers) \in Nat
  BY LenProperties DEF TypeInv
<1>7. mode # "file"
  <2>1. SUFFICES ASSUME mode = "file" PROVE FALSE
    OBVIOUS
  <2>2. PICK a, t : a = Len(answers) /\ t = totalBytesRead
    OBVIOUS
  <2>3. /\ a < Len(sent) /\ sent[a + 1] = Download /\ a \in Nat
        /\ p = Q[a] + Len(Download) + 1 + t
    BY <2>1, <2>2, <1>5, <1>6 DEF Place
  <2>4. t \in Nat /\ t < FileSize /\ FileSize \in Nat
    BY <2>1, <2>2, Sizes DEF TypeInv, TypeOK
  <2>5. /\ Q[a] \in Nat /\ Len(Download) \in Nat /\ Q[a + 1] \in Nat /\ Len(B) \in Nat
        /\ Q[a + 1] = Q[a] + Len(Download) + 1 + FileSize /\ Q[a + 1] <= Len(B)
    BY <2>3, <1>5, <1>6, CodedAt
  <2>6. B \in Seq(Byte)
    BY <1>5 DEF Coded
  <2>7. p = Len(B)
    BY <2>6, <1>1, <1>5, <1>6, StreamedEnd
  <2>8. QED  BY <2>3, <2>4, <2>5, <2>7
<1>8. open' = FALSE /\ answers' = answers
  BY <1>7 DEF ReadFails
<1>9. QED  BY <1>1, <1>4, <1>8, NoAnswer DEF IInv, SegInv

LEMMA InitStep == Init => IInv
<1>1. SUFFICES ASSUME Init PROVE IInv
  OBVIOUS
<1>2. /\ Len(sent) = 0 /\ Len(stream) = 0 /\ Len(answers) = 0 /\ Len(accumulatedData) = 0
      /\ DOMAIN answers = {} /\ open /\ mode = "command" /\ <<>> \in Seq(Byte) /\ Len(<<>>) = 0
  <2>1. <<>> \in Seq(Byte) /\ DOMAIN <<>> = {} /\ Len(<<>>) = 0
    BY EmptySeq
  <2>2. QED  BY <2>1, <1>1 DEF Init
<1> DEFINE Z == [i \in 0..0 |-> 0]
<1>3. Z \in [0..0 -> Nat] /\ Z[0] = 0
  OBVIOUS
<1> HIDE DEF Z
<1>4. Coded(<<>>, Z)
  BY <1>2, <1>3 DEF Coded
<1>5. Streamed(stream, <<>>, Points(Z), 0)
  <2>1. Cuts(Z, stream, <<>>, Points(Z), 0)
    BY <1>2, <1>3 DEF Cuts
  <2>2. QED  BY <2>1 DEF Streamed
<1>6. Place(Z, <<>>, 0)
  BY <1>2, <1>3 DEF Place
<1>7. QED  BY <1>2, <1>4, <1>5, <1>6 DEF IInv, SegInv, AnswersInOrder, NoSpuriousEnd

\* A step that leaves the session alone, whoever hangs up.
LEMMA SameSession ==
    ASSUME SegInv, AnswersInOrder,
           UNCHANGED <<stream, sent, serverVars, orderly>>
    PROVE  SegInv' /\ AnswersInOrder'
<1>1. /\ stream' = stream /\ sent' = sent /\ accumulatedData' = accumulatedData /\ mode' = mode
      /\ totalBytesRead' = totalBytesRead /\ answers' = answers /\ open' = open
      /\ orderly' = orderly
  BY DEF serverVars
<1>2. AnswersInOrder'
  BY <1>1 DEF AnswersInOrder, Cut, Expected, TooLong, Plain
<1>3. SegInv'
  <2>1. SUFFICES ASSUME Claimed', open'
                 PROVE  (\E B, Q, p : Coded(B, Q) /\ Streamed(stream, B, Points(Q), p) /\ Place(Q, B, p))'
    BY DEF SegInv
  <2>2. PICK B, Q, p : Coded(B, Q) /\ Streamed(stream, B, Points(Q), p) /\ Place(Q, B, p)
    BY <2>1, <1>1 DEF SegInv, Claimed, Plain
  <2>3. Coded(B, Q)'
    BY <2>2, <1>1 DEF Coded, Plain
  <2>4. Streamed(stream', B, Points(Q)', p)
    <3>1. Points(Q)' = Points(Q)
      BY <1>1 DEF Points, Bounds
    <3>2. QED  BY <2>2, <3>1, <1>1
  <2>5. Place(Q, B, p)'
    BY <2>2, <1>1 DEF Place, TooLong
  <2>6. QED  BY <2>3, <2>4, <2>5
<1>4. QED  BY <1>2, <1>3

LEMMA InvStep == TypeInv /\ IInv /\ [Next]_vars => IInv'
<1>1. SUFFICES ASSUME TypeInv, IInv, [Next]_vars PROVE IInv'
  OBVIOUS
<1>2. ASSUME NEW l \in Lines, SendCommand(l) PROVE IInv'
  BY <1>1, <1>2, SendStep
<1>3. CASE HangUp
  <2>1. SegInv' /\ AnswersInOrder'
    BY <1>1, <1>3, SameSession DEF HangUp, IInv
  <2>2. NoSpuriousEnd'
    BY <1>1, <1>3 DEF HangUp, IInv, NoSpuriousEnd, serverVars
  <2>3. QED  BY <2>1, <2>2 DEF IInv
<1>4. CASE ReadCommand
  BY <1>1, <1>4, CommandStep
<1>5. CASE ReadFile
  BY <1>1, <1>5, FileStep
<1>6. CASE ReadFails
  BY <1>1, <1>6, FailStep
<1>7. CASE UNCHANGED vars
  <2>1. SegInv' /\ AnswersInOrder'
    BY <1>1, <1>7, SameSession DEF vars, clientVars, IInv
  <2>2. NoSpuriousEnd'
    BY <1>1, <1>7 DEF vars, clientVars, serverVars, IInv, NoSpuriousEnd, TooLong, Plain
  <2>3. QED  BY <2>1, <2>2 DEF IInv
<1>8. QED  BY <1>1, <1>2, <1>3, <1>4, <1>5, <1>6, <1>7 DEF Next, ServerStep

\* The first record on its way, and where it lies in the bytes written.
LEMMA AtHead ==
    ASSUME TypeInv, stream # <<>>,
           NEW B, NEW Q, NEW p, Coded(B, Q), Streamed(stream, B, Points(Q), p)
    PROVE  /\ p \in Nat /\ Len(B) \in Nat
           /\ Len(Head(stream)) \in Nat \ {0} /\ p + Len(Head(stream)) <= Len(B)
           /\ DOMAIN Head(stream) = 1..Len(Head(stream))
           /\ \A k \in 1..Len(Head(stream)) : Head(stream)[k] = B[p + k]
           /\ \A x \in Points(Q) : ~(p < x /\ x < p + Len(Head(stream)))
<1>1. /\ sent \in Seq(Lines) /\ stream \in Seq(Seq(Byte)) /\ Head(stream) \in Seq(Byte)
  BY HeadTailProperties DEF TypeInv
<1>2. B \in Seq(Byte) /\ Len(B) \in Nat /\ Points(Q) \in SUBSET Int
  <2>1. B \in Seq(Byte) /\ Len(B) \in Nat /\ Bounds(Q) \in SUBSET (0..Len(B))
    BY <1>1, CodedLast
  <2>2. 0..Len(B) \subseteq Int
    BY <2>1
  <2>3. QED  BY <2>1, <2>2 DEF Points
<1>3. /\ p \in Nat
      /\ Len(Head(stream)) \in Nat \ {0} /\ p + Len(Head(stream)) <= Len(B)
      /\ \A k \in 1..Len(Head(stream)) : Head(stream)[k] = B[p + k]
      /\ \A x \in Points(Q) : ~(p < x /\ x < p + Len(Head(stream)))
  <2>1. PICK n, X, str : n = 1 /\ X = Points(Q) /\ str = stream
    OBVIOUS
  <2>2. PICK g, rest : g = Chunk(str, n) /\ rest = Rest(str, n)
    OBVIOUS
  <2>3. /\ n \in Nat \ {0} /\ str \in Seq(Seq(Byte)) /\ str # <<>> /\ B \in Seq(Byte)
        /\ X \in SUBSET Int /\ Streamed(str, B, X, p)
    BY <2>1, <1>1, <1>2
  <2>4. /\ p \in Nat
        /\ Len(Head(str)) \in Nat \ {0} /\ p + Len(Head(str)) <= Len(B)
        /\ \A k \in 1..Len(Head(str)) : Head(str)[k] = B[p + k]
        /\ \A x \in X : ~(p < x /\ x < p + Len(Head(str)))
    BY <2>2, <2>3, ReadStreamed
  <2>5. QED  BY <2>1, <2>4
<1>4. QED  BY <1>1, <1>2, <1>3, LenProperties

LEMMA SyncStep == TypeInv /\ IInv => InSync
<1>1. SUFFICES ASSUME TypeInv, IInv, Plain, orderly, open, stream # <<>>
               PROVE  mode = "file" <=> FileByte \in Range(Head(stream))
  BY DEF InSync
<1>2. PICK B, Q, p : Coded(B, Q) /\ Streamed(stream, B, Points(Q), p) /\ Place(Q, B, p)
  BY <1>1 DEF IInv, SegInv, Claimed
<1>3. PICK a, h : a = Len(answers) /\ h = Head(stream)
  OBVIOUS
<1>4. /\ p \in Nat /\ Len(B) \in Nat /\ Len(h) \in Nat \ {0} /\ p + Len(h) <= Len(B)
      /\ DOMAIN h = 1..Len(h)
      /\ \A k \in 1..Len(h) : h[k] = B[p + k]
      /\ \A x \in Points(Q) : ~(p < x /\ x < p + Len(h))
  BY <1>1, <1>2, <1>3, AtHead
<1>5. /\ sent \in Seq(Lines) /\ Len(sent) \in Nat /\ a \in Nat
      /\ Len(accumulatedData) \in Nat /\ mode \in {"command", "file"}
  BY <1>1, <1>3, LenProperties DEF TypeInv, TypeOK
<1>6. ASSUME mode = "file" PROVE FileByte \in Range(h)
  <2>1. PICK t : t = totalBytesRead
    OBVIOUS
  <2>2. t \in Nat /\ t < FileSize /\ FileSize \in Nat
    BY <1>1, <1>6, <2>1, Sizes DEF TypeInv, TypeOK
  <2>3. a < Len(sent) /\ sent[a + 1] = Download /\ p = Q[a] + Len(Download) + 1 + t
    BY <1>2, <1>3, <1>6, <2>1 DEF Place
  <2>4. /\ Q[a] \in Nat /\ Len(Download) \in Nat
        /\ \A k \in (Len(Download) + 2)..(Len(Download) + 1 + FileSize) : B[Q[a] + k] = FileByte
    BY <2>3, <1>2, <1>5, CodedAt
  <2>5. PICK k : k = Len(Download) + 2 + t
    OBVIOUS
  <2>6. k \in (Len(Download) + 2)..(Len(Download) + 1 + FileSize) /\ p + 1 = Q[a] + k
    BY <2>2, <2>3, <2>4, <2>5
  <2>7. 1 \in 1..Len(h) /\ h[1] = FileByte
    BY <2>4, <2>6, <1>4
  <2>8. QED  BY <2>7, <1>4 DEF Range
<1>7. ASSUME mode = "command" PROVE FileByte \notin Range(h)
  <2>1. /\ a <= Len(sent) /\ p = Q[a] + Len(accumulatedData)
        /\ \/ a = Len(sent) /\ p = Q[a]
           \/ a < Len(sent) /\ p <= Q[a] + Len(sent[a + 1])
    BY <1>1, <1>2, <1>3, <1>7 DEF Place
  <2>2. Q[Len(sent)] = Len(B)
    BY <1>2 DEF Coded
  <2>3. a < Len(sent) /\ p <= Q[a] + Len(sent[a + 1])
    BY <2>1, <2>2, <1>4
  <2>4. PICK l : l = sent[a + 1]
    OBVIOUS
  <2>5. /\ l \in Lines /\ Len(l) \in Nat /\ Q[a] \in Nat
        /\ \A k \in 1..Len(l) : B[Q[a] + k] = l[k]
        /\ B[Q[a] + Len(l) + 1] = NL
    BY <2>3, <2>4, <1>2, <1>5, CodedAt
  <2>6. Q[a] + Len(l) + 1 \in Points(Q)
    <3>1. a \in 0..(Len(sent) - 1)
      BY <2>3, <1>5
    <3>2. QED  BY <3>1, <2>4, <1>1 DEF Points, Bounds
  <2>7. p + Len(h) <= Q[a] + Len(l) + 1
    <3>1. ~(p < Q[a] + Len(l) + 1 /\ Q[a] + Len(l) + 1 < p + Len(h))
      BY <2>6, <1>4
    <3>2. p <= Q[a] + Len(l)
      BY <2>3, <2>4
    <3>3. QED  BY <3>1, <3>2, <2>5, <1>4
  <2>8. SUFFICES ASSUME NEW k \in 1..Len(h), h[k] = FileByte PROVE FALSE
    BY <1>4 DEF Range
  <2>9. PICK i : i = Len(accumulatedData) + k
    OBVIOUS
  <2>10. i \in 1..(Len(l) + 1) /\ p + k = Q[a] + i
    <3>1. p = Q[a] + Len(accumulatedData) /\ p + Len(h) <= Q[a] + Len(l) + 1 /\ Len(h) \in Nat
      BY <2>1, <2>7, <1>4
    <3>2. QED  BY <3>1, <2>5, <2>8, <2>9, <1>5
  <2>11. B[Q[a] + i] = FileByte
    BY <2>8, <2>10, <1>4
  <2>12. CASE i = Len(l) + 1
    <3>1. Q[a] + i = Q[a] + Len(l) + 1
      BY <2>12, <2>5
    <3>2. QED  BY <3>1, <2>5, <2>11, MarkAssumption
  <2>13. CASE i # Len(l) + 1
    <3>1. i \in 1..Len(l)
      BY <2>10, <2>13, <2>5
    <3>2. l[i] = FileByte
      BY <3>1, <2>5, <2>11
    <3>3. l \in Seq(Byte) /\ DOMAIN l = 1..Len(l)
      BY <2>5, LineType, LenProperties
    <3>4. FileByte \in Range(l)
      BY <3>1, <3>2, <3>3 DEF Range
    <3>5. QED  BY <3>4, <2>5, MarkAssumption
  <2>14. QED  BY <2>12, <2>13
<1>8. QED  BY <1>3, <1>5, <1>6, <1>7

LEMMA IInvariant == Spec => [](TypeInv /\ IInv)
<1>1. Init => TypeInv /\ IInv
  BY InitType, InitStep
<1>2. (TypeInv /\ IInv) /\ [Next]_vars => (TypeInv /\ IInv)'
  BY TypeStep, InvStep
<1>3. QED  BY <1>1, <1>2, PTL DEF Spec

\* handleClient answers the commands one by one in the order in which they were
\* sent, however many records the client cut its bytes into and wherever the
\* reads stop, for commands of any length, any maxMessageSize and any buffer of
\* handleFileDownloadFromClient, as long as no command holds a NUL; with files, in an
\* orderly session.
THEOREM AnswersStayInOrder == Spec => []AnswersInOrder
<1>1. IInv => AnswersInOrder
  BY DEF IInv
<1>2. QED  BY <1>1, IInvariant, PTL

\* In an orderly session whose commands hold no NUL handleClient and
\* handleFileDownloadFromClient share the stream without ever taking a byte that is
\* meant for the other.
THEOREM StreamsStayInSync == Spec => []InSync
BY SyncStep, IInvariant, PTL

\* An orderly session whose client has not hung up ends on a command that is longer
\* than maxMessageSize allows, which is refused and the last to be answered (the
\* size test of handleClient), or on an empty one that crashes the server (tokens[0]
\* in parseRequest), as long as no command holds a NUL.
THEOREM EndsAreDue == Spec => []NoSpuriousEnd
<1>1. IInv => NoSpuriousEnd
  BY DEF IInv
<1>2. QED  BY <1>1, IInvariant, PTL

==============================================================================
