------------------------ MODULE RequestReader_proofs ------------------------
(***************************************************************************)
(* Proofs about the reading of a request, for every request, every way to  *)
(* cut it, every limit and every size of a read.                           *)
(***************************************************************************)
EXTENDS RequestReader, SequenceTheorems, FiniteSetTheorems, WellFoundedInduction, TLAPS

-----------------------------------------------------------------------------
(* Natural numbers and what is computed along a sequence.                    *)

LEMMA NatLeast ==
  ASSUME NEW T, T \subseteq Nat, T # {}
  PROVE  \E n \in T : \A m \in T : n <= m
  <1>1. PICK x \in T : \A y \in T : <<y, x>> \notin OpToRel(<, Nat)
    BY WFMin, NatLessThanWellFounded
  <1>2. \A y \in T : ~(y < x)
    BY <1>1 DEF OpToRel
  <1>3. \A y \in T : x <= y
    BY <1>2
  <1> QED BY <1>3

LEMMA MinIs ==
  ASSUME NEW T, T \subseteq Nat, T # {}
  PROVE  Min(T) \in T /\ \A m \in T : Min(T) <= m
  BY NatLeast DEF Min

LEMMA NatSetInduction ==
  ASSUME NEW S, 0 \in S, \A n \in Nat : n \in S => n + 1 \in S
  PROVE  \A n \in Nat : n \in S
  <1>1. SUFFICES ASSUME Nat \ S # {} PROVE FALSE
    OBVIOUS
  <1>2. PICK n \in Nat \ S : \A m \in Nat \ S : n <= m
    BY <1>1, NatLeast
  <1>3. n # 0 /\ n - 1 \in Nat /\ n - 1 \notin Nat \ S
    BY <1>2
  <1> QED BY <1>2, <1>3

\* From b on, each value is made of the one before by a step of F.
Follows(g, F, b, n) == g[0] = b /\ \A i \in 1..n : g[i] = F[i][g[i - 1]]

LEMMA ValuesExist ==
  ASSUME NEW V, NEW b \in V, NEW F \in [Nat -> [V -> V]]
  PROVE  \A n \in Nat : \E g \in [0..n -> V] : Follows(g, F, b, n)
  <1> DEFINE S == {n \in Nat : \E g \in [0..n -> V] : Follows(g, F, b, n)}
  <1>1. 0 \in S
    <2> DEFINE g == [i \in 0..0 |-> b]
    <2>1. g \in [0..0 -> V] /\ Follows(g, F, b, 0)
      BY DEF Follows
    <2> QED BY <2>1
  <1>2. ASSUME NEW n \in Nat, n \in S PROVE n + 1 \in S
    <2>1. PICK g \in [0..n -> V] : Follows(g, F, b, n)
      BY <1>2
    <2> DEFINE h == [i \in 0..n + 1 |-> IF i = n + 1 THEN F[n + 1][g[n]] ELSE g[i]]
    <2>2. h \in [0..n + 1 -> V] /\ h[0] = b
      BY <2>1 DEF Follows
    <2>3. \A i \in 1..n + 1 : h[i] = F[i][h[i - 1]]
      BY <2>1 DEF Follows
    <2> HIDE DEF h
    <2>4. Follows(h, F, b, n + 1)
      BY <2>2, <2>3 DEF Follows
    <2> QED BY <2>2, <2>4
  <1> HIDE DEF S
  <1>3. \A n \in Nat : n \in S
    BY <1>1, <1>2, NatSetInduction
  <1> QED BY <1>3 DEF S

\* f and g have the same first value, and each next one from the one before.
Agree(f, g, n) == /\ f[0] = g[0]
                  /\ \A i \in 1..n : f[i - 1] = g[i - 1] => f[i] = g[i]

LEMMA SameValues ==
  ASSUME NEW n \in Nat, NEW f, NEW g, Agree(f, g, n)
  PROVE  \A i \in 0..n : f[i] = g[i]
  <1> DEFINE S == {i \in Nat : i <= n => f[i] = g[i]}
  <1>1. 0 \in S
    BY DEF Agree
  <1>2. ASSUME NEW i \in Nat, i \in S PROVE i + 1 \in S
    <2>1. CASE i + 1 <= n
      <3>1. i + 1 \in 1..n /\ (i + 1) - 1 = i
        BY <2>1
      <3>2. f[i] = g[i]
        BY <1>2, <2>1
      <3>3. f[i + 1] = g[i + 1]
        BY <3>1, <3>2 DEF Agree
      <3> QED BY <3>3
    <2> QED BY <2>1
  <1> HIDE DEF S
  <1>3. \A i \in Nat : i \in S
    BY <1>1, <1>2, NatSetInduction
  <1> QED BY <1>3 DEF S

LEMMA EmptyFirst ==
  ASSUME NEW A, NEW t \in Seq(A)
  PROVE  <<>> \o t = t
  BY ConcatEmptySeq, Zenon

LEMMA FlattenSteps ==
  ASSUME NEW A, NEW seqs \in Seq(Seq(A))
  PROVE  \E f \in [0..Len(seqs) -> Seq(A)] :
           /\ f[0] = <<>>
           /\ \A i \in 1..Len(seqs) : f[i] = f[i - 1] \o seqs[i]
           /\ f[Len(seqs)] = FlattenSeq(seqs)
  <1> DEFINE n == Len(seqs)
             F == [i \in Nat |-> [s \in Seq(A) |-> IF i \in 1..n THEN s \o seqs[i] ELSE s]]
  <1>0. n \in Nat /\ DOMAIN seqs = 1..n /\ \A i \in 1..n : seqs[i] \in Seq(A)
    OBVIOUS
  <1>1. F \in [Nat -> [Seq(A) -> Seq(A)]] /\ <<>> \in Seq(A)
    OBVIOUS
  <1>2. PICK f \in [0..n -> Seq(A)] : Follows(f, F, <<>>, n)
    <2> HIDE DEF F, n
    <2> QED BY <1>0, <1>1, ValuesExist
  <1>3. f[0] = <<>> /\ \A i \in 1..n : f[i] = f[i - 1] \o seqs[i]
    <2>1. ASSUME NEW i \in 1..n
          PROVE  f[i] = f[i - 1] \o seqs[i]
      <3>1. f[i] = F[i][f[i - 1]] /\ i \in Nat /\ f[i - 1] \in Seq(A)
        <4> HIDE DEF F, n
        <4> QED BY <1>0, <1>2 DEF Follows
      <3>2. F[i] = [s \in Seq(A) |-> s \o seqs[i]]
        BY <3>1
      <3> HIDE DEF F, n
      <3> QED BY <3>1, <3>2
    <2> HIDE DEF F, n
    <2> QED BY <1>2, <2>1 DEF Follows
  <1>6. ASSUME 1 \in 1..n
        PROVE  f[1] = seqs[1]
    <2> HIDE DEF F, n
    <2>1. seqs[1] \in Seq(A)
      BY <1>0, <1>6
    <2>2. PICK i \in 1..n : i = 1
      BY <1>6
    <2>5. i - 1 = 0
      BY <2>2
    <2>6. f[i] = f[i - 1] \o seqs[i]
      BY <1>3
    <2>4. f[i] = <<>> \o seqs[i]
      BY <1>3, <2>5, <2>6
    <2>3. <<>> \o seqs[1] = seqs[1]
      BY <2>1, EmptyFirst
    <2> QED BY <2>2, <2>3, <2>4
  <1>4. CASE n = 0
    BY <1>2, <1>3, <1>4 DEF FlattenSeq
  <1>5. CASE n # 0
    <2> DEFINE Adds(h) == h = [i \in 1..n |-> IF i = 1 THEN seqs[i] ELSE h[i - 1] \o seqs[i]]
               flatten == CHOOSE h : Adds(h)
               g == [i \in 1..n |-> f[i]]
               whole == [i \in 0..n |-> IF i = 0 THEN <<>> ELSE flatten[i]]
    <2>1. FlattenSeq(seqs) = flatten[n]
      BY <1>5, Zenon DEF FlattenSeq
    <2>2. Adds(g)
      <3>1. ASSUME NEW i \in 1..n
            PROVE  g[i] = IF i = 1 THEN seqs[i] ELSE g[i - 1] \o seqs[i]
        <4>1. CASE i = 1
          BY <1>6, <3>1, <4>1
        <4>2. CASE i # 1
          BY <1>0, <1>3, <3>1, <4>2
        <4> QED BY <4>1, <4>2
      <3> QED BY <3>1
    <2>3. Adds(flatten)
      <3> HIDE DEF Adds, g
      <3> QED BY <2>2
    <2>4. ASSUME NEW i \in 1..n
          PROVE  flatten[i] = IF i = 1 THEN seqs[i] ELSE flatten[i - 1] \o seqs[i]
      <3> HIDE DEF flatten
      <3> QED BY <2>3
    <2> HIDE DEF flatten
    <2>5. whole[0] = f[0] /\ \A i \in 1..n : whole[i] = flatten[i]
      BY <1>0, <1>3
    <2> HIDE DEF whole, n
    <2>6. ASSUME NEW i \in 1..n, f[i - 1] = whole[i - 1]
          PROVE  f[i] = whole[i]
      <3>1. CASE i = 1
        BY <1>6, <2>4, <2>5, <3>1
      <3>2. CASE i # 1
        <4>1. i - 1 \in 1..n
          BY <1>0, <3>2
        <4>2. f[i] = f[i - 1] \o seqs[i]
          BY <1>3
        <4>3. flatten[i] = flatten[i - 1] \o seqs[i]
          BY <2>4, <3>2
        <4>4. whole[i] = flatten[i] /\ whole[i - 1] = flatten[i - 1]
          BY <2>5, <4>1
        <4> QED BY <2>6, <4>2, <4>3, <4>4
      <3> QED BY <3>1, <3>2
    <2>7. \A i \in 1..n : f[i - 1] = whole[i - 1] => f[i] = whole[i]
      BY <2>6
    <2>8. \A i \in 0..n : f[i] = whole[i]
      <3>1. n \in Nat /\ f[0] = whole[0]
        BY <1>0, <2>5
      <3>2. Agree(f, whole, n)
        BY <2>7, <3>1 DEF Agree
      <3> QED BY <3>1, <3>2, SameValues
    <2>9. n \in 1..n
      BY <1>0, <1>5
    <2>10. f[n] = FlattenSeq(seqs)
      BY <1>0, <2>1, <2>5, <2>8, <2>9
    <2> QED BY <1>3, <2>10 DEF n
  <1> QED BY <1>4, <1>5

LEMMA DigitIs ==
  /\ \A d \in Digits : DigitValue(d) \in Nat
  /\ \A d \in Digits : Digit(DigitValue(d)) = d
  <1>1. \A d \in Digits : DigitValue(d) \in Nat
    BY DEF Digits, DigitValue
  <1>2. \A d, e \in Digits : DigitValue(e) = DigitValue(d) => e = d
    BY DEF Digits, DigitValue
  <1>3. ASSUME NEW d \in Digits
        PROVE  Digit(DigitValue(d)) = d
    <2>1. \E e \in Digits : DigitValue(e) = DigitValue(d)
      OBVIOUS
    <2>2. /\ Digit(DigitValue(d)) \in Digits
          /\ DigitValue(Digit(DigitValue(d))) = DigitValue(d)
      BY <2>1 DEF Digit
    <2> QED BY <1>2, <2>2
  <1> QED BY <1>1, <1>3

\* What strtol makes of a sequence of digits.
LEMMA MagnitudeIs ==
  ASSUME NEW ds \in Seq(Digits)
  PROVE  /\ Magnitude(ds) \in Nat
         /\ Len(ds) = 1 => Magnitude(ds) = DigitValue(ds[1])
  <1> DEFINE n == Len(ds)
             F == [i \in Nat |-> [v \in Nat |->
                     IF i \in 1..n THEN 16 * v + DigitValue(ds[i]) ELSE v]]
  <1>0. n \in Nat /\ \A i \in 1..n : ds[i] \in Digits /\ DigitValue(ds[i]) \in Nat
    BY DigitIs
  <1>1. F \in [Nat -> [Nat -> Nat]]
    BY <1>0
  <1>2. PICK f \in [0..n -> Nat] : Follows(f, F, 0, n)
    <2> HIDE DEF F, n
    <2> QED BY <1>0, <1>1, ValuesExist
  <1>3. ASSUME NEW i \in 1..n
        PROVE  f[i] = 16 * f[i - 1] + DigitValue(ds[i])
    <2>1. f[i] = F[i][f[i - 1]] /\ i \in Nat /\ f[i - 1] \in Nat
      <3> HIDE DEF F, n
      <3> QED BY <1>0, <1>2, <1>3 DEF Follows
    <2>2. F[i] = [v \in Nat |-> 16 * v + DigitValue(ds[i])]
      BY <1>3, <2>1
    <2> HIDE DEF F, n
    <2> QED BY <2>1, <2>2
  <1>4. f[0] = 0
    <2> HIDE DEF F, n
    <2> QED BY <1>2 DEF Follows
  <1> DEFINE Adds(h) == h = [i \in 0..n |->
                               IF i = 0 THEN 0 ELSE 16 * h[i - 1] + DigitValue(ds[i])]
             value == CHOOSE h : Adds(h)
  <1>5. Magnitude(ds) = value[n]
    BY Zenon DEF Magnitude
  <1>6. Adds(f)
    <2>1. \A i \in 0..n : f[i] = IF i = 0 THEN 0 ELSE 16 * f[i - 1] + DigitValue(ds[i])
      <3> HIDE DEF n
      <3> QED BY <1>0, <1>3, <1>4
    <2> HIDE DEF n
    <2> QED BY <2>1
  <1>7. Adds(value)
    <2> HIDE DEF Adds
    <2> QED BY <1>6
  <1> HIDE DEF value
  <1>8. \A i \in 0..n : value[i] = IF i = 0 THEN 0 ELSE 16 * value[i - 1] + DigitValue(ds[i])
    BY <1>7
  <1>9. \A i \in 0..n : f[i] = value[i]
    <2> HIDE DEF n, Adds, F
    <2>1. f[0] = value[0]
      BY <1>0, <1>4, <1>8
    <2>2. ASSUME NEW i \in 1..n, f[i - 1] = value[i - 1]
          PROVE  f[i] = value[i]
      <3>1. i \in 0..n /\ i # 0
        BY <1>0
      <3>2. value[i] = 16 * value[i - 1] + DigitValue(ds[i])
        BY <1>8, <3>1
      <3>3. f[i] = 16 * f[i - 1] + DigitValue(ds[i])
        BY <1>3
      <3> QED BY <2>2, <3>2, <3>3
    <2>3. Agree(f, value, n)
      BY <2>1, <2>2 DEF Agree
    <2> QED BY <1>0, <2>3, SameValues
  <1>10. Magnitude(ds) = f[n]
    <2> HIDE DEF n, Adds, F
    <2> QED BY <1>0, <1>5, <1>9
  <1>11. ASSUME n = 1
         PROVE  f[n] = DigitValue(ds[1])
    <2> HIDE DEF n, Adds, F
    <2>1. n \in 1..n /\ n - 1 = 0
      BY <1>11
    <2>2. f[n] = 16 * f[n - 1] + DigitValue(ds[n])
      BY <1>3, <2>1
    <2>3. DigitValue(ds[n]) \in Nat
      BY <1>0, <2>1
    <2> QED BY <1>4, <1>11, <2>1, <2>2, <2>3
  <1> QED BY <1>0, <1>10, <1>11

-----------------------------------------------------------------------------
(* The text of a request.                                                    *)

LEMMA JoinedAre ==
  ASSUME NEW S, NEW s \in Seq(S), NEW t \in Seq(S)
  PROVE  /\ s \o t \in Seq(S)
         /\ Len(s \o t) = Len(s) + Len(t)
         /\ \A i \in 1..Len(s) : (s \o t)[i] = s[i]
         /\ \A j \in 1..Len(t) : (s \o t)[Len(s) + j] = t[j]
  <1>1. /\ s \o t \in Seq(S)
        /\ Len(s \o t) = Len(s) + Len(t)
        /\ \A i \in 1..Len(s) + Len(t) : (s \o t)[i] = IF i <= Len(s) THEN s[i] ELSE t[i - Len(s)]
    BY ConcatProperties
  <1>0. Len(s) \in Nat /\ Len(t) \in Nat
    OBVIOUS
  <1>2. \A i \in 1..Len(s) : (s \o t)[i] = s[i]
    BY <1>0, <1>1
  <1>3. ASSUME NEW j \in 1..Len(t)
        PROVE  (s \o t)[Len(s) + j] = t[j]
    <2>1. Len(s) + j \in 1..Len(s) + Len(t) /\ ~(Len(s) + j <= Len(s)) /\ (Len(s) + j) - Len(s) = j
      BY <1>0
    <2> QED BY <1>1, <2>1
  <1> QED BY <1>1, <1>2, <1>3

LEMMA TextsJoined ==
  \A s, t \in Seq(Symbols) :
    /\ s \o t \in Seq(Symbols)
    /\ Len(s \o t) = Len(s) + Len(t)
    /\ \A i \in 1..Len(s) : (s \o t)[i] = s[i]
    /\ \A j \in 1..Len(t) : (s \o t)[Len(s) + j] = t[j]
  <1> TAKE s, t \in Seq(Symbols)
  <1> QED BY JoinedAre

LEMMA FirstOnly ==
  \A t \in Seq(Symbols) : Len(t) >= 1 => SubSeq(t, 1, 1) = <<t[1]>>
  <1> TAKE t \in Seq(Symbols)
  <1> HAVE Len(t) >= 1
  <1>1. /\ SubSeq(t, 1, 1) \in Seq(Symbols) /\ Len(SubSeq(t, 1, 1)) = 1
        /\ SubSeq(t, 1, 1)[1] = t[1] /\ t[1] \in Symbols
    OBVIOUS
  <1> DEFINE u == SubSeq(t, 1, 1)
             v == <<t[1]>>
  <1>2. u \in Seq(Symbols) /\ v \in Seq(Symbols) /\ Len(u) = 1 /\ Len(v) = 1 /\ u[1] = v[1]
    BY <1>1
  <1> HIDE DEF u, v
  <1>3. \A i \in 1..Len(u) : u[i] = v[i]
    BY <1>2
  <1>4. u = v
    BY <1>2, <1>3, SeqEqual
  <1> QED BY <1>4 DEF u, v

HeadLen(q) == 3 * Len(q.headers) + 5

LEMMA SymbolsAre ==
  /\ "cr" \in Bytes /\ "lf" \in Bytes
  /\ NL \in Seq(Symbols) /\ Len(NL) = 2 /\ NL[1] = "cr" /\ NL[2] = "lf"
  /\ \A b \in Headers \cup Methods : b \in Symbols /\ b \notin Bytes
                                       /\ b # "cr" /\ b # "lf" /\ b # "nul"
  /\ Bytes \subseteq Symbols
  <1>1. NL \in Seq(Bytes) /\ Len(NL) = 2 /\ NL[1] = "cr" /\ NL[2] = "lf"
    BY RequestReaderAssumption DEF NL
  <1>2. "cr" \in Bytes /\ "lf" \in Bytes
    BY <1>1, ElementOfSeq
  <1>3. NL \in Seq(Symbols)
    BY <1>2 DEF NL, Symbols
  <1>4. \A b \in Headers \cup Methods : b \in Symbols /\ b \notin Bytes
    BY RequestReaderAssumption DEF Symbols
  <1>5. \A b \in Headers \cup Methods : b # "nul"
    BY DEF Headers, LengthHeaders, Methods
  <1> QED BY <1>1, <1>2, <1>3, <1>4, <1>5 DEF Symbols

LEMMA LinesAre ==
  ASSUME NEW ls \in Seq(Symbols)
  PROVE  /\ Lines(ls) \in Seq(Symbols)
         /\ Len(Lines(ls)) = 3 * Len(ls)
         /\ \A k \in 0..Len(ls) - 1 : /\ Lines(ls)[3 * k + 1] = ls[k + 1]
                                     /\ Lines(ls)[3 * k + 2] = "cr"
                                     /\ Lines(ls)[3 * k + 3] = "lf"
  <1>1. Len(ls) \in Nat /\ \A i \in 1..Len(ls) : ls[i] \in Symbols
    OBVIOUS
  <1>2. ASSUME NEW i \in 1..3 * Len(ls)
        PROVE  (IF i % 3 = 1 THEN ls[i \div 3 + 1] ELSE NL[IF i % 3 = 2 THEN 1 ELSE 2]) \in Symbols
    <2>1. i % 3 = 1 => i \div 3 + 1 \in 1..Len(ls)
      BY <1>1
    <2>2. NL[1] \in Symbols /\ NL[2] \in Symbols
      BY SymbolsAre
    <2> QED BY <1>1, <2>1, <2>2
  <1>3. Lines(ls) \in [1..3 * Len(ls) -> Symbols] /\ 3 * Len(ls) \in Nat
    BY <1>1, <1>2 DEF Lines
  <1>4. Lines(ls) \in Seq(Symbols) /\ Len(Lines(ls)) = 3 * Len(ls)
    BY <1>3
  <1>5. ASSUME NEW k \in 0..Len(ls) - 1
        PROVE  /\ Lines(ls)[3 * k + 1] = ls[k + 1]
               /\ Lines(ls)[3 * k + 2] = "cr"
               /\ Lines(ls)[3 * k + 3] = "lf"
    <2>1. /\ 3 * k + 1 \in 1..3 * Len(ls)
          /\ 3 * k + 2 \in 1..3 * Len(ls)
          /\ 3 * k + 3 \in 1..3 * Len(ls)
      BY <1>1
    <2>2. /\ (3 * k + 1) % 3 = 1 /\ (3 * k + 1) \div 3 = k
          /\ (3 * k + 2) % 3 = 2
          /\ (3 * k + 3) % 3 = 0
      OBVIOUS
    <2>3. /\ Lines(ls)[3 * k + 1] = ls[k + 1]
          /\ Lines(ls)[3 * k + 2] = NL[1]
          /\ Lines(ls)[3 * k + 3] = NL[2]
      BY <2>1, <2>2 DEF Lines
    <2> QED BY <2>3, SymbolsAre
  <1> QED BY <1>4, <1>5

LEMMA WireIs ==
  ASSUME NEW q \in RequestSet
  PROVE  /\ q.method \in Methods
         /\ q.headers \in Seq(Headers) /\ Len(q.headers) \in Nat
         /\ q.payload \in Seq(Bytes) /\ Len(q.payload) \in Nat
         /\ Wire(q) \in Seq(Symbols)
         /\ Len(Wire(q)) = HeadLen(q) + Len(q.payload)
         /\ Wire(q)[1] = q.method
         /\ \A k \in 1..Len(q.headers) : Wire(q)[3 * k + 1] = q.headers[k]
         /\ \A k \in 0..Len(q.headers) : Wire(q)[3 * k + 2] = "cr" /\ Wire(q)[3 * k + 3] = "lf"
         /\ Wire(q)[HeadLen(q) - 1] = "cr" /\ Wire(q)[HeadLen(q)] = "lf"
         /\ \A j \in 1..Len(q.payload) : Wire(q)[HeadLen(q) + j] = q.payload[j]
  <1> DEFINE n == Len(q.headers)
             ls == <<q.method>> \o q.headers
  <1>1. /\ q.method \in Methods
        /\ q.headers \in Seq(Headers) /\ n \in Nat
        /\ q.payload \in Seq(Bytes) /\ Len(q.payload) \in Nat
    BY DEF RequestSet
  <1>2. /\ <<q.method>> \in Seq(Symbols) /\ q.headers \in Seq(Symbols)
        /\ q.payload \in Seq(Symbols)
    BY <1>1, SymbolsAre
  <1>3. /\ ls \in Seq(Symbols) /\ Len(ls) = n + 1 /\ ls[1] = q.method
        /\ \A k \in 1..n : ls[k + 1] = q.headers[k]
    BY <1>1, <1>2, ConcatProperties
  <1> HIDE DEF ls, n
  <1>4. /\ HeadOf(q) \in Seq(Symbols)
        /\ Len(HeadOf(q)) = HeadLen(q)
        /\ \A i \in 1..3 * n + 3 : HeadOf(q)[i] = Lines(ls)[i]
        /\ HeadOf(q)[3 * n + 4] = "cr"
        /\ HeadOf(q)[3 * n + 5] = "lf"
    <2>1. HeadOf(q) = Lines(ls) \o NL
      BY DEF HeadOf, ls
    <2>2. Lines(ls) \in Seq(Symbols) /\ Len(Lines(ls)) = 3 * n + 3
      BY <1>1, <1>3, LinesAre
    <2>3. 3 * n + 3 \in Nat /\ 2 \in Nat /\ 1 \in 1..2 /\ 2 \in 1..2
          /\ (3 * n + 3) + 1 = 3 * n + 4 /\ (3 * n + 3) + 2 = 3 * n + 5
      BY <1>1
    <2>6. /\ Lines(ls) \o NL \in Seq(Symbols)
          /\ Len(Lines(ls) \o NL) = Len(Lines(ls)) + Len(NL)
          /\ \A i \in 1..Len(Lines(ls)) : (Lines(ls) \o NL)[i] = Lines(ls)[i]
          /\ \A j \in 1..Len(NL) : (Lines(ls) \o NL)[Len(Lines(ls)) + j] = NL[j]
      BY <2>2, SymbolsAre, TextsJoined
    <2>4. /\ HeadOf(q) \in Seq(Symbols)
          /\ Len(HeadOf(q)) = (3 * n + 3) + 2
          /\ \A i \in 1..3 * n + 3 : HeadOf(q)[i] = Lines(ls)[i]
          /\ \A j \in 1..2 : HeadOf(q)[(3 * n + 3) + j] = NL[j]
      BY <2>1, <2>2, <2>6, SymbolsAre
    <2>5. HeadOf(q)[(3 * n + 3) + 1] = "cr" /\ HeadOf(q)[(3 * n + 3) + 2] = "lf"
      BY <2>3, <2>4, SymbolsAre
    <2> QED BY <2>3, <2>4, <2>5 DEF HeadLen, n
  <1>5. HeadLen(q) = 3 * n + 5 /\ HeadLen(q) \in Nat
    BY <1>1 DEF HeadLen, n
  <1>6. /\ Wire(q) \in Seq(Symbols)
        /\ Len(Wire(q)) = HeadLen(q) + Len(q.payload)
        /\ \A i \in 1..HeadLen(q) : Wire(q)[i] = HeadOf(q)[i]
        /\ \A j \in 1..Len(q.payload) : Wire(q)[HeadLen(q) + j] = q.payload[j]
    <2>1. /\ HeadOf(q) \o q.payload \in Seq(Symbols)
          /\ Len(HeadOf(q) \o q.payload) = Len(HeadOf(q)) + Len(q.payload)
          /\ \A i \in 1..Len(HeadOf(q)) : (HeadOf(q) \o q.payload)[i] = HeadOf(q)[i]
          /\ \A j \in 1..Len(q.payload) :
               (HeadOf(q) \o q.payload)[Len(HeadOf(q)) + j] = q.payload[j]
      BY <1>2, <1>4, TextsJoined
    <2> QED BY <1>4, <2>1 DEF Wire
  <1>7. \A i \in 1..3 * n + 3 : Wire(q)[i] = Lines(ls)[i]
    <2>1. \A i \in 1..3 * n + 3 : i \in 1..HeadLen(q)
      BY <1>1, <1>5
    <2> QED BY <1>4, <1>6, <2>1
  <1>8. Wire(q)[3 * n + 4] = "cr" /\ Wire(q)[3 * n + 5] = "lf"
    <2>1. 3 * n + 4 \in 1..HeadLen(q) /\ 3 * n + 5 \in 1..HeadLen(q)
      BY <1>1, <1>5
    <2> QED BY <1>4, <1>6, <2>1
  <1>10. ASSUME NEW k \in 0..n
         PROVE  /\ Wire(q)[3 * k + 1] = ls[k + 1]
                /\ Wire(q)[3 * k + 2] = "cr" /\ Wire(q)[3 * k + 3] = "lf"
    <2>1. /\ k \in 0..Len(ls) - 1
          /\ 3 * k + 1 \in 1..3 * n + 3
          /\ 3 * k + 2 \in 1..3 * n + 3
          /\ 3 * k + 3 \in 1..3 * n + 3
      BY <1>1, <1>3
    <2>2. /\ Lines(ls)[3 * k + 1] = ls[k + 1]
          /\ Lines(ls)[3 * k + 2] = "cr"
          /\ Lines(ls)[3 * k + 3] = "lf"
      BY <1>3, <2>1, LinesAre
    <2> QED BY <1>7, <2>1, <2>2
  <1>11. Wire(q)[1] = q.method
    <2>1. 0 \in 0..n /\ 3 * 0 + 1 = 1 /\ 0 + 1 = 1
      BY <1>1
    <2> QED BY <1>3, <1>10, <2>1
  <1>12. \A k \in 1..n : Wire(q)[3 * k + 1] = q.headers[k]
    BY <1>1, <1>3, <1>10
  <1>13. HeadLen(q) - 1 = 3 * n + 4
    BY <1>1, <1>5
  <1> QED BY <1>1, <1>5, <1>6, <1>8, <1>10, <1>11, <1>12, <1>13 DEF n

-----------------------------------------------------------------------------
(* Line ends.                                                                *)

LEMMA NLAtIs ==
  ASSUME NEW buf \in Seq(Symbols), NEW n \in Nat
  PROVE  NLAt(buf, n) <=> /\ n + 2 <= Len(buf)
                          /\ buf[n + 1] = "cr" /\ buf[n + 2] = "lf"
  <1>1. SUFFICES ASSUME n + 2 <= Len(buf)
                 PROVE  SubSeq(buf, n + 1, n + 2) = NL
                          <=> buf[n + 1] = "cr" /\ buf[n + 2] = "lf"
    BY DEF NLAt
  <1>2. /\ SubSeq(buf, n + 1, n + 2) \in Seq(Symbols)
        /\ Len(SubSeq(buf, n + 1, n + 2)) = 2
        /\ SubSeq(buf, n + 1, n + 2)[1] = buf[n + 1]
        /\ SubSeq(buf, n + 1, n + 2)[2] = buf[n + 2]
    BY <1>1
  <1> HIDE DEF NL
  <1>3. SubSeq(buf, n + 1, n + 2) = NL => buf[n + 1] = "cr" /\ buf[n + 2] = "lf"
    BY <1>2, SymbolsAre
  <1>4. ASSUME buf[n + 1] = "cr", buf[n + 2] = "lf"
        PROVE  SubSeq(buf, n + 1, n + 2) = NL
    <2> DEFINE t == SubSeq(buf, n + 1, n + 2)
    <2>1. t \in Seq(Symbols) /\ NL \in Seq(Symbols) /\ Len(t) = 2 /\ Len(NL) = 2
          /\ t[1] = NL[1] /\ t[2] = NL[2]
      BY <1>2, <1>4, SymbolsAre
    <2> HIDE DEF t
    <2>2. \A i \in 1..2 : t[i] = NL[i]
      BY <2>1
    <2>3. t = NL
      BY <2>1, <2>2, SeqEqual
    <2> QED BY <2>3 DEF t
  <1> QED BY <1>3, <1>4

\* A line of one symbol and its end, as far as they are there, begin buf.
LEMMA LineAhead ==
  ASSUME NEW buf \in Seq(Symbols),
         Len(buf) >= 1 => buf[1] # "cr",
         Len(buf) >= 2 => buf[2] = "cr",
         Len(buf) >= 3 => buf[3] = "lf"
  PROVE  /\ NLs(buf, 0) # {} <=> Len(buf) >= 3
         /\ Len(buf) >= 3 => Min(NLs(buf, 0)) = 1
  <1>0. Len(buf) \in Nat
    OBVIOUS
  <1>1. NLs(buf, 0) \subseteq Nat
    BY <1>0 DEF NLs
  <1>2. \A p \in NLs(buf, 0) : p + 2 <= Len(buf) /\ p # 0
    BY <1>0, <1>1, NLAtIs DEF NLs
  <1>3. Len(buf) >= 3 => 1 \in NLs(buf, 0)
    BY <1>0, NLAtIs DEF NLs
  <1>4. ASSUME Len(buf) >= 3
        PROVE  Min(NLs(buf, 0)) = 1
    <2>1. Min(NLs(buf, 0)) \in NLs(buf, 0) /\ Min(NLs(buf, 0)) <= 1
      BY <1>1, <1>3, <1>4, MinIs
    <2>2. Min(NLs(buf, 0)) \in Nat /\ Min(NLs(buf, 0)) # 0
      BY <1>1, <1>2, <2>1
    <2> QED BY <2>1, <2>2
  <1>5. NLs(buf, 0) # {} => Len(buf) >= 3
    <2> SUFFICES ASSUME NEW p \in NLs(buf, 0)
                 PROVE  Len(buf) >= 3
      OBVIOUS
    <2> QED BY <1>0, <1>1, <1>2
  <1> QED BY <1>3, <1>4, <1>5

\* A line end, as far as it is there, begins buf.
LEMMA EndAhead ==
  ASSUME NEW buf \in Seq(Symbols),
         Len(buf) >= 1 => buf[1] = "cr",
         Len(buf) >= 2 => buf[2] = "lf"
  PROVE  /\ NLs(buf, 0) # {} <=> Len(buf) >= 2
         /\ Len(buf) >= 2 => Min(NLs(buf, 0)) = 0
  <1>0. Len(buf) \in Nat
    OBVIOUS
  <1>1. NLs(buf, 0) \subseteq Nat
    BY <1>0 DEF NLs
  <1>2. \A p \in NLs(buf, 0) : p + 2 <= Len(buf)
    BY <1>0, <1>1, NLAtIs DEF NLs
  <1>3. Len(buf) >= 2 => 0 \in NLs(buf, 0)
    BY <1>0, NLAtIs DEF NLs
  <1>4. ASSUME Len(buf) >= 2
        PROVE  Min(NLs(buf, 0)) = 0
    <2>1. Min(NLs(buf, 0)) \in NLs(buf, 0) /\ Min(NLs(buf, 0)) <= 0
      BY <1>1, <1>3, <1>4, MinIs
    <2> QED BY <1>1, <2>1
  <1>5. NLs(buf, 0) # {} => Len(buf) >= 2
    <2> SUFFICES ASSUME NEW p \in NLs(buf, 0)
                 PROVE  Len(buf) >= 2
      OBVIOUS
    <2> QED BY <1>0, <1>1, <1>2
  <1> QED BY <1>3, <1>4, <1>5

-----------------------------------------------------------------------------
(* Where a reader is in the text of its request.                             *)

BeforeLine(r) == r.s \in {"unread", "waitRequest"}

Pos(r) == IF BeforeLine(r) THEN 0 ELSE 3 * Len(r.headers) + IF r.s = "waitBody" THEN 5 ELSE 3

\* The lines read are the first of the request.
LinesFit(r, q) ==
  /\ IF BeforeLine(r) THEN r.headers = <<>> ELSE r.method = q.method /\ q.method # "bad"
  /\ Len(r.headers) <= Len(q.headers)
  /\ \A i \in 1..Len(r.headers) : r.headers[i] = q.headers[i] /\ q.headers[i] # "bad"
  /\ r.s = "waitBody" => r.headers = q.headers

\* buf goes on where they end; after the head a nul may have swallowed some.
BufFits(r, q, n) ==
  /\ Pos(r) + Len(r.buf) <= n
  /\ n <= HeadLen(q) => Pos(r) + Len(r.buf) = n
  /\ n > HeadLen(q) => Pos(r) + Len(r.buf) >= HeadLen(q)
  /\ \A i \in 1..Len(r.buf) : IF Pos(r) + i <= HeadLen(q)
                               THEN r.buf[i] = Wire(q)[Pos(r) + i]
                               ELSE r.buf[i] \in Bytes
  /\ ~HasNul(SubSeq(Wire(q), 1, n)) =>
       /\ Pos(r) + Len(r.buf) = n
       /\ \A i \in 1..Len(r.buf) : r.buf[i] = Wire(q)[Pos(r) + i]

LEMMA PosIs ==
  ASSUME NEW q \in RequestSet, NEW r \in Readers, LinesFit(r, q)
  PROVE  /\ Pos(r) \in Nat /\ Pos(r) <= HeadLen(q) /\ HeadLen(q) \in Nat
         /\ r.buf \in Seq(Symbols) /\ Len(r.buf) \in Nat
         /\ r.headers \in Seq(Headers) /\ Len(r.headers) \in Nat
         /\ BeforeLine(r) => Pos(r) = 0 /\ Len(r.headers) = 0
         /\ r.s = "waitHeader" => Pos(r) = 3 * (Len(r.headers) + 1)
         /\ r.s = "waitBody" => Pos(r) = HeadLen(q)
  <1>1. /\ Len(q.headers) \in Nat /\ r.buf \in Seq(Symbols) /\ Len(r.buf) \in Nat
        /\ r.headers \in Seq(Headers) /\ Len(r.headers) \in Nat
    BY DEF Readers, RequestSet
  <1>2. BeforeLine(r) => Pos(r) = 0 /\ Len(r.headers) = 0
    BY DEF Pos, LinesFit
  <1>3. r.s = "waitHeader" => Pos(r) = 3 * (Len(r.headers) + 1)
    BY <1>1 DEF Pos, BeforeLine
  <1>4. r.s = "waitBody" => Pos(r) = 3 * Len(r.headers) + 5 /\ r.headers = q.headers
    BY <1>1 DEF Pos, BeforeLine, LinesFit
  <1>5. Len(r.headers) <= Len(q.headers)
    BY DEF LinesFit
  <1>6. Pos(r) \in Nat /\ Pos(r) <= HeadLen(q) /\ HeadLen(q) \in Nat
    <2>1. CASE BeforeLine(r)
      BY <1>1, <1>2, <2>1 DEF HeadLen
    <2>2. CASE ~BeforeLine(r)
      <3>1. Pos(r) \in {3 * Len(r.headers) + 5, 3 * Len(r.headers) + 3}
        BY <2>2 DEF Pos
      <3> QED BY <1>1, <1>5, <3>1 DEF HeadLen
    <2> QED BY <2>1, <2>2
  <1>7. r.s = "waitBody" => Pos(r) = HeadLen(q)
    BY <1>4 DEF HeadLen
  <1> QED BY <1>1, <1>2, <1>3, <1>6, <1>7

\* A line is ahead: that of the request or the one of the header k.
LEMMA LineIs ==
  ASSUME NEW q \in RequestSet, NEW r \in Readers, NEW n \in Nat, NEW k \in 0..Len(q.headers),
         LinesFit(r, q), BufFits(r, q, n), Pos(r) = 3 * k
  PROVE  /\ HasLine(r) <=> Len(r.buf) >= 3
         /\ HasLine(r) => /\ FirstLine(r) = <<Wire(q)[3 * k + 1]>>
                          /\ AfterLine(r) = [r EXCEPT !.buf = SubSeq(r.buf, 4, Len(r.buf))]
  <1>1. r.buf \in Seq(Symbols) /\ Len(r.buf) \in Nat /\ Len(q.headers) \in Nat
    BY PosIs, WireIs
  <1>2. 3 * k + 3 <= HeadLen(q)
    BY <1>1 DEF HeadLen
  <1>3. \A i \in 1..Len(r.buf) : i <= 3 => r.buf[i] = Wire(q)[3 * k + i]
    BY <1>1, <1>2 DEF BufFits, HeadLen
  <1>4. Wire(q)[3 * k + 2] = "cr" /\ Wire(q)[3 * k + 3] = "lf"
    BY WireIs
  <1>5. Wire(q)[3 * k + 1] # "cr"
    <2>1. CASE k = 0
      <3>1. 3 * k + 1 = 1
        BY <2>1
      <3>2. Wire(q)[1] = q.method /\ q.method \in Methods
        BY WireIs
      <3>3. q.method # "cr"
        BY <3>2, SymbolsAre
      <3> QED BY <3>1, <3>2, <3>3
    <2>2. CASE k # 0
      <3>1. k \in 1..Len(q.headers)
        BY <2>2
      <3>2. Wire(q)[3 * k + 1] = q.headers[k] /\ q.headers[k] \in Headers
        BY <3>1, WireIs
      <3> QED BY <3>2, SymbolsAre
    <2> QED BY <2>1, <2>2
  <1>6. /\ Len(r.buf) >= 1 => r.buf[1] = Wire(q)[3 * k + 1] /\ r.buf[1] # "cr"
        /\ Len(r.buf) >= 2 => r.buf[2] = "cr"
        /\ Len(r.buf) >= 3 => r.buf[3] = "lf"
    BY <1>1, <1>3, <1>4, <1>5
  <1>7. /\ NLs(r.buf, 0) # {} <=> Len(r.buf) >= 3
        /\ Len(r.buf) >= 3 => Min(NLs(r.buf, 0)) = 1
    BY <1>1, <1>6, LineAhead
  <1>8. HasLine(r) <=> Len(r.buf) >= 3
    BY <1>7 DEF HasLine
  <1>9. ASSUME HasLine(r)
        PROVE  FirstLine(r) = <<Wire(q)[3 * k + 1]>>
    <2>1. Len(r.buf) >= 3 /\ FirstLine(r) = SubSeq(r.buf, 1, 1)
      BY <1>7, <1>8, <1>9 DEF FirstLine
    <2>2. SubSeq(r.buf, 1, 1) = <<r.buf[1]>>
      BY <1>1, <2>1, FirstOnly
    <2> QED BY <1>1, <1>6, <2>1, <2>2
  <1>10. ASSUME HasLine(r)
         PROVE  AfterLine(r) = [r EXCEPT !.buf = SubSeq(r.buf, 4, Len(r.buf))]
    <2>1. Min(NLs(r.buf, 0)) + 3 = 4
      BY <1>7, <1>8, <1>10
    <2> QED BY <2>1 DEF AfterLine
  <1> QED BY <1>8, <1>9, <1>10

\* The line end after the last header is ahead.
LEMMA EndIs ==
  ASSUME NEW q \in RequestSet, NEW r \in Readers, NEW n \in Nat,
         LinesFit(r, q), BufFits(r, q, n), Pos(r) = HeadLen(q) - 2
  PROVE  /\ HasLine(r) <=> Len(r.buf) >= 2
         /\ HasLine(r) => /\ FirstLine(r) = <<>>
                          /\ AfterLine(r) = [r EXCEPT !.buf = SubSeq(r.buf, 3, Len(r.buf))]
  <1>1. r.buf \in Seq(Symbols) /\ Len(r.buf) \in Nat /\ HeadLen(q) \in Nat /\ Pos(r) \in Nat
    BY PosIs
  <1>2. \A i \in 1..Len(r.buf) : i <= 2 => r.buf[i] = Wire(q)[Pos(r) + i]
    BY <1>1 DEF BufFits
  <1>3. Pos(r) + 1 = HeadLen(q) - 1 /\ Pos(r) + 2 = HeadLen(q)
    BY <1>1
  <1>4. Wire(q)[Pos(r) + 1] = "cr" /\ Wire(q)[Pos(r) + 2] = "lf"
    <2>1. Wire(q)[HeadLen(q) - 1] = "cr" /\ Wire(q)[HeadLen(q)] = "lf"
      BY WireIs
    <2> QED BY <1>3, <2>1
  <1>6. /\ Len(r.buf) >= 1 => r.buf[1] = "cr"
        /\ Len(r.buf) >= 2 => r.buf[2] = "lf"
    BY <1>1, <1>2, <1>4
  <1>7. /\ NLs(r.buf, 0) # {} <=> Len(r.buf) >= 2
        /\ Len(r.buf) >= 2 => Min(NLs(r.buf, 0)) = 0
    BY <1>1, <1>6, EndAhead
  <1>8. HasLine(r) <=> Len(r.buf) >= 2
    BY <1>7 DEF HasLine
  <1>9. ASSUME HasLine(r)
        PROVE  FirstLine(r) = <<>>
    <2>1. FirstLine(r) = SubSeq(r.buf, 1, 0)
      BY <1>7, <1>8, <1>9 DEF FirstLine
    <2> QED BY <2>1
  <1>10. ASSUME HasLine(r)
         PROVE  AfterLine(r) = [r EXCEPT !.buf = SubSeq(r.buf, 3, Len(r.buf))]
    <2>1. Min(NLs(r.buf, 0)) + 3 = 3
      BY <1>7, <1>8, <1>10
    <2> QED BY <2>1 DEF AfterLine
  <1> QED BY <1>8, <1>9, <1>10

\* What a C string keeps of a text.
LEMMA CStringIs ==
  \A t \in Seq(Symbols) :
    /\ AsCString(t) \in Seq(Symbols)
    /\ Len(AsCString(t)) <= Len(t)
    /\ \A i \in 1..Len(AsCString(t)) : AsCString(t)[i] = t[i]
    /\ ~HasNul(t) => AsCString(t) = t
    /\ \A k \in 0..Len(t) : (\A i \in 1..k : t[i] # "nul") => Len(AsCString(t)) >= k
  <1> TAKE t \in Seq(Symbols)
  <1> DEFINE I == {i \in 1..Len(t) : t[i] = "nul"}
             nul == IF I # {} THEN Min(I) ELSE 0
  <1>0. Len(t) \in Nat /\ \A i \in 1..Len(t) : t[i] \in Symbols
    OBVIOUS
  <1>1. AsCString(t) = IF nul = 0 THEN t ELSE SubSeq(t, 1, nul - 1)
    BY DEF AsCString, SelectInSeq
  <1>2. CASE I = {}
    <2>1. AsCString(t) = t
      BY <1>1, <1>2
    <2> QED BY <1>0, <2>1
  <1>3. CASE I # {}
    <2>1. I \subseteq Nat
      BY <1>0
    <2>2. nul \in I /\ \A i \in I : nul <= i
      <3>1. Min(I) \in I /\ \A i \in I : Min(I) <= i
        <4> HIDE DEF I
        <4> QED BY <1>3, <2>1, MinIs
      <3> QED BY <1>3, <3>1
    <2>3. nul \in 1..Len(t) /\ t[nul] = "nul"
      BY <2>2
    <2>4. AsCString(t) = SubSeq(t, 1, nul - 1)
      <3> HIDE DEF I, nul
      <3> QED BY <1>1, <2>3
    <2>5. HasNul(t)
      <3> HIDE DEF I, nul
      <3> QED BY <1>0, <2>3 DEF HasNul
    <2> HIDE DEF I, nul
    <2>6. /\ AsCString(t) \in Seq(Symbols)
          /\ Len(AsCString(t)) = nul - 1
          /\ \A i \in 1..nul - 1 : AsCString(t)[i] = t[i]
      BY <1>0, <2>3, <2>4
    <2>7. ASSUME NEW k \in 0..Len(t), \A i \in 1..k : t[i] # "nul"
          PROVE  nul - 1 >= k
      BY <1>0, <2>3, <2>7
    <2> QED BY <1>0, <2>3, <2>5, <2>6, <2>7
  <1> QED BY <1>2, <1>3

\* d symbols of buf are read.
LEMMA RestFits ==
  ASSUME NEW q \in RequestSet, NEW n \in Nat, NEW r \in Readers, NEW r2 \in Readers, NEW d \in Nat,
         LinesFit(r, q), BufFits(r, q, n), LinesFit(r2, q),
         d <= Len(r.buf), r2.buf = SubSeq(r.buf, d + 1, Len(r.buf)), Pos(r2) = Pos(r) + d
  PROVE  BufFits(r2, q, n)
  <1>1. /\ r.buf \in Seq(Symbols) /\ Len(r.buf) \in Nat /\ Pos(r) \in Nat
        /\ HeadLen(q) \in Nat
    BY PosIs
  <1>2. /\ Len(r2.buf) = Len(r.buf) - d
        /\ \A i \in 1..Len(r.buf) - d : r2.buf[i] = r.buf[d + i]
    BY <1>1
  <1>3. Pos(r2) + Len(r2.buf) = Pos(r) + Len(r.buf)
    BY <1>1, <1>2
  <1>4. ASSUME NEW i \in 1..Len(r2.buf)
        PROVE  /\ d + i \in 1..Len(r.buf)
               /\ r2.buf[i] = r.buf[d + i]
               /\ Pos(r2) + i = Pos(r) + (d + i)
    BY <1>1, <1>2
  <1>5. ASSUME NEW i \in 1..Len(r2.buf)
        PROVE  IF Pos(r2) + i <= HeadLen(q)
                 THEN r2.buf[i] = Wire(q)[Pos(r2) + i]
                 ELSE r2.buf[i] \in Bytes
    BY <1>4 DEF BufFits
  <1>6. ASSUME ~HasNul(SubSeq(Wire(q), 1, n)), NEW i \in 1..Len(r2.buf)
        PROVE  r2.buf[i] = Wire(q)[Pos(r2) + i]
    BY <1>4, <1>6 DEF BufFits
  <1> QED BY <1>3, <1>5, <1>6 DEF BufFits

LEMMA WireBytes ==
  ASSUME NEW q \in RequestSet
  PROVE  /\ \A i \in 1..HeadLen(q) : Wire(q)[i] # "nul"
         /\ \A i \in HeadLen(q) + 1..Len(Wire(q)) : Wire(q)[i] \in Bytes
  <1> DEFINE n == Len(q.headers)
  <1>0. n \in Nat /\ HeadLen(q) = 3 * n + 5
    BY WireIs DEF HeadLen
  <1>1. ASSUME NEW i \in 1..HeadLen(q)
        PROVE  Wire(q)[i] # "nul"
    <2>1. PICK k \in 0..n + 1 : i \in {3 * k + 1, 3 * k + 2, 3 * k + 3}
      <3>1. (i - 1) \div 3 \in 0..n + 1
        BY <1>0, <1>1
      <3>2. LET k == (i - 1) \div 3 IN i \in {3 * k + 1, 3 * k + 2, 3 * k + 3}
        BY <1>0, <1>1
      <3> QED BY <3>1, <3>2
    <2>2. CASE k = n + 1
      <3>1. i = HeadLen(q) - 1 \/ i = HeadLen(q)
        BY <1>0, <1>1, <2>1, <2>2
      <3>2. Wire(q)[HeadLen(q) - 1] = "cr" /\ Wire(q)[HeadLen(q)] = "lf"
        BY WireIs
      <3> QED BY <3>1, <3>2
    <2>3. CASE k # n + 1
      <3>1. k \in 0..n
        BY <1>0, <2>3
      <3>2. Wire(q)[3 * k + 2] = "cr" /\ Wire(q)[3 * k + 3] = "lf"
        BY <3>1, WireIs
      <3>3. CASE i = 3 * k + 1
        <4>1. CASE k = 0
          <5>1. i = 1 /\ Wire(q)[1] = q.method /\ q.method \in Methods
            BY <3>3, <4>1, WireIs
          <5> QED BY <5>1, SymbolsAre
        <4>2. CASE k # 0
          <5>1. k \in 1..n
            BY <3>1, <4>2
          <5>2. Wire(q)[3 * k + 1] = q.headers[k] /\ q.headers[k] \in Headers
            BY <5>1, WireIs
          <5> QED BY <3>3, <5>2, SymbolsAre
        <4> QED BY <4>1, <4>2
      <3> QED BY <2>1, <3>2, <3>3
    <2> QED BY <2>2, <2>3
  <1>2. ASSUME NEW i \in HeadLen(q) + 1..Len(Wire(q))
        PROVE  Wire(q)[i] \in Bytes
    <2>1. /\ Len(q.payload) \in Nat /\ q.payload \in Seq(Bytes)
          /\ Len(Wire(q)) = HeadLen(q) + Len(q.payload)
          /\ \A j \in 1..Len(q.payload) : Wire(q)[HeadLen(q) + j] = q.payload[j]
      BY WireIs
    <2> DEFINE h == HeadLen(q)
               l == Len(q.payload)
    <2>5. h \in Nat /\ l \in Nat
      BY <1>0, <2>1
    <2>6. Len(Wire(q)) = h + l /\ i \in h + 1..Len(Wire(q))
      BY <2>1
    <2> HIDE DEF h, l
    <2>2. h \in Nat /\ l \in Nat /\ i \in h + 1..h + l
      BY <2>5, <2>6
    <2>3. PICK j \in 1..l : i = h + j
      <3>1. i - h \in 1..l /\ i = h + (i - h)
        BY <2>2
      <3> QED BY <3>1
    <2>4. Wire(q)[i] = q.payload[j] /\ q.payload[j] \in Bytes
      BY <2>1, <2>3 DEF h, l
    <2> QED BY <2>4
  <1> QED BY <1>1, <1>2

\* Of m more symbols of the text, c is appended to buf.
Grows(r, r2, q, n, m, c) ==
  /\ Pos(r2) = Pos(r)
  /\ Len(c) \in Nat /\ Len(c) <= m
  /\ \A i \in 1..Len(c) : c[i] = Wire(q)[n + i]
  /\ \A k \in 0..m : n + k <= HeadLen(q) => Len(c) >= k
  /\ ~HasNul(SubSeq(Wire(q), 1, n + m)) => Len(c) = m /\ ~HasNul(SubSeq(Wire(q), 1, n))
  /\ Len(r2.buf) = Len(r.buf) + Len(c)
  /\ \A i \in 1..Len(r.buf) : r2.buf[i] = r.buf[i]
  /\ \A j \in 1..Len(c) : r2.buf[Len(r.buf) + j] = c[j]

LEMMA GrownFits ==
  ASSUME NEW q \in RequestSet, NEW n \in Nat, NEW m \in Nat, n + m <= Len(Wire(q)),
         NEW r \in Readers, NEW r2 \in Readers, LinesFit(r, q), BufFits(r, q, n),
         NEW c, Grows(r, r2, q, n, m, c)
  PROVE  BufFits(r2, q, n + m)
  <1> DEFINE H == HeadLen(q)
             L == Len(r.buf)
             M == Len(c)
             P == Pos(r)
             W == Wire(q)
             D == Len(W)
  <1>1. L \in Nat /\ P \in Nat /\ H \in Nat
    BY PosIs
  <1>2. D \in Nat /\ n + m <= D
    BY WireIs
  <1>3. /\ n <= H => P + L = n
        /\ n > H => P + L >= H
        /\ P + L <= n
    BY DEF BufFits
  <1>4. M \in Nat /\ M <= m /\ \A k \in 0..m : n + k <= H => M >= k
    BY DEF Grows
  <1>5. Pos(r2) = P /\ Len(r2.buf) = L + M
    BY DEF Grows
  <1>8. /\ \A i \in 1..L : r2.buf[i] = r.buf[i]
        /\ \A j \in 1..M : r2.buf[L + j] = W[n + j]
    BY DEF Grows
  <1>12. \A i \in 1..L : IF P + i <= H THEN r.buf[i] = W[P + i] ELSE r.buf[i] \in Bytes
    BY DEF BufFits
  <1>13. \A i \in H + 1..D : W[i] \in Bytes
    BY WireBytes
  <1>14. ~HasNul(SubSeq(W, 1, n + m)) =>
           M = m /\ P + L = n /\ \A i \in 1..L : r.buf[i] = W[P + i]
    BY DEF BufFits, Grows
  <1> DEFINE B == r2.buf
             A == r.buf
  <1> SUFFICES /\ P + (L + M) <= n + m
               /\ n + m <= H => P + (L + M) = n + m
               /\ n + m > H => P + (L + M) >= H
               /\ \A i \in 1..L + M : IF P + i <= H THEN B[i] = W[P + i] ELSE B[i] \in Bytes
               /\ ~HasNul(SubSeq(W, 1, n + m)) =>
                    /\ P + (L + M) = n + m
                    /\ \A i \in 1..L + M : B[i] = W[P + i]
    BY <1>5 DEF BufFits
  <1> HIDE DEF H, L, M, P, D, A, B, W
  <1>7. /\ P + (L + M) <= n + m
        /\ n + m <= H => P + (L + M) = n + m
        /\ n + m > H => P + (L + M) >= H
    <2>1. n + m <= H => M = m
      BY <1>1, <1>4
    <2>2. n <= H /\ n + m > H => M >= H - n
      <3>1. n <= H /\ n + m > H => H - n \in 0..m /\ n + (H - n) <= H
        BY <1>1
      <3> QED BY <1>4, <3>1
    <2> QED BY <1>1, <1>3, <1>4, <2>1, <2>2
  <1>9. ASSUME NEW i \in 1..L + M, i > L
        PROVE  \E j \in 1..M : L + j = i /\ B[i] = W[n + j]
    <2>1. i - L \in 1..M /\ L + (i - L) = i
      BY <1>1, <1>4, <1>9
    <2> QED BY <1>8, <2>1 DEF B
  <1>10. ASSUME NEW i \in 1..L + M
         PROVE  IF P + i <= H THEN B[i] = W[P + i] ELSE B[i] \in Bytes
    <2>1. CASE i <= L
      <3>1. i \in 1..L
        BY <1>1, <1>4, <2>1
      <3> QED BY <1>8, <1>12, <3>1 DEF A, B
    <2>2. CASE i > L
      <3>1. PICK j \in 1..M : L + j = i /\ B[i] = W[n + j]
        BY <1>9, <2>2
      <3>2. P + i <= H => n + j = P + i
        BY <1>1, <1>3, <1>4, <3>1
      <3>3. ~(P + i <= H) => n + j \in H + 1..D
        BY <1>1, <1>2, <1>3, <1>4, <3>1
      <3>4. ~(P + i <= H) => W[n + j] \in Bytes
        BY <1>13, <3>3
      <3> QED BY <3>1, <3>2, <3>4
    <2>3. i <= L \/ i > L
      BY <1>1, <1>4
    <2> QED BY <2>1, <2>2, <2>3
  <1>11. ASSUME ~HasNul(SubSeq(W, 1, n + m))
         PROVE  /\ P + (L + M) = n + m
                /\ \A i \in 1..L + M : B[i] = W[P + i]
    <2>1. M = m /\ P + L = n
      BY <1>11, <1>14
    <2>2. \A i \in 1..L : A[i] = W[P + i]
      BY <1>11, <1>14 DEF A
    <2>3. ASSUME NEW i \in 1..L + M
          PROVE  B[i] = W[P + i]
      <3>1. CASE i <= L
        <4>1. i \in 1..L
          BY <1>1, <1>4, <3>1
        <4> QED BY <1>8, <2>2, <4>1 DEF A, B
      <3>2. CASE i > L
        <4>1. PICK j \in 1..M : L + j = i /\ B[i] = W[n + j]
          BY <1>9, <3>2
        <4>2. n + j = P + i
          BY <1>1, <1>4, <2>1, <4>1
        <4> QED BY <4>1, <4>2
      <3>3. i <= L \/ i > L
        BY <1>1, <1>4
      <3> QED BY <3>1, <3>2, <3>3
    <2>4. P + (L + M) = n + m
      BY <1>1, <1>4, <2>1
    <2> QED BY <2>3, <2>4
  <1> QED BY <1>7, <1>10, <1>11

\* A text without a nul is received without a loss.
LEMMA NoNul ==
  ASSUME NEW q \in RequestSet, NEW n \in Nat, NEW m \in Nat, n + m <= Len(Wire(q)),
         ~HasNul(SubSeq(Wire(q), 1, n + m))
  PROVE  \A i \in 1..n + m : Wire(q)[i] # "nul"
  <1> DEFINE w == Wire(q)
             l == n + m
             u == SubSeq(w, 1, l)
  <1>1. w \in Seq(Symbols) /\ l \in Nat /\ l <= Len(w)
    BY WireIs
  <1>2. ~HasNul(u)
    OBVIOUS
  <1> HIDE DEF w, l
  <1>3. DOMAIN u = 1..l /\ \A i \in 1..l : u[i] = w[i]
    BY <1>1
  <1> HIDE DEF u
  <1>4. \A i \in 1..l : w[i] # "nul"
    BY <1>2, <1>3 DEF HasNul
  <1> QED BY <1>4 DEF w, l

\* m more symbols are received.
MoreRead(r, r2, q, n, m) ==
  r2.buf = r.buf \o AsCString(SubSeq(Wire(q), n + 1, n + m)) /\ Pos(r2) = Pos(r)

LEMMA MoreFits ==
  ASSUME NEW q \in RequestSet, NEW n \in Nat, NEW m \in Nat, n + m <= Len(Wire(q)),
         NEW r \in Readers, NEW r2 \in Readers, LinesFit(r, q), BufFits(r, q, n),
         MoreRead(r, r2, q, n, m)
  PROVE  BufFits(r2, q, n + m)
  <1> DEFINE w == Wire(q)
             t == SubSeq(w, n + 1, n + m)
             c == AsCString(t)
  <1>1. r.buf \in Seq(Symbols)
    BY PosIs
  <1>2. w \in Seq(Symbols) /\ Len(w) \in Nat /\ HeadLen(q) \in Nat
    BY WireIs, PosIs
  <1>3. n + m <= Len(w)
    OBVIOUS
  <1>6. r2.buf = r.buf \o c /\ Pos(r2) = Pos(r)
    BY DEF MoreRead
  <1>7. \A i \in 1..HeadLen(q) : w[i] # "nul"
    BY WireBytes
  <1>8. ~HasNul(SubSeq(w, 1, n + m)) => \A i \in 1..n + m : w[i] # "nul"
    BY NoNul
  <1> HIDE DEF w
  <1>9. /\ t \in Seq(Symbols) /\ Len(t) = m
        /\ \A i \in 1..m : t[i] = w[n + i]
    BY <1>2, <1>3
  <1> HIDE DEF t
  <1>10. /\ c \in Seq(Symbols) /\ Len(c) <= Len(t)
         /\ \A i \in 1..Len(c) : c[i] = t[i]
         /\ ~HasNul(t) => c = t
         /\ \A k \in 0..Len(t) : (\A i \in 1..k : t[i] # "nul") => Len(c) >= k
    BY <1>9, CStringIs, Zenon
  <1> HIDE DEF c
  <1>11. Len(c) \in Nat
    BY <1>10
  <1>12. /\ Len(r.buf \o c) = Len(r.buf) + Len(c)
         /\ \A i \in 1..Len(r.buf) : (r.buf \o c)[i] = r.buf[i]
         /\ \A j \in 1..Len(c) : (r.buf \o c)[Len(r.buf) + j] = c[j]
    BY <1>1, <1>10, TextsJoined
  <1>13. /\ Len(r2.buf) = Len(r.buf) + Len(c)
         /\ \A i \in 1..Len(r.buf) : r2.buf[i] = r.buf[i]
         /\ \A j \in 1..Len(c) : r2.buf[Len(r.buf) + j] = c[j]
    BY <1>6, <1>12, Zenon
  <1>14. \A i \in 1..Len(c) : c[i] = w[n + i]
    <2>1. \A i \in 1..Len(c) : i \in 1..m
      BY <1>9, <1>10, <1>11
    <2> QED BY <1>9, <1>10, <2>1
  <1>15. ASSUME NEW k \in 0..m, n + k <= HeadLen(q)
         PROVE  Len(c) >= k
    <2>1. ASSUME NEW i \in 1..k
          PROVE  t[i] # "nul"
      <3>1. n + i \in 1..HeadLen(q) /\ i \in 1..m
        BY <1>2, <1>15
      <3> QED BY <1>7, <1>9, <3>1
    <2>2. k \in 0..Len(t)
      BY <1>9
    <2> QED BY <1>10, <2>1, <2>2
  <1>16. ASSUME ~HasNul(SubSeq(w, 1, n + m))
         PROVE  Len(c) = m /\ ~HasNul(SubSeq(w, 1, n))
    <2>1. \A i \in 1..n + m : w[i] # "nul"
      BY <1>8, <1>16
    <2>2. ~HasNul(t)
      <3>1. \A i \in 1..m : n + i \in 1..n + m
        OBVIOUS
      <3>2. DOMAIN t = 1..m
        BY <1>9
      <3> QED BY <1>9, <2>1, <3>1, <3>2 DEF HasNul
    <2>3. ~HasNul(SubSeq(w, 1, n))
      <3>1. n <= Len(w)
        BY <1>2, <1>3
      <3>2. DOMAIN SubSeq(w, 1, n) = 1..n /\ \A i \in 1..n : SubSeq(w, 1, n)[i] = w[i]
        BY <1>2, <3>1
      <3>3. \A i \in 1..n : i \in 1..n + m
        OBVIOUS
      <3> QED BY <2>1, <3>2, <3>3 DEF HasNul
    <2>4. Len(c) = m
      BY <1>9, <1>10, <2>2
    <2> QED BY <2>3, <2>4
  <1>17. Grows(r, r2, q, n, m, c)
    <2>1. Len(c) <= m
      BY <1>9, <1>10
    <2>2. \A k \in 0..m : n + k <= HeadLen(q) => Len(c) >= k
      BY <1>15
    <2> QED BY <1>6, <1>11, <1>13, <1>14, <1>16, <2>1, <2>2 DEF Grows, w
  <1>18. n + m <= Len(Wire(q))
    OBVIOUS
  <1> QED BY <1>17, GrownFits

-----------------------------------------------------------------------------
(* What the headers say, to the reader and to the client.                    *)

LEMMA HeadersAre ==
  ASSUME request \in RequestSet, NEW names
  PROVE  /\ IsFiniteSet(HeadersIn(names)) /\ Cardinality(HeadersIn(names)) \in Nat
         /\ Cardinality(HeadersIn(names)) = 0 <=> HeadersIn(names) = {}
         /\ HeadersIn(names) \subseteq Nat
         /\ \A i \in HeadersIn(names) : request.headers[i] \in names
  <1>1. Len(request.headers) \in Nat /\ DOMAIN request.headers = 1..Len(request.headers)
    BY WireIs
  <1>2. HeadersIn(names) \subseteq 1..Len(request.headers)
    BY <1>1 DEF HeadersIn
  <1>3. IsFiniteSet(1..Len(request.headers))
    BY <1>1, FS_Interval
  <1>4. IsFiniteSet(HeadersIn(names))
    BY <1>2, <1>3, FS_Subset
  <1>5. Cardinality(HeadersIn(names)) \in Nat
    BY <1>4, FS_CardinalityType
  <1>6. Cardinality(HeadersIn(names)) = 0 <=> HeadersIn(names) = {}
    BY <1>4, FS_EmptySet
  <1> QED BY <1>1, <1>2, <1>4, <1>5, <1>6 DEF HeadersIn

\* A header says how the body is framed in one of two ways.
LEMMA FramingIs ==
  ASSUME request \in RequestSet
  PROVE  Cardinality(HeadersIn({"chunked"} \cup LengthHeaders))
           = Cardinality(HeadersIn({"chunked"})) + Cardinality(HeadersIn(LengthHeaders))
  <1> DEFINE A == HeadersIn({"chunked"})
             B == HeadersIn(LengthHeaders)
             C == HeadersIn({"chunked"} \cup LengthHeaders)
  <1>1. C = A \cup B
    BY DEF HeadersIn
  <1>2. A \cap B = {}
    BY DEF HeadersIn, LengthHeaders
  <1>3. IsFiniteSet(A) /\ IsFiniteSet(B)
    BY HeadersAre
  <1> HIDE DEF A, B, C
  <1>4. Cardinality(C) = Cardinality(A) + Cardinality(B) - Cardinality({})
    BY <1>1, <1>2, <1>3, FS_Union
  <1>5. Cardinality({}) = 0
    BY FS_EmptySet
  <1>6. Cardinality(A) \in Nat /\ Cardinality(B) \in Nat
    BY <1>3, FS_CardinalityType
  <1>7. Cardinality(C) = Cardinality(A) + Cardinality(B)
    BY <1>4, <1>5, <1>6
  <1> QED BY <1>7 DEF A, B, C

LEMMA DeclaredIs ==
  ASSUME request \in RequestSet, HeadersIn(LengthHeaders) # {}
  PROVE  DeclaredLength \in Int
  <1>1. Min(HeadersIn(LengthHeaders)) \in HeadersIn(LengthHeaders)
    BY HeadersAre, MinIs
  <1>2. request.headers[Min(HeadersIn(LengthHeaders))] \in LengthHeaders
    BY <1>1, HeadersAre
  <1>3. \A h \in LengthHeaders : Declared(h) \in Int
    BY DEF LengthHeaders, Declared
  <1> QED BY <1>2, <1>3 DEF DeclaredLength

\* What the checks after the last header decide.
LEMMA HeadersAccepted ==
  ASSUME request \in RequestSet, NEW r,
         r.method = request.method, r.headers = request.headers,
         request.method # "bad", HeadersIn({"bad"}) = {}
  PROVE  /\ IsBodyRequired(r) <=> Posts
         /\ ~IsValidHeader(r) => ~Valid
         /\ IsValidHeader(r) =>
              /\ ContentLength(r) \in Nat
              /\ ContentLength(r) = IF SendsLength THEN DeclaredLength ELSE 0
              /\ IsBodyRequired(r) /\ Count(r, {"chunked"}) = 1 <=> SendsChunks
              /\ ContentLength(r) <= MaxBody <=> Valid
              /\ ContentLength(r) > MaxBody => SendsLength /\ DeclaredLength > MaxBody
  <1> DEFINE a == Cardinality(HeadersIn({"chunked"}))
             b == Cardinality(HeadersIn(LengthHeaders))
             h == Cardinality(HeadersIn({"host"}))
             c == Cardinality(HeadersIn({"chunked"} \cup LengthHeaders))
             l == DeclaredLength
             v == ContentLength(r)
  <1>1. /\ a \in Nat /\ b \in Nat /\ h \in Nat
        /\ a = 0 <=> HeadersIn({"chunked"}) = {}
        /\ b = 0 <=> HeadersIn(LengthHeaders) = {}
    BY HeadersAre
  <1>2. c = a + b
    BY FramingIs
  <1>3. IsBodyRequired(r) <=> Posts
    BY WireIs DEF IsBodyRequired, Posts, Methods
  <1>4. \A names : Find(r, names) = HeadersIn(names)
    BY DEF Find, HeadersIn
  <1>5. Count(r, {"chunked"}) = a /\ Count(r, LengthHeaders) = b /\ Count(r, {"host"}) = h
    BY <1>4 DEF Count
  <1>6. v = IF Posts /\ b = 1 THEN l ELSE 0
    BY <1>3, <1>4, <1>5 DEF ContentLength, DeclaredLength
  <1>7. IsValidHeader(r) <=> (Posts => a + b = 1) /\ v >= 0 /\ h = 1
    BY <1>3, <1>5 DEF IsValidHeader
  <1>8. SendsLength <=> Posts /\ b # 0
    BY <1>1 DEF SendsLength
  <1>9. SendsChunks <=> Posts /\ a # 0
    BY <1>1 DEF SendsChunks
  <1>10. Valid <=> h = 1 /\ (Posts => a + b = 1) /\ (Posts /\ b # 0 => l \in 0..MaxBody)
    BY <1>2, <1>8 DEF Valid
  <1>11. b # 0 => l \in Int
    BY <1>1, DeclaredIs
  <1>12. MaxBody \in Nat
    BY ChunkedBodyAssumption
  <1> HIDE DEF a, b, h, c, l, v
  <1>13. ~IsValidHeader(r) => ~Valid
    BY <1>1, <1>6, <1>7, <1>10, <1>11, <1>12
  <1>14. ASSUME IsValidHeader(r)
         PROVE  /\ v \in Nat
                /\ v = IF SendsLength THEN l ELSE 0
                /\ Posts /\ a = 1 <=> SendsChunks
                /\ v <= MaxBody <=> Valid
                /\ v > MaxBody => SendsLength /\ l > MaxBody
    <2>1. (Posts => a + b = 1) /\ v >= 0 /\ h = 1
      BY <1>7, <1>14
    <2>2. Posts => (a = 1 /\ b = 0) \/ (a = 0 /\ b = 1)
      <3>1. a \in Nat /\ b \in Nat /\ (a + b = 1 => (a = 1 /\ b = 0) \/ (a = 0 /\ b = 1))
        BY <1>1
      <3>2. Posts => a + b = 1
        BY <2>1
      <3> QED BY <3>1, <3>2
    <2>3. v = IF SendsLength THEN l ELSE 0
      BY <1>6, <1>8, <2>2
    <2>4. v \in Nat
      BY <1>8, <1>11, <2>1, <2>3
    <2>5. Posts /\ a = 1 <=> SendsChunks
      BY <1>9, <2>2
    <2>6. v <= MaxBody <=> Valid
      BY <1>8, <1>10, <1>11, <1>12, <2>1, <2>3, <2>4
    <2>7. v > MaxBody => SendsLength /\ l > MaxBody
      BY <1>12, <2>3, <2>4
    <2> QED BY <2>3, <2>4, <2>5, <2>6, <2>7
  <1>15. IsBodyRequired(r) /\ Count(r, {"chunked"}) = 1 <=> Posts /\ a = 1
    BY <1>3, <1>5
  <1> QED BY <1>3, <1>13, <1>14, <1>15 DEF l, v

-----------------------------------------------------------------------------
(* A turn of the decoder, whatever the body.                                 *)

LEMMA HexStrToLongIs ==
  /\ \A line \in Seq(Bytes) : HexStrToLong(line) \in Int
  /\ \A d \in Digits : HexStrToLong(<<d>>) = DigitValue(d)
  <1>1. ASSUME NEW line \in Seq(Bytes)
        PROVE  HexStrToLong(line) \in Int
    <2> DEFINE signed == line # <<>> /\ line[1] \in {"-", "+"}
               digits == IF signed THEN Tail(line) ELSE line
               number == /\ \A i \in DOMAIN digits : digits[i] \in Digits
                         /\ signed => digits # <<>>
    <2>1. digits \in Seq(Bytes)
      OBVIOUS
    <2>2. HexStrToLong(line) = CASE ~number -> -1
                                 [] number /\ signed /\ line[1] = "-" -> -Magnitude(digits)
                                 [] OTHER -> Magnitude(digits)
      BY Zenon DEF HexStrToLong
    <2> HIDE DEF digits
    <2>3. number => digits \in Seq(Digits)
      <3>1. number => \A i \in 1..Len(digits) : digits[i] \in Digits
        BY <2>1
      <3>2. Len(digits) \in Nat /\ digits = [i \in 1..Len(digits) |-> digits[i]]
        BY <2>1
      <3> QED BY <3>1, <3>2
    <2>4. number => Magnitude(digits) \in Nat
      BY <2>3, MagnitudeIs
    <2> HIDE DEF number, signed
    <2> QED BY <2>2, <2>4
  <1>2. ASSUME NEW d \in Digits
        PROVE  HexStrToLong(<<d>>) = DigitValue(d)
    <2> DEFINE line == <<d>>
               signed == line # <<>> /\ line[1] \in {"-", "+"}
               digits == IF signed THEN Tail(line) ELSE line
               number == /\ \A i \in DOMAIN digits : digits[i] \in Digits
                         /\ signed => digits # <<>>
    <2>1. line \in Seq(Digits) /\ line[1] = d /\ Len(line) = 1
      OBVIOUS
    <2>2. ~signed
      BY DEF Digits
    <2>3. digits = line
      BY <2>2
    <2>4. HexStrToLong(line) = CASE ~number -> -1
                                 [] number /\ signed /\ line[1] = "-" -> -Magnitude(digits)
                                 [] OTHER -> Magnitude(digits)
      BY Zenon DEF HexStrToLong
    <2>5. number
      BY <2>1, <2>2, <2>3
    <2> HIDE DEF number, signed, digits
    <2>6. HexStrToLong(line) = Magnitude(line)
      BY <2>2, <2>3, <2>4, <2>5
    <2>7. Magnitude(line) = DigitValue(line[1])
      BY <2>1, MagnitudeIs
    <2> QED BY <2>1, <2>6, <2>7
  <1> QED BY <1>1, <1>2

\* A decoder at the beginning of a turn.
Sound(d) ==
  /\ d \in Decoders
  /\ d.stat = "waitSize" /\ d.thrown = "none"
  /\ d.head \in 0..Len(d.buf)
  /\ Len(d.decoded) <= MaxBody

LEMMA NLsAre ==
  ASSUME NEW buf, NEW n \in Nat, Len(buf) \in Nat, NLs(buf, n) # {}
  PROVE  /\ Min(NLs(buf, n)) \in Nat
         /\ Min(NLs(buf, n)) >= n
         /\ Min(NLs(buf, n)) + 2 <= Len(buf)
         /\ NLAt(buf, Min(NLs(buf, n)))
         /\ \A p \in NLs(buf, n) : Min(NLs(buf, n)) <= p
  <1>1. NLs(buf, n) \subseteq Nat /\ \A p \in NLs(buf, n) : p >= n /\ NLAt(buf, p)
    BY DEF NLs
  <1>2. Min(NLs(buf, n)) \in NLs(buf, n) /\ \A p \in NLs(buf, n) : Min(NLs(buf, n)) <= p
    BY <1>1, MinIs
  <1>3. NLAt(buf, Min(NLs(buf, n))) => Min(NLs(buf, n)) + 2 <= Len(buf)
    BY DEF NLAt
  <1> QED BY <1>1, <1>2, <1>3

\* What follows the data of a chunk.
LEMMA ChunkEndIs ==
  ASSUME NEW d \in Decoders, d.thrown = "none"
  PROVE  LET e == TakeChunkEnd(d)
         IN  /\ e \in Decoders /\ e.buf = d.buf /\ e.decoded = d.decoded
             /\ e.thrown \in {"none", "out_of_range"}
             /\ e.stat \in {"waitSize", "chunkError"}
             /\ e.thrown = "out_of_range" => d.head > Len(d.buf)
             /\ e.thrown = "none" /\ e.stat = "waitSize" =>
                  e.head = d.head + 2 /\ d.head >= 0 /\ d.head + 2 <= Len(d.buf)
             /\ d.head \in 0..Len(d.buf) /\ NLAt(d.buf, d.head) =>
                  e.thrown = "none" /\ e.stat = "waitSize"
  <1>7. d.head \in Int /\ d.buf \in Seq(Bytes) /\ Len(d.buf) \in Nat
    BY DEF Decoders
  <1>8. [d EXCEPT !.stat = "chunkError"] \in Decoders
    BY DEF Decoders, Stats
  <1>9. [d EXCEPT !.stat = "waitSize", !.thrown = "out_of_range"] \in Decoders
    BY DEF Decoders, Stats
  <1>10. [d EXCEPT !.stat = "waitSize", !.head = @ + 2] \in Decoders
    <2>1. d.head + 2 \in Int
      BY <1>7
    <2> QED BY <2>1 DEF Decoders, Stats
  <1>1. /\ d.head \in Int /\ d.buf \in Seq(Bytes) /\ Len(d.buf) \in Nat
        /\ [d EXCEPT !.stat = "chunkError"] \in Decoders
        /\ [d EXCEPT !.stat = "waitSize", !.thrown = "out_of_range"] \in Decoders
        /\ [d EXCEPT !.stat = "waitSize", !.head = @ + 2] \in Decoders
    BY <1>7, <1>8, <1>9, <1>10
  <1>2. CASE d.head < 0 \/ d.head > Len(d.buf) + 2
    <2>3. /\ d.head \notin Len(d.buf) + 1 .. Len(d.buf) + 2
          /\ ~(d.head >= 0 /\ NLAt(d.buf, d.head))
      BY <1>7, <1>2 DEF NLAt
    <2>1. TakeChunkEnd(d) = [d EXCEPT !.stat = "chunkError"]
      BY <1>7, <1>2, <2>3 DEF TakeChunkEnd
    <2> QED BY <1>1, <1>2, <2>1 DEF Decoders
  <1>3. CASE d.head \in Len(d.buf) + 1 .. Len(d.buf) + 2
    <2>2. ~(d.head < 0 \/ d.head > Len(d.buf) + 2) /\ ~NLAt(d.buf, d.head)
      BY <1>7, <1>3 DEF NLAt
    <2>1. TakeChunkEnd(d) = [d EXCEPT !.stat = "waitSize", !.thrown = "out_of_range"]
      BY <1>3, <2>2 DEF TakeChunkEnd
    <2>3. d.head > Len(d.buf) /\ d.head \notin 0..Len(d.buf)
      BY <1>7, <1>3
    <2> DEFINE e == [d EXCEPT !.stat = "waitSize", !.thrown = "out_of_range"]
    <2>4. /\ e.buf = d.buf /\ e.decoded = d.decoded
          /\ e.stat = "waitSize" /\ e.thrown = "out_of_range"
      BY DEF Decoders
    <2>5. e \in Decoders
      BY <1>9
    <2> HIDE DEF e
    <2>6. TakeChunkEnd(d) = e
      BY <2>1 DEF e
    <2> QED BY <2>3, <2>4, <2>5, <2>6
  <1>4. CASE d.head \in 0..Len(d.buf) /\ NLAt(d.buf, d.head)
    <2>1. TakeChunkEnd(d) = [d EXCEPT !.stat = "waitSize", !.head = @ + 2]
      BY <1>1, <1>4 DEF TakeChunkEnd
    <2>2. d.head + 2 <= Len(d.buf)
      BY <1>4 DEF NLAt
    <2> QED BY <1>1, <1>4, <2>1, <2>2 DEF Decoders
  <1>5. CASE d.head \in 0..Len(d.buf) /\ ~NLAt(d.buf, d.head)
    <2>1. TakeChunkEnd(d) = [d EXCEPT !.stat = "chunkError"]
      BY <1>1, <1>5 DEF TakeChunkEnd
    <2> QED BY <1>1, <1>5, <2>1 DEF Decoders
  <1>6. \/ d.head < 0 \/ d.head > Len(d.buf) + 2
        \/ d.head \in Len(d.buf) + 1 .. Len(d.buf) + 2
        \/ d.head \in 0..Len(d.buf)
    BY <1>1
  <1> QED BY <1>2, <1>3, <1>4, <1>5, <1>6

\* What a turn finds when there is a line: the size, where the data begins
\* and how far it goes, and all that is decoded with it.
SizeAt(d) == HexStrToLong(SubSeq(d.buf, d.head + 1, Min(NLs(d.buf, d.head))))
DataAt(d) == Min(NLs(d.buf, d.head)) + 2
DataEnd(d) == IF SizeAt(d) < 0 THEN Len(d.buf) ELSE Min({DataAt(d) + SizeAt(d), Len(d.buf)})
TakenBy(d) == d.decoded \o SubSeq(d.buf, DataAt(d) + 1, DataEnd(d))
EndsHere(d) == SizeAt(d) = 0 /\ NLAt(d.buf, DataAt(d))

LEMMA SizeIs ==
  ASSUME NEW d, Sound(d), NLs(d.buf, d.head) # {}
  PROVE  /\ d \in Decoders /\ d.buf \in Seq(Bytes) /\ Len(d.buf) \in Nat /\ d.head \in Nat
         /\ DataAt(d) \in d.head + 2..Len(d.buf) /\ SizeAt(d) \in Int
         /\ DataEnd(d) \in Int /\ DataEnd(d) <= Len(d.buf)
         /\ SizeAt(d) >= 0 => /\ DataEnd(d) <= DataAt(d) + SizeAt(d)
                              /\ DataEnd(d) >= DataAt(d)
                              /\ DataAt(d) + SizeAt(d) <= Len(d.buf) =>
                                   DataEnd(d) = DataAt(d) + SizeAt(d)
         /\ d.decoded \in Seq(Bytes) /\ TakenBy(d) \in Seq(Bytes)
         /\ SizeAt(d) = 0 => TakenBy(d) = d.decoded
  <1> DEFINE L == Len(d.buf)
             pos == Min(NLs(d.buf, d.head))
  <1>1. d \in Decoders /\ d.buf \in Seq(Bytes) /\ d.head \in Int /\ d.decoded \in Seq(Bytes)
    BY DEF Sound, Decoders
  <1>2. L \in Nat /\ d.head \in Nat
    BY <1>1 DEF Sound
  <1>3. pos \in Nat /\ pos >= d.head /\ pos + 2 <= L
    BY <1>2, NLsAre
  <1>4. SizeAt(d) \in Int
    <2>1. SubSeq(d.buf, d.head + 1, pos) \in Seq(Bytes)
      <3> HIDE DEF pos, L
      <3> QED BY <1>1, <1>2, <1>3 DEF L
    <2> QED BY <2>1, HexStrToLongIs DEF SizeAt
  <1>5. DataAt(d) = pos + 2
    BY DEF DataAt
  <1> DEFINE h == DataAt(d)
             n == SizeAt(d)
             T == {h + n, L}
  <1> HIDE DEF pos, L, h, n
  <1>6. h \in Nat /\ h >= d.head + 2 /\ h <= L /\ n \in Int
    BY <1>2, <1>3, <1>4, <1>5 DEF h, n
  <1>7. n >= 0 => /\ Min(T) \in T /\ Min(T) <= L /\ Min(T) <= h + n
    <2> SUFFICES ASSUME n >= 0
                 PROVE  /\ Min(T) \in T /\ Min(T) <= L /\ Min(T) <= h + n
      OBVIOUS
    <2>1. T \subseteq Nat /\ T # {}
      BY <1>2, <1>6
    <2>2. Min(T) \in T /\ \A m \in T : Min(T) <= m
      BY <2>1, MinIs
    <2> QED BY <2>2
  <1>8. DataEnd(d) = IF n < 0 THEN L ELSE Min(T)
    BY DEF DataEnd, n, h, L
  <1>9. /\ DataEnd(d) \in Int /\ DataEnd(d) <= L
        /\ n >= 0 => /\ DataEnd(d) <= h + n
                     /\ DataEnd(d) >= h
                     /\ h + n <= L => DataEnd(d) = h + n
    BY <1>2, <1>6, <1>7, <1>8
  <1>10. SubSeq(d.buf, h + 1, DataEnd(d)) \in Seq(Bytes)
    <2>1. \A i \in h + 1..DataEnd(d) : i \in 1..L
      BY <1>2, <1>6, <1>9
    <2>2. h + 1 \in 1..L + 1 /\ DataEnd(d) \in Int /\ DataEnd(d) <= L
      BY <1>2, <1>6, <1>9
    <2> QED BY <1>1, <2>1, <2>2, SubSeqProperties DEF L
  <1>11. TakenBy(d) \in Seq(Bytes)
    <2>1. TakenBy(d) = d.decoded \o SubSeq(d.buf, h + 1, DataEnd(d))
      BY DEF TakenBy, h
    <2> QED BY <1>1, <1>10, <2>1, JoinedAre
  <1>12. n = 0 => TakenBy(d) = d.decoded
    <2> SUFFICES ASSUME n = 0
                 PROVE  TakenBy(d) = d.decoded
      OBVIOUS
    <2>1. DataEnd(d) = h
      BY <1>2, <1>6, <1>9
    <2>2. SubSeq(d.buf, h + 1, h) = <<>>
      BY <1>6
    <2>3. d.decoded \o <<>> = d.decoded
      BY <1>1, ConcatEmptySeq
    <2>4. TakenBy(d) = d.decoded \o SubSeq(d.buf, h + 1, DataEnd(d))
      BY DEF TakenBy, h
    <2> QED BY <2>1, <2>2, <2>3, <2>4, Zenon
  <1>13. h \in d.head + 2..L
    BY <1>2, <1>6
  <1> QED BY <1>1, <1>2, <1>4, <1>9, <1>11, <1>12, <1>13 DEF L, h, n

\* The decoder in the middle of a turn.
Sized(d) == [d EXCEPT !.next = SizeAt(d), !.stat = "waitBody", !.head = DataAt(d)]

LEMMA SizeTaken ==
  ASSUME NEW d, Sound(d), NLs(d.buf, d.head) # {}
  PROVE  /\ SizeAt(d) = -1 => TakeSize(d) = [d EXCEPT !.next = -1, !.stat = "chunkError"]
         /\ SizeAt(d) # -1 => TakeSize(d) = Sized(d)
         /\ Sized(d) \in Decoders
         /\ Sized(d).stat = "waitBody" /\ Sized(d).thrown = "none"
         /\ Sized(d).buf = d.buf /\ Sized(d).decoded = d.decoded
         /\ Sized(d).head = DataAt(d) /\ Sized(d).next = SizeAt(d)
  <1>1. TakeSize(d) = IF SizeAt(d) = -1
                        THEN [d EXCEPT !.next = SizeAt(d), !.stat = "chunkError"]
                        ELSE Sized(d)
    BY Zenon DEF TakeSize, SizeAt, DataAt, Sized
  <1>2. /\ d \in Decoders /\ d.thrown = "none" /\ SizeAt(d) \in Int /\ DataAt(d) \in Int
    <2>1. d \in Decoders /\ d.thrown = "none"
      BY DEF Sound
    <2>2. /\ Len(d.buf) \in Nat /\ d.head \in Nat
          /\ DataAt(d) \in d.head + 2..Len(d.buf) /\ SizeAt(d) \in Int
      BY SizeIs
    <2> QED BY <2>1, <2>2
  <1>3. /\ Sized(d).stat = "waitBody" /\ Sized(d).thrown = "none"
        /\ Sized(d).buf = d.buf /\ Sized(d).decoded = d.decoded
        /\ Sized(d).head = DataAt(d) /\ Sized(d).next = SizeAt(d)
    BY <1>2 DEF Decoders, Sized
  <1>4. Sized(d) \in Decoders
    BY <1>2 DEF Decoders, Sized, Stats
  <1> QED BY <1>1, <1>3, <1>4

LEMMA ChunkTaken ==
  ASSUME NEW d, Sound(d), NLs(d.buf, d.head) # {}, SizeAt(d) # -1
  PROVE  /\ EndsHere(d) => TakeChunk(Sized(d)) = [Sized(d) EXCEPT !.stat = "decodeComplete"]
         /\ ~EndsHere(d) /\ Len(TakenBy(d)) > MaxBody =>
              TakeChunk(Sized(d)) = [Sized(d) EXCEPT !.decoded = TakenBy(d), !.thrown = "413"]
         /\ ~EndsHere(d) /\ ~(Len(TakenBy(d)) > MaxBody) =>
              TakeChunk(Sized(d)) =
                TakeChunkEnd([Sized(d) EXCEPT !.decoded = TakenBy(d),
                                              !.head = DataAt(d) + SizeAt(d)])
  <1> DEFINE e == Sized(d)
             last == IF e.next < 0 THEN Len(e.buf) ELSE Min({e.head + e.next, Len(e.buf)})
             data == e.decoded \o SubSeq(e.buf, e.head + 1, last)
             ends == e.next = 0 /\ NLAt(e.buf, e.head)
             over == Len(data) > MaxBody
             a == [e EXCEPT !.stat = "decodeComplete"]
             b == [e EXCEPT !.decoded = data, !.thrown = "413"]
             c == TakeChunkEnd([e EXCEPT !.decoded = data, !.head = e.head + e.next])
  <1>1. TakeChunk(e) = CASE ends -> a [] over -> b [] OTHER -> c
    BY Zenon DEF TakeChunk
  <1>2. /\ e.buf = d.buf /\ e.head = DataAt(d) /\ e.next = SizeAt(d)
        /\ e.decoded = d.decoded
    BY SizeTaken
  <1>3. data = TakenBy(d)
    BY <1>2, Zenon DEF TakenBy, DataEnd
  <1>4. ends <=> EndsHere(d)
    BY <1>2 DEF EndsHere
  <1>5. EndsHere(d) => ~over
    <2> SUFFICES ASSUME EndsHere(d)
                 PROVE  ~over
      OBVIOUS
    <2>1. data = d.decoded
      BY <1>3, SizeIs DEF EndsHere
    <2>2. Len(d.decoded) <= MaxBody /\ Len(d.decoded) \in Nat /\ MaxBody \in Nat
      BY SizeIs, ChunkedBodyAssumption DEF Sound
    <2> HIDE DEF data
    <2> QED BY <2>1, <2>2
  <1>6. over <=> Len(TakenBy(d)) > MaxBody
    BY <1>3
  <1>7. /\ a = [Sized(d) EXCEPT !.stat = "decodeComplete"]
        /\ b = [Sized(d) EXCEPT !.decoded = TakenBy(d), !.thrown = "413"]
        /\ c = TakeChunkEnd([Sized(d) EXCEPT !.decoded = TakenBy(d),
                                             !.head = DataAt(d) + SizeAt(d)])
    BY <1>2, <1>3, Zenon
  <1> HIDE DEF a, b, c, ends, over
  <1>8. TakeChunk(Sized(d)) = CASE ends -> a [] over -> b [] OTHER -> c
    BY <1>1
  <1> QED BY <1>4, <1>5, <1>6, <1>7, <1>8

LEMMA TurnIs ==
  ASSUME NEW d, Sound(d), NLs(d.buf, d.head) # {}
  PROVE  LET e == Turned(d)
         IN  /\ e \in Decoders /\ e.buf = d.buf
             /\ SizeAt(d) = -1 =>
                  e.stat = "chunkError" /\ e.thrown = "none" /\ e.decoded = d.decoded
             /\ EndsHere(d) =>
                  e.stat = "decodeComplete" /\ e.thrown = "none" /\ e.decoded = d.decoded
             /\ SizeAt(d) # -1 /\ ~EndsHere(d) =>
                  /\ e.decoded = TakenBy(d)
                  /\ Len(TakenBy(d)) > MaxBody => e.thrown = "413"
                  /\ ~(Len(TakenBy(d)) > MaxBody) =>
                       /\ e.thrown \in {"none", "out_of_range"}
                       /\ e.stat \in {"waitSize", "chunkError"}
                       /\ e.thrown = "out_of_range" => DataAt(d) + SizeAt(d) > Len(d.buf)
                       /\ e.thrown = "none" /\ e.stat = "waitSize" =>
                            /\ e.head = DataAt(d) + SizeAt(d) + 2
                            /\ DataAt(d) + SizeAt(d) >= 0
                            /\ e.head <= Len(d.buf)
                       /\ /\ DataAt(d) + SizeAt(d) \in 0..Len(d.buf)
                          /\ NLAt(d.buf, DataAt(d) + SizeAt(d))
                          => e.thrown = "none" /\ e.stat = "waitSize"
  <1> DEFINE e == Turned(d)
             f == [Sized(d) EXCEPT !.decoded = TakenBy(d), !.head = DataAt(d) + SizeAt(d)]
  <1>1. d \in Decoders /\ d.thrown = "none" /\ d.stat = "waitSize"
    BY SizeIs DEF Sound
  <1>2. TakenBy(d) \in Seq(Bytes) /\ DataAt(d) + SizeAt(d) \in Int
    BY SizeIs
  <1>3. Turned(d) = IF TakeSize(d).stat = "waitBody" THEN TakeChunk(TakeSize(d)) ELSE TakeSize(d)
    BY Zenon DEF Turned
  <1>4. CASE SizeAt(d) = -1
    <2>1. TakeSize(d) = [d EXCEPT !.next = -1, !.stat = "chunkError"]
      BY <1>4, SizeTaken
    <2>2. /\ [d EXCEPT !.next = -1, !.stat = "chunkError"] \in Decoders
          /\ [d EXCEPT !.next = -1, !.stat = "chunkError"].stat = "chunkError"
          /\ [d EXCEPT !.next = -1, !.stat = "chunkError"].buf = d.buf
          /\ [d EXCEPT !.next = -1, !.stat = "chunkError"].thrown = "none"
          /\ [d EXCEPT !.next = -1, !.stat = "chunkError"].decoded = d.decoded
      <3>1. -1 \in Int
        OBVIOUS
      <3> QED BY <1>1, <3>1 DEF Decoders, Stats
    <2>3. e = [d EXCEPT !.next = -1, !.stat = "chunkError"]
      BY <1>3, <2>1, <2>2
    <2>4. ~EndsHere(d)
      BY <1>4 DEF EndsHere
    <2> QED BY <1>4, <2>2, <2>3, <2>4
  <1>5. CASE SizeAt(d) # -1
    <2>1. Sized(d) \in Decoders /\ TakeSize(d) = Sized(d) /\ Sized(d).stat = "waitBody"
      BY <1>5, SizeTaken
    <2>2. e = TakeChunk(Sized(d))
      BY <1>3, <2>1
    <2>3. /\ Sized(d).buf = d.buf /\ Sized(d).thrown = "none" /\ Sized(d).decoded = d.decoded
      BY SizeTaken
    <2>4. CASE EndsHere(d)
      <3>1. e = [Sized(d) EXCEPT !.stat = "decodeComplete"]
        BY <1>5, <2>2, <2>4, ChunkTaken
      <3>2. /\ e \in Decoders /\ e.buf = d.buf /\ e.stat = "decodeComplete"
            /\ e.thrown = "none" /\ e.decoded = d.decoded
        BY <2>1, <2>3, <3>1 DEF Decoders, Stats
      <3> QED BY <1>5, <2>4, <3>2
    <2>5. CASE ~EndsHere(d) /\ Len(TakenBy(d)) > MaxBody
      <3>1. e = [Sized(d) EXCEPT !.decoded = TakenBy(d), !.thrown = "413"]
        BY <1>5, <2>2, <2>5, ChunkTaken
      <3>2. /\ e \in Decoders /\ e.buf = d.buf /\ e.thrown = "413" /\ e.decoded = TakenBy(d)
        BY <1>2, <2>1, <2>3, <3>1 DEF Decoders
      <3> QED BY <1>5, <2>5, <3>2
    <2>6. CASE ~EndsHere(d) /\ ~(Len(TakenBy(d)) > MaxBody)
      <3>1. e = TakeChunkEnd(f)
        BY <1>5, <2>2, <2>6, ChunkTaken
      <3>2. /\ f \in Decoders /\ f.buf = d.buf /\ f.thrown = "none" /\ f.decoded = TakenBy(d)
            /\ f.head = DataAt(d) + SizeAt(d)
        BY <1>2, <2>1, <2>3 DEF Decoders
      <3> HIDE DEF e, f
      <3>3. /\ e \in Decoders /\ e.buf = f.buf /\ e.decoded = f.decoded
            /\ e.thrown \in {"none", "out_of_range"}
            /\ e.stat \in {"waitSize", "chunkError"}
            /\ e.thrown = "out_of_range" => f.head > Len(f.buf)
            /\ e.thrown = "none" /\ e.stat = "waitSize" =>
                 e.head = f.head + 2 /\ f.head >= 0 /\ f.head + 2 <= Len(f.buf)
            /\ f.head \in 0..Len(f.buf) /\ NLAt(f.buf, f.head) =>
                 e.thrown = "none" /\ e.stat = "waitSize"
        BY <3>1, <3>2, ChunkEndIs
      <3>4. /\ e \in Decoders /\ e.buf = d.buf /\ e.decoded = TakenBy(d)
            /\ e.thrown \in {"none", "out_of_range"}
            /\ e.stat \in {"waitSize", "chunkError"}
        BY <3>2, <3>3
      <3>5. e.thrown = "out_of_range" => DataAt(d) + SizeAt(d) > Len(d.buf)
        BY <3>2, <3>3
      <3>6. e.thrown = "none" /\ e.stat = "waitSize" =>
              /\ e.head = DataAt(d) + SizeAt(d) + 2
              /\ DataAt(d) + SizeAt(d) >= 0
              /\ e.head <= Len(d.buf)
        BY <3>2, <3>3
      <3>7. /\ DataAt(d) + SizeAt(d) \in 0..Len(d.buf)
            /\ NLAt(d.buf, DataAt(d) + SizeAt(d))
            => e.thrown = "none" /\ e.stat = "waitSize"
        BY <3>2, <3>3
      <3> QED BY <1>5, <2>6, <3>4, <3>5, <3>6, <3>7 DEF e
    <2> QED BY <2>4, <2>5, <2>6
  <1> QED BY <1>4, <1>5

LEMMA SoundTurn ==
  ASSUME NEW d, Sound(d)
  PROVE  /\ Turned(d) \in Decoders /\ Turned(d).buf = d.buf
         /\ NLs(d.buf, d.head) = {} => Turned(d) = d
         /\ Turned(d).thrown = "none" => Len(Turned(d).decoded) <= MaxBody
         /\ ~LastTurn(d) => Sound(Turned(d))
  <1> DEFINE e == Turned(d)
  <1>1. /\ d \in Decoders /\ d.stat = "waitSize" /\ Len(d.decoded) <= MaxBody
        /\ MaxBody \in Nat
    BY ChunkedBodyAssumption DEF Sound
  <1>2. CASE NLs(d.buf, d.head) = {}
    <2>1. TakeSize(d) = d
      BY <1>2 DEF TakeSize
    <2>2. e = d
      BY <1>1, <2>1 DEF Turned
    <2> QED BY <1>1, <1>2, <2>2 DEF LastTurn
  <1>3. CASE NLs(d.buf, d.head) # {}
    <2>1. e \in Decoders /\ e.buf = d.buf
      BY <1>3, TurnIs
    <2>2. ASSUME e.thrown = "none"
          PROVE  Len(e.decoded) <= MaxBody
      <3>1. CASE SizeAt(d) = -1 \/ EndsHere(d)
        <4>1. e.decoded = d.decoded
          BY <1>3, <3>1, TurnIs
        <4> QED BY <1>1, <4>1
      <3>2. CASE SizeAt(d) # -1 /\ ~EndsHere(d)
        <4>1. e.decoded = TakenBy(d) /\ (Len(TakenBy(d)) > MaxBody => e.thrown = "413")
          BY <1>3, <3>2, TurnIs
        <4>2. Len(TakenBy(d)) \in Nat
          BY <1>3, SizeIs
        <4> HIDE DEF e
        <4> QED BY <1>1, <2>2, <4>1, <4>2
      <3> QED BY <3>1, <3>2
    <2>3. ASSUME ~LastTurn(d)
          PROVE  Sound(e)
      <3>1. e.thrown = "none" /\ e.stat \notin {"chunkError", "decodeComplete"}
        BY <2>3 DEF LastTurn, Stopped
      <3>2. SizeAt(d) # -1 /\ ~EndsHere(d)
        BY <1>3, <3>1, TurnIs
      <3>3. ~(Len(TakenBy(d)) > MaxBody)
        BY <1>3, <3>1, <3>2, TurnIs
      <3>4. /\ e.stat = "waitSize"
            /\ e.head = DataAt(d) + SizeAt(d) + 2
            /\ DataAt(d) + SizeAt(d) >= 0
            /\ e.head <= Len(d.buf)
        BY <1>3, <3>1, <3>2, <3>3, TurnIs
      <3>5. Len(d.buf) \in Nat /\ DataAt(d) + SizeAt(d) \in Int
        <4>1. /\ Len(d.buf) \in Nat /\ d.head \in Nat /\ SizeAt(d) \in Int
              /\ DataAt(d) \in d.head + 2..Len(d.buf)
          BY <1>3, SizeIs
        <4> QED BY <4>1
      <3>6. e.head \in 0..Len(e.buf)
        BY <2>1, <3>4, <3>5
      <3> QED BY <2>1, <2>2, <3>1, <3>4, <3>6 DEF Sound
    <2> QED BY <1>3, <2>1, <2>2, <2>3
  <1> QED BY <1>2, <1>3

-----------------------------------------------------------------------------
(* Where the chunks of a well-formed body are in its payload.                *)

Plain == (Bytes \ {"nul"}) \cup Digits

\* f joins the sequences one after the other.
Joins(f, seqs) ==
  /\ f \in [0..Len(seqs) -> Seq(Plain)]
  /\ f[0] = <<>>
  /\ \A i \in 1..Len(seqs) : f[i] = f[i - 1] \o seqs[i]
  /\ f[Len(seqs)] = FlattenSeq(seqs)

LEMMA JoinsExist ==
  ASSUME NEW seqs \in Seq(Seq(Plain))
  PROVE  \E f : Joins(f, seqs)
  BY FlattenSteps DEF Joins

PlainJoined == \A s, t \in Seq(Plain) :
                 /\ s \o t \in Seq(Plain)
                 /\ Len(s \o t) = Len(s) + Len(t)
                 /\ \A i \in 1..Len(s) : (s \o t)[i] = s[i]
                 /\ \A j \in 1..Len(t) : (s \o t)[Len(s) + j] = t[j]

LEMMA PlainJoinedIs == PlainJoined
  <1> SUFFICES ASSUME NEW s \in Seq(Plain), NEW t \in Seq(Plain)
               PROVE  /\ s \o t \in Seq(Plain)
                      /\ Len(s \o t) = Len(s) + Len(t)
                      /\ \A i \in 1..Len(s) : (s \o t)[i] = s[i]
                      /\ \A j \in 1..Len(t) : (s \o t)[Len(s) + j] = t[j]
    BY DEF PlainJoined
  <1> QED BY JoinedAre

\* Each of them begins the whole.
LEMMA JoinsBegin ==
  ASSUME NEW seqs \in Seq(Seq(Plain)), NEW f, Joins(f, seqs)
  PROVE  \A k \in 0..Len(seqs) :
           /\ Len(f[k]) <= Len(FlattenSeq(seqs))
           /\ \A j \in 1..Len(f[k]) : f[k][j] = FlattenSeq(seqs)[j]
  <1> DEFINE n == Len(seqs)
             w == FlattenSeq(seqs)
             Begins(k) == Len(f[k]) <= Len(w) /\ \A j \in 1..Len(f[k]) : f[k][j] = w[j]
             S == {m \in Nat : m <= n => Begins(n - m)}
  <1>1. /\ n \in Nat /\ f \in [0..n -> Seq(Plain)] /\ f[n] = w
        /\ \A i \in 1..n : f[i] = f[i - 1] \o seqs[i] /\ seqs[i] \in Seq(Plain)
    BY DEF Joins
  <1>2. Begins(n) /\ Len(w) \in Nat
    <2> HIDE DEF n, w
    <2>1. w \in Seq(Plain)
      BY <1>1
    <2> QED BY <1>1, <2>1
  <1> HIDE DEF n, w
  <1>3. ASSUME NEW k \in 1..n, Begins(k)
        PROVE  Begins(k - 1)
    <2> DEFINE a == f[k - 1]
               b == seqs[k]
               c == f[k]
    <2>1. k - 1 \in 0..n
      BY <1>1
    <2>2. a \in Seq(Plain)
      BY <1>1, <2>1
    <2>3. b \in Seq(Plain) /\ c = a \o b
      BY <1>1
    <2>4. Len(c) <= Len(w)
      BY <1>3
    <2>5. \A j \in 1..Len(c) : c[j] = w[j]
      BY <1>3
    <2> HIDE DEF a, b, c
    <2>6. /\ Len(a \o b) = Len(a) + Len(b)
          /\ \A j \in 1..Len(a) : (a \o b)[j] = a[j]
      BY <2>2, <2>3, PlainJoinedIs DEF PlainJoined
    <2>7. Len(c) = Len(a) + Len(b) /\ \A j \in 1..Len(a) : c[j] = a[j]
      BY <2>3, <2>6, Zenon
    <2>8. Len(a) \in Nat /\ Len(b) \in Nat
      BY <2>2, <2>3
    <2>9. Len(a) <= Len(w) /\ Len(a) <= Len(c)
      BY <1>2, <2>4, <2>7, <2>8
    <2>10. \A j \in 1..Len(a) : a[j] = w[j]
      BY <2>5, <2>7, <2>8, <2>9
    <2> QED BY <2>9, <2>10 DEF a
  <1>4. 0 \in S
    BY <1>1, <1>2
  <1>5. ASSUME NEW m \in Nat, m \in S PROVE m + 1 \in S
    <2>1. CASE m + 1 <= n
      <3>1. n - m \in 1..n /\ (n - m) - 1 = n - (m + 1)
        BY <1>1, <2>1
      <3>2. Begins(n - m)
        BY <1>1, <1>5, <2>1
      <3> HIDE DEF Begins
      <3>3. Begins((n - m) - 1)
        BY <1>3, <3>1, <3>2
      <3> QED BY <3>1, <3>3
    <2> HIDE DEF Begins
    <2> QED BY <2>1
  <1> HIDE DEF Begins
  <1>6. \A m \in Nat : m \in S
    <2> HIDE DEF S
    <2> QED BY <1>4, <1>5, NatSetInduction
  <1>7. ASSUME NEW k \in 0..n
        PROVE  Begins(k)
    <2>1. n - k \in Nat /\ n - k <= n /\ n - (n - k) = k
      BY <1>1
    <2>2. Begins(n - (n - k))
      BY <1>6, <2>1
    <2> QED BY <2>1, <2>2
  <1> QED BY <1>7 DEF Begins, n, w

LEMMA PlainIs ==
  /\ NL \in Seq(Plain) /\ Len(NL) = 2 /\ NL[1] = "cr" /\ NL[2] = "lf"
  /\ "nul" \notin Plain /\ Digits \subseteq Plain
  <1>1. "cr" \in Plain /\ "lf" \in Plain
    BY SymbolsAre DEF Plain
  <1>2. NL \in Seq(Plain)
    BY <1>1 DEF NL
  <1>3. "nul" \notin Plain
    BY DEF Plain, Digits
  <1> QED BY <1>2, <1>3, SymbolsAre DEF Plain

LEMMA SizeLineIs ==
  \A x \in Digits :
    /\ SizeLine(DigitValue(x)) \in Seq(Plain) /\ Len(SizeLine(DigitValue(x))) = 3
    /\ SizeLine(DigitValue(x))[1] = x
    /\ SizeLine(DigitValue(x))[2] = "cr" /\ SizeLine(DigitValue(x))[3] = "lf"
  <1> TAKE x \in Digits
  <1> DEFINE a == <<x>>
             c == SizeLine(DigitValue(x))
  <1>1. a \in Seq(Plain) /\ Len(a) = 1 /\ a[1] = x
    BY PlainIs
  <1>2. c = a \o NL
    BY DigitIs DEF SizeLine
  <1> HIDE DEF a, c
  <1>3. /\ a \o NL \in Seq(Plain)
        /\ Len(a \o NL) = Len(a) + Len(NL)
        /\ \A i \in 1..Len(a) : (a \o NL)[i] = a[i]
        /\ \A j \in 1..Len(NL) : (a \o NL)[Len(a) + j] = NL[j]
    BY <1>1, PlainIs, PlainJoinedIs DEF PlainJoined
  <1>4. /\ c \in Seq(Plain) /\ Len(c) = 1 + 2
        /\ \A i \in 1..1 : c[i] = a[i]
        /\ \A j \in 1..2 : c[1 + j] = NL[j]
    BY <1>1, <1>2, <1>3, PlainIs
  <1>5. Len(c) = 3 /\ c[1] = x /\ c[2] = "cr" /\ c[3] = "lf"
    <2>1. 1 \in 1..1 /\ 1 \in 1..2 /\ 2 \in 1..2 /\ 1 + 1 = 2 /\ 1 + 2 = 3
      OBVIOUS
    <2> QED BY <1>1, <1>4, <2>1, PlainIs
  <1> QED BY <1>4, <1>5 DEF c

\* The coding of one piece.
ChunkOf(t) == SizeLine(Len(t)) \o t \o NL

LEMMA ChunkIs ==
  ASSUME NEW t \in Seq(Bytes \ {"nul"}), NEW x \in Digits, Len(t) = DigitValue(x)
  PROVE  /\ t \in Seq(Plain) /\ Len(t) \in Nat
         /\ ChunkOf(t) \in Seq(Plain) /\ Len(ChunkOf(t)) = Len(t) + 5
         /\ ChunkOf(t)[1] = x /\ ChunkOf(t)[2] = "cr" /\ ChunkOf(t)[3] = "lf"
         /\ \A j \in 1..Len(t) : ChunkOf(t)[3 + j] = t[j]
         /\ ChunkOf(t)[Len(t) + 4] = "cr" /\ ChunkOf(t)[Len(t) + 5] = "lf"
  <1> DEFINE a == SizeLine(Len(t))
             b == a \o t
             c == ChunkOf(t)
             L == Len(t)
  <1>1. t \in Seq(Plain) /\ L \in Nat
    BY DEF Plain
  <1>2. /\ a \in Seq(Plain) /\ Len(a) = 3
        /\ a[1] = x /\ a[2] = "cr" /\ a[3] = "lf"
    BY SizeLineIs
  <1>3. c = b \o NL
    BY DEF ChunkOf
  <1>4. /\ a \o t \in Seq(Plain)
        /\ Len(a \o t) = Len(a) + Len(t)
        /\ \A i \in 1..Len(a) : (a \o t)[i] = a[i]
        /\ \A j \in 1..Len(t) : (a \o t)[Len(a) + j] = t[j]
    <2> HIDE DEF a
    <2> QED BY <1>1, <1>2, PlainJoinedIs DEF PlainJoined
  <1> HIDE DEF a, c
  <1>5. /\ b \in Seq(Plain) /\ Len(b) = 3 + L
        /\ \A i \in 1..3 : b[i] = a[i]
        /\ \A j \in 1..L : b[3 + j] = t[j]
    BY <1>2, <1>4
  <1> HIDE DEF b
  <1>6. /\ b \o NL \in Seq(Plain)
        /\ Len(b \o NL) = Len(b) + Len(NL)
        /\ \A i \in 1..Len(b) : (b \o NL)[i] = b[i]
        /\ \A j \in 1..Len(NL) : (b \o NL)[Len(b) + j] = NL[j]
    BY <1>5, PlainIs, PlainJoinedIs DEF PlainJoined
  <1> HIDE DEF L
  <1>7. /\ c \in Seq(Plain) /\ Len(c) = (3 + L) + 2
        /\ \A i \in 1..3 + L : c[i] = b[i]
        /\ \A j \in 1..2 : c[(3 + L) + j] = NL[j]
    BY <1>3, <1>5, <1>6, PlainIs
  <1>8. c[1] = x /\ c[2] = "cr" /\ c[3] = "lf"
    <2>1. \A i \in 1..3 : i \in 1..3 + L
      BY <1>1
    <2>2. \A i \in 1..3 : c[i] = a[i]
      BY <1>5, <1>7, <2>1
    <2>3. 1 \in 1..3 /\ 2 \in 1..3 /\ 3 \in 1..3
      OBVIOUS
    <2> QED BY <1>2, <2>2, <2>3
  <1>9. \A j \in 1..L : c[3 + j] = t[j]
    <2>1. \A j \in 1..L : 3 + j \in 1..3 + L
      BY <1>1
    <2> QED BY <1>5, <1>7, <2>1
  <1>10. c[L + 4] = "cr" /\ c[L + 5] = "lf" /\ Len(c) = L + 5
    <2>1. /\ 1 \in 1..2 /\ 2 \in 1..2 /\ (3 + L) + 1 = L + 4 /\ (3 + L) + 2 = L + 5
      BY <1>1
    <2>2. c[(3 + L) + 1] = NL[1] /\ c[(3 + L) + 2] = NL[2]
      BY <1>7, <2>1
    <2> QED BY <1>7, <2>1, <2>2, PlainIs
  <1> QED BY <1>1, <1>7, <1>8, <1>9, <1>10 DEF c, L

Codes(p) == [i \in DOMAIN p |-> ChunkOf(p[i])]

\* What precedes a chunk: how much of the payload, and which data.
Offset(p, k) == Len((CHOOSE f : Joins(f, Codes(p)))[k])
Begun(p, k) == (CHOOSE f : Joins(f, p))[k]

LEMMA PiecesAre ==
  ASSUME NEW p \in Pieces
  PROVE  /\ Len(p) \in Nat /\ DOMAIN p = 1..Len(p)
         /\ \A i \in 1..Len(p) : /\ p[i] \in Seq(Bytes \ {"nul"})
                                 /\ \E x \in Digits \ {"0"} : Len(p[i]) = DigitValue(x)
         /\ p \in Seq(Seq(Plain))
         /\ Codes(p) \in Seq(Seq(Plain)) /\ Len(Codes(p)) = Len(p)
         /\ \A i \in 1..Len(p) : Codes(p)[i] = ChunkOf(p[i])
  <1>1. p \in Seq(Seq(Bytes \ {"nul"}))
    BY RequestReaderAssumption
  <1>2. Len(p) \in Nat /\ DOMAIN p = 1..Len(p)
    BY <1>1
  <1>3. ASSUME NEW i \in 1..Len(p)
        PROVE  /\ p[i] \in Seq(Bytes \ {"nul"})
               /\ \E x \in Digits \ {"0"} : Len(p[i]) = DigitValue(x)
    <2>1. p[i] \in Seq(Bytes \ {"nul"})
      BY <1>1
    <2>2. Len(p[i]) \in {DigitValue(d) : d \in Digits \ {"0"}}
      BY <1>2, RequestReaderAssumption
    <2> QED BY <2>1, <2>2
  <1>4. ASSUME NEW i \in 1..Len(p)
        PROVE  p[i] \in Seq(Plain) /\ ChunkOf(p[i]) \in Seq(Plain)
    <2>1. p[i] \in Seq(Bytes \ {"nul"})
      BY <1>3
    <2>2. PICK x \in Digits : Len(p[i]) = DigitValue(x)
      BY <1>3
    <2> QED BY <2>1, <2>2, ChunkIs
  <1>5. p \in Seq(Seq(Plain))
    BY <1>1, <1>2, <1>4
  <1>6. Codes(p) \in [1..Len(p) -> Seq(Plain)] /\ \A i \in 1..Len(p) : Codes(p)[i] = ChunkOf(p[i])
    BY <1>2, <1>4 DEF Codes
  <1>7. Codes(p) \in Seq(Seq(Plain)) /\ Len(Codes(p)) = Len(p)
    BY <1>2, <1>6
  <1> QED BY <1>2, <1>3, <1>5, <1>6, <1>7

\* The data before each chunk, and a beginning of the next one.
LEMMA BegunIs ==
  ASSUME NEW p \in Pieces
  PROVE  /\ FlattenSeq(p) \in Seq(Plain)
         /\ Begun(p, 0) = <<>> /\ Begun(p, Len(p)) = FlattenSeq(p)
         /\ \A k \in 0..Len(p) :
              /\ Begun(p, k) \in Seq(Plain)
              /\ Len(Begun(p, k)) <= Len(FlattenSeq(p))
              /\ \A j \in 1..Len(Begun(p, k)) : Begun(p, k)[j] = FlattenSeq(p)[j]
         /\ \A k \in 1..Len(p) : Begun(p, k) = Begun(p, k - 1) \o p[k]
  <1> DEFINE f == CHOOSE g : Joins(g, p)
  <1>1. p \in Seq(Seq(Plain)) /\ Len(p) \in Nat
    BY PiecesAre
  <1>2. Joins(f, p)
    BY <1>1, JoinsExist
  <1>3. \A k : Begun(p, k) = f[k]
    BY Zenon DEF Begun
  <1> HIDE DEF f
  <1>4. /\ \A k \in 0..Len(p) : f[k] \in Seq(Plain)
        /\ f[0] = <<>> /\ f[Len(p)] = FlattenSeq(p)
        /\ \A k \in 1..Len(p) : f[k] = f[k - 1] \o p[k]
    BY <1>1, <1>2 DEF Joins
  <1>5. \A k \in 0..Len(p) :
          /\ Len(f[k]) <= Len(FlattenSeq(p))
          /\ \A j \in 1..Len(f[k]) : f[k][j] = FlattenSeq(p)[j]
    BY <1>1, <1>2, JoinsBegin
  <1>6. FlattenSeq(p) \in Seq(Plain)
    <2>1. Len(p) \in 0..Len(p)
      BY <1>1
    <2> QED BY <1>4, <2>1
  <1>7. \A k \in 1..Len(p) : Begun(p, k) = Begun(p, k - 1) \o p[k]
    BY <1>3, <1>4, Zenon
  <1> QED BY <1>3, <1>4, <1>5, <1>6, <1>7

LEMMA OffsetIs ==
  ASSUME NEW p \in Pieces
  PROVE  /\ FlattenSeq(Codes(p)) \in Seq(Plain)
         /\ Offset(p, 0) = 0 /\ Offset(p, Len(p)) = Len(FlattenSeq(Codes(p)))
         /\ \A k \in 0..Len(p) : Offset(p, k) \in Nat /\ Offset(p, k) <= Offset(p, Len(p))
         /\ \A k \in 1..Len(p) :
              /\ Offset(p, k) = Offset(p, k - 1) + Len(p[k]) + 5
              /\ \A j \in 1..Len(p[k]) + 5 :
                   FlattenSeq(Codes(p))[Offset(p, k - 1) + j] = ChunkOf(p[k])[j]
  <1> DEFINE c == Codes(p)
             f == CHOOSE g : Joins(g, c)
             w == FlattenSeq(c)
             n == Len(p)
  <1>1. /\ c \in Seq(Seq(Plain)) /\ n \in Nat /\ Len(c) = n
        /\ \A i \in 1..n : c[i] = ChunkOf(p[i])
    BY PiecesAre
  <1>2. Joins(f, c)
    <2> HIDE DEF c
    <2> QED BY <1>1, JoinsExist
  <1>3. \A k : Offset(p, k) = Len(f[k])
    BY Zenon DEF Offset
  <1> HIDE DEF f, c, n, w
  <1>4. /\ \A k \in 0..n : f[k] \in Seq(Plain)
        /\ f[0] = <<>> /\ f[n] = w
        /\ \A k \in 1..n : f[k] = f[k - 1] \o c[k]
    BY <1>1, <1>2 DEF Joins, w
  <1>5. \A k \in 0..n : Len(f[k]) <= Len(w) /\ \A j \in 1..Len(f[k]) : f[k][j] = w[j]
    BY <1>1, <1>2, JoinsBegin DEF w
  <1>6. w \in Seq(Plain)
    <2>1. n \in 0..n
      BY <1>1
    <2> QED BY <1>4, <2>1
  <1>7. \A k \in 0..n : Offset(p, k) \in Nat /\ Offset(p, k) <= Offset(p, n)
    <2>1. \A k \in 0..n : Len(f[k]) \in Nat
      BY <1>4
    <2> QED BY <1>3, <1>4, <1>5, <2>1
  <1>8. ASSUME NEW k \in 1..n
        PROVE  /\ Offset(p, k) = Offset(p, k - 1) + Len(p[k]) + 5
               /\ \A j \in 1..Len(p[k]) + 5 : w[Offset(p, k - 1) + j] = ChunkOf(p[k])[j]
    <2> DEFINE a == f[k - 1]
               b == c[k]
               r == f[k]
               O == Offset(p, k - 1)
               L == Len(p[k])
    <2>1. k - 1 \in 0..n /\ k \in 0..n
      BY <1>1
    <2>2. a \in Seq(Plain) /\ O = Len(a) /\ O \in Nat
      BY <1>3, <1>4, <1>7, <2>1
    <2>3. b = ChunkOf(p[k]) /\ b \in Seq(Plain) /\ Len(b) = L + 5 /\ L \in Nat
      <3>1. b = ChunkOf(p[k])
        BY <1>1
      <3>2. p[k] \in Seq(Bytes \ {"nul"}) /\ \E x \in Digits : Len(p[k]) = DigitValue(x)
        BY PiecesAre DEF n
      <3>3. ChunkOf(p[k]) \in Seq(Plain) /\ Len(ChunkOf(p[k])) = L + 5 /\ L \in Nat
        BY <3>2, ChunkIs
      <3> HIDE DEF b, L
      <3> QED BY <3>1, <3>3
    <2>4. r = a \o b /\ Offset(p, k) = Len(r)
      BY <1>3, <1>4
    <2>5. Len(r) <= Len(w) /\ \A j \in 1..Len(r) : r[j] = w[j]
      BY <1>5, <2>1
    <2> HIDE DEF a, b, r, O, L
    <2>6. /\ Len(a \o b) = Len(a) + Len(b)
          /\ \A j \in 1..Len(b) : (a \o b)[Len(a) + j] = b[j]
      BY <2>2, <2>3, PlainJoinedIs DEF PlainJoined
    <2>7. Len(r) = O + (L + 5) /\ \A j \in 1..L + 5 : r[O + j] = b[j]
      BY <2>2, <2>3, <2>4, <2>6
    <2>8. \A j \in 1..L + 5 : O + j \in 1..Len(r)
      BY <2>2, <2>3, <2>7
    <2>9. \A j \in 1..L + 5 : w[O + j] = ChunkOf(p[k])[j]
      BY <2>3, <2>5, <2>7, <2>8
    <2>10. Offset(p, k) = O + L + 5
      BY <2>2, <2>3, <2>4, <2>7
    <2> QED BY <2>9, <2>10 DEF O, L
  <1>9. Offset(p, 0) = 0
    BY <1>3, <1>4
  <1>10. Offset(p, n) = Len(w)
    BY <1>3, <1>4
  <1> QED BY <1>6, <1>7, <1>8, <1>9, <1>10 DEF n, w, c

\* Where everything is in the coding of p.
LEMMA PayloadIs ==
  ASSUME NEW p \in Pieces, NEW payload, Chunked(p) = payload
  PROVE  /\ payload \in Seq(Plain) /\ Len(payload) = Offset(p, Len(p)) + 5
         /\ \A i \in 1..Len(payload) : payload[i] # "nul"
         /\ payload[Offset(p, Len(p)) + 1] = "0"
         /\ payload[Offset(p, Len(p)) + 2] = "cr" /\ payload[Offset(p, Len(p)) + 3] = "lf"
         /\ payload[Offset(p, Len(p)) + 4] = "cr" /\ payload[Offset(p, Len(p)) + 5] = "lf"
         /\ \A k \in 1..Len(p) : \A j \in 1..Len(p[k]) + 5 :
              payload[Offset(p, k - 1) + j] = ChunkOf(p[k])[j]
  <1> DEFINE w == FlattenSeq(Codes(p))
             z == SizeLine(0)
             u == w \o z
             O == Offset(p, Len(p))
  <1>1. w \in Seq(Plain) /\ O = Len(w) /\ O \in Nat
    BY OffsetIs
  <1>2. /\ z \in Seq(Plain) /\ Len(z) = 3
        /\ z[1] = "0" /\ z[2] = "cr" /\ z[3] = "lf"
    <2>1. "0" \in Digits /\ DigitValue("0") = 0
      BY DEF Digits, DigitValue
    <2> QED BY <2>1, SizeLineIs
  <1>3. payload = u \o NL
    BY Zenon DEF Chunked, Codes, ChunkOf
  <1>14. \A k \in 1..Len(p) : /\ Offset(p, k) = Offset(p, k - 1) + Len(p[k]) + 5
                              /\ Offset(p, k) <= O
                              /\ Offset(p, k - 1) \in Nat
                              /\ Len(p[k]) \in Nat
    <2> TAKE k \in 1..Len(p)
    <2>1. Len(p) \in Nat
      BY PiecesAre
    <2>2. k \in 0..Len(p) /\ k - 1 \in 0..Len(p)
      BY <2>1
    <2>3. Offset(p, k) = Offset(p, k - 1) + Len(p[k]) + 5
      BY OffsetIs
    <2>4. Offset(p, k) <= O /\ Offset(p, k - 1) \in Nat
      BY <2>2, OffsetIs
    <2>5. Len(p[k]) \in Nat
      BY PiecesAre
    <2> QED BY <2>3, <2>4, <2>5
  <1>15. \A k \in 1..Len(p) : \A j \in 1..Len(p[k]) + 5 :
           w[Offset(p, k - 1) + j] = ChunkOf(p[k])[j]
    BY OffsetIs
  <1> HIDE DEF w, z, O
  <1>4. /\ w \o z \in Seq(Plain)
        /\ Len(w \o z) = Len(w) + Len(z)
        /\ \A i \in 1..Len(w) : (w \o z)[i] = w[i]
        /\ \A j \in 1..Len(z) : (w \o z)[Len(w) + j] = z[j]
    BY <1>1, <1>2, PlainJoinedIs DEF PlainJoined
  <1>5. /\ u \in Seq(Plain) /\ Len(u) = O + 3
        /\ \A i \in 1..O : u[i] = w[i]
        /\ \A j \in 1..3 : u[O + j] = z[j]
    BY <1>1, <1>2, <1>4
  <1> HIDE DEF u
  <1>6. /\ u \o NL \in Seq(Plain)
        /\ Len(u \o NL) = Len(u) + Len(NL)
        /\ \A i \in 1..Len(u) : (u \o NL)[i] = u[i]
        /\ \A j \in 1..Len(NL) : (u \o NL)[Len(u) + j] = NL[j]
    BY <1>5, PlainIs, PlainJoinedIs DEF PlainJoined
  <1>7. /\ payload \in Seq(Plain) /\ Len(payload) = (O + 3) + 2
        /\ \A i \in 1..O + 3 : payload[i] = u[i]
        /\ \A j \in 1..2 : payload[(O + 3) + j] = NL[j]
    BY <1>3, <1>5, <1>6, PlainIs
  <1>8. \A i \in 1..O : payload[i] = w[i]
    <2>1. \A i \in 1..O : i \in 1..O + 3
      BY <1>1
    <2> QED BY <1>5, <1>7, <2>1
  <1>9. \A j \in 1..3 : payload[O + j] = z[j]
    <2>1. \A j \in 1..3 : O + j \in 1..O + 3
      BY <1>1
    <2> QED BY <1>5, <1>7, <2>1
  <1>10. payload[O + 1] = "0" /\ payload[O + 2] = "cr" /\ payload[O + 3] = "lf"
    <2>1. 1 \in 1..3 /\ 2 \in 1..3 /\ 3 \in 1..3
      OBVIOUS
    <2> QED BY <1>2, <1>9, <2>1
  <1>11. payload[O + 4] = "cr" /\ payload[O + 5] = "lf" /\ Len(payload) = O + 5
    <2>1. 1 \in 1..2 /\ 2 \in 1..2 /\ (O + 3) + 1 = O + 4 /\ (O + 3) + 2 = O + 5
      BY <1>1
    <2>2. payload[(O + 3) + 1] = NL[1] /\ payload[(O + 3) + 2] = NL[2]
      BY <1>7, <2>1
    <2> QED BY <1>7, <2>1, <2>2, PlainIs
  <1>12. \A i \in 1..Len(payload) : payload[i] # "nul"
    <2>1. \A i \in 1..Len(payload) : payload[i] \in Plain
      BY <1>7
    <2> QED BY <2>1, PlainIs
  <1>13. ASSUME NEW k \in 1..Len(p), NEW j \in 1..Len(p[k]) + 5
         PROVE  payload[Offset(p, k - 1) + j] = ChunkOf(p[k])[j]
    <2>1. Offset(p, k - 1) + j \in 1..O
      <3> DEFINE a == Offset(p, k - 1)
                 b == Len(p[k])
                 c == Offset(p, k)
      <3>1. a \in Nat /\ b \in Nat /\ c = a + b + 5 /\ c <= O /\ j \in 1..b + 5
        BY <1>14
      <3> HIDE DEF a, b, c
      <3>2. a + j \in 1..O
        BY <1>1, <3>1
      <3> QED BY <3>2 DEF a
    <2> QED BY <1>8, <1>15, <2>1
  <1> QED BY <1>7, <1>10, <1>11, <1>12, <1>13 DEF O

-----------------------------------------------------------------------------
(* A turn of the decoder in a well-formed body.                              *)

\* A size line, as far as it is there, is ahead.
SizeAhead(d, x) ==
  /\ Len(d.buf) >= d.head + 1 => d.buf[d.head + 1] = x
  /\ Len(d.buf) >= d.head + 2 => d.buf[d.head + 2] = "cr"
  /\ Len(d.buf) >= d.head + 3 => d.buf[d.head + 3] = "lf"

LEMMA SizeRead ==
  ASSUME NEW d, Sound(d), NEW x \in Digits, SizeAhead(d, x)
  PROVE  /\ NLs(d.buf, d.head) # {} <=> Len(d.buf) >= d.head + 3
         /\ Len(d.buf) >= d.head + 3 => SizeAt(d) = DigitValue(x) /\ DataAt(d) = d.head + 3
  <1> DEFINE t == d.buf
             l == Len(d.buf)
             h == d.head
  <1>1. t \in Seq(Bytes) /\ l \in Nat /\ h \in Nat /\ h <= l
    <2>1. d \in Decoders /\ d.head \in 0..Len(d.buf)
      BY DEF Sound
    <2>2. d.buf \in Seq(Bytes)
      BY <2>1 DEF Decoders
    <2>3. Len(d.buf) \in Nat
      BY <2>2
    <2> QED BY <2>1, <2>2, <2>3
  <1>2. t \in Seq(Symbols)
    BY <1>1, SymbolsAre
  <1>3. x # "cr"
    BY DEF Digits
  <1>4. /\ l >= h + 1 => t[h + 1] = x
        /\ l >= h + 2 => t[h + 2] = "cr"
        /\ l >= h + 3 => t[h + 3] = "lf"
    BY DEF SizeAhead
  <1>5. l = Len(t)
    OBVIOUS
  <1> HIDE DEF t, l, h
  <1>6. \A p \in Nat : NLAt(t, p) <=> p + 2 <= l /\ t[p + 1] = "cr" /\ t[p + 2] = "lf"
    BY <1>2, <1>5, NLAtIs
  <1>7. NLs(t, h) \subseteq Nat /\ \A p \in NLs(t, h) : p >= h /\ NLAt(t, p)
    BY <1>1, <1>5 DEF NLs
  <1>8. \A p \in NLs(t, h) : p >= h + 1 /\ p + 2 <= l
    <2> TAKE p \in NLs(t, h)
    <2>1. p \in Nat /\ p >= h /\ p + 2 <= l /\ t[p + 1] = "cr"
      BY <1>6, <1>7
    <2>2. p # h
      <3>1. p = h => t[h + 1] = x
        BY <1>1, <1>4, <2>1
      <3> QED BY <1>3, <2>1, <3>1
    <2> QED BY <1>1, <2>1, <2>2
  <1>9. l >= h + 3 => h + 1 \in NLs(t, h)
    <2> SUFFICES ASSUME l >= h + 3
                 PROVE  h + 1 \in NLs(t, h)
      OBVIOUS
    <2>1. /\ h + 1 \in Nat /\ (h + 1) + 2 <= l /\ (h + 1) + 1 = h + 2 /\ (h + 1) + 2 = h + 3
          /\ h + 1 \in h..Len(t)
      BY <1>1, <1>5
    <2>2. t[h + 2] = "cr" /\ t[h + 3] = "lf"
      BY <1>1, <1>4
    <2>3. NLAt(t, h + 1)
      BY <1>6, <2>1, <2>2
    <2> QED BY <2>1, <2>3 DEF NLs
  <1>10. NLs(t, h) # {} => l >= h + 3
    <2> SUFFICES ASSUME NEW p \in NLs(t, h)
                 PROVE  l >= h + 3
      OBVIOUS
    <2>1. p \in Nat /\ p >= h + 1 /\ p + 2 <= l
      BY <1>7, <1>8
    <2> QED BY <1>1, <2>1
  <1>11. ASSUME l >= h + 3
         PROVE  Min(NLs(t, h)) = h + 1
    <2>1. Min(NLs(t, h)) \in NLs(t, h) /\ Min(NLs(t, h)) <= h + 1
      BY <1>7, <1>9, <1>11, MinIs
    <2>2. Min(NLs(t, h)) \in Nat /\ Min(NLs(t, h)) >= h + 1
      BY <1>7, <1>8, <2>1
    <2> QED BY <1>1, <2>1, <2>2
  <1>12. ASSUME l >= h + 3
         PROVE  SizeAt(d) = DigitValue(x) /\ DataAt(d) = h + 3
    <2>1. SubSeq(t, h + 1, h + 1) = <<x>>
      <3> DEFINE u == SubSeq(t, h + 1, h + 1)
                 v == <<x>>
      <3>1. h + 1 \in 1..Len(t)
        BY <1>1, <1>5, <1>12
      <3>2. u \in Seq(Symbols) /\ Len(u) = 1 /\ u[1] = t[h + 1]
        BY <1>1, <1>2, <3>1
      <3>3. t[h + 1] = x /\ t[h + 1] \in Symbols
        BY <1>1, <1>2, <1>4, <1>12, <3>1
      <3>4. v \in Seq(Symbols) /\ Len(v) = 1 /\ v[1] = x
        BY <3>3
      <3> HIDE DEF u, v
      <3>5. \A i \in 1..Len(u) : u[i] = v[i]
        BY <3>2, <3>3, <3>4
      <3>6. u = v
        BY <3>2, <3>4, <3>5, SeqEqual
      <3> QED BY <3>6 DEF u, v
    <2>2. Min(NLs(t, h)) = h + 1
      BY <1>11, <1>12
    <2>3. SizeAt(d) = HexStrToLong(<<x>>)
      BY <2>1, <2>2 DEF SizeAt, t, h
    <2>4. DataAt(d) = (h + 1) + 2
      BY <2>2 DEF DataAt, t, h
    <2> QED BY <1>1, <2>3, <2>4, HexStrToLongIs
  <1> QED BY <1>9, <1>10, <1>12 DEF t, l, h

\* The buffer has the payload as far as it arrived.
Shows(d, payload) ==
  /\ Len(d.buf) <= Len(payload)
  /\ \A i \in 1..Len(d.buf) : d.buf[i] = payload[i]

\* k chunks are decoded.
Placed(d, p, k) == d.head = Offset(p, k) /\ d.decoded = Begun(p, k)

LEMMA PrefixIs ==
  \A s, t \in Seq(Plain) :
    Len(s) <= Len(t) /\ (\A j \in 1..Len(s) : s[j] = t[j]) => IsPrefix(s, t)
  <1> TAKE s, t \in Seq(Plain)
  <1> HAVE Len(s) <= Len(t) /\ (\A j \in 1..Len(s) : s[j] = t[j])
  <1> DEFINE u == SubSeq(s, 1, Len(s))
             v == SubSeq(t, 1, Len(s))
  <1>1. Len(s) \in Nat /\ Len(t) \in Nat
    OBVIOUS
  <1>2. u \in Seq(Plain) /\ Len(u) = Len(s) /\ \A j \in 1..Len(s) : u[j] = s[j]
    BY <1>1
  <1>3. v \in Seq(Plain) /\ Len(v) = Len(s) /\ \A j \in 1..Len(s) : v[j] = t[j]
    BY <1>1
  <1> HIDE DEF u, v
  <1>4. \A j \in 1..Len(u) : u[j] = v[j]
    BY <1>2, <1>3
  <1>5. u = v
    BY <1>2, <1>3, <1>4, SeqEqual
  <1> QED BY <1>5 DEF IsPrefix, u, v

LEMMA LastSizeTurn ==
  ASSUME NEW p \in Pieces, NEW payload, Chunked(p) = payload,
         NEW d, Sound(d), Shows(d, payload), Placed(d, p, Len(p))
  PROVE  /\ LastTurn(d)
         /\ Turned(d).thrown = "none" /\ Turned(d).decoded = FlattenSeq(p)
         /\ Len(d.buf) = Len(payload) => Turned(d).stat = "decodeComplete"
  <1> DEFINE e == Turned(d)
             l == Len(d.buf)
             O == d.head
             t == d.buf
             m == Len(payload)
  <1>1. l \in Nat /\ O \in Nat /\ t \in Seq(Symbols) /\ MaxBody \in Nat
        /\ Len(d.decoded) <= MaxBody /\ Len(d.decoded) \in Nat /\ d.thrown = "none"
    <2>1. /\ d.buf \in Seq(Bytes) /\ d.decoded \in Seq(Bytes) /\ O \in 0..l
          /\ Len(d.decoded) <= MaxBody /\ d.thrown = "none"
      BY DEF Sound, Decoders
    <2>2. d.buf \in Seq(Symbols)
      BY <2>1, SymbolsAre
    <2>3. l \in Nat /\ Len(d.decoded) \in Nat
      BY <2>1
    <2> QED BY <2>1, <2>2, <2>3, ChunkedBodyAssumption
  <1>2. O = Offset(p, Len(p)) /\ d.decoded = FlattenSeq(p)
    BY BegunIs DEF Placed
  <1>3. /\ m = O + 5
        /\ payload[O + 1] = "0" /\ payload[O + 2] = "cr" /\ payload[O + 3] = "lf"
        /\ payload[O + 4] = "cr" /\ payload[O + 5] = "lf"
    BY <1>2, PayloadIs
  <1>4. l <= m /\ \A i \in 1..l : t[i] = payload[i]
    BY DEF Shows
  <1>5. l = Len(t)
    OBVIOUS
  <1>6. "0" \in Digits /\ DigitValue("0") = 0
    BY DEF Digits, DigitValue
  <1>7. SizeAhead(d, "0")
    <2>1. /\ l >= O + 1 => t[O + 1] = "0"
          /\ l >= O + 2 => t[O + 2] = "cr"
          /\ l >= O + 3 => t[O + 3] = "lf"
      <3> HIDE DEF l, O, t, m
      <3> QED BY <1>1, <1>3, <1>4
    <2> QED BY <2>1 DEF SizeAhead
  <1>8. /\ NLs(d.buf, d.head) # {} <=> l >= O + 3
        /\ l >= O + 3 => SizeAt(d) = 0 /\ DataAt(d) = O + 3
    BY <1>6, <1>7, SizeRead
  <1>9. CASE NLs(d.buf, d.head) = {}
    <2>1. e = d
      BY <1>9, SoundTurn
    <2>2. LastTurn(d)
      BY <1>9 DEF LastTurn
    <2>3. l # m
      <3>1. ~(l >= O + 3)
        BY <1>8, <1>9
      <3> HIDE DEF l, O, m
      <3> QED BY <1>1, <1>3, <3>1
    <2> QED BY <1>1, <1>2, <2>1, <2>2, <2>3
  <1>10. CASE NLs(d.buf, d.head) # {} /\ EndsHere(d)
    <2>1. e.stat = "decodeComplete" /\ e.thrown = "none" /\ e.decoded = d.decoded
      BY <1>10, TurnIs
    <2>2. LastTurn(d)
      BY <2>1 DEF LastTurn, Stopped
    <2> QED BY <1>2, <2>1, <2>2
  <1>11. CASE NLs(d.buf, d.head) # {} /\ ~EndsHere(d)
    <2>1. l >= O + 3 /\ SizeAt(d) = 0 /\ DataAt(d) = O + 3
      BY <1>8, <1>11
    <2>2. ~NLAt(d.buf, O + 3)
      BY <1>11, <2>1 DEF EndsHere
    <2>3. l < O + 5
      <3>1. O + 3 \in Nat /\ (O + 3) + 1 = O + 4 /\ (O + 3) + 2 = O + 5
        BY <1>1
      <3>2. NLAt(t, O + 3) <=> O + 5 <= l /\ t[O + 4] = "cr" /\ t[O + 5] = "lf"
        BY <1>1, <1>5, <3>1, NLAtIs
      <3>3. l >= O + 5 => t[O + 4] = "cr" /\ t[O + 5] = "lf"
        <4> HIDE DEF l, O, t, m
        <4> QED BY <1>1, <1>3, <1>4
      <3> HIDE DEF l, O
      <3> QED BY <1>1, <2>2, <3>2, <3>3 DEF O
    <2>4. TakenBy(d) = d.decoded
      BY <1>11, <2>1, SizeIs
    <2>5. ~(Len(TakenBy(d)) > MaxBody)
      BY <1>1, <2>4
    <2>6. SizeAt(d) # -1
      BY <2>1
    <2>7. /\ e.decoded = d.decoded
          /\ e.thrown \in {"none", "out_of_range"}
          /\ e.stat \in {"waitSize", "chunkError"}
          /\ e.thrown = "out_of_range" => DataAt(d) + SizeAt(d) > Len(d.buf)
          /\ e.thrown = "none" /\ e.stat = "waitSize" =>
               e.head = DataAt(d) + SizeAt(d) + 2 /\ e.head <= Len(d.buf)
      BY <1>11, <2>4, <2>5, <2>6, TurnIs
    <2>8. DataAt(d) + SizeAt(d) = O + 3
      <3> HIDE DEF O
      <3> QED BY <1>1, <2>1
    <2>9. e.thrown = "none"
      <3> HIDE DEF O, l, e
      <3>1. ~(O + 3 > l)
        BY <1>1, <2>1
      <3> QED BY <2>7, <2>8, <3>1 DEF l
    <2>10. e.stat = "chunkError"
      <3> HIDE DEF O, l, e
      <3>1. ~((O + 3) + 2 <= l)
        BY <1>1, <2>3
      <3> QED BY <2>7, <2>8, <2>9, <3>1 DEF l
    <2>11. LastTurn(d)
      BY <2>10 DEF LastTurn, Stopped
    <2>12. l # m
      <3> HIDE DEF O, l, m
      <3> QED BY <1>1, <1>3, <2>3
    <2> QED BY <1>2, <2>7, <2>9, <2>11, <2>12
  <1> QED BY <1>9, <1>10, <1>11

\* A beginning of what follows is a beginning of the whole.
LEMMA PartJoined ==
  \A s, t, q \in Seq(Plain) :
    Len(t) <= Len(q) /\ (\A j \in 1..Len(t) : t[j] = q[j]) =>
      /\ Len(s \o t) <= Len(s \o q)
      /\ \A i \in 1..Len(s \o t) : (s \o t)[i] = (s \o q)[i]
      /\ Len(t) = Len(q) => t = q
  <1> TAKE s, t, q \in Seq(Plain)
  <1> HAVE Len(t) <= Len(q) /\ (\A j \in 1..Len(t) : t[j] = q[j])
  <1> DEFINE a == s \o t
             b == s \o q
             n == Len(s)
             m == Len(t)
  <1>1. /\ Len(a) = n + m
        /\ \A i \in 1..n : a[i] = s[i]
        /\ \A j \in 1..m : a[n + j] = t[j]
    BY PlainJoinedIs, Zenon DEF PlainJoined
  <1>2. /\ Len(b) = n + Len(q)
        /\ \A i \in 1..n : b[i] = s[i]
        /\ \A j \in 1..Len(q) : b[n + j] = q[j]
    BY PlainJoinedIs, Zenon DEF PlainJoined
  <1>3. n \in Nat /\ m \in Nat /\ Len(q) \in Nat /\ m <= Len(q)
    OBVIOUS
  <1>4. \A j \in 1..m : t[j] = q[j]
    OBVIOUS
  <1>5. m = Len(q) => t = q
    BY SeqEqual
  <1> HIDE DEF a, b, n, m
  <1>6. \A i \in 1..n + m : a[i] = b[i]
    <2> TAKE i \in 1..n + m
    <2>1. CASE i <= n
      <3>1. i \in 1..n
        BY <1>3, <2>1
      <3> QED BY <1>1, <1>2, <3>1
    <2>2. CASE ~(i <= n)
      <3>1. i - n \in 1..m /\ i - n \in 1..Len(q) /\ n + (i - n) = i
        BY <1>3, <2>2
      <3> QED BY <1>1, <1>2, <1>4, <3>1
    <2> QED BY <2>1, <2>2
  <1>7. Len(a) <= Len(b) /\ \A i \in 1..Len(a) : a[i] = b[i]
    BY <1>1, <1>2, <1>3, <1>6
  <1> QED BY <1>5, <1>7 DEF a, b, m

\* What a turn takes of the next chunk.
LEMMA TakenIs ==
  ASSUME NEW p \in Pieces, NEW payload, Chunked(p) = payload,
         NEW k \in 1..Len(p),
         NEW d, Sound(d), Shows(d, payload), Placed(d, p, k - 1),
         NLs(d.buf, d.head) # {},
         SizeAt(d) = Len(p[k]), DataAt(d) = d.head + 3
  PROVE  /\ TakenBy(d) \in Seq(Plain)
         /\ Len(TakenBy(d)) <= Len(FlattenSeq(p))
         /\ IsPrefix(TakenBy(d), FlattenSeq(p))
         /\ d.head + 3 + Len(p[k]) <= Len(d.buf) => TakenBy(d) = Begun(p, k)
  <1> DEFINE O == d.head
             l == Len(d.buf)
             L == Len(p[k])
             t == d.buf
             g == DataEnd(d)
             s == d.decoded
             q == p[k]
             u == SubSeq(t, O + 4, g)
             w == FlattenSeq(p)
             z == ChunkOf(q)
  <1>1. PICK x \in Digits : Len(q) = DigitValue(x)
    BY PiecesAre
  <1>2. q \in Seq(Plain) /\ L \in Nat /\ \A j \in 1..L : z[3 + j] = q[j]
    <2>1. q \in Seq(Bytes \ {"nul"})
      BY PiecesAre
    <2> QED BY <1>1, <2>1, ChunkIs
  <1>3. k - 1 \in 0..Len(p) /\ k \in 0..Len(p)
    BY PiecesAre
  <1>4. s = Begun(p, k - 1) /\ s \in Seq(Plain) /\ O = Offset(p, k - 1) /\ O \in Nat
    BY <1>3, BegunIs, OffsetIs DEF Placed
  <1>5. s \o q = Begun(p, k) /\ Begun(p, k) \in Seq(Plain)
    BY <1>3, <1>4, BegunIs
  <1>6. w \in Seq(Plain) /\ Len(Begun(p, k)) <= Len(w)
        /\ \A j \in 1..Len(Begun(p, k)) : Begun(p, k)[j] = w[j]
    BY <1>3, BegunIs
  <1>7. /\ l \in Nat /\ g \in Int /\ g <= l /\ g >= O + 3 /\ g <= (O + 3) + L
        /\ (O + 3) + L <= l => g = (O + 3) + L
    <2>1. SizeAt(d) >= 0
      BY <1>2
    <2> QED BY <2>1, SizeIs
  <1>8. \A j \in 1..L + 5 : payload[O + j] = z[j]
    BY <1>4, PayloadIs
  <1>9. payload \in Seq(Plain) /\ l <= Len(payload) /\ \A i \in 1..l : t[i] = payload[i]
    BY PayloadIs DEF Shows
  <1>10. TakenBy(d) = s \o u
    <2>1. TakenBy(d) = s \o SubSeq(t, DataAt(d) + 1, g)
      BY DEF TakenBy
    <2>2. DataAt(d) + 1 = O + 4
      <3> HIDE DEF O
      <3>1. DataAt(d) = O + 3
        BY DEF O
      <3> QED BY <1>4, <3>1
    <2> HIDE DEF O, g, s, t
    <2> QED BY <2>1, <2>2 DEF t
  <1> HIDE DEF O, l, L, t, g, s, q, w, z
  <1>11. /\ u \in Seq(Plain) /\ Len(u) = g - (O + 3)
         /\ \A j \in 1..g - (O + 3) : u[j] = t[O + 3 + j]
    <2>1. O + 4 \in Int /\ g \in Int
      BY <1>4, <1>7
    <2>2. \A i \in O + 4..g : t[i] \in Plain
      <3> TAKE i \in O + 4..g
      <3>1. i \in 1..l /\ i \in 1..Len(payload)
        <4>1. Len(payload) \in Nat
          BY <1>9
        <4>2. l <= Len(payload)
          BY <1>9
        <4> QED BY <1>4, <1>7, <4>1, <4>2
      <3>2. payload[i] \in Plain
        BY <1>9, <3>1
      <3> QED BY <1>9, <3>1, <3>2
    <2>3. /\ u \in Seq(Plain)
          /\ Len(u) = IF O + 4 <= g THEN g - (O + 4) + 1 ELSE 0
          /\ \A i \in 1..g - (O + 4) + 1 : u[i] = t[(O + 4) + i - 1]
      BY <2>1, <2>2, SubSeqProperties
    <2> HIDE DEF u
    <2>4. g - (O + 4) + 1 = g - (O + 3)
      BY <1>4, <1>7
    <2>5. Len(u) = g - (O + 3)
      BY <1>4, <1>7, <2>3, <2>4
    <2>6. \A j \in 1..g - (O + 3) : u[j] = t[O + 3 + j]
      <3> TAKE j \in 1..g - (O + 3)
      <3>1. (O + 4) + j - 1 = O + 3 + j
        BY <1>4, <1>7
      <3> QED BY <2>3, <2>4, <3>1
    <2> QED BY <2>3, <2>5, <2>6
  <1> HIDE DEF u
  <1>12. Len(u) <= Len(q) /\ (Len(u) = Len(q) <=> g = (O + 3) + L)
    <2>1. Len(q) = L
      BY DEF L, q
    <2>2. O \in Nat /\ L \in Nat /\ g \in Int /\ g <= (O + 3) + L /\ Len(u) = g - (O + 3)
      BY <1>2, <1>4, <1>7, <1>11
    <2> QED BY <2>1, <2>2
  <1>13. \A j \in 1..Len(u) : u[j] = q[j]
    <2> TAKE j \in 1..Len(u)
    <2>5. j \in 1..g - (O + 3)
      BY <1>11
    <2>6. /\ O \in Nat /\ L \in Nat /\ l \in Nat /\ g \in Int
          /\ g <= l /\ g <= (O + 3) + L
      BY <1>2, <1>4, <1>7
    <2>1. /\ j \in 1..L /\ 3 + j \in 1..L + 5 /\ O + 3 + j \in 1..l
          /\ O + 3 + j = O + (3 + j) /\ j \in 1..g - (O + 3)
      BY <2>5, <2>6
    <2>2. u[j] = t[O + 3 + j]
      BY <1>11, <2>1
    <2>3. t[O + 3 + j] = payload[O + 3 + j]
      BY <1>9, <2>1
    <2>4. payload[O + (3 + j)] = z[3 + j] /\ z[3 + j] = q[j]
      BY <1>2, <1>8, <2>1
    <2> QED BY <2>1, <2>2, <2>3, <2>4
  <1>14. /\ Len(s \o u) <= Len(s \o q)
         /\ \A i \in 1..Len(s \o u) : (s \o u)[i] = (s \o q)[i]
         /\ Len(u) = Len(q) => u = q
    <2>1. s \in Seq(Plain) /\ u \in Seq(Plain) /\ q \in Seq(Plain)
      BY <1>2, <1>4, <1>11
    <2>2. Len(u) <= Len(q)
      BY <1>12
    <2> QED BY <1>13, <2>1, <2>2, PartJoined, Zenon
  <1>15. s \o u \in Seq(Plain)
    BY <1>4, <1>11, PlainJoinedIs DEF PlainJoined
  <1> DEFINE a == s \o u
             b == Begun(p, k)
  <1>16. /\ a \in Seq(Plain) /\ b \in Seq(Plain) /\ Len(a) <= Len(b)
         /\ \A i \in 1..Len(a) : a[i] = b[i]
    BY <1>5, <1>14, <1>15, Zenon
  <1>17. (O + 3) + L <= l => a = b
    BY <1>5, <1>7, <1>12, <1>14
  <1>18. TakenBy(d) = a
    BY <1>10
  <1> HIDE DEF a, b
  <1>19. Len(b) <= Len(w) /\ \A j \in 1..Len(b) : b[j] = w[j]
    BY <1>6 DEF b
  <1>20. Len(a) \in Nat /\ Len(b) \in Nat /\ Len(w) \in Nat
    BY <1>6, <1>16
  <1>21. Len(a) <= Len(w) /\ \A i \in 1..Len(a) : a[i] = w[i]
    <2>1. Len(a) <= Len(b) /\ Len(a) <= Len(w)
      BY <1>16, <1>19, <1>20
    <2>2. \A i \in 1..Len(a) : i \in 1..Len(b)
      BY <1>20, <2>1
    <2> QED BY <1>16, <1>19, <2>1, <2>2
  <1>22. IsPrefix(a, w)
    BY <1>6, <1>16, <1>21, PrefixIs
  <1> QED BY <1>16, <1>17, <1>18, <1>21, <1>22 DEF O, l, L, w, b, q

LEMMA NextChunkTurn ==
  ASSUME NEW p \in Pieces, NEW payload, Chunked(p) = payload,
         NEW k \in 1..Len(p),
         NEW d, Sound(d), Shows(d, payload), Placed(d, p, k - 1)
  PROVE  /\ ~LastTurn(d) => Placed(Turned(d), p, k) /\ Turned(d).head > d.head
         /\ Turned(d).thrown = "none" => IsPrefix(Turned(d).decoded, FlattenSeq(p))
         /\ Turned(d).thrown = "413" => Len(FlattenSeq(p)) > MaxBody
         /\ Len(d.buf) = Len(payload) => ~LastTurn(d) \/ Turned(d).thrown = "413"
  <1> DEFINE e == Turned(d)
             l == Len(d.buf)
             O == d.head
             t == d.buf
             m == Len(payload)
             L == Len(p[k])
             z == ChunkOf(p[k])
             w == FlattenSeq(p)
  <1>1. /\ l \in Nat /\ O \in Nat /\ t \in Seq(Symbols) /\ MaxBody \in Nat
        /\ d.thrown = "none"
    <2>1. d.buf \in Seq(Bytes) /\ O \in 0..l /\ d.thrown = "none"
      BY DEF Sound, Decoders
    <2>2. d.buf \in Seq(Symbols)
      BY <2>1, SymbolsAre
    <2>3. l \in Nat
      BY <2>1
    <2> QED BY <2>1, <2>2, <2>3, ChunkedBodyAssumption
  <1>2. k - 1 \in 0..Len(p) /\ k \in 0..Len(p)
    BY PiecesAre
  <1>3. PICK x \in Digits \ {"0"} : L = DigitValue(x)
    BY PiecesAre
  <1>4. /\ L \in Nat /\ L >= 1
        /\ z[1] = x /\ z[2] = "cr" /\ z[3] = "lf" /\ z[L + 4] = "cr" /\ z[L + 5] = "lf"
    <2>1. p[k] \in Seq(Bytes \ {"nul"}) /\ Len(p[k]) = DigitValue(x)
      BY <1>3, PiecesAre
    <2>2. DigitValue(x) >= 1
      BY <1>3 DEF Digits, DigitValue
    <2> QED BY <1>3, <2>1, <2>2, ChunkIs
  <1>5. /\ O = Offset(p, k - 1) /\ d.decoded = Begun(p, k - 1)
        /\ Offset(p, k) = O + L + 5
        /\ O + L + 5 <= Offset(p, Len(p))
    BY <1>2, OffsetIs DEF Placed
  <1>6. m = Offset(p, Len(p)) + 5 /\ Offset(p, Len(p)) \in Nat
    <2>1. Len(p) \in 0..Len(p)
      BY PiecesAre
    <2> QED BY <2>1, PayloadIs, OffsetIs
  <1>7. \A j \in 1..L + 5 : payload[O + j] = z[j]
    BY <1>5, PayloadIs
  <1>8. l <= m /\ \A i \in 1..l : t[i] = payload[i]
    BY DEF Shows
  <1>9. l = Len(t)
    OBVIOUS
  <1>10. \A j \in 1..L + 5 : O + j <= l => t[O + j] = z[j]
    <2> HIDE DEF l, O, t, m, L, z
    <2> TAKE j \in 1..L + 5
    <2> HAVE O + j <= l
    <2>1. O + j \in 1..l
      BY <1>1, <1>4
    <2> QED BY <1>7, <1>8, <2>1
  <1>11. SizeAhead(d, x)
    <2>1. /\ l >= O + 1 => t[O + 1] = x
          /\ l >= O + 2 => t[O + 2] = "cr"
          /\ l >= O + 3 => t[O + 3] = "lf"
      <3> HIDE DEF l, O, t, m, L, z
      <3>1. 1 \in 1..L + 5 /\ 2 \in 1..L + 5 /\ 3 \in 1..L + 5
        BY <1>4
      <3> QED BY <1>1, <1>4, <1>10, <3>1
    <2> QED BY <2>1 DEF SizeAhead
  <1>12. /\ NLs(d.buf, d.head) # {} <=> l >= O + 3
         /\ l >= O + 3 => SizeAt(d) = L /\ DataAt(d) = O + 3
    BY <1>3, <1>11, SizeRead
  <1>13. CASE NLs(d.buf, d.head) = {}
    <2>1. e = d
      BY <1>13, SoundTurn
    <2>2. LastTurn(d)
      BY <1>13 DEF LastTurn
    <2>3. l # m
      <3>1. ~(l >= O + 3)
        BY <1>12, <1>13
      <3> HIDE DEF l, O, m, L
      <3> QED BY <1>1, <1>4, <1>5, <1>6, <3>1
    <2>4. IsPrefix(d.decoded, w)
      <3>1. /\ d.decoded \in Seq(Plain) /\ w \in Seq(Plain)
            /\ Len(d.decoded) <= Len(w) /\ \A j \in 1..Len(d.decoded) : d.decoded[j] = w[j]
        BY <1>2, <1>5, BegunIs
      <3> HIDE DEF w
      <3> QED BY <3>1, PrefixIs
    <2> QED BY <1>1, <2>1, <2>2, <2>3, <2>4
  <1>14. CASE NLs(d.buf, d.head) # {}
    <2>1. l >= O + 3 /\ SizeAt(d) = L /\ DataAt(d) = O + 3
      BY <1>12, <1>14
    <2>2. SizeAt(d) # -1 /\ ~EndsHere(d)
      <3>1. L \in Nat /\ L >= 1 /\ SizeAt(d) = L
        BY <1>4, <2>1
      <3> HIDE DEF L
      <3>2. SizeAt(d) # -1 /\ SizeAt(d) # 0
        BY <3>1
      <3> QED BY <3>2 DEF EndsHere
    <2>3. DataAt(d) + SizeAt(d) = O + 3 + L
      BY <2>1
    <2>4. /\ TakenBy(d) \in Seq(Plain)
          /\ Len(TakenBy(d)) <= Len(w)
          /\ IsPrefix(TakenBy(d), w)
          /\ O + 3 + L <= l => TakenBy(d) = Begun(p, k)
      BY <1>14, <2>1, TakenIs
    <2>5. w \in Seq(Plain) /\ Len(w) \in Nat /\ Len(TakenBy(d)) \in Nat
      <3>1. w \in Seq(Plain) /\ TakenBy(d) \in Seq(Plain)
        BY <2>4, BegunIs
      <3> HIDE DEF w
      <3> QED BY <3>1
    <2>6. e.decoded = TakenBy(d)
      BY <1>14, <2>2, TurnIs
    <2>7. CASE Len(TakenBy(d)) > MaxBody
      <3>1. e.thrown = "413"
        BY <1>14, <2>2, <2>7, TurnIs
      <3>2. LastTurn(d)
        BY <3>1 DEF LastTurn, Stopped
      <3>3. Len(w) > MaxBody
        <4> HIDE DEF w
        <4> QED BY <1>1, <2>4, <2>5, <2>7
      <3> QED BY <3>1, <3>2, <3>3
    <2>8. CASE ~(Len(TakenBy(d)) > MaxBody)
      <3>1. /\ e.thrown \in {"none", "out_of_range"}
            /\ e.stat \in {"waitSize", "chunkError"}
            /\ e.thrown = "out_of_range" => DataAt(d) + SizeAt(d) > Len(d.buf)
            /\ e.thrown = "none" /\ e.stat = "waitSize" =>
                 e.head = DataAt(d) + SizeAt(d) + 2 /\ e.head <= Len(d.buf)
            /\ /\ DataAt(d) + SizeAt(d) \in 0..Len(d.buf)
               /\ NLAt(d.buf, DataAt(d) + SizeAt(d))
               => e.thrown = "none" /\ e.stat = "waitSize"
        BY <1>14, <2>2, <2>8, TurnIs
      <3>2. LastTurn(d) <=> ~(e.thrown = "none" /\ e.stat = "waitSize")
        BY <1>14, <3>1 DEF LastTurn, Stopped
      <3>3. ASSUME ~LastTurn(d)
            PROVE  Placed(e, p, k) /\ e.head > O
        <4>1. e.head = O + 3 + L + 2 /\ e.head <= l
          BY <2>3, <3>1, <3>2, <3>3
        <4>2. O + 3 + L <= l /\ e.head = O + L + 5 /\ e.head > O
          <5> HIDE DEF O, l, L, e
          <5> QED BY <1>1, <1>4, <4>1
        <4>3. e.decoded = Begun(p, k)
          BY <2>4, <2>6, <4>2
        <4>4. e.head = Offset(p, k)
          BY <1>5, <4>2
        <4> QED BY <4>2, <4>3, <4>4 DEF Placed
      <3>4. l = m => ~LastTurn(d)
        <4> SUFFICES ASSUME l = m
                     PROVE  ~LastTurn(d)
          OBVIOUS
        <4>1. O + L + 5 <= l /\ O + 3 + L \in 0..l /\ O + 3 + L \in Nat
              /\ (O + 3 + L) + 1 = O + (L + 4) /\ (O + 3 + L) + 2 = O + (L + 5)
          <5> DEFINE N == Offset(p, Len(p))
          <5>1. /\ O \in Nat /\ L \in Nat /\ N \in Nat
                /\ O + L + 5 <= N /\ l = N + 5
            BY <1>1, <1>4, <1>5, <1>6
          <5> HIDE DEF O, l, L, N
          <5> QED BY <5>1
        <4>2. t[O + (L + 4)] = "cr" /\ t[O + (L + 5)] = "lf"
          <5> HIDE DEF O, l, L, m, t, z
          <5>2. O \in Nat /\ l \in Nat /\ L \in Nat /\ O + L + 5 <= l
            BY <1>1, <1>4, <4>1
          <5>1. L + 4 \in 1..L + 5 /\ L + 5 \in 1..L + 5 /\ O + (L + 4) <= l /\ O + (L + 5) <= l
            BY <5>2
          <5> QED BY <1>4, <1>10, <5>1
        <4>3. NLAt(t, O + 3 + L)
          <5>1. NLAt(t, O + 3 + L) <=> /\ (O + 3 + L) + 2 <= Len(t)
                                       /\ t[(O + 3 + L) + 1] = "cr" /\ t[(O + 3 + L) + 2] = "lf"
            BY <1>1, <4>1, NLAtIs
          <5>2. (O + 3 + L) + 2 <= Len(t)
            <6> HIDE DEF O, l, L, t
            <6> QED BY <1>1, <1>4, <1>9, <4>1
          <5> QED BY <4>1, <4>2, <5>1, <5>2
        <4> QED BY <2>3, <3>1, <3>2, <4>1, <4>3
      <3>5. e.thrown # "413"
        BY <3>1
      <3> QED BY <2>4, <2>6, <3>3, <3>4, <3>5
    <2> QED BY <2>7, <2>8
  <1> QED BY <1>13, <1>14

-----------------------------------------------------------------------------
(* The inductive invariant.                                                  *)

\* The state of the reader belongs to the part of the call.
Stage ==
  /\ call = "line" => BeforeLine(reader)
  /\ call = "headers" => reader.s = "waitHeader"
  /\ call \in {"body", "decode"} => reader.s = "waitBody"
  /\ call = "decode" => reader.isChunked
  /\ call # "none" => result = "again"
  /\ result = "again" => reader.s # "readComplete" /\ reader.body = <<>>
  /\ result = "complete" => reader.s \in {"waitBody", "readComplete"}

\* What is read and what is in the buffer are the text that arrived.
Reading ==
  result = "again" =>
    /\ LinesFit(reader, request)
    /\ call # "decode" => BufFits(reader, request, sent)

\* A call ends to wait only before the end of the head, or of the length.
Waiting ==
  Waits => \/ sent < HeadLen(request)
           \/ /\ reader.s = "waitBody" /\ Posts /\ ~reader.isChunked
              /\ Len(reader.buf) < reader.length

\* The head that was accepted is valid and understood.
Accepted ==
  reader.s \in {"waitBody", "readComplete"} =>
    /\ Valid
    /\ reader.method = request.method /\ reader.headers = request.headers
    /\ reader.length = IF SendsLength THEN DeclaredLength ELSE 0
    /\ reader.isChunked <=> SendsChunks

ThePieces == CHOOSE p \in Coded : TRUE

\* The decoder has the payload that arrived, and some of the chunks.
Decoding ==
  /\ call # "decode" /\ result = "again" => reader.decoder = NewDecoder
  /\ call = "decode" =>
       /\ Sound(reader.decoder)
       /\ Coded # {} =>
            /\ Shows(reader.decoder, request.payload)
            /\ Len(reader.decoder.buf) = sent - HeadLen(request)
            /\ \E k \in 0..Len(ThePieces) : Placed(reader.decoder, ThePieces, k)

BodyIsRight ==
  result = "complete" =>
    /\ Len(reader.body) <= MaxBody
    /\ ~Posts => reader.body = <<>>
    /\ SendsLength /\ ~HasNul(Arrived) =>
         reader.body = SubSeq(request.payload, 1, DeclaredLength)

Done == BodyIsRight /\ RejectIsRight /\ WholeChunkedDecoded /\ ChunkedIsPrefix

IInv == TypeOK /\ Stage /\ Reading /\ Waiting /\ Accepted /\ Decoding /\ Done

LEMMA RequestKept ==
  ASSUME request' = request
  PROVE  /\ Valid' <=> Valid
         /\ Posts' <=> Posts
         /\ SendsChunks' <=> SendsChunks
         /\ SendsLength' <=> SendsLength
         /\ DeclaredLength' = DeclaredLength
         /\ Coded' = Coded /\ ThePieces' = ThePieces /\ Data' = Data
  BY DEF Valid, Posts, SendsChunks, SendsLength, DeclaredLength, HeadersIn, Coded, ThePieces, Data

LEMMA NotDone ==
  ASSUME result' \in {"again", "disconnected", "500"}
  PROVE  Done'
  BY DEF Done, BodyIsRight, RejectIsRight, WholeChunkedDecoded, ChunkedIsPrefix

\* A valid request does not frame its body in both ways.
LEMMA OneFraming ==
  ASSUME request \in RequestSet, Valid, SendsChunks
  PROVE  Posts /\ ~SendsLength
  <1> DEFINE a == Cardinality(HeadersIn({"chunked"}))
             b == Cardinality(HeadersIn(LengthHeaders))
  <1>1. /\ a \in Nat /\ b \in Nat
        /\ a = 0 <=> HeadersIn({"chunked"}) = {}
        /\ b = 0 <=> HeadersIn(LengthHeaders) = {}
    BY HeadersAre
  <1>2. Posts /\ HeadersIn({"chunked"}) # {}
    BY DEF SendsChunks
  <1>3. a + b = 1
    BY <1>2, FramingIs DEF Valid
  <1> HIDE DEF a, b
  <1>4. b = 0
    BY <1>1, <1>2, <1>3
  <1> QED BY <1>1, <1>2, <1>4 DEF SendsLength

LEMMA NewReaderIs ==
  /\ NewDecoder \in Decoders /\ Sound(NewDecoder)
  /\ NewReader \in Readers
  <1>1. <<>> \in Seq(Bytes) /\ <<>> \in Seq(Symbols) /\ <<>> \in Seq(Headers) /\ Len(<<>>) = 0
    OBVIOUS
  <1>2. NewDecoder \in Decoders
    BY <1>1 DEF NewDecoder, Decoders, Stats
  <1>3. Sound(NewDecoder)
    BY <1>1, <1>2, ChunkedBodyAssumption DEF NewDecoder, Sound
  <1>4. NewReader \in Readers
    BY <1>1, <1>2 DEF NewReader, Readers, States, Methods
  <1> QED BY <1>2, <1>3, <1>4

LEMMA InitIInv == Init => IInv
  <1> SUFFICES ASSUME Init
               PROVE  IInv
    OBVIOUS
  <1>1. /\ request \in RequestSet /\ sent = 0 /\ reader = NewReader
        /\ call = "none" /\ result = "again"
    BY RequestReaderAssumption DEF Init
  <1>2. /\ reader.s = "unread" /\ reader.buf = <<>> /\ reader.headers = <<>>
        /\ reader.body = <<>> /\ reader.decoder = NewDecoder /\ Len(<<>>) = 0
    BY <1>1 DEF NewReader
  <1>3. Len(Wire(request)) \in Nat /\ HeadLen(request) \in Nat /\ HeadLen(request) > 0
        /\ Len(request.headers) \in Nat
    BY <1>1, WireIs DEF HeadLen
  <1>4. TypeOK
    BY <1>1, <1>3, NewReaderIs DEF TypeOK, Calls, Results
  <1>5. LinesFit(reader, request) /\ Pos(reader) = 0
    BY <1>2, <1>3 DEF LinesFit, BeforeLine, Pos
  <1>6. BufFits(reader, request, sent)
    BY <1>1, <1>2, <1>3, <1>5 DEF BufFits
  <1>7. Stage
    BY <1>1, <1>2 DEF Stage
  <1>8. Reading /\ Waiting /\ Accepted /\ Decoding
    BY <1>1, <1>2, <1>3, <1>5, <1>6 DEF Reading, Waiting, Accepted, Decoding
  <1>9. Done
    BY <1>1 DEF Done, BodyIsRight, RejectIsRight, WholeChunkedDecoded, ChunkedIsPrefix
  <1> QED BY <1>4, <1>7, <1>8, <1>9 DEF IInv

-----------------------------------------------------------------------------
(* One lemma for every action.                                              *)

\* The place of a reader depends on its lines only.
LEMMA PlaceKept ==
  ASSUME NEW q, NEW n, NEW r, NEW r2,
         r2.headers = r.headers, r2.method = r.method, r2.buf = r.buf,
         BeforeLine(r2) <=> BeforeLine(r), r2.s = "waitBody" <=> r.s = "waitBody"
  PROVE  /\ Pos(r2) = Pos(r)
         /\ LinesFit(r, q) => LinesFit(r2, q)
         /\ BufFits(r, q, n) => BufFits(r2, q, n)
  <1>1. Pos(r2) = Pos(r)
    BY DEF Pos
  <1>2. LinesFit(r, q) => LinesFit(r2, q)
    BY DEF LinesFit
  <1> QED BY <1>1, <1>2 DEF BufFits

\* A refused request: what is left to show.
LEMMA RefusedIsDone ==
  ASSUME request' = request, ~Valid,
         \/ result' = "400"
         \/ result' = "413" /\ SendsLength /\ DeclaredLength > MaxBody
  PROVE  Done'
  <1>1. result' # "complete" /\ ~Valid'
    BY RequestKept
  <1>2. BodyIsRight' /\ WholeChunkedDecoded' /\ ChunkedIsPrefix'
    BY <1>1 DEF BodyIsRight, WholeChunkedDecoded, ChunkedIsPrefix
  <1>3. RejectIsRight'
    BY <1>1, RequestKept DEF RejectIsRight
  <1> QED BY <1>2, <1>3 DEF Done

LEMMA StopIInv ==
  ASSUME IInv, ReceiveNothing \/ ReceiveError
  PROVE  IInv'
  <1>1. /\ request' = request /\ sent' = sent /\ reader' = reader
        /\ call' = "none" /\ result' \in {"disconnected", "500"}
    BY DEF ReceiveNothing, ReceiveError, Return
  <1>2. TypeOK'
    BY <1>1 DEF IInv, TypeOK, Calls, Results
  <1>3. Stage' /\ Reading' /\ Waiting' /\ Decoding'
    BY <1>1 DEF IInv, Stage, Reading, Waiting, Decoding, Waits
  <1>4. Accepted'
    BY <1>1, RequestKept DEF IInv, Accepted
  <1>5. Done'
    BY <1>1, NotDone
  <1> QED BY <1>2, <1>3, <1>4, <1>5 DEF IInv

LEMMA ReceiveIInv ==
  ASSUME IInv, Receive
  PROVE  IInv'
  <1> DEFINE q == request
             l == Len(Wire(q))
             T == {BufferSize, l - sent}
  <1>1. /\ request' = request /\ result' = result /\ result = "again" /\ call = "none"
        /\ call' = PartFor(reader.s)
    BY DEF Receive, Waits
  <1>2. /\ q \in RequestSet /\ reader \in Readers /\ sent \in Nat /\ l \in Nat /\ sent <= l
        /\ BufferSize \in Nat
    <2>1. q \in RequestSet /\ reader \in Readers /\ sent \in 0..Len(Wire(q))
      BY DEF IInv, TypeOK
    <2> QED BY <2>1, WireIs, RequestReaderAssumption
  <1>3. PICK n \in 1..Min(T) :
          /\ sent' = sent + n
          /\ reader' = [reader EXCEPT
                          !.buf = @ \o AsCString(SubSeq(Wire(request), sent + 1, sent + n))]
    BY DEF Receive
  <1> DEFINE c == AsCString(SubSeq(Wire(q), sent + 1, sent + n))
  <1>4. n \in Nat /\ sent + n <= l
    <2>1. T \subseteq Nat /\ T # {}
      BY <1>2
    <2>2. Min(T) \in Nat /\ Min(T) <= l - sent
      <3> HIDE DEF T
      <3>1. Min(T) \in T /\ \A m \in T : Min(T) <= m
        BY <2>1, MinIs
      <3>2. l - sent \in T
        BY DEF T
      <3> QED BY <2>1, <3>1, <3>2
    <2> HIDE DEF T, l
    <2> QED BY <1>2, <1>3, <2>2
  <1>5. c \in Seq(Symbols)
    <2> DEFINE t == SubSeq(Wire(q), sent + 1, sent + n)
    <2>1. t \in Seq(Symbols)
      BY <1>2, <1>4, WireIs
    <2> HIDE DEF t
    <2> QED BY <2>1, CStringIs DEF t
  <1>6. /\ reader' \in Readers /\ reader'.buf = reader.buf \o c
        /\ reader'.s = reader.s /\ reader'.method = reader.method
        /\ reader'.headers = reader.headers /\ reader'.body = reader.body
        /\ reader'.length = reader.length /\ reader'.isChunked = reader.isChunked
        /\ reader'.decoder = reader.decoder
    <2>1. reader' = [reader EXCEPT !.buf = reader.buf \o c]
      BY <1>3
    <2>2. reader.buf \in Seq(Symbols)
      BY <1>2 DEF Readers
    <2>3. reader.buf \o c \in Seq(Symbols)
      BY <1>5, <2>2, TextsJoined
    <2> HIDE DEF c
    <2> QED BY <1>2, <2>1, <2>3 DEF Readers
  <1>7. sent' \in 0..l
    <2> HIDE DEF l
    <2> QED BY <1>2, <1>3, <1>4
  <1>8. /\ call' \in {"line", "headers", "body"}
        /\ call' = "line" => BeforeLine(reader)
        /\ call' = "headers" => reader.s = "waitHeader"
        /\ call' = "body" => reader.s = "waitBody"
    <2>1. reader.s \in {"unread", "waitRequest", "waitHeader", "waitBody"}
      BY <1>1, <1>2 DEF IInv, Stage, Readers, States
    <2> QED BY <1>1, <2>1 DEF PartFor, BeforeLine
  <1>9. TypeOK'
    BY <1>1, <1>2, <1>6, <1>7, <1>8 DEF TypeOK, Calls, Results
  <1>10. Stage'
    BY <1>1, <1>6, <1>8 DEF IInv, Stage, BeforeLine
  <1>11. LinesFit(reader, q) /\ BufFits(reader, q, sent)
    BY <1>1 DEF IInv, Reading
  <1>12. LinesFit(reader', q) /\ Pos(reader') = Pos(reader)
    BY <1>6, <1>11 DEF LinesFit, Pos, BeforeLine
  <1>13. BufFits(reader', q, sent')
    <2>1. MoreRead(reader, reader', q, sent, n)
      BY <1>6, <1>12 DEF MoreRead
    <2>2. BufFits(reader', q, sent + n)
      BY <1>2, <1>4, <1>6, <1>11, <2>1, MoreFits
    <2> QED BY <1>3, <2>2
  <1>14. Reading'
    BY <1>1, <1>12, <1>13 DEF Reading
  <1>15. Waiting'
    BY <1>8 DEF Waiting, Waits
  <1>16. Accepted'
    BY <1>1, <1>6, RequestKept DEF IInv, Accepted
  <1>17. Decoding'
    BY <1>1, <1>6, <1>8 DEF IInv, Decoding
  <1>18. Done'
    BY <1>1, NotDone
  <1> QED BY <1>9, <1>10, <1>14, <1>15, <1>16, <1>17, <1>18 DEF IInv

LEMMA RequestLineIInv ==
  ASSUME IInv, RequestLine
  PROVE  IInv'
  <1> DEFINE q == request
             next == [AfterLine(reader) EXCEPT !.s = "waitHeader",
                                               !.method = FirstLine(reader)[1]]
  <1>1. /\ call = "line" /\ BeforeLine(reader) /\ result = "again" /\ reader.body = <<>>
        /\ LinesFit(reader, q) /\ BufFits(reader, q, sent) /\ reader.decoder = NewDecoder
    BY DEF RequestLine, IInv, Stage, Reading, Decoding
  <1>2. /\ q \in RequestSet /\ reader \in Readers /\ sent \in 0..Len(Wire(q))
        /\ sent \in Nat /\ Len(Wire(q)) \in Nat
    <2>1. q \in RequestSet /\ reader \in Readers /\ sent \in 0..Len(Wire(q))
      BY DEF IInv, TypeOK
    <2> QED BY <2>1, WireIs
  <1>3. /\ Pos(reader) = 0 /\ reader.headers = <<>> /\ Len(reader.buf) \in Nat
        /\ HeadLen(q) \in Nat /\ HeadLen(q) >= 5 /\ Len(q.headers) \in Nat
    <2>1. Len(q.headers) \in Nat
      BY <1>2, WireIs
    <2>2. HeadLen(q) \in Nat /\ HeadLen(q) >= 5
      BY <2>1 DEF HeadLen
    <2>3. reader.headers = <<>>
      BY <1>1 DEF LinesFit
    <2> QED BY <1>1, <1>2, <2>1, <2>2, <2>3, PosIs
  <1>4. /\ HasLine(reader) <=> Len(reader.buf) >= 3
        /\ HasLine(reader) =>
             /\ FirstLine(reader) = <<q.method>>
             /\ AfterLine(reader) = [reader EXCEPT !.buf = SubSeq(reader.buf, 4, Len(reader.buf))]
    <2>1. 0 \in 0..Len(q.headers) /\ Pos(reader) = 3 * 0 /\ 3 * 0 + 1 = 1
      BY <1>3
    <2>2. Wire(q)[1] = q.method
      BY <1>2, WireIs
    <2> QED BY <1>1, <1>2, <2>1, <2>2, LineIs
  <1>5. q.method \in Methods
    BY <1>2, WireIs
  <1>6. ASSUME ~HasLine(reader), Return([reader EXCEPT !.s = "waitRequest"], "again")
        PROVE  IInv'
    <2>1. /\ request' = request /\ sent' = sent /\ call' = "none" /\ result' = "again"
          /\ reader' = [reader EXCEPT !.s = "waitRequest"]
      BY <1>6 DEF Return
    <2>2. /\ reader' \in Readers /\ reader'.s = "waitRequest" /\ reader'.buf = reader.buf
          /\ reader'.method = reader.method /\ reader'.headers = reader.headers
          /\ reader'.body = <<>> /\ reader'.decoder = NewDecoder
      BY <1>1, <1>2, <2>1 DEF Readers, States
    <2>3. LinesFit(reader', q) /\ BufFits(reader', q, sent)
      BY <1>1, <2>2, PlaceKept DEF BeforeLine
    <2>4. sent < HeadLen(q)
      <3>1. /\ Len(reader.buf) < 3
            /\ sent <= HeadLen(q) => Pos(reader) + Len(reader.buf) = sent
            /\ sent > HeadLen(q) => Pos(reader) + Len(reader.buf) >= HeadLen(q)
        BY <1>1, <1>3, <1>4, <1>6 DEF BufFits
      <3> QED BY <1>2, <1>3, <3>1
    <2>5. TypeOK'
      BY <1>2, <2>1, <2>2 DEF TypeOK, Calls, Results
    <2>6. Stage' /\ Accepted'
      BY <2>1, <2>2 DEF Stage, Accepted
    <2>7. Reading' /\ Decoding'
      BY <2>1, <2>2, <2>3 DEF Reading, Decoding
    <2>8. Waiting'
      BY <2>1, <2>4 DEF Waiting
    <2>9. Done'
      BY <2>1, NotDone
    <2> QED BY <2>5, <2>6, <2>7, <2>8, <2>9 DEF IInv
  <1>7. ASSUME HasLine(reader), FirstLine(reader) \in {<<"GET">>, <<"POST">>},
               GoOn(next, "headers")
        PROVE  IInv'
    <2> DEFINE rest == SubSeq(reader.buf, 4, Len(reader.buf))
               after == AfterLine(reader)
    <2>1. q.method # "bad" /\ FirstLine(reader)[1] = q.method
      <3>1. <<q.method>>[1] = q.method /\ <<"GET">>[1] = "GET" /\ <<"POST">>[1] = "POST"
        OBVIOUS
      <3>2. q.method = "GET" \/ q.method = "POST"
        BY <1>4, <1>7, <3>1
      <3> QED BY <1>4, <1>7, <3>1, <3>2
    <2>2. /\ request' = request /\ sent' = sent /\ call' = "headers" /\ result' = "again"
          /\ reader' = next
      BY <1>1, <1>7 DEF GoOn
    <2>3. reader.buf \in Seq(Symbols) /\ rest \in Seq(Symbols) /\ Len(reader.buf) >= 3
      <3>1. reader.buf \in Seq(Symbols)
        BY <1>2 DEF Readers
      <3> QED BY <1>3, <1>4, <1>7, <3>1
    <2>4. after = [reader EXCEPT !.buf = rest]
      BY <1>4, <1>7
    <2>5. /\ reader' \in Readers /\ reader'.s = "waitHeader" /\ reader'.buf = rest
          /\ reader'.method = q.method /\ reader'.headers = <<>>
          /\ reader'.body = <<>> /\ reader'.decoder = NewDecoder
      <3> HIDE DEF rest, after
      <3>1. after \in Readers /\ after.buf = rest /\ after.headers = <<>> /\ after.body = <<>>
            /\ after.decoder = NewDecoder
        BY <1>1, <1>2, <1>3, <2>3, <2>4 DEF Readers
      <3>2. reader' = [after EXCEPT !.s = "waitHeader", !.method = q.method]
        BY <2>1, <2>2 DEF after
      <3> QED BY <1>5, <3>1, <3>2 DEF Readers, States
    <2>6. LinesFit(reader', q) /\ Pos(reader') = 3
      <3>1. Len(<<>>) = 0
        OBVIOUS
      <3> QED BY <1>3, <2>1, <2>5, <3>1 DEF LinesFit, Pos, BeforeLine
    <2>7. BufFits(reader', q, sent)
      <3>1. rest = SubSeq(reader.buf, 3 + 1, Len(reader.buf)) /\ Pos(reader') = Pos(reader) + 3
        BY <1>3, <2>6
      <3> HIDE DEF rest
      <3> QED BY <1>1, <1>2, <2>3, <2>5, <2>6, <3>1, RestFits
    <2>8. TypeOK'
      BY <1>2, <2>2, <2>5 DEF TypeOK, Calls, Results
    <2>9. Stage' /\ Accepted'
      BY <2>2, <2>5 DEF Stage, Accepted
    <2>10. Reading' /\ Decoding'
      BY <2>2, <2>5, <2>6, <2>7 DEF Reading, Decoding
    <2>11. Waiting'
      BY <2>2 DEF Waiting, Waits
    <2>12. Done'
      BY <2>2, NotDone
    <2> QED BY <2>8, <2>9, <2>10, <2>11, <2>12 DEF IInv
  <1>8. ASSUME HasLine(reader), FirstLine(reader) \notin {<<"GET">>, <<"POST">>},
               Return(AfterLine(reader), "400")
        PROVE  IInv'
    <2>1. ~Valid
      BY <1>4, <1>5, <1>8 DEF Methods, Valid
    <2>2. /\ request' = request /\ sent' = sent /\ call' = "none" /\ result' = "400"
          /\ reader' = AfterLine(reader)
      BY <1>8 DEF Return
    <2>3. reader' \in Readers /\ reader'.s = reader.s
      <3> DEFINE rest == SubSeq(reader.buf, 4, Len(reader.buf))
      <3>1. rest \in Seq(Symbols)
        <4>1. reader.buf \in Seq(Symbols) /\ Len(reader.buf) >= 3
          BY <1>2, <1>4, <1>8 DEF Readers
        <4> QED BY <4>1
      <3>2. reader' = [reader EXCEPT !.buf = rest]
        BY <1>4, <1>8, <2>2
      <3> HIDE DEF rest
      <3> QED BY <1>2, <3>1, <3>2 DEF Readers
    <2>4. TypeOK'
      BY <1>2, <2>2, <2>3 DEF TypeOK, Calls, Results
    <2>5. Stage' /\ Reading' /\ Waiting' /\ Accepted' /\ Decoding'
      BY <1>1, <2>2, <2>3 DEF BeforeLine, Stage, Reading, Waiting, Waits, Accepted, Decoding
    <2>6. Done'
      BY <2>1, <2>2, RefusedIsDone DEF IInv
    <2> QED BY <2>4, <2>5, <2>6 DEF IInv
  <1> QED BY <1>6, <1>7, <1>8 DEF RequestLine

\* The symbols of a line and its end are read.
LEMMA AfterLineIs ==
  ASSUME NEW r \in Readers, NEW d \in Nat, d <= Len(r.buf),
         NEW e, e = [r EXCEPT !.buf = SubSeq(r.buf, d + 1, Len(r.buf))]
  PROVE  /\ e \in Readers /\ e.buf = SubSeq(r.buf, d + 1, Len(r.buf))
         /\ e.s = r.s /\ e.method = r.method /\ e.headers = r.headers /\ e.body = r.body
         /\ e.decoder = r.decoder
  <1> DEFINE rest == SubSeq(r.buf, d + 1, Len(r.buf))
  <1>1. r.buf \in Seq(Symbols)
    BY DEF Readers
  <1>2. rest \in Seq(Symbols)
    BY <1>1
  <1>3. e = [r EXCEPT !.buf = rest]
    OBVIOUS
  <1> HIDE DEF rest
  <1>4. /\ e \in Readers /\ e.buf = rest
        /\ e.s = r.s /\ e.method = r.method /\ e.headers = r.headers /\ e.body = r.body
        /\ e.decoder = r.decoder
    BY <1>2, <1>3 DEF Readers
  <1> QED BY <1>4 DEF rest

\* A header line that is read is the next of the request.
LEMMA AppendIs ==
  ASSUME NEW h \in Seq(Headers), NEW x \in Headers
  PROVE  /\ Append(h, x) \in Seq(Headers) /\ Len(Append(h, x)) = Len(h) + 1
         /\ \A i \in 1..Len(h) : Append(h, x)[i] = h[i]
         /\ Append(h, x)[Len(h) + 1] = x
  OBVIOUS

LEMMA AcceptIInv ==
  ASSUME IInv, call = "headers",
         NEW rest, rest = [reader EXCEPT !.buf = SubSeq(reader.buf, 3, Len(reader.buf))],
         Len(reader.buf) >= 2, Len(reader.headers) = Len(request.headers),
         AcceptHeaders(rest)
  PROVE  IInv'
  <1> DEFINE q == request
             chunked == IsBodyRequired(rest) /\ Count(rest, {"chunked"}) = 1
             set == [rest EXCEPT !.length = ContentLength(rest), !.isChunked = chunked]
             next == [rest EXCEPT !.length = ContentLength(rest), !.isChunked = chunked,
                                  !.s = "waitBody"]
  <1>1. /\ reader.s = "waitHeader" /\ result = "again" /\ reader.body = <<>>
        /\ LinesFit(reader, q) /\ BufFits(reader, q, sent) /\ reader.decoder = NewDecoder
    BY DEF IInv, Stage, Reading, Decoding
  <1>2. /\ q \in RequestSet /\ reader \in Readers /\ sent \in 0..Len(Wire(q))
        /\ sent \in Nat /\ Len(Wire(q)) \in Nat
    <2>1. q \in RequestSet /\ reader \in Readers /\ sent \in 0..Len(Wire(q))
      BY DEF IInv, TypeOK
    <2> QED BY <2>1, WireIs
  <1>3. /\ rest \in Readers /\ rest.buf = SubSeq(reader.buf, 2 + 1, Len(reader.buf))
        /\ rest.s = "waitHeader" /\ rest.method = reader.method /\ rest.headers = reader.headers
        /\ rest.body = <<>> /\ rest.decoder = NewDecoder
    <2>1. rest = [reader EXCEPT !.buf = SubSeq(reader.buf, 2 + 1, Len(reader.buf))]
      OBVIOUS
    <2> QED BY <1>1, <1>2, <2>1, AfterLineIs
  <1>4. reader.method = q.method /\ q.method # "bad" /\ reader.headers = q.headers
        /\ HeadersIn({"bad"}) = {}
    <2>1. /\ reader.method = q.method /\ q.method # "bad"
          /\ \A i \in 1..Len(reader.headers) : reader.headers[i] = q.headers[i]
                                               /\ q.headers[i] # "bad"
      BY <1>1 DEF LinesFit, BeforeLine
    <2>2. reader.headers \in Seq(Headers) /\ q.headers \in Seq(Headers)
      BY <1>2, WireIs DEF Readers
    <2>3. reader.headers = q.headers
      BY <2>1, <2>2, SeqEqual
    <2>4. DOMAIN q.headers = 1..Len(reader.headers)
      BY <2>2, <2>3
    <2> QED BY <2>1, <2>3, <2>4 DEF HeadersIn
  <1>5. rest.method = q.method /\ rest.headers = q.headers
    BY <1>3, <1>4
  <1>6. /\ ~IsValidHeader(rest) => ~Valid
        /\ IsValidHeader(rest) =>
             /\ ContentLength(rest) \in Nat
             /\ ContentLength(rest) = IF SendsLength THEN DeclaredLength ELSE 0
             /\ chunked <=> SendsChunks
             /\ ContentLength(rest) <= MaxBody <=> Valid
             /\ ContentLength(rest) > MaxBody => SendsLength /\ DeclaredLength > MaxBody
    BY <1>2, <1>4, <1>5, HeadersAccepted
  <1>7. chunked \in BOOLEAN
    OBVIOUS
  <1>8. ASSUME ~IsValidHeader(rest), Return(rest, "400")
        PROVE  IInv'
    <2>1. /\ request' = request /\ sent' = sent /\ call' = "none" /\ result' = "400"
          /\ reader' = rest
      BY <1>8 DEF Return
    <2>2. TypeOK'
      BY <1>2, <1>3, <2>1 DEF TypeOK, Calls, Results
    <2>3. Stage' /\ Reading' /\ Waiting' /\ Accepted' /\ Decoding'
      BY <1>3, <2>1 DEF Stage, Reading, Waiting, Waits, Accepted, Decoding
    <2>4. Done'
      BY <1>6, <1>8, <2>1, RefusedIsDone
    <2> QED BY <2>2, <2>3, <2>4 DEF IInv
  <1>9. ASSUME IsValidHeader(rest), ContentLength(rest) > MaxBody, Return(set, "413")
        PROVE  IInv'
    <2>1. /\ request' = request /\ sent' = sent /\ call' = "none" /\ result' = "413"
          /\ reader' = set
      BY <1>9 DEF Return
    <2>2. set \in Readers /\ set.s = "waitHeader"
      <3> HIDE DEF chunked
      <3> QED BY <1>3, <1>6, <1>7, <1>9 DEF Readers
    <2>3. TypeOK'
      BY <1>2, <2>1, <2>2 DEF TypeOK, Calls, Results
    <2>4. Stage' /\ Reading' /\ Waiting' /\ Accepted' /\ Decoding'
      BY <2>1, <2>2 DEF Stage, Reading, Waiting, Waits, Accepted, Decoding
    <2>5. ~Valid /\ SendsLength /\ DeclaredLength > MaxBody
      <3>1. SendsLength /\ DeclaredLength > MaxBody
        BY <1>6, <1>9
      <3>2. ~(ContentLength(rest) <= MaxBody)
        BY <1>6, <1>9, ChunkedBodyAssumption
      <3> QED BY <1>6, <1>9, <3>1, <3>2
    <2>6. Done'
      BY <2>1, <2>5, RefusedIsDone
    <2> QED BY <2>3, <2>4, <2>6 DEF IInv
  <1>10. ASSUME IsValidHeader(rest), ContentLength(rest) <= MaxBody, GoOn(next, "body")
         PROVE  IInv'
    <2>1. /\ request' = request /\ sent' = sent /\ call' = "body" /\ result' = "again"
          /\ reader' = next
      BY <1>1, <1>10 DEF GoOn
    <2>2. /\ next \in Readers /\ next.s = "waitBody" /\ next.buf = rest.buf
          /\ next.method = q.method /\ next.headers = q.headers
          /\ next.body = <<>> /\ next.decoder = NewDecoder
          /\ next.length = ContentLength(rest) /\ next.isChunked = chunked
      <3> HIDE DEF chunked
      <3> QED BY <1>3, <1>5, <1>6, <1>7, <1>10 DEF Readers, States
    <2> HIDE DEF next, chunked
    <2>3. Valid
      BY <1>6, <1>10
    <2>4. TypeOK'
      BY <1>2, <2>1, <2>2 DEF TypeOK, Calls, Results
    <2>5. LinesFit(next, q)
      <3>1. q.headers \in Seq(Headers) /\ Len(q.headers) \in Nat
        BY <1>2, WireIs
      <3>2. \A i \in 1..Len(q.headers) : q.headers[i] # "bad"
        <4>1. DOMAIN q.headers = 1..Len(q.headers)
          BY <3>1
        <4> QED BY <1>4, <4>1 DEF HeadersIn
      <3> QED BY <1>4, <2>2, <3>1, <3>2 DEF LinesFit, BeforeLine
    <2>6. Pos(next) = Pos(reader) + 2
      <3>1. Len(q.headers) \in Nat
        BY <1>2, WireIs
      <3> QED BY <1>1, <1>4, <2>2, <3>1 DEF Pos, BeforeLine
    <2>7. BufFits(next, q, sent)
      <3>1. 2 <= Len(reader.buf) /\ next.buf = SubSeq(reader.buf, 2 + 1, Len(reader.buf))
        <4>1. Len(reader.buf) \in Nat
          BY <1>1, <1>2, PosIs
        <4> QED BY <1>3, <2>2, <4>1
      <3> QED BY <1>1, <1>2, <2>2, <2>5, <2>6, <3>1, RestFits
    <2>8. Stage'
      BY <2>1, <2>2 DEF Stage
    <2>9. Reading' /\ Decoding'
      BY <2>1, <2>2, <2>5, <2>7 DEF Reading, Decoding
    <2>10. Waiting'
      BY <2>1 DEF Waiting, Waits
    <2>11. Accepted'
      <3>1. /\ next.length = IF SendsLength THEN DeclaredLength ELSE 0
            /\ next.isChunked <=> SendsChunks
        BY <1>6, <1>10, <2>2
      <3> QED BY <2>1, <2>2, <2>3, <3>1, RequestKept DEF Accepted
    <2>12. Done'
      BY <2>1, NotDone
    <2> QED BY <2>4, <2>8, <2>9, <2>10, <2>11, <2>12 DEF IInv
  <1> QED BY <1>8, <1>9, <1>10 DEF AcceptHeaders

LEMMA HeaderLineIInv ==
  ASSUME IInv, HeaderLine
  PROVE  IInv'
  <1> DEFINE q == request
             n == Len(q.headers)
             j == Len(reader.headers)
             L == Len(reader.buf)
             line == FirstLine(reader)
             after == AfterLine(reader)
             next == [after EXCEPT !.headers = Append(@, line[1])]
  <1>1. /\ call = "headers" /\ reader.s = "waitHeader" /\ result = "again" /\ reader.body = <<>>
        /\ LinesFit(reader, q) /\ BufFits(reader, q, sent) /\ reader.decoder = NewDecoder
        /\ ~BeforeLine(reader)
    BY DEF HeaderLine, IInv, Stage, Reading, Decoding, BeforeLine
  <1>2. /\ q \in RequestSet /\ reader \in Readers /\ sent \in 0..Len(Wire(q))
        /\ sent \in Nat /\ Len(Wire(q)) \in Nat
    <2>1. q \in RequestSet /\ reader \in Readers /\ sent \in 0..Len(Wire(q))
      BY DEF IInv, TypeOK
    <2> QED BY <2>1, WireIs
  <1>3. /\ n \in Nat /\ j \in Nat /\ L \in Nat /\ j <= n /\ HeadLen(q) = 3 * n + 5
        /\ Pos(reader) = 3 * (j + 1)
        /\ reader.headers \in Seq(Headers) /\ q.headers \in Seq(Headers)
    <2>1. n \in Nat /\ HeadLen(q) = 3 * n + 5 /\ q.headers \in Seq(Headers)
      BY <1>2, WireIs DEF HeadLen
    <2>2. j <= n
      BY <1>1 DEF LinesFit
    <2>3. /\ j \in Nat /\ L \in Nat /\ Pos(reader) = 3 * (j + 1)
          /\ reader.headers \in Seq(Headers)
      BY <1>1, <1>2, PosIs
    <2> QED BY <2>1, <2>2, <2>3
  <1>4. ASSUME j < n
        PROVE  /\ HasLine(reader) <=> L >= 3
               /\ HasLine(reader) =>
                    /\ line = <<q.headers[j + 1]>>
                    /\ after = [reader EXCEPT !.buf = SubSeq(reader.buf, 3 + 1, L)]
    <2>1. j + 1 \in 0..n /\ j + 1 \in 1..n
      <3> HIDE DEF n, j, L
      <3> QED BY <1>3, <1>4
    <2>2. Wire(q)[3 * (j + 1) + 1] = q.headers[j + 1]
      BY <1>2, <2>1, WireIs
    <2>3. /\ HasLine(reader) <=> Len(reader.buf) >= 3
          /\ HasLine(reader) =>
               /\ FirstLine(reader) = <<Wire(q)[3 * (j + 1) + 1]>>
               /\ AfterLine(reader) = [reader EXCEPT !.buf = SubSeq(reader.buf, 4, Len(reader.buf))]
      <3> HIDE DEF j
      <3> QED BY <1>1, <1>2, <1>3, <2>1, LineIs
    <2>4. 3 + 1 = 4
      OBVIOUS
    <2> QED BY <2>2, <2>3, <2>4
  <1>5. ASSUME j = n
        PROVE  /\ HasLine(reader) <=> L >= 2
               /\ HasLine(reader) =>
                    /\ line = <<>>
                    /\ after = [reader EXCEPT !.buf = SubSeq(reader.buf, 3, L)]
    <2>1. Pos(reader) = HeadLen(q) - 2
      <3> HIDE DEF n, j
      <3> QED BY <1>3, <1>5
    <2> QED BY <1>1, <1>2, <2>1, EndIs
  <1>6. ASSUME ~HasLine(reader), Return(reader, "again")
        PROVE  IInv'
    <2>1. /\ request' = request /\ sent' = sent /\ call' = "none" /\ result' = "again"
          /\ reader' = reader
      BY <1>6 DEF Return
    <2>2. sent < HeadLen(q)
      <3>1. /\ sent <= HeadLen(q) => Pos(reader) + L = sent
            /\ sent > HeadLen(q) => Pos(reader) + L >= HeadLen(q)
        BY <1>1 DEF BufFits
      <3>2. j < n => L < 3
        BY <1>3, <1>4, <1>6
      <3>3. j = n => L < 2
        BY <1>3, <1>5, <1>6
      <3> HIDE DEF n, j, L
      <3> QED BY <1>2, <1>3, <3>1, <3>2, <3>3
    <2>3. TypeOK'
      BY <1>2, <2>1 DEF TypeOK, Calls, Results
    <2>4. Stage' /\ Reading' /\ Decoding' /\ Accepted'
      BY <1>1, <2>1 DEF Stage, Reading, Decoding, Accepted
    <2>5. Waiting'
      BY <2>1, <2>2 DEF Waiting
    <2>6. Done'
      BY <2>1, NotDone
    <2> QED BY <2>3, <2>4, <2>5, <2>6 DEF IInv
  <1>7. ASSUME HasLine(reader), line = <<>>, AcceptHeaders(after)
        PROVE  IInv'
    <2>1. j = n
      <3>1. ~(j < n)
        <4>1. ASSUME j < n PROVE FALSE
          <5>1. line = <<q.headers[j + 1]>>
            BY <1>4, <1>7, <4>1
          <5> HIDE DEF line
          <5> QED BY <1>7, <5>1
        <4> QED BY <4>1
      <3> HIDE DEF n, j
      <3> QED BY <1>3, <3>1
    <2>2. L >= 2 /\ after = [reader EXCEPT !.buf = SubSeq(reader.buf, 3, L)]
      BY <1>5, <1>7, <2>1
    <2> HIDE DEF after
    <2> QED BY <1>1, <1>7, <2>1, <2>2, AcceptIInv
  <1>8. ASSUME HasLine(reader), line # <<>>
        PROVE  /\ j < n /\ 3 <= L /\ line[1] = q.headers[j + 1]
               /\ after \in Readers /\ after.buf = SubSeq(reader.buf, 3 + 1, L)
               /\ after.s = "waitHeader" /\ after.method = reader.method
               /\ after.headers = reader.headers
               /\ after.body = <<>> /\ after.decoder = NewDecoder
    <2>1. j < n
      <3>1. j # n
        BY <1>5, <1>8
      <3> HIDE DEF n, j
      <3> QED BY <1>3, <3>1
    <2>2. line = <<q.headers[j + 1]>> /\ after = [reader EXCEPT !.buf = SubSeq(reader.buf, 3 + 1, L)]
          /\ 3 <= L
      <3>1. L >= 3
        BY <1>4, <1>8, <2>1
      <3>2. 3 <= L
        <4> HIDE DEF L
        <4> QED BY <1>3, <3>1
      <3> QED BY <1>4, <1>8, <2>1, <3>2
    <2>3. line[1] = q.headers[j + 1]
      <3> HIDE DEF line
      <3> QED BY <2>2
    <2> HIDE DEF after, line, j, n
    <2>4. /\ after \in Readers /\ after.buf = SubSeq(reader.buf, 3 + 1, L)
          /\ after.s = reader.s /\ after.method = reader.method /\ after.headers = reader.headers
          /\ after.body = reader.body /\ after.decoder = reader.decoder
      <3>1. reader \in Readers /\ 3 \in Nat /\ 3 <= Len(reader.buf)
            /\ after = [reader EXCEPT !.buf = SubSeq(reader.buf, 3 + 1, Len(reader.buf))]
        BY <1>2, <2>2
      <3> QED BY <3>1, AfterLineIs
    <2> QED BY <1>1, <2>1, <2>2, <2>3, <2>4
  <1>9. ASSUME HasLine(reader), line # <<>>, line[1] \in Headers \ {"bad"}, GoOn(next, "headers")
        PROVE  IInv'
    <2> DEFINE x == q.headers[j + 1]
    <2>1. /\ j < n /\ 3 <= L /\ line[1] = x
          /\ after \in Readers /\ after.buf = SubSeq(reader.buf, 3 + 1, L)
          /\ after.s = "waitHeader" /\ after.method = reader.method
          /\ after.headers = reader.headers
          /\ after.body = <<>> /\ after.decoder = NewDecoder
      BY <1>8, <1>9
    <2>2. /\ request' = request /\ sent' = sent /\ call' = "headers" /\ result' = "again"
          /\ reader' = next
      BY <1>1, <1>9 DEF GoOn
    <2>3. next = [after EXCEPT !.headers = Append(reader.headers, x)]
      <3> HIDE DEF after, line, x
      <3> QED BY <2>1
    <2>4. x \in Headers /\ x # "bad"
      BY <1>9, <2>1
    <2>5. /\ Append(reader.headers, x) \in Seq(Headers) /\ Len(Append(reader.headers, x)) = j + 1
          /\ \A i \in 1..j : Append(reader.headers, x)[i] = reader.headers[i]
          /\ Append(reader.headers, x)[j + 1] = x
      <3> HIDE DEF x
      <3> QED BY <1>3, <2>4, AppendIs
    <2>6. /\ next \in Readers /\ next.buf = SubSeq(reader.buf, 3 + 1, L)
          /\ next.s = "waitHeader" /\ next.method = reader.method
          /\ next.headers = Append(reader.headers, x)
          /\ next.body = <<>> /\ next.decoder = NewDecoder
      <3> HIDE DEF after, next, x
      <3> QED BY <2>1, <2>3, <2>5 DEF Readers
    <2> HIDE DEF after, next
    <2>7. LinesFit(next, q)
      <3>1. /\ reader.method = q.method /\ q.method # "bad"
            /\ \A i \in 1..j : reader.headers[i] = q.headers[i] /\ q.headers[i] # "bad"
        BY <1>1 DEF LinesFit
      <3>2. Len(next.headers) = j + 1 /\ j + 1 <= n
        <4>1. j + 1 <= n
          <5> HIDE DEF j, n
          <5> QED BY <1>3, <2>1
        <4> QED BY <2>5, <2>6, <4>1
      <3>3. ASSUME NEW i \in 1..j + 1
            PROVE  next.headers[i] = q.headers[i] /\ q.headers[i] # "bad"
        <4>1. i \in 1..j \/ i = j + 1
          <5> HIDE DEF j
          <5> QED BY <1>3
        <4> QED BY <2>4, <2>5, <2>6, <3>1, <4>1
      <3> QED BY <2>6, <3>1, <3>2, <3>3 DEF LinesFit, BeforeLine
    <2>8. Pos(next) = Pos(reader) + 3
      <3>1. Len(next.headers) = j + 1
        BY <2>5, <2>6
      <3>2. Pos(next) = 3 * (j + 1) + 3
        BY <2>6, <3>1 DEF Pos, BeforeLine
      <3> HIDE DEF j
      <3> QED BY <1>3, <3>2
    <2>9. BufFits(next, q, sent)
      BY <1>1, <1>2, <2>1, <2>6, <2>7, <2>8, RestFits
    <2>10. TypeOK'
      BY <1>2, <2>2, <2>6 DEF TypeOK, Calls, Results
    <2>11. Stage' /\ Accepted'
      BY <2>2, <2>6 DEF Stage, Accepted
    <2>12. Reading' /\ Decoding'
      BY <2>2, <2>6, <2>7, <2>9 DEF Reading, Decoding
    <2>13. Waiting'
      BY <2>2 DEF Waiting, Waits
    <2>14. Done'
      BY <2>2, NotDone
    <2> QED BY <2>10, <2>11, <2>12, <2>13, <2>14 DEF IInv
  <1>10. ASSUME HasLine(reader), line # <<>>, line[1] \notin Headers \ {"bad"},
                Return(after, "400")
         PROVE  IInv'
    <2>1. /\ request' = request /\ sent' = sent /\ call' = "none" /\ result' = "400"
          /\ reader' = after
      BY <1>10 DEF Return
    <2>2. after \in Readers /\ after.s = "waitHeader" /\ line[1] = q.headers[j + 1] /\ j < n
      BY <1>8, <1>10
    <2>3. ~Valid
      <3>1. j + 1 \in 1..n
        <4> HIDE DEF j, n
        <4> QED BY <1>3, <2>2
      <3>2. j + 1 \in DOMAIN q.headers /\ q.headers[j + 1] \in Headers
        BY <1>3, <3>1
      <3>3. q.headers[j + 1] = "bad"
        BY <1>10, <2>2, <3>2
      <3>4. j + 1 \in HeadersIn({"bad"})
        BY <3>2, <3>3 DEF HeadersIn
      <3> QED BY <3>4 DEF Valid
    <2>4. TypeOK'
      BY <1>2, <2>1, <2>2 DEF TypeOK, Calls, Results
    <2>5. Stage' /\ Reading' /\ Waiting' /\ Accepted' /\ Decoding'
      BY <2>1, <2>2 DEF Stage, Reading, Waiting, Waits, Accepted, Decoding
    <2>6. Done'
      BY <2>1, <2>3, RefusedIsDone
    <2> QED BY <2>4, <2>5, <2>6 DEF IInv
  <1> QED BY <1>6, <1>7, <1>9, <1>10 DEF HeaderLine

LEMMA CutsSame ==
  ASSUME NEW s \in Seq(Symbols), NEW t \in Seq(Symbols), NEW k \in Nat,
         k <= Len(s), k <= Len(t), \A i \in 1..k : s[i] = t[i]
  PROVE  SubSeq(s, 1, k) = SubSeq(t, 1, k)
  <1> DEFINE u == SubSeq(s, 1, k)
             v == SubSeq(t, 1, k)
  <1>1. Len(s) \in Nat /\ Len(t) \in Nat
    OBVIOUS
  <1>2. u \in Seq(Symbols) /\ Len(u) = k /\ \A i \in 1..k : u[i] = s[i]
    BY <1>1
  <1>3. v \in Seq(Symbols) /\ Len(v) = k /\ \A i \in 1..k : v[i] = t[i]
    BY <1>1
  <1> HIDE DEF u, v
  <1>4. \A i \in 1..Len(u) : u[i] = v[i]
    BY <1>2, <1>3
  <1>5. u = v
    BY <1>2, <1>3, <1>4, SeqEqual
  <1> QED BY <1>5 DEF u, v

\* After the head, the buffer has bytes of the payload.
LEMMA BodyIs ==
  ASSUME NEW q \in RequestSet, NEW r \in Readers, NEW n \in Nat, n <= Len(Wire(q)),
         LinesFit(r, q), BufFits(r, q, n), r.s = "waitBody"
  PROVE  /\ r.buf \in Seq(Bytes) /\ Len(r.buf) \in Nat
         /\ ~HasNul(SubSeq(Wire(q), 1, n)) =>
              /\ Len(r.buf) = n - HeadLen(q)
              /\ Len(r.buf) <= Len(q.payload)
              /\ \A i \in 1..Len(r.buf) : r.buf[i] = q.payload[i]
  <1> DEFINE b == r.buf
             L == Len(r.buf)
             H == HeadLen(q)
             W == Wire(q)
             m == Len(q.payload)
  <1>1. /\ Pos(r) = H /\ H \in Nat /\ b \in Seq(Symbols) /\ L \in Nat
    BY PosIs
  <1>2. /\ m \in Nat /\ Len(W) = H + m /\ \A j \in 1..m : W[H + j] = q.payload[j]
    BY WireIs
  <1>3. /\ \A i \in 1..L : IF H + i <= H THEN b[i] = W[H + i] ELSE b[i] \in Bytes
        /\ ~HasNul(SubSeq(W, 1, n)) => H + L = n /\ \A i \in 1..L : b[i] = W[H + i]
    BY <1>1 DEF BufFits
  <1> HIDE DEF b, L, H, W, m
  <1>4. \A i \in 1..L : b[i] \in Bytes
    <2>1. \A i \in 1..L : ~(H + i <= H)
      BY <1>1
    <2> QED BY <1>3, <2>1
  <1>5. b \in Seq(Bytes)
    <2>1. b = [i \in 1..L |-> b[i]]
      BY <1>1 DEF b, L
    <2> QED BY <1>1, <1>4, <2>1
  <1>6. ASSUME ~HasNul(SubSeq(W, 1, n))
        PROVE  /\ L = n - H /\ L <= m
               /\ \A i \in 1..L : b[i] = q.payload[i]
    <2>1. H + L = n /\ \A i \in 1..L : b[i] = W[H + i]
      BY <1>3, <1>6
    <2>2. n <= Len(W) /\ n \in Nat
      BY DEF W
    <2>3. L = n - H /\ L <= m
      BY <1>1, <1>2, <2>1, <2>2
    <2>4. \A i \in 1..L : i \in 1..m
      BY <1>1, <1>2, <2>3
    <2> QED BY <1>2, <2>1, <2>3, <2>4
  <1> QED BY <1>1, <1>5, <1>6 DEF b, L, H, W, m

\* Without a nul in the payload none arrives.
LEMMA PlainArrives ==
  ASSUME request \in RequestSet, sent \in 0..Len(Wire(request)),
         \A i \in 1..Len(request.payload) : request.payload[i] # "nul"
  PROVE  ~HasNul(Arrived)
  <1> DEFINE q == request
             W == Wire(q)
             H == HeadLen(q)
             m == Len(q.payload)
             a == SubSeq(W, 1, sent)
  <1>3. /\ W \in Seq(Symbols) /\ Len(W) = H + m /\ m \in Nat
        /\ \A j \in 1..m : W[H + j] = q.payload[j]
    BY WireIs
  <1>4. H \in Nat
    BY WireIs DEF HeadLen
  <1>5. \A i \in 1..m : q.payload[i] # "nul"
    OBVIOUS
  <1>6. \A i \in 1..H : W[i] # "nul"
    BY WireBytes
  <1>7. /\ DOMAIN a = 1..sent /\ \A i \in 1..sent : a[i] = W[i]
    <2> HIDE DEF W
    <2> QED BY <1>3 DEF W
  <1>8. ASSUME NEW i \in 1..sent
        PROVE  W[i] # "nul"
    <2>1. sent \in 0..Len(W)
      OBVIOUS
    <2> HIDE DEF W, H, m
    <2>2. CASE i \in 1..H
      BY <1>6, <2>2
    <2>3. CASE i \notin 1..H
      <3>1. i - H \in 1..m /\ H + (i - H) = i
        BY <1>3, <1>4, <2>1, <2>3
      <3> QED BY <1>3, <1>5, <3>1
    <2> QED BY <2>2, <2>3
  <1>9. ~HasNul(a)
    <2> HIDE DEF a, W
    <2> QED BY <1>7, <1>8 DEF HasNul
  <1> QED BY <1>9 DEF Arrived

\* A chunked coding has no nul.
LEMMA CodedArrives ==
  ASSUME request \in RequestSet, sent \in 0..Len(Wire(request)), Coded # {}
  PROVE  /\ ThePieces \in Pieces /\ Chunked(ThePieces) = request.payload
         /\ Data = FlattenSeq(ThePieces)
         /\ ~HasNul(Arrived)
  <1>1. ThePieces \in Pieces /\ Chunked(ThePieces) = request.payload
    BY DEF ThePieces, Coded
  <1>2. Data = FlattenSeq(ThePieces)
    BY DEF Data, ThePieces
  <1>3. \A i \in 1..Len(request.payload) : request.payload[i] # "nul"
    BY <1>1, PayloadIs
  <1> QED BY <1>1, <1>2, <1>3, PlainArrives

LEMMA BodyIInv ==
  ASSUME IInv, Body
  PROVE  IInv'
  <1> DEFINE q == request
             L == Len(reader.buf)
  <1>1. /\ call = "body" /\ reader.s = "waitBody" /\ result = "again" /\ reader.body = <<>>
        /\ LinesFit(reader, q) /\ BufFits(reader, q, sent) /\ reader.decoder = NewDecoder
    BY DEF Body, IInv, Stage, Reading, Decoding
  <1>2. /\ q \in RequestSet /\ reader \in Readers /\ sent \in 0..Len(Wire(q))
        /\ sent \in Nat /\ Len(Wire(q)) \in Nat /\ sent <= Len(Wire(q))
    <2>1. q \in RequestSet /\ reader \in Readers /\ sent \in 0..Len(Wire(q))
      BY DEF IInv, TypeOK
    <2> QED BY <2>1, WireIs
  <1>3. /\ Valid /\ reader.method = q.method /\ reader.headers = q.headers
        /\ reader.length = IF SendsLength THEN DeclaredLength ELSE 0
        /\ reader.isChunked <=> SendsChunks
    BY <1>1 DEF IInv, Accepted
  <1>4. IsBodyRequired(reader) <=> Posts
    <2>1. q.method \in Methods /\ q.method # "bad"
      BY <1>2, <1>3, WireIs DEF Valid
    <2> QED BY <1>3, <2>1 DEF IsBodyRequired, Posts, Methods
  <1>5. SendsLength \/ SendsChunks => Posts
    BY DEF SendsLength, SendsChunks
  <1>6. /\ reader.buf \in Seq(Bytes) /\ L \in Nat
        /\ ~HasNul(Arrived) =>
             /\ L = sent - HeadLen(q) /\ L <= Len(q.payload)
             /\ \A i \in 1..L : reader.buf[i] = q.payload[i]
    BY <1>1, <1>2, BodyIs DEF Arrived
  <1>7. Len(<<>>) = 0 /\ MaxBody \in Nat /\ 0 <= MaxBody
    BY ChunkedBodyAssumption
  <1>8. ASSUME request' = request, sent' = sent
        PROVE  Arrived' = Arrived
    BY <1>8 DEF Arrived
  <1>9. ASSUME ~IsBodyRequired(reader), Return(reader, "complete")
        PROVE  IInv'
    <2>1. /\ request' = request /\ sent' = sent /\ call' = "none" /\ result' = "complete"
          /\ reader' = reader
      BY <1>9 DEF Return
    <2>2. TypeOK'
      BY <1>2, <2>1 DEF TypeOK, Calls, Results
    <2>3. Stage' /\ Reading' /\ Waiting' /\ Decoding'
      BY <1>1, <2>1 DEF Stage, Reading, Waiting, Waits, Decoding
    <2>4. Accepted'
      BY <2>1, RequestKept DEF IInv, Accepted
    <2>5. ~Posts' /\ ~SendsLength' /\ ~SendsChunks'
      BY <1>4, <1>5, <1>9, <2>1, RequestKept
    <2>6. Len(reader'.body) <= MaxBody
      BY <1>1, <1>7, <2>1
    <2>7. BodyIsRight'
      BY <1>1, <2>1, <2>5, <2>6 DEF BodyIsRight
    <2>8. RejectIsRight' /\ WholeChunkedDecoded' /\ ChunkedIsPrefix'
      BY <2>1, <2>5 DEF RejectIsRight, WholeChunkedDecoded, ChunkedIsPrefix
    <2> QED BY <2>2, <2>3, <2>4, <2>7, <2>8 DEF IInv, Done
  <1>10. ASSUME reader.isChunked,
                GoOn([reader EXCEPT !.decoder.buf = @ \o reader.buf, !.buf = <<>>], "decode")
         PROVE  IInv'
    <2> DEFINE fed == [NewDecoder EXCEPT !.buf = reader.buf]
    <2>1. /\ request' = request /\ sent' = sent /\ call' = "decode" /\ result' = "again"
          /\ reader' = [reader EXCEPT !.decoder.buf = @ \o reader.buf, !.buf = <<>>]
      BY <1>1, <1>10 DEF GoOn
    <2>2. /\ fed \in Decoders /\ fed.stat = "waitSize" /\ fed.thrown = "none" /\ fed.head = 0
          /\ fed.buf = reader.buf /\ fed.decoded = <<>>
      <3>1. NewDecoder \in Decoders
        BY NewReaderIs
      <3>2. /\ NewDecoder.stat = "waitSize" /\ NewDecoder.thrown = "none" /\ NewDecoder.head = 0
            /\ NewDecoder.decoded = <<>>
        BY DEF NewDecoder
      <3> QED BY <1>6, <3>1, <3>2 DEF Decoders
    <2>3. Sound(fed)
      <3>1. 0 \in 0..L /\ Len(fed.decoded) <= MaxBody
        BY <1>6, <1>7, <2>2
      <3> QED BY <2>2, <3>1 DEF Sound
    <2>4. reader' = [reader EXCEPT !.decoder = fed, !.buf = <<>>]
      <3>1. NewDecoder.buf \o reader.buf = reader.buf
        <4>1. NewDecoder.buf = <<>>
          BY DEF NewDecoder
        <4> QED BY <1>6, <4>1, ConcatEmptySeq
      <3>2. reader' = [reader EXCEPT
                         !.decoder = [reader.decoder EXCEPT !.buf = @ \o reader.buf],
                         !.buf = <<>>]
        BY <2>1
      <3>3. [reader.decoder EXCEPT !.buf = @ \o reader.buf] = fed
        BY <1>1, <3>1
      <3> HIDE DEF fed
      <3> QED BY <3>2, <3>3
    <2> HIDE DEF fed
    <2>5. /\ reader' \in Readers /\ reader'.s = "waitBody"
          /\ reader'.method = reader.method /\ reader'.headers = reader.headers
          /\ reader'.body = <<>> /\ reader'.decoder = fed
          /\ reader'.length = reader.length /\ reader'.isChunked = reader.isChunked
      <3>1. <<>> \in Seq(Symbols)
        OBVIOUS
      <3> QED BY <1>1, <1>2, <2>2, <2>4, <3>1 DEF Readers
    <2>6. TypeOK'
      BY <1>2, <2>1, <2>5 DEF TypeOK, Calls, Results
    <2>7. Stage'
      BY <1>10, <2>1, <2>5 DEF Stage
    <2>8. Reading'
      BY <1>1, <2>1, <2>5 DEF Reading, LinesFit, BeforeLine
    <2>9. Waiting'
      BY <2>1 DEF Waiting, Waits
    <2>10. Accepted'
      BY <1>3, <2>1, <2>5, RequestKept DEF Accepted
    <2>11. ASSUME Coded # {}
           PROVE  /\ Shows(fed, q.payload) /\ Len(fed.buf) = sent - HeadLen(q)
                  /\ \E k \in 0..Len(ThePieces) : Placed(fed, ThePieces, k)
      <3>1. ThePieces \in Pieces /\ ~HasNul(Arrived)
        BY <1>2, <2>11, CodedArrives
      <3>2. Shows(fed, q.payload) /\ Len(fed.buf) = sent - HeadLen(q)
        BY <1>6, <2>2, <3>1 DEF Shows
      <3>3. Offset(ThePieces, 0) = 0 /\ Begun(ThePieces, 0) = <<>>
        BY <3>1, OffsetIs, BegunIs
      <3>4. Placed(fed, ThePieces, 0) /\ 0 \in 0..Len(ThePieces)
        BY <2>2, <3>1, <3>3, PiecesAre DEF Placed
      <3> QED BY <3>2, <3>4
    <2>12. Decoding'
      <3>1. Coded' = Coded /\ ThePieces' = ThePieces
        BY <2>1, RequestKept
      <3> QED BY <2>1, <2>3, <2>5, <2>11, <3>1 DEF Decoding
    <2>13. Done'
      BY <2>1, NotDone
    <2> QED BY <2>6, <2>7, <2>8, <2>9, <2>10, <2>12, <2>13 DEF IInv
  <1>11. ASSUME IsBodyRequired(reader), ~reader.isChunked, L < reader.length,
                Return(reader, "again")
         PROVE  IInv'
    <2>1. /\ request' = request /\ sent' = sent /\ call' = "none" /\ result' = "again"
          /\ reader' = reader
      BY <1>11 DEF Return
    <2>2. TypeOK'
      BY <1>2, <2>1 DEF TypeOK, Calls, Results
    <2>3. Stage' /\ Reading' /\ Decoding'
      BY <1>1, <2>1 DEF Stage, Reading, Decoding
    <2>4. Waiting'
      BY <1>1, <1>4, <1>11, <2>1, RequestKept DEF Waiting
    <2>5. Accepted'
      BY <2>1, RequestKept DEF IInv, Accepted
    <2>6. Done'
      BY <2>1, NotDone
    <2> QED BY <2>2, <2>3, <2>4, <2>5, <2>6 DEF IInv
  <1>12. ASSUME IsBodyRequired(reader), ~reader.isChunked, L >= reader.length,
                Return([reader EXCEPT !.s = "readComplete", !.buf = <<>>,
                          !.body = SubSeq(reader.buf, 1, reader.length)], "complete")
         PROVE  IInv'
    <2> DEFINE N == reader.length
               text == SubSeq(reader.buf, 1, N)
    <2>1. /\ request' = request /\ sent' = sent /\ call' = "none" /\ result' = "complete"
          /\ reader' = [reader EXCEPT !.s = "readComplete", !.buf = <<>>, !.body = text]
      BY <1>12 DEF Return
    <2>2. N \in Nat /\ N <= L
      <3>1. N \in Nat
        BY <1>2 DEF Readers
      <3> HIDE DEF N, L
      <3> QED BY <1>6, <1>12, <3>1 DEF N
    <2>3. text \in Seq(Bytes) /\ Len(text) = N
      <3> HIDE DEF N
      <3> QED BY <1>6, <2>2
    <2>4. N <= MaxBody
      <3>1. SendsLength => DeclaredLength \in 0..MaxBody
        BY <1>3 DEF Valid
      <3>2. N = IF SendsLength THEN DeclaredLength ELSE 0
        BY <1>3
      <3> HIDE DEF N
      <3> QED BY <1>7, <3>1, <3>2
    <2>5. ASSUME ~HasNul(Arrived)
          PROVE  text = SubSeq(q.payload, 1, N)
      <3>1. /\ L <= Len(q.payload) /\ \A i \in 1..L : reader.buf[i] = q.payload[i]
        BY <1>6, <2>5
      <3>2. /\ reader.buf \in Seq(Symbols) /\ q.payload \in Seq(Symbols)
            /\ Len(q.payload) \in Nat
        BY <1>2, <1>6, WireIs, SymbolsAre
      <3>3. N <= Len(reader.buf) /\ N <= Len(q.payload) /\ \A i \in 1..N : i \in 1..L
        <4> DEFINE m == Len(q.payload)
        <4>1. m \in Nat /\ L <= m /\ Len(reader.buf) = L
          BY <3>1, <3>2
        <4> HIDE DEF N, L, m
        <4>2. N <= L /\ N <= m /\ \A i \in 1..N : i \in 1..L
          BY <1>6, <2>2, <4>1
        <4> QED BY <4>1, <4>2 DEF m
      <3>4. \A i \in 1..N : reader.buf[i] = q.payload[i]
        BY <3>1, <3>3
      <3> HIDE DEF N
      <3> QED BY <2>2, <3>2, <3>3, <3>4, CutsSame
    <2> HIDE DEF text
    <2>6. /\ reader' \in Readers /\ reader'.s = "readComplete" /\ reader'.body = text
          /\ reader'.method = reader.method /\ reader'.headers = reader.headers
          /\ reader'.length = reader.length /\ reader'.isChunked = reader.isChunked
      <3>1. <<>> \in Seq(Symbols)
        OBVIOUS
      <3> QED BY <1>2, <2>1, <2>3, <3>1 DEF Readers, States
    <2>7. TypeOK'
      BY <1>2, <2>1, <2>6 DEF TypeOK, Calls, Results
    <2>8. Stage' /\ Reading' /\ Waiting' /\ Decoding'
      BY <2>1, <2>6 DEF Stage, Reading, Waiting, Waits, Decoding
    <2>9. Accepted'
      BY <1>3, <2>1, <2>6, RequestKept DEF Accepted
    <2>10. Posts' /\ ~SendsChunks'
      BY <1>3, <1>4, <1>12, <2>1, RequestKept
    <2>11. BodyIsRight'
      <3>1. Len(reader'.body) <= MaxBody
        BY <2>3, <2>4, <2>6
      <3>2. SendsLength /\ ~HasNul(Arrived) => text = SubSeq(q.payload, 1, DeclaredLength)
        BY <1>3, <2>5
      <3>3. SendsLength' /\ ~HasNul(Arrived') =>
              reader'.body = SubSeq(request'.payload, 1, DeclaredLength')
        BY <1>8, <2>1, <2>6, <3>2, RequestKept
      <3> QED BY <2>10, <3>1, <3>3 DEF BodyIsRight
    <2>12. RejectIsRight' /\ WholeChunkedDecoded' /\ ChunkedIsPrefix'
      BY <2>1, <2>10 DEF RejectIsRight, WholeChunkedDecoded, ChunkedIsPrefix
    <2> QED BY <2>7, <2>8, <2>9, <2>11, <2>12 DEF IInv, Done
  <1> QED BY <1>9, <1>10, <1>11, <1>12 DEF Body

\* What a turn makes of a well-formed body.
LEMMA CodedTurn ==
  ASSUME request \in RequestSet, sent \in 0..Len(Wire(request)), Coded # {},
         NEW d, Sound(d), Shows(d, request.payload), Len(d.buf) = sent - HeadLen(request),
         NEW k \in 0..Len(ThePieces), Placed(d, ThePieces, k)
  PROVE  /\ ~LastTurn(d) => /\ k + 1 \in 0..Len(ThePieces)
                            /\ Placed(Turned(d), ThePieces, k + 1)
                            /\ Turned(d).head > d.head
         /\ Turned(d).thrown = "none" => IsPrefix(Turned(d).decoded, Data)
         /\ Turned(d).thrown = "413" => Len(Data) > MaxBody
         /\ LastTurn(d) /\ sent = Len(Wire(request)) =>
              \/ Turned(d).thrown = "413"
              \/ /\ Turned(d).thrown = "none" /\ Turned(d).decoded = Data
                 /\ Turned(d).stat = "decodeComplete"
  <1> DEFINE p == ThePieces
             e == Turned(d)
             m == Len(request.payload)
             n == Len(p)
  <1>1. p \in Pieces /\ Chunked(p) = request.payload /\ Data = FlattenSeq(p)
    BY CodedArrives
  <1>2. n \in Nat /\ Data \in Seq(Plain)
    BY <1>1, PiecesAre, BegunIs
  <1>3. sent = Len(Wire(request)) => Len(d.buf) = m
    <2> DEFINE h == HeadLen(request)
               w == Len(Wire(request))
               b == Len(d.buf)
    <2>1. m \in Nat /\ w = h + m /\ b = sent - h
      BY WireIs
    <2>2. h \in Nat
      BY WireIs DEF HeadLen
    <2> HIDE DEF m, h, w, b
    <2>3. sent = w => b = m
      BY <2>1, <2>2
    <2> QED BY <2>3 DEF w, b
  <1> HIDE DEF p, n, m, e
  <1>4. CASE k = n
    <2>1. /\ LastTurn(d) /\ e.thrown = "none" /\ e.decoded = Data
          /\ Len(d.buf) = m => e.stat = "decodeComplete"
      BY <1>1, <1>4, LastSizeTurn DEF n, m, e, p
    <2>2. IsPrefix(Data, Data)
      <3>1. Len(Data) \in Nat
        BY <1>2
      <3>2. Len(Data) <= Len(Data)
        BY <3>1
      <3> QED BY <1>2, <3>2, PrefixIs, Zenon
    <2> QED BY <1>3, <2>1, <2>2 DEF e
  <1>5. CASE k # n
    <2>1. k + 1 \in 1..n /\ (k + 1) - 1 = k /\ k + 1 \in 0..n
      BY <1>2, <1>5 DEF n, p
    <2>2. Placed(d, p, (k + 1) - 1)
      BY <2>1 DEF p
    <2>3. /\ ~LastTurn(d) => Placed(e, p, k + 1) /\ e.head > d.head
          /\ e.thrown = "none" => IsPrefix(e.decoded, Data)
          /\ e.thrown = "413" => Len(Data) > MaxBody
          /\ Len(d.buf) = m => ~LastTurn(d) \/ e.thrown = "413"
      <3> DEFINE j == k + 1
      <3>1. j \in 1..n /\ Placed(d, p, j - 1)
        BY <2>1, <2>2
      <3> HIDE DEF j
      <3>2. /\ ~LastTurn(d) => Placed(e, p, j) /\ e.head > d.head
            /\ e.thrown = "none" => IsPrefix(e.decoded, Data)
            /\ e.thrown = "413" => Len(Data) > MaxBody
            /\ Len(d.buf) = m => ~LastTurn(d) \/ e.thrown = "413"
        BY <1>1, <3>1, NextChunkTurn DEF n, m, e, p
      <3> QED BY <3>2 DEF j
    <2> QED BY <1>3, <2>1, <2>3 DEF e, p, n
  <1> QED BY <1>4, <1>5

LEMMA DecodeIInv ==
  ASSUME IInv, DecodeChunkedBody
  PROVE  IInv'
  <1> DEFINE q == request
             d == reader.decoder
             e == Turned(d)
             r == [reader EXCEPT !.decoder = e]
             done == [r EXCEPT !.body = @ \o e.decoded]
  <1>1. /\ call = "decode" /\ reader.s = "waitBody" /\ result = "again" /\ reader.body = <<>>
        /\ reader.isChunked /\ LinesFit(reader, q) /\ Sound(d)
    BY DEF DecodeChunkedBody, IInv, Stage, Reading, Decoding
  <1>2. q \in RequestSet /\ reader \in Readers /\ sent \in 0..Len(Wire(q))
    BY DEF IInv, TypeOK
  <1>3. /\ Valid /\ reader.method = q.method /\ reader.headers = q.headers
        /\ reader.length = IF SendsLength THEN DeclaredLength ELSE 0
        /\ SendsChunks
    BY <1>1 DEF IInv, Accepted
  <1>4. Posts /\ ~SendsLength
    BY <1>2, <1>3, OneFraming
  <1>5. /\ e \in Decoders /\ e.buf = d.buf
        /\ e.thrown = "none" => Len(e.decoded) <= MaxBody
        /\ ~LastTurn(d) => Sound(e)
    BY <1>1, SoundTurn
  <1>6. ASSUME Coded # {}
        PROVE  /\ Shows(d, q.payload) /\ Len(d.buf) = sent - HeadLen(q)
               /\ ~LastTurn(d) => \E k \in 0..Len(ThePieces) : Placed(e, ThePieces, k)
               /\ e.thrown = "none" => IsPrefix(e.decoded, Data)
               /\ e.thrown = "413" => Len(Data) > MaxBody
               /\ LastTurn(d) /\ sent = Len(Wire(q)) =>
                    \/ e.thrown = "413"
                    \/ e.thrown = "none" /\ e.decoded = Data /\ e.stat = "decodeComplete"
    <2>1. Shows(d, q.payload) /\ Len(d.buf) = sent - HeadLen(q)
      BY <1>1, <1>6 DEF IInv, Decoding
    <2>2. PICK k \in 0..Len(ThePieces) : Placed(d, ThePieces, k)
      BY <1>1, <1>6 DEF IInv, Decoding
    <2> HIDE DEF d, e
    <2>3. /\ ~LastTurn(d) => /\ k + 1 \in 0..Len(ThePieces)
                             /\ Placed(e, ThePieces, k + 1)
          /\ e.thrown = "none" => IsPrefix(e.decoded, Data)
          /\ e.thrown = "413" => Len(Data) > MaxBody
          /\ LastTurn(d) /\ sent = Len(Wire(q)) =>
               \/ e.thrown = "413"
               \/ e.thrown = "none" /\ e.decoded = Data /\ e.stat = "decodeComplete"
      BY <1>1, <1>2, <1>6, <2>1, <2>2, CodedTurn DEF e
    <2> QED BY <2>1, <2>3
  <1>7. /\ r \in Readers /\ r.s = "waitBody" /\ r.method = reader.method
        /\ r.headers = reader.headers /\ r.body = <<>> /\ r.decoder = e
        /\ r.length = reader.length /\ r.isChunked = reader.isChunked
    <2> HIDE DEF e
    <2> QED BY <1>1, <1>2, <1>5 DEF Readers
  <1> HIDE DEF d, e, r
  <1>8. ASSUME ~LastTurn(d), GoOn(r, "decode")
        PROVE  IInv'
    <2>1. /\ request' = request /\ sent' = sent /\ call' = "decode" /\ result' = "again"
          /\ reader' = r
      BY <1>1, <1>8 DEF GoOn
    <2>2. TypeOK'
      BY <1>2, <1>7, <2>1 DEF TypeOK, Calls, Results
    <2>3. Stage'
      BY <1>1, <1>7, <2>1 DEF Stage
    <2>4. Reading'
      BY <1>1, <1>7, <2>1 DEF Reading, LinesFit, BeforeLine
    <2>5. Waiting'
      BY <2>1 DEF Waiting, Waits
    <2>6. Accepted'
      BY <1>1, <1>3, <1>7, <2>1, RequestKept DEF Accepted
    <2>7. Decoding'
      <3>1. Coded' = Coded /\ ThePieces' = ThePieces
        BY <2>1, RequestKept
      <3>2. Coded # {} => /\ Shows(e, q.payload) /\ Len(e.buf) = sent - HeadLen(q)
                          /\ \E k \in 0..Len(ThePieces) : Placed(e, ThePieces, k)
        BY <1>5, <1>6, <1>8 DEF Shows
      <3> QED BY <1>5, <1>7, <1>8, <2>1, <3>1, <3>2 DEF Decoding
    <2>8. Done'
      BY <2>1, NotDone
    <2> QED BY <2>2, <2>3, <2>4, <2>5, <2>6, <2>7, <2>8 DEF IInv
  <1>9. ASSUME LastTurn(d), e.thrown = "none", Return(done, "complete")
        PROVE  IInv'
    <2>1. /\ request' = request /\ sent' = sent /\ call' = "none" /\ result' = "complete"
          /\ reader' = done
      BY <1>9 DEF Return
    <2>2. e.decoded \in Seq(Bytes)
      BY <1>5 DEF Decoders
    <2>3. <<>> \o e.decoded = e.decoded
      BY <2>2, ConcatEmptySeq
    <2>4. /\ done \in Readers /\ done.s = "waitBody" /\ done.method = reader.method
          /\ done.headers = reader.headers /\ done.body = e.decoded /\ done.decoder = e
          /\ done.length = reader.length /\ done.isChunked = reader.isChunked
      BY <1>7, <2>2, <2>3 DEF Readers
    <2> HIDE DEF done
    <2>5. TypeOK'
      BY <1>2, <2>1, <2>4 DEF TypeOK, Calls, Results
    <2>6. Stage' /\ Reading' /\ Waiting' /\ Decoding'
      BY <2>1, <2>4 DEF Stage, Reading, Waiting, Waits, Decoding
    <2>7. Accepted'
      BY <1>1, <1>3, <2>1, <2>4, RequestKept DEF Accepted
    <2>8. /\ Posts' /\ ~SendsLength' /\ Coded' = Coded /\ Data' = Data
      BY <1>4, <2>1, RequestKept
    <2>9. BodyIsRight' /\ RejectIsRight'
      BY <1>5, <1>9, <2>1, <2>4, <2>8 DEF BodyIsRight, RejectIsRight
    <2>10. ChunkedIsPrefix'
      BY <1>6, <1>9, <2>1, <2>4, <2>8 DEF ChunkedIsPrefix
    <2>11. WholeChunkedDecoded'
      <3>1. sent' = Len(Wire(request')) => sent = Len(Wire(q))
        BY <2>1
      <3>2. ASSUME Coded # {}, sent = Len(Wire(q))
            PROVE  /\ done.body = Data /\ done.decoder.stat = "decodeComplete"
                   /\ ~(Len(Data) > MaxBody)
        <4>1. e.decoded = Data /\ e.stat = "decodeComplete"
          BY <1>6, <1>9, <3>2
        <4>2. Len(Data) <= MaxBody /\ Len(Data) \in Nat
          BY <1>5, <1>9, <2>2, <4>1
        <4> QED BY <2>4, <4>1, <4>2, ChunkedBodyAssumption
      <3> QED BY <2>1, <2>8, <3>1, <3>2 DEF WholeChunkedDecoded
    <2> QED BY <2>5, <2>6, <2>7, <2>9, <2>10, <2>11 DEF IInv, Done
  <1>10. ASSUME LastTurn(d),
                \/ e.thrown = "413" /\ Return(r, "413")
                \/ e.thrown = "out_of_range" /\ Return(r, "aborted")
         PROVE  IInv'
    <2>1. /\ request' = request /\ sent' = sent /\ call' = "none" /\ reader' = r
          /\ \/ e.thrown = "413" /\ result' = "413"
             \/ e.thrown = "out_of_range" /\ result' = "aborted"
      BY <1>10 DEF Return
    <2>2. result' \in {"413", "aborted"}
      BY <2>1
    <2>3. TypeOK'
      BY <1>2, <1>7, <2>1, <2>2 DEF TypeOK, Calls, Results
    <2>4. Stage' /\ Reading' /\ Waiting' /\ Decoding'
      BY <2>1, <2>2 DEF Stage, Reading, Waiting, Waits, Decoding
    <2>5. Accepted'
      BY <1>1, <1>3, <1>7, <2>1, RequestKept DEF Accepted
    <2>6. BodyIsRight' /\ ChunkedIsPrefix'
      BY <2>2 DEF BodyIsRight, ChunkedIsPrefix
    <2>7. SendsChunks' /\ Coded' = Coded /\ Data' = Data
      BY <1>3, <2>1, RequestKept
    <2>8. RejectIsRight'
      BY <1>6, <2>1, <2>7 DEF RejectIsRight
    <2>9. WholeChunkedDecoded'
      BY <1>6, <1>10, <2>1, <2>7 DEF WholeChunkedDecoded
    <2> QED BY <2>3, <2>4, <2>5, <2>6, <2>8, <2>9 DEF IInv, Done
  <1> QED BY <1>8, <1>9, <1>10 DEF DecodeChunkedBody, d, e, r

LEMMA Inductive == IInv /\ [Next]_vars => IInv'
  <1> SUFFICES ASSUME IInv, [Next]_vars
               PROVE  IInv'
    OBVIOUS
  <1>1. CASE Receive
    BY <1>1, ReceiveIInv
  <1>2. CASE ReceiveNothing \/ ReceiveError
    BY <1>2, StopIInv
  <1>3. CASE RequestLine
    BY <1>3, RequestLineIInv
  <1>4. CASE HeaderLine
    BY <1>4, HeaderLineIInv
  <1>5. CASE Body
    BY <1>5, BodyIInv
  <1>6. CASE DecodeChunkedBody
    BY <1>6, DecodeIInv
  <1>7. CASE UNCHANGED vars
    <2>1. /\ request' = request /\ sent' = sent /\ reader' = reader
          /\ call' = call /\ result' = result
      BY <1>7 DEF vars
    <2>2. Arrived' = Arrived
      BY <2>1 DEF Arrived
    <2>3. TypeOK' /\ Stage' /\ Reading' /\ Waiting'
      BY <2>1, RequestKept DEF IInv, TypeOK, Stage, Reading, Waiting, Waits
    <2>4. Accepted' /\ Decoding'
      BY <2>1, RequestKept DEF IInv, Accepted, Decoding
    <2>5. Done'
      BY <2>1, <2>2, RequestKept DEF IInv, Done, BodyIsRight, RejectIsRight,
                                     WholeChunkedDecoded, ChunkedIsPrefix
    <2> QED BY <2>3, <2>4, <2>5 DEF IInv
  <1> QED BY <1>1, <1>2, <1>3, <1>4, <1>5, <1>6, <1>7 DEF Next

LEMMA Invariance == Spec => []IInv
  BY InitIInv, Inductive, PTL DEF Spec

\* What is parsed is the text of the request up to where the reader is.
LEMMA ParsedIs ==
  ASSUME request \in RequestSet, reader \in Readers, LinesFit(reader, request)
  PROVE  /\ Parsed \in Seq(Symbols) /\ Len(Parsed) = Pos(reader)
         /\ \A i \in 1..Pos(reader) : Parsed[i] = Wire(request)[i]
  <1> DEFINE q == request
             W == Wire(q)
             j == Len(reader.headers)
             ls == <<reader.method>> \o reader.headers
             t == Lines(ls)
  <1>1. CASE BeforeLine(reader)
    <2>1. Parsed = <<>> \o <<>>
      BY <1>1 DEF Parsed, BeforeLine
    <2>2. Parsed = <<>> /\ Len(<<>>) = 0 /\ <<>> \in Seq(Symbols)
      <3>1. <<>> \in Seq(Symbols)
        OBVIOUS
      <3> QED BY <2>1, <3>1, ConcatEmptySeq
    <2>3. Pos(reader) = 0
      BY <1>1 DEF Pos
    <2> QED BY <2>2, <2>3
  <1>2. CASE ~BeforeLine(reader)
    <2>1. /\ reader.method = q.method /\ q.method \in Methods
          /\ reader.headers \in Seq(Headers) /\ j \in Nat /\ j <= Len(q.headers)
          /\ Len(q.headers) \in Nat
          /\ \A i \in 1..j : reader.headers[i] = q.headers[i]
      BY <1>2, WireIs, PosIs DEF LinesFit
    <2>2. /\ <<reader.method>> \in Seq(Symbols) /\ Len(<<reader.method>>) = 1
          /\ <<reader.method>>[1] = q.method /\ reader.headers \in Seq(Symbols)
      BY <2>1, SymbolsAre
    <2>3. /\ ls \in Seq(Symbols) /\ Len(ls) = 1 + j
          /\ ls[1] = q.method /\ \A k \in 1..j : ls[1 + k] = q.headers[k]
      <3>1. /\ ls \in Seq(Symbols)
            /\ Len(ls) = Len(<<reader.method>>) + j
            /\ \A i \in 1..Len(<<reader.method>>) : ls[i] = <<reader.method>>[i]
            /\ \A k \in 1..j : ls[Len(<<reader.method>>) + k] = reader.headers[k]
        BY <2>2, TextsJoined, Zenon
      <3> HIDE DEF ls, j
      <3> QED BY <2>1, <2>2, <3>1
    <2>4. /\ t \in Seq(Symbols) /\ Len(t) = 3 * (1 + j)
          /\ \A k \in 0..(1 + j) - 1 : /\ t[3 * k + 1] = ls[k + 1]
                                      /\ t[3 * k + 2] = "cr" /\ t[3 * k + 3] = "lf"
      <3> HIDE DEF ls, j
      <3>1. /\ t \in Seq(Symbols) /\ Len(t) = 3 * Len(ls)
            /\ \A k \in 0..Len(ls) - 1 : /\ t[3 * k + 1] = ls[k + 1]
                                        /\ t[3 * k + 2] = "cr" /\ t[3 * k + 3] = "lf"
        BY <2>3, LinesAre
      <3> QED BY <2>3, <3>1
    <2> HIDE DEF ls, t, j, W
    <2>5. ASSUME NEW k \in 0..j
          PROVE  /\ t[3 * k + 1] = W[3 * k + 1]
                 /\ t[3 * k + 2] = W[3 * k + 2] /\ t[3 * k + 3] = W[3 * k + 3]
      <3>1. k \in 0..(1 + j) - 1 /\ k \in 0..Len(q.headers)
        BY <2>1
      <3>2. W[3 * k + 2] = "cr" /\ W[3 * k + 3] = "lf"
        BY <3>1, WireIs DEF W
      <3>3. ls[k + 1] = W[3 * k + 1]
        <4>1. CASE k = 0
          <5>1. W[1] = q.method /\ 3 * k + 1 = 1 /\ k + 1 = 1
            BY <4>1, WireIs DEF W
          <5> QED BY <2>3, <5>1
        <4>2. CASE k # 0
          <5>1. k \in 1..j /\ k \in 1..Len(q.headers) /\ k + 1 = 1 + k
            BY <2>1, <4>2
          <5>2. W[3 * k + 1] = q.headers[k]
            BY <5>1, WireIs DEF W
          <5> QED BY <2>3, <5>1, <5>2
        <4> QED BY <4>1, <4>2
      <3> QED BY <2>4, <3>1, <3>2, <3>3
    <2>6. ASSUME NEW i \in 1..3 * (1 + j)
          PROVE  t[i] = W[i]
      <3>1. PICK k \in 0..j : i \in {3 * k + 1, 3 * k + 2, 3 * k + 3}
        <4>1. (i - 1) \div 3 \in 0..j
          BY <2>1, <2>6
        <4>2. LET k == (i - 1) \div 3 IN i \in {3 * k + 1, 3 * k + 2, 3 * k + 3}
          BY <2>1, <2>6
        <4> QED BY <4>1, <4>2
      <3> QED BY <2>5, <3>1
    <2>7. CASE reader.s = "waitBody"
      <3>1. Parsed = t \o NL
        BY <1>2, <2>7 DEF Parsed, BeforeLine, t, ls
      <3>2. Pos(reader) = 3 * (1 + j) + 2 /\ HeadLen(q) = 3 * (1 + j) + 2
        <4>1. reader.headers = q.headers
          BY <2>7 DEF LinesFit
        <4>2. Pos(reader) = 3 * j + 5 /\ HeadLen(q) = 3 * j + 5
          BY <1>2, <2>7, <4>1 DEF Pos, HeadLen, j
        <4> QED BY <2>1, <4>2
      <3>3. W[3 * (1 + j) + 1] = "cr" /\ W[3 * (1 + j) + 2] = "lf"
        <4>1. W[HeadLen(q) - 1] = "cr" /\ W[HeadLen(q)] = "lf"
          BY WireIs DEF W
        <4>2. HeadLen(q) - 1 = 3 * (1 + j) + 1
          BY <2>1, <3>2
        <4> QED BY <3>2, <4>1, <4>2
      <3>4. /\ t \o NL \in Seq(Symbols) /\ Len(t \o NL) = Len(t) + Len(NL)
            /\ \A i \in 1..Len(t) : (t \o NL)[i] = t[i]
            /\ \A i \in 1..Len(NL) : (t \o NL)[Len(t) + i] = NL[i]
        BY <2>4, SymbolsAre, TextsJoined, Zenon
      <3>5. /\ Parsed \in Seq(Symbols) /\ Len(Parsed) = 3 * (1 + j) + 2
            /\ \A i \in 1..3 * (1 + j) : Parsed[i] = W[i]
            /\ Parsed[3 * (1 + j) + 1] = "cr" /\ Parsed[3 * (1 + j) + 2] = "lf"
        <4> DEFINE l == Len(t)
                   u == t \o NL
        <4>1. /\ u \in Seq(Symbols) /\ Len(u) = l + 2
              /\ \A i \in 1..l : u[i] = t[i]
              /\ \A i \in 1..2 : u[l + i] = NL[i]
          BY <3>4, SymbolsAre
        <4>2. l = 3 * (1 + j)
          BY <2>4
        <4> HIDE DEF u, l
        <4>3. u[l + 1] = "cr" /\ u[l + 2] = "lf"
          BY <4>1, SymbolsAre
        <4> QED BY <2>6, <3>1, <4>1, <4>2, <4>3 DEF u
      <3>6. \A i \in 1..3 * (1 + j) + 2 :
              i \in 1..3 * (1 + j) \/ i = 3 * (1 + j) + 1 \/ i = 3 * (1 + j) + 2
        BY <2>1
      <3>7. \A i \in 1..3 * (1 + j) + 2 : Parsed[i] = W[i]
        BY <3>3, <3>5, <3>6
      <3> QED BY <3>2, <3>5, <3>7 DEF W
    <2>8. CASE reader.s # "waitBody"
      <3>1. Parsed = t \o <<>>
        BY <1>2, <2>8 DEF Parsed, BeforeLine, t, ls
      <3>2. Parsed = t
        BY <2>4, <3>1, ConcatEmptySeq
      <3>3. Pos(reader) = 3 * j + 3
        BY <1>2, <2>8 DEF Pos, j
      <3>4. Pos(reader) = 3 * (1 + j)
        BY <2>1, <3>3
      <3> QED BY <2>4, <2>6, <3>2, <3>4 DEF W
    <2> QED BY <2>7, <2>8
  <1> QED BY <1>1, <1>2

LEMMA TextKept == IInv => NothingLost
  <1> SUFFICES ASSUME IInv, result = "again", call # "decode", ~HasNul(Arrived)
               PROVE  Parsed \o reader.buf = Arrived
    BY DEF NothingLost
  <1> DEFINE q == request
             W == Wire(q)
             P == Pos(reader)
             L == Len(reader.buf)
             u == Parsed \o reader.buf
             a == SubSeq(W, 1, sent)
  <1>1. q \in RequestSet /\ reader \in Readers /\ sent \in 0..Len(W)
    BY DEF IInv, TypeOK
  <1>2. LinesFit(reader, q) /\ BufFits(reader, q, sent)
    BY DEF IInv, Reading
  <1>3. /\ P + L = sent /\ \A i \in 1..L : reader.buf[i] = W[P + i]
    BY <1>2 DEF BufFits, Arrived
  <1>4. /\ Parsed \in Seq(Symbols) /\ Len(Parsed) = P
        /\ \A i \in 1..P : Parsed[i] = W[i]
    BY <1>1, <1>2, ParsedIs
  <1>5. P \in Nat /\ L \in Nat /\ reader.buf \in Seq(Symbols) /\ W \in Seq(Symbols)
    BY <1>1, <1>2, PosIs, WireIs
  <1>6. /\ u \in Seq(Symbols) /\ Len(u) = P + L
        /\ \A i \in 1..P : u[i] = W[i]
        /\ \A i \in 1..L : u[P + i] = W[P + i]
    <2>1. /\ u \in Seq(Symbols) /\ Len(u) = Len(Parsed) + L
          /\ \A i \in 1..Len(Parsed) : u[i] = Parsed[i]
          /\ \A i \in 1..L : u[Len(Parsed) + i] = reader.buf[i]
      BY <1>4, <1>5, TextsJoined, Zenon
    <2> HIDE DEF u, P, L, W
    <2> QED BY <1>3, <1>4, <2>1
  <1>7. a \in Seq(Symbols) /\ Len(a) = sent /\ \A i \in 1..sent : a[i] = W[i]
    <2> HIDE DEF W
    <2> QED BY <1>1, <1>5 DEF a
  <1> HIDE DEF u, a, P, L, W
  <1>8. ASSUME NEW i \in 1..sent
        PROVE  u[i] = W[i]
    <2>1. i \in 1..P \/ \E j \in 1..L : i = P + j
      <3>1. CASE i <= P
        BY <1>5, <3>1
      <3>2. CASE ~(i <= P)
        <4>1. i - P \in 1..L /\ i = P + (i - P)
          BY <1>3, <1>5, <3>2
        <4> QED BY <4>1
      <3> QED BY <3>1, <3>2
    <2> QED BY <1>6, <2>1
  <1>9. \A i \in 1..Len(u) : u[i] = a[i]
    BY <1>3, <1>6, <1>7, <1>8
  <1>10. u = a
    BY <1>3, <1>6, <1>7, <1>9, SeqEqual
  <1>11. a = Arrived
    BY DEF a, W, Arrived
  <1> QED BY <1>10, <1>11 DEF u

LEMMA WaitsRightly == IInv => WaitsOnlyForMore
  <1> SUFFICES ASSUME IInv
               PROVE  WaitsOnlyForMore
    OBVIOUS
  <1> DEFINE q == request
             H == HeadLen(q)
             m == Len(q.payload)
  <1>1. q \in RequestSet /\ reader \in Readers /\ sent \in 0..Len(Wire(q))
    BY DEF IInv, TypeOK
  <1>2. H \in Nat /\ m \in Nat /\ Len(Wire(q)) = H + m
    <2>1. m \in Nat /\ Len(Wire(q)) = H + m /\ Len(q.headers) \in Nat
      BY <1>1, WireIs
    <2>2. H \in Nat
      BY <2>1 DEF HeadLen
    <2> QED BY <2>1, <2>2
  <1>3. ASSUME Waits, sent = Len(Wire(q)), ~HasNul(q.payload)
        PROVE  SendsLength /\ m < DeclaredLength
    <2>1. ~(sent < H)
      BY <1>2, <1>3
    <2>2. /\ reader.s = "waitBody" /\ Posts /\ ~reader.isChunked
          /\ Len(reader.buf) < reader.length
      BY <1>3, <2>1 DEF IInv, Waiting
    <2>3. /\ LinesFit(reader, q) /\ BufFits(reader, q, sent)
      BY <1>3 DEF Waits, IInv, Reading
    <2>4. ~HasNul(Arrived)
      <3>1. \A i \in 1..m : q.payload[i] # "nul"
        <4>1. DOMAIN q.payload = 1..m
          BY <1>1, WireIs
        <4> QED BY <1>3, <4>1 DEF HasNul
      <3> QED BY <1>1, <3>1, PlainArrives
    <2>5. Len(reader.buf) = m
      <3> DEFINE b == Len(reader.buf)
      <3>1. sent \in Nat /\ sent <= Len(Wire(q))
        BY <1>2, <1>3
      <3>2. b = sent - H
        BY <1>1, <2>2, <2>3, <2>4, <3>1, BodyIs DEF Arrived
      <3> HIDE DEF b, H, m
      <3>3. b = m
        BY <1>2, <1>3, <3>2
      <3> QED BY <3>3 DEF b
    <2>6. Valid /\ (reader.isChunked <=> SendsChunks)
          /\ reader.length = IF SendsLength THEN DeclaredLength ELSE 0
      BY <2>2 DEF IInv, Accepted
    <2>7. SendsLength
      <3> DEFINE x == Cardinality(HeadersIn({"chunked"}))
                 y == Cardinality(HeadersIn(LengthHeaders))
      <3>1. /\ x \in Nat /\ y \in Nat
            /\ x = 0 <=> HeadersIn({"chunked"}) = {}
            /\ y = 0 <=> HeadersIn(LengthHeaders) = {}
        BY <1>1, HeadersAre
      <3>2. HeadersIn({"chunked"}) = {}
        BY <2>2, <2>6 DEF SendsChunks
      <3>3. x + y = 1
        BY <1>1, <2>2, <2>6, FramingIs DEF Valid
      <3> HIDE DEF x, y
      <3>4. y # 0
        BY <3>1, <3>2, <3>3
      <3> QED BY <2>2, <3>1, <3>4 DEF SendsLength
    <2> QED BY <2>2, <2>5, <2>6, <2>7
  <1>4. ASSUME Circles, Coded # {}
        PROVE  FALSE
    <2> DEFINE d == reader.decoder
    <2>1. /\ call = "decode" /\ ~LastTurn(d) /\ Turned(d) = d
      BY <1>4 DEF Circles
    <2>2. /\ Sound(d) /\ Shows(d, q.payload) /\ Len(d.buf) = sent - HeadLen(q)
      BY <1>4, <2>1 DEF IInv, Decoding
    <2>3. PICK k \in 0..Len(ThePieces) : Placed(d, ThePieces, k)
      BY <1>4, <2>1 DEF IInv, Decoding
    <2> HIDE DEF d
    <2>4. Turned(d).head > d.head
      BY <1>1, <1>4, <2>1, <2>2, <2>3, CodedTurn
    <2>5. d.head \in Int
      BY <2>2 DEF Sound, Decoders
    <2>6. d.head > d.head
      BY <2>1, <2>4
    <2> QED BY <2>5, <2>6
  <1> QED BY <1>3, <1>4 DEF WaitsOnlyForMore

-----------------------------------------------------------------------------
(* The results.                                                              *)

\* The reader keeps its variables in their sets, however a request is cut
\* (ReceiveHttpRequest::ReadHttpRequest).
THEOREM ReaderTypeCorrect == Spec => []TypeOK
  <1>1. IInv => TypeOK
    BY DEF IInv
  <1> QED BY <1>1, Invariance, PTL

\* What was parsed and what is in the buffer make up the text that arrived
\* (ReceiveHttpRequest.cpp, TrimByCRLF and the early returns).
THEOREM TextIsKept == Spec => []NothingLost
  BY TextKept, Invariance, PTL

\* The reader waits only for what the client has not sent, and the decoder
\* turns in a circle only in a malformed body.
THEOREM NeverWaitsInVain == Spec => []WaitsOnlyForMore
  BY WaitsRightly, Invariance, PTL

\* A request is completed or refused for what it says, never for how it was
\* cut.
THEOREM CutsDoNotMatter == Spec => []OutcomeIsRight
  <1>1. IInv => OutcomeIsRight
    <2> SUFFICES ASSUME IInv
                 PROVE  CompleteIsRight /\ RejectIsRight
      BY DEF OutcomeIsRight
    <2>1. BodyIsRight /\ RejectIsRight
      BY DEF IInv, Done
    <2>2. ASSUME result = "complete"
          PROVE  /\ Valid /\ reader.method = request.method
                 /\ reader.headers = request.headers
      <3>1. reader.s \in {"waitBody", "readComplete"}
        BY <2>2 DEF IInv, Stage
      <3> QED BY <3>1 DEF IInv, Accepted
    <2>3. CompleteIsRight
      BY <2>1, <2>2 DEF CompleteIsRight, BodyIsRight
    <2> QED BY <2>1, <2>3
  <1> QED BY <1>1, Invariance, PTL

\* Framing never gets into the body of a well-formed chunked request
\* (ChunkedBody::DecodeChunkedBody).
THEOREM FramingStaysOut == Spec => []ChunkedIsPrefix
  <1>1. IInv => ChunkedIsPrefix
    BY DEF IInv, Done
  <1> QED BY <1>1, Invariance, PTL

\* A well-formed chunked body that is seen as a whole is decoded completely.
THEOREM WholeIsDecoded == Spec => []WholeChunkedDecoded
  <1>1. IInv => WholeChunkedDecoded
    BY DEF IInv, Done
  <1> QED BY <1>1, Invariance, PTL

=============================================================================
