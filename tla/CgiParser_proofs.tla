-------------------------- MODULE CgiParser_proofs --------------------------
(***************************************************************************)
(* Proofs about the reading of a script's output, for every output, every  *)
(* way to cut it, every limit and every size of a read.                    *)
(***************************************************************************)
EXTENDS CgiParser, SequenceTheorems, FiniteSetTheorems, WellFoundedInduction, TLAPS

-----------------------------------------------------------------------------
(* Natural numbers and sequences.                                            *)

LEMMA NatLeast ==
  ASSUME NEW T, T \subseteq Nat, T # {}
  PROVE  \E n \in T : \A m \in T : n <= m
  <1>1. PICK x \in T : \A y \in T : <<y, x>> \notin OpToRel(<, Nat)
    BY WFMin, NatLessThanWellFounded
  <1>2. \A y \in T : ~(y < x)
    BY <1>1 DEF OpToRel
  <1>3. \A y \in T : x <= y
    BY <1>2
  <1> QED BY <1>3

LEMMA MinIs ==
  ASSUME NEW T, T \subseteq Nat, T # {}
  PROVE  Min(T) \in T /\ \A m \in T : Min(T) <= m
  BY NatLeast DEF Min

LEMMA TextsJoined ==
  \A s, t \in Seq(Symbols) :
    /\ s \o t \in Seq(Symbols)
    /\ Len(s \o t) = Len(s) + Len(t)
    /\ \A i \in 1..Len(s) : (s \o t)[i] = s[i]
    /\ \A j \in 1..Len(t) : (s \o t)[Len(s) + j] = t[j]
  <1> TAKE s, t \in Seq(Symbols)
  <1>1. /\ s \o t \in Seq(Symbols)
        /\ Len(s \o t) = Len(s) + Len(t)
        /\ \A i \in 1..Len(s) + Len(t) : (s \o t)[i] = IF i <= Len(s) THEN s[i] ELSE t[i - Len(s)]
    BY ConcatProperties
  <1>0. Len(s) \in Nat /\ Len(t) \in Nat
    OBVIOUS
  <1>2. \A i \in 1..Len(s) : (s \o t)[i] = s[i]
    BY <1>0, <1>1
  <1>3. ASSUME NEW j \in 1..Len(t)
        PROVE  (s \o t)[Len(s) + j] = t[j]
    <2>1. Len(s) + j \in 1..Len(s) + Len(t) /\ ~(Len(s) + j <= Len(s)) /\ (Len(s) + j) - Len(s) = j
      BY <1>0
    <2> QED BY <1>1, <2>1
  <1> QED BY <1>1, <1>2, <1>3

LEMMA PartsAre ==
  \A t \in Seq(Symbols) : \A a \in Nat \ {0} : \A b \in 0..Len(t) :
    /\ SubSeq(t, a, b) \in Seq(Symbols)
    /\ Len(SubSeq(t, a, b)) = IF a <= b THEN b - a + 1 ELSE 0
    /\ \A i \in 1..b - a + 1 : SubSeq(t, a, b)[i] = t[a + i - 1]
  OBVIOUS

-----------------------------------------------------------------------------
(* The output of a script.                                                   *)

\* The length of its header, by the line end it uses.
HeadLen(s) == IF s.newLine = <<"lf">> THEN 2 * Len(s.lines) + 1 ELSE 3 * Len(s.lines) + 2

LEMMA SymbolsDiffer ==
  /\ HeaderLines \cap Characters = {}
  /\ \A h \in HeaderLines : h \notin {"cr", "lf", "nul", "x"}
  BY DEF HeaderLines, Characters, Location, Status

LEMMA HeadIs ==
  ASSUME NEW s \in ScriptSet
  PROVE  /\ HeadOf(s) \in Seq(Symbols)
         /\ HeadLen(s) \in Nat /\ Len(HeadOf(s)) = HeadLen(s)
         /\ s.newLine = <<"lf">> =>
              /\ \A k \in 1..Len(s.lines) : /\ HeadOf(s)[2 * k - 1] = s.lines[k]
                                            /\ HeadOf(s)[2 * k] = "lf"
              /\ HeadOf(s)[2 * Len(s.lines) + 1] = "lf"
         /\ s.newLine = <<"cr", "lf">> =>
              /\ \A k \in 1..Len(s.lines) : /\ HeadOf(s)[3 * k - 2] = s.lines[k]
                                            /\ HeadOf(s)[3 * k - 1] = "cr"
                                            /\ HeadOf(s)[3 * k] = "lf"
              /\ HeadOf(s)[3 * Len(s.lines) + 1] = "cr"
              /\ HeadOf(s)[3 * Len(s.lines) + 2] = "lf"
  <1> DEFINE n == Len(s.lines)
             nl == s.newLine
             width == 1 + Len(nl)
             first == [i \in 1..width * n |->
                         IF i % width = 1 THEN s.lines[i \div width + 1] ELSE nl[(i - 1) % width]]
  <1>0. n \in Nat /\ \A k \in 1..n : s.lines[k] \in Symbols
    BY DEF ScriptSet, Symbols
  <1>1. HeadOf(s) = first \o nl
    BY DEF HeadOf
  <1>2. CASE nl = <<"lf">>
    <2>1. width = 2 /\ Len(nl) = 1 /\ nl[1] = "lf" /\ "lf" \in Symbols /\ nl \in Seq(Symbols)
      BY <1>2 DEF Symbols, Characters
    <2>2. first = [i \in 1..2 * n |->
                     IF i % 2 = 1 THEN s.lines[i \div 2 + 1] ELSE nl[(i - 1) % 2]]
      BY <2>1
    <2> HIDE DEF n, nl, width, first
    <2>3. \A k \in 1..n : first[2 * k - 1] = s.lines[k] /\ first[2 * k] = "lf"
      <3> TAKE k \in 1..n
      <3>1. /\ 2 * k - 1 \in 1..2 * n /\ (2 * k - 1) % 2 = 1 /\ (2 * k - 1) \div 2 + 1 = k
            /\ 2 * k \in 1..2 * n /\ (2 * k) % 2 = 0 /\ (2 * k - 1) % 2 = 1
        BY <1>0
      <3> QED BY <2>1, <2>2, <3>1
    <2>4. \A i \in 1..2 * n : \E k \in 1..n : i = 2 * k - 1 \/ i = 2 * k
      <3> TAKE i \in 1..2 * n
      <3>1. (i + 1) \div 2 \in 1..n /\ (i = 2 * ((i + 1) \div 2) - 1 \/ i = 2 * ((i + 1) \div 2))
        BY <1>0
      <3> QED BY <3>1
    <2>5. first \in Seq(Symbols) /\ Len(first) = 2 * n
      <3>1. \A i \in 1..2 * n : first[i] \in Symbols
        BY <1>0, <2>1, <2>3, <2>4
      <3>2. 2 * n \in Nat
        BY <1>0
      <3>3. first \in [1..2 * n -> Symbols]
        BY <2>2, <3>1
      <3> QED BY <3>2, <3>3
    <2>6. /\ HeadOf(s) \in Seq(Symbols)
          /\ Len(HeadOf(s)) = 2 * n + 1
          /\ \A i \in 1..2 * n : HeadOf(s)[i] = first[i]
          /\ HeadOf(s)[2 * n + 1] = nl[1]
      <3>1. /\ first \o nl \in Seq(Symbols)
            /\ Len(first \o nl) = Len(first) + Len(nl)
            /\ \A i \in 1..Len(first) : (first \o nl)[i] = first[i]
            /\ \A j \in 1..Len(nl) : (first \o nl)[Len(first) + j] = nl[j]
        BY <2>1, <2>5, TextsJoined
      <3> QED BY <1>1, <2>1, <2>5, <3>1
    <2>7. \A k \in 1..n : HeadOf(s)[2 * k - 1] = s.lines[k] /\ HeadOf(s)[2 * k] = "lf"
      <3> TAKE k \in 1..n
      <3>1. 2 * k - 1 \in 1..2 * n /\ 2 * k \in 1..2 * n
        BY <1>0
      <3> QED BY <2>3, <2>6, <3>1
    <2>8. HeadLen(s) = 2 * n + 1 /\ HeadLen(s) \in Nat
      BY <1>0, <1>2 DEF HeadLen, n, nl
    <2>9. nl # <<"cr", "lf">>
      <3>1. Len(<<"cr", "lf">>) = 2
        OBVIOUS
      <3> QED BY <2>1, <3>1
    <2> QED BY <1>2, <2>1, <2>6, <2>7, <2>8, <2>9 DEF n, nl
  <1>3. CASE nl = <<"cr", "lf">>
    <2>1. /\ width = 3 /\ Len(nl) = 2 /\ nl[1] = "cr" /\ nl[2] = "lf"
          /\ "lf" \in Symbols /\ "cr" \in Symbols /\ nl \in Seq(Symbols)
      BY <1>3 DEF Symbols, Characters
    <2>2. first = [i \in 1..3 * n |->
                     IF i % 3 = 1 THEN s.lines[i \div 3 + 1] ELSE nl[(i - 1) % 3]]
      BY <2>1
    <2> HIDE DEF n, nl, width, first
    <2>3. \A k \in 1..n : /\ first[3 * k - 2] = s.lines[k]
                          /\ first[3 * k - 1] = "cr"
                          /\ first[3 * k] = "lf"
      <3> TAKE k \in 1..n
      <3>1. /\ 3 * k - 2 \in 1..3 * n /\ (3 * k - 2) % 3 = 1 /\ (3 * k - 2) \div 3 + 1 = k
            /\ 3 * k - 1 \in 1..3 * n /\ (3 * k - 1) % 3 = 2 /\ ((3 * k - 1) - 1) % 3 = 1
            /\ 3 * k \in 1..3 * n /\ (3 * k) % 3 = 0 /\ (3 * k - 1) % 3 = 2
        BY <1>0
      <3> QED BY <2>1, <2>2, <3>1
    <2>4. \A i \in 1..3 * n : \E k \in 1..n : i = 3 * k - 2 \/ i = 3 * k - 1 \/ i = 3 * k
      <3> TAKE i \in 1..3 * n
      <3> DEFINE k == (i + 2) \div 3
      <3>1. k \in 1..n /\ (i = 3 * k - 2 \/ i = 3 * k - 1 \/ i = 3 * k)
        BY <1>0
      <3> QED BY <3>1
    <2>5. first \in Seq(Symbols) /\ Len(first) = 3 * n
      <3>1. \A i \in 1..3 * n : first[i] \in Symbols
        <4> TAKE i \in 1..3 * n
        <4>1. PICK k \in 1..n : i = 3 * k - 2 \/ i = 3 * k - 1 \/ i = 3 * k
          BY <2>4
        <4>2. first[3 * k - 2] \in Symbols
          BY <1>0, <2>3
        <4>3. first[3 * k - 1] \in Symbols /\ first[3 * k] \in Symbols
          BY <2>1, <2>3
        <4> QED BY <4>1, <4>2, <4>3
      <3>2. 3 * n \in Nat
        BY <1>0
      <3>3. first \in [1..3 * n -> Symbols]
        BY <2>2, <3>1
      <3> QED BY <3>2, <3>3
    <2>6. /\ HeadOf(s) \in Seq(Symbols)
          /\ Len(HeadOf(s)) = 3 * n + 2
          /\ \A i \in 1..3 * n : HeadOf(s)[i] = first[i]
          /\ HeadOf(s)[3 * n + 1] = nl[1]
          /\ HeadOf(s)[3 * n + 2] = nl[2]
      <3>1. /\ first \o nl \in Seq(Symbols)
            /\ Len(first \o nl) = Len(first) + Len(nl)
            /\ \A i \in 1..Len(first) : (first \o nl)[i] = first[i]
            /\ \A j \in 1..Len(nl) : (first \o nl)[Len(first) + j] = nl[j]
        BY <2>1, <2>5, TextsJoined
      <3> QED BY <1>1, <2>1, <2>5, <3>1
    <2>7. \A k \in 1..n : /\ HeadOf(s)[3 * k - 2] = s.lines[k]
                          /\ HeadOf(s)[3 * k - 1] = "cr"
                          /\ HeadOf(s)[3 * k] = "lf"
      <3> TAKE k \in 1..n
      <3>1. 3 * k - 2 \in 1..3 * n /\ 3 * k - 1 \in 1..3 * n /\ 3 * k \in 1..3 * n
        BY <1>0
      <3> QED BY <2>3, <2>6, <3>1
    <2>9. nl # <<"lf">>
      <3>1. Len(<<"lf">>) = 1
        OBVIOUS
      <3> QED BY <2>1, <3>1
    <2>8. HeadLen(s) = 3 * n + 2 /\ HeadLen(s) \in Nat
      BY <1>0, <2>9 DEF HeadLen, n, nl
    <2> QED BY <1>3, <2>1, <2>6, <2>7, <2>8, <2>9 DEF n, nl
  <1> QED BY <1>2, <1>3 DEF ScriptSet, LineEnds

LEMMA OutputIs ==
  ASSUME NEW s \in ScriptSet
  PROVE  /\ Output(s) \in Seq(Symbols)
         /\ Len(s.body) \in Nat /\ Len(Output(s)) = HeadLen(s) + Len(s.body)
         /\ \A i \in 1..HeadLen(s) : Output(s)[i] = HeadOf(s)[i]
         /\ \A j \in 1..Len(s.body) : /\ Output(s)[HeadLen(s) + j] = s.body[j]
                                      /\ s.body[j] \in Characters
  <1>1. s.body \in Seq(Characters)
    BY DEF ScriptSet
  <1>2. s.body \in Seq(Symbols) /\ \A j \in 1..Len(s.body) : s.body[j] \in Characters
    BY <1>1 DEF Symbols
  <1>3. HeadOf(s) \in Seq(Symbols) /\ Len(HeadOf(s)) = HeadLen(s)
    BY HeadIs
  <1>4. /\ HeadOf(s) \o s.body \in Seq(Symbols)
        /\ Len(HeadOf(s) \o s.body) = Len(HeadOf(s)) + Len(s.body)
        /\ \A i \in 1..Len(HeadOf(s)) : (HeadOf(s) \o s.body)[i] = HeadOf(s)[i]
        /\ \A j \in 1..Len(s.body) : (HeadOf(s) \o s.body)[Len(HeadOf(s)) + j] = s.body[j]
    BY <1>2, <1>3, TextsJoined
  <1>5. Len(s.body) \in Nat
    BY <1>1
  <1> QED BY <1>2, <1>3, <1>4, <1>5 DEF Output

LEMMA SameTexts ==
  \A s, t \in Seq(Symbols) : Len(s) = Len(t) /\ (\A i \in 1..Len(s) : s[i] = t[i]) => s = t
  BY SeqEqual

LEMMA BlankLineIs ==
  /\ <<"lf">> \o <<"lf">> \in Seq(Symbols) /\ Len(<<"lf">> \o <<"lf">>) = 2
  /\ \A i \in 1..2 : (<<"lf">> \o <<"lf">>)[i] = "lf"
  /\ <<"cr", "lf">> \o <<"cr", "lf">> \in Seq(Symbols)
  /\ Len(<<"cr", "lf">> \o <<"cr", "lf">>) = 4
  /\ \A i \in 1..4 : (<<"cr", "lf">> \o <<"cr", "lf">>)[i] = IF i \in {1, 3} THEN "cr" ELSE "lf"
  <1> DEFINE a == <<"lf">>
             b == <<"cr", "lf">>
  <1>1. a \in Seq(Symbols) /\ Len(a) = 1 /\ a[1] = "lf"
    BY DEF Symbols, Characters
  <1>2. b \in Seq(Symbols) /\ Len(b) = 2 /\ b[1] = "cr" /\ b[2] = "lf"
    BY DEF Symbols, Characters
  <1> HIDE DEF a, b
  <1>3. /\ a \o a \in Seq(Symbols) /\ Len(a \o a) = Len(a) + Len(a)
        /\ \A i \in 1..Len(a) : (a \o a)[i] = a[i]
        /\ \A j \in 1..Len(a) : (a \o a)[Len(a) + j] = a[j]
    BY <1>1, TextsJoined
  <1>4. /\ b \o b \in Seq(Symbols) /\ Len(b \o b) = Len(b) + Len(b)
        /\ \A i \in 1..Len(b) : (b \o b)[i] = b[i]
        /\ \A j \in 1..Len(b) : (b \o b)[Len(b) + j] = b[j]
    BY <1>2, TextsJoined
  <1>5. Len(a \o a) = 2 /\ (a \o a)[1] = "lf" /\ (a \o a)[1 + 1] = "lf"
    BY <1>1, <1>3
  <1>6. /\ Len(b \o b) = 4 /\ (b \o b)[1] = "cr" /\ (b \o b)[2] = "lf"
        /\ (b \o b)[2 + 1] = "cr" /\ (b \o b)[2 + 2] = "lf"
    BY <1>2, <1>4
  <1>7. \A i \in 1..2 : (a \o a)[i] = "lf"
    BY <1>5
  <1>8. \A i \in 1..4 : (b \o b)[i] = IF i \in {1, 3} THEN "cr" ELSE "lf"
    BY <1>6
  <1> QED BY <1>3, <1>4, <1>5, <1>6, <1>7, <1>8 DEF a, b

LEMMA BlankLinesAre ==
  \A t \in Seq(Symbols) :
    /\ BlankLines(t, <<"lf">>) = {i \in 1..Len(t) - 1 : t[i] = "lf" /\ t[i + 1] = "lf"}
    /\ BlankLines(t, <<"cr", "lf">>) =
         {i \in 1..Len(t) - 3 : /\ t[i] = "cr" /\ t[i + 1] = "lf"
                                /\ t[i + 2] = "cr" /\ t[i + 3] = "lf"}
  <1> TAKE t \in Seq(Symbols)
  <1>0. Len(t) \in Nat
    OBVIOUS
  <1> DEFINE a == <<"lf">> \o <<"lf">>
             b == <<"cr", "lf">> \o <<"cr", "lf">>
  <1>1. a \in Seq(Symbols) /\ Len(a) = 2 /\ \A i \in 1..2 : a[i] = "lf"
    BY BlankLineIs
  <1>2. /\ b \in Seq(Symbols) /\ Len(b) = 4
        /\ \A i \in 1..4 : b[i] = IF i \in {1, 3} THEN "cr" ELSE "lf"
    BY BlankLineIs
  <1>3. /\ BlankLines(t, <<"lf">>) =
             {i \in 1..(Len(t) - Len(a) + 1) : SubSeq(t, i, i + Len(a) - 1) = a}
        /\ BlankLines(t, <<"cr", "lf">>) =
             {i \in 1..(Len(t) - Len(b) + 1) : SubSeq(t, i, i + Len(b) - 1) = b}
    BY Zenon DEF BlankLines
  <1> HIDE DEF a, b
  <1>5. ASSUME NEW i \in 1..Len(t) - 1
        PROVE  SubSeq(t, i, i + 1) = a <=> t[i] = "lf" /\ t[i + 1] = "lf"
    <2> DEFINE u == SubSeq(t, i, i + 1)
    <2>1. u \in Seq(Symbols) /\ Len(u) = 2 /\ u[1] = t[i] /\ u[2] = t[i + 1]
      <3>1. i \in Nat \ {0} /\ i + 1 \in 0..Len(t) /\ i + 1 - i + 1 = 2 /\ i <= i + 1
            /\ i + 1 - 1 = i /\ i + 2 - 1 = i + 1 /\ 1 \in 1..2 /\ 2 \in 1..2
        BY <1>0
      <3> QED BY <3>1, PartsAre
    <2> HIDE DEF u
    <2>2. u[1] = "lf" /\ u[2] = "lf" => \A j \in 1..2 : u[j] = a[j]
      BY <1>1
    <2>3. u[1] = "lf" /\ u[2] = "lf" => u = a
      BY <1>1, <2>1, <2>2, SameTexts
    <2>4. u = a => u[1] = "lf" /\ u[2] = "lf"
      BY <1>1
    <2> QED BY <2>1, <2>3, <2>4 DEF u
  <1>6. ASSUME NEW i \in 1..Len(t) - 3
        PROVE  SubSeq(t, i, i + 3) = b
                 <=> t[i] = "cr" /\ t[i + 1] = "lf" /\ t[i + 2] = "cr" /\ t[i + 3] = "lf"
    <2> DEFINE u == SubSeq(t, i, i + 3)
    <2>1. /\ u \in Seq(Symbols) /\ Len(u) = 4
          /\ u[1] = t[i] /\ u[2] = t[i + 1] /\ u[3] = t[i + 2] /\ u[4] = t[i + 3]
      <3>1. /\ i \in Nat \ {0} /\ i + 3 \in 0..Len(t) /\ i + 3 - i + 1 = 4 /\ i <= i + 3
            /\ i + 1 - 1 = i /\ i + 2 - 1 = i + 1 /\ i + 3 - 1 = i + 2 /\ i + 4 - 1 = i + 3
        BY <1>0
      <3>2. u \in Seq(Symbols) /\ Len(u) = 4 /\ \A j \in 1..4 : u[j] = t[i + j - 1]
        BY <3>1, PartsAre
      <3> HIDE DEF u
      <3> QED BY <3>1, <3>2
    <2> HIDE DEF u
    <2>2. u[1] = "cr" /\ u[2] = "lf" /\ u[3] = "cr" /\ u[4] = "lf" => \A j \in 1..4 : u[j] = b[j]
      BY <1>2
    <2>3. u[1] = "cr" /\ u[2] = "lf" /\ u[3] = "cr" /\ u[4] = "lf" => u = b
      BY <1>2, <2>1, <2>2, SameTexts
    <2>4. u = b => u[1] = "cr" /\ u[2] = "lf" /\ u[3] = "cr" /\ u[4] = "lf"
      BY <1>2
    <2> QED BY <2>1, <2>3, <2>4 DEF u
  <1>7. /\ Len(t) - Len(a) + 1 = Len(t) - 1 /\ Len(t) - Len(b) + 1 = Len(t) - 3
        /\ \A i \in Int : i + Len(a) - 1 = i + 1 /\ i + Len(b) - 1 = i + 3
    BY <1>0, <1>1, <1>2
  <1> DEFINE short == BlankLines(t, <<"lf">>)
             long == BlankLines(t, <<"cr", "lf">>)
  <1>12. /\ short = {i \in 1..Len(t) - 1 : SubSeq(t, i, i + Len(a) - 1) = a}
         /\ long = {i \in 1..Len(t) - 3 : SubSeq(t, i, i + Len(b) - 1) = b}
    <2>1. 1..(Len(t) - Len(a) + 1) = 1..Len(t) - 1 /\ 1..(Len(t) - Len(b) + 1) = 1..Len(t) - 3
      BY <1>7
    <2> QED BY <1>3, <2>1
  <1> HIDE DEF short, long
  <1>8. \A i : i \in short <=> i \in 1..Len(t) - 1 /\ SubSeq(t, i, i + 1) = a
    <2>1. \A i \in 1..Len(t) - 1 : i + Len(a) - 1 = i + 1
      BY <1>0, <1>7
    <2> QED BY <1>12, <2>1
  <1>9. \A i : i \in long <=> i \in 1..Len(t) - 3 /\ SubSeq(t, i, i + 3) = b
    <2>1. \A i \in 1..Len(t) - 3 : i + Len(b) - 1 = i + 3
      BY <1>0, <1>7
    <2> QED BY <1>12, <2>1
  <1>10. short = {i \in 1..Len(t) - 1 : t[i] = "lf" /\ t[i + 1] = "lf"}
    BY <1>5, <1>8
  <1>11. long =
          {i \in 1..Len(t) - 3 : t[i] = "cr" /\ t[i + 1] = "lf" /\ t[i + 2] = "cr" /\ t[i + 3] = "lf"}
    BY <1>6, <1>9
  <1> QED BY <1>10, <1>11 DEF short, long

\* Where a header has one line end after the other.
LEMMA LfHead ==
  ASSUME NEW s \in ScriptSet, s.lines # <<>>, s.newLine = <<"lf">>
  PROVE  /\ HeadLen(s) = 2 * Len(s.lines) + 1 /\ Len(s.lines) \in Nat \ {0}
         /\ \A i \in 1..HeadLen(s) : Output(s)[i] # "cr"
         /\ \A i \in 1..HeadLen(s) - 1 :
              Output(s)[i] = "lf" /\ Output(s)[i + 1] = "lf" <=> i = HeadLen(s) - 1
  <1> DEFINE n == Len(s.lines)
             out == Output(s)
  <1>0. n \in Nat \ {0} /\ \A k \in 1..n : s.lines[k] \in HeaderLines
    BY DEF ScriptSet
  <1>1. HeadLen(s) = 2 * n + 1
    BY DEF HeadLen
  <1>2. /\ \A k \in 1..n : out[2 * k - 1] \in HeaderLines /\ out[2 * k] = "lf"
        /\ out[2 * n + 1] = "lf"
    <2>1. \A i \in 1..2 * n + 1 : out[i] = HeadOf(s)[i]
      BY <1>1, OutputIs
    <2>2. /\ \A k \in 1..n : HeadOf(s)[2 * k - 1] = s.lines[k] /\ HeadOf(s)[2 * k] = "lf"
          /\ HeadOf(s)[2 * n + 1] = "lf"
      BY HeadIs
    <2>3. \A k \in 1..n : 2 * k - 1 \in 1..2 * n + 1 /\ 2 * k \in 1..2 * n + 1
      BY <1>0
    <2>4. 2 * n + 1 \in 1..2 * n + 1
      BY <1>0
    <2> HIDE DEF n, out
    <2> QED BY <1>0, <2>1, <2>2, <2>3, <2>4
  <1> HIDE DEF n, out
  <1>3. \A i \in 1..2 * n : \E k \in 1..n : i = 2 * k - 1 \/ i = 2 * k
    <2> TAKE i \in 1..2 * n
    <2>1. (i + 1) \div 2 \in 1..n /\ (i = 2 * ((i + 1) \div 2) - 1 \/ i = 2 * ((i + 1) \div 2))
      BY <1>0
    <2> QED BY <2>1
  <1>4. \A i \in 1..2 * n + 1 : out[i] # "cr"
    <2> TAKE i \in 1..2 * n + 1
    <2>1. CASE i = 2 * n + 1
      BY <1>2, <2>1
    <2>2. CASE i # 2 * n + 1
      <3>0. i \in 1..2 * n
        BY <1>0, <2>2
      <3>1. PICK k \in 1..n : i = 2 * k - 1 \/ i = 2 * k
        BY <1>3, <3>0
      <3> QED BY <1>2, <3>1, SymbolsDiffer
    <2> QED BY <2>1, <2>2
  <1>5. ASSUME NEW i \in 1..2 * n
        PROVE  out[i] = "lf" /\ out[i + 1] = "lf" <=> i = 2 * n
    <2>1. PICK k \in 1..n : i = 2 * k - 1 \/ i = 2 * k
      BY <1>3
    <2>2. CASE i = 2 * k - 1
      <3>1. out[i] # "lf" /\ i # 2 * n
        BY <1>0, <1>2, <2>2, SymbolsDiffer
      <3> QED BY <3>1
    <2>3. CASE i = 2 * k /\ k = n
      <3>1. out[i] = "lf" /\ out[i + 1] = "lf" /\ i = 2 * n
        BY <1>2, <2>3
      <3> QED BY <3>1
    <2>4. CASE i = 2 * k /\ k # n
      <3>1. k + 1 \in 1..n /\ i + 1 = 2 * (k + 1) - 1 /\ i # 2 * n
        BY <1>0, <2>4
      <3>2. out[i + 1] # "lf"
        BY <1>2, <3>1, SymbolsDiffer
      <3> QED BY <3>1, <3>2
    <2> QED BY <2>1, <2>2, <2>3, <2>4
  <1>6. (2 * n + 1) - 1 = 2 * n
    BY <1>0
  <1> QED BY <1>0, <1>1, <1>4, <1>5, <1>6 DEF n, out

LEMMA CrlfHead ==
  ASSUME NEW s \in ScriptSet, s.lines # <<>>, s.newLine = <<"cr", "lf">>
  PROVE  /\ HeadLen(s) = 3 * Len(s.lines) + 2 /\ Len(s.lines) \in Nat \ {0}
         /\ \A i \in 1..HeadLen(s) - 1 : ~(Output(s)[i] = "lf" /\ Output(s)[i + 1] = "lf")
         /\ \A i \in 1..HeadLen(s) - 3 :
              /\ Output(s)[i] = "cr" /\ Output(s)[i + 2] = "cr" => i = HeadLen(s) - 3
              /\ i = HeadLen(s) - 3 => /\ Output(s)[i] = "cr" /\ Output(s)[i + 1] = "lf"
                                       /\ Output(s)[i + 2] = "cr" /\ Output(s)[i + 3] = "lf"
  <1> DEFINE n == Len(s.lines)
             out == Output(s)
  <1>0. n \in Nat \ {0} /\ \A k \in 1..n : s.lines[k] \in HeaderLines
    BY DEF ScriptSet
  <1>1. HeadLen(s) = 3 * n + 2
    <2>1. Len(<<"lf">>) = 1 /\ Len(<<"cr", "lf">>) = 2
      OBVIOUS
    <2> QED BY <2>1 DEF HeadLen
  <1>2. /\ \A k \in 1..n : out[3 * k - 2] \in HeaderLines /\ out[3 * k - 1] = "cr" /\ out[3 * k] = "lf"
        /\ out[3 * n + 1] = "cr"
        /\ out[3 * n + 2] = "lf"
    <2>1. \A i \in 1..3 * n + 2 : out[i] = HeadOf(s)[i]
      BY <1>1, OutputIs
    <2>2. /\ \A k \in 1..n : /\ HeadOf(s)[3 * k - 2] = s.lines[k]
                             /\ HeadOf(s)[3 * k - 1] = "cr" /\ HeadOf(s)[3 * k] = "lf"
          /\ HeadOf(s)[3 * n + 1] = "cr"
          /\ HeadOf(s)[3 * n + 2] = "lf"
      BY HeadIs
    <2>3. \A k \in 1..n : /\ 3 * k - 2 \in 1..3 * n + 2
                          /\ 3 * k - 1 \in 1..3 * n + 2 /\ 3 * k \in 1..3 * n + 2
      BY <1>0
    <2>4. 3 * n + 1 \in 1..3 * n + 2 /\ 3 * n + 2 \in 1..3 * n + 2
      BY <1>0
    <2> HIDE DEF n, out
    <2>5. out[3 * n + 1] = "cr" /\ out[3 * n + 2] = "lf"
      BY <2>1, <2>2, <2>4
    <2>6. ASSUME NEW k \in 1..n
          PROVE  out[3 * k - 2] \in HeaderLines /\ out[3 * k - 1] = "cr" /\ out[3 * k] = "lf"
      <3>1. /\ out[3 * k - 2] = HeadOf(s)[3 * k - 2]
            /\ out[3 * k - 1] = HeadOf(s)[3 * k - 1] /\ out[3 * k] = HeadOf(s)[3 * k]
        BY <2>1, <2>3
      <3> QED BY <1>0, <2>2, <3>1
    <2> QED BY <2>5, <2>6
  <1> HIDE DEF n, out
  <1>3. \A i \in 1..3 * n : \E k \in 1..n : i = 3 * k - 2 \/ i = 3 * k - 1 \/ i = 3 * k
    <2> TAKE i \in 1..3 * n
    <2> DEFINE k == (i + 2) \div 3
    <2>1. k \in 1..n /\ (i = 3 * k - 2 \/ i = 3 * k - 1 \/ i = 3 * k)
      BY <1>0
    <2> QED BY <2>1
  <1>4. ASSUME NEW i \in 1..3 * n + 1, out[i] = "lf"
        PROVE  out[i + 1] # "lf"
    <2>0. i # 3 * n + 1
      BY <1>2, <1>4
    <2>1. i \in 1..3 * n
      BY <1>0, <2>0
    <2>2. PICK k \in 1..n : i = 3 * k - 2 \/ i = 3 * k - 1 \/ i = 3 * k
      BY <1>3, <2>1
    <2>3. i = 3 * k
      BY <1>2, <1>4, <2>2, SymbolsDiffer
    <2>4. CASE k = n
      BY <1>2, <2>3, <2>4
    <2>5. CASE k # n
      <3>1. k + 1 \in 1..n /\ i + 1 = 3 * (k + 1) - 2
        BY <1>0, <2>3, <2>5
      <3> QED BY <1>2, <3>1, SymbolsDiffer
    <2> QED BY <2>4, <2>5
  <1>5. ASSUME NEW i \in 1..3 * n - 1
        PROVE  /\ out[i] = "cr" /\ out[i + 2] = "cr" => i = 3 * n - 1
               /\ i = 3 * n - 1 => /\ out[i] = "cr" /\ out[i + 1] = "lf"
                                   /\ out[i + 2] = "cr" /\ out[i + 3] = "lf"
    <2>0. i \in 1..3 * n
      BY <1>0
    <2>1. PICK k \in 1..n : i = 3 * k - 2 \/ i = 3 * k - 1 \/ i = 3 * k
      BY <1>3, <2>0
    <2>2. CASE i # 3 * k - 1
      <3>1. out[i] # "cr" /\ i # 3 * n - 1
        BY <1>0, <1>2, <2>1, <2>2, SymbolsDiffer
      <3> QED BY <3>1
    <2>3. CASE i = 3 * k - 1 /\ k = n
      <3>1. i = 3 * n - 1 /\ i + 1 = 3 * n /\ i + 2 = 3 * n + 1 /\ i + 3 = 3 * n + 2
        BY <1>0, <2>3
      <3>2. out[3 * n - 1] = "cr" /\ out[3 * n] = "lf"
        BY <1>2, <2>3
      <3> QED BY <1>2, <3>1, <3>2
    <2>4. CASE i = 3 * k - 1 /\ k # n
      <3>1. k + 1 \in 1..n /\ i + 2 = 3 * (k + 1) - 2 /\ i # 3 * n - 1
        BY <1>0, <2>4
      <3>2. out[i + 2] # "cr"
        BY <1>2, <3>1, SymbolsDiffer
      <3> QED BY <3>1, <3>2
    <2> QED BY <2>2, <2>3, <2>4
  <1>6. (3 * n + 2) - 1 = 3 * n + 1 /\ (3 * n + 2) - 3 = 3 * n - 1
    BY <1>0
  <1> QED BY <1>0, <1>1, <1>4, <1>5, <1>6 DEF n, out

\* Where the blank line of a header is.
HeadBlank(s) == IF s.newLine = <<"lf">> THEN HeadLen(s) - 1 ELSE HeadLen(s) - 3

\* The beginning of an output: a blank line is found when the header is whole,
\* and unless CutMatters it is the one at its end.
LEMMA BlankIsFound ==
  ASSUME NEW s \in ScriptSet, s.lines # <<>>, NEW m \in 0..Len(Output(s)), NEW t,
         t = SubSeq(Output(s), 1, m)
  PROVE  /\ m < HeadLen(s) =>
              BlankLines(t, <<"lf">>) = {} /\ BlankLines(t, <<"cr", "lf">>) = {}
         /\ m >= HeadLen(s) =>
              /\ BlankLines(t, NewLine(t)) # {}
              /\ \/ s.newLine = <<"lf">> /\ BlankLines(s.body, <<"cr", "lf">>) # {}
                 \/ /\ NewLine(t) = s.newLine
                    /\ HeadBlank(s) \in BlankLines(t, s.newLine)
                    /\ \A i \in BlankLines(t, s.newLine) : HeadBlank(s) <= i
  <1> DEFINE out == Output(s)
             H == HeadLen(s)
             lfs == BlankLines(t, <<"lf">>)
             crlfs == BlankLines(t, <<"cr", "lf">>)
  <1>0. /\ out \in Seq(Symbols) /\ H \in Nat /\ Len(s.body) \in Nat /\ Len(out) = H + Len(s.body)
        /\ \A j \in 1..Len(s.body) : out[H + j] = s.body[j]
    BY OutputIs, HeadIs
  <1>1. t \in Seq(Symbols) /\ Len(t) = m /\ \A i \in 1..m : t[i] = out[i]
    <2>1. /\ t \in Seq(Symbols)
          /\ Len(t) = IF 1 <= m THEN m - 1 + 1 ELSE 0
          /\ \A i \in 1..m - 1 + 1 : t[i] = out[1 + i - 1]
      <3>1. 1 \in Nat \ {0} /\ m \in 0..Len(out)
        OBVIOUS
      <3> HIDE DEF out
      <3> QED BY <1>0, <3>1, PartsAre DEF out
    <2>2. m \in Nat
      BY <1>0
    <2> QED BY <2>1, <2>2
  <1>2. /\ \A i : i \in lfs <=> i \in 1..m - 1 /\ t[i] = "lf" /\ t[i + 1] = "lf"
        /\ \A i : i \in crlfs <=> i \in 1..m - 3 /\ t[i] = "cr" /\ t[i + 1] = "lf"
                                  /\ t[i + 2] = "cr" /\ t[i + 3] = "lf"
    <2>1. /\ lfs = {i \in 1..Len(t) - 1 : t[i] = "lf" /\ t[i + 1] = "lf"}
          /\ crlfs = {i \in 1..Len(t) - 3 : /\ t[i] = "cr" /\ t[i + 1] = "lf"
                                            /\ t[i + 2] = "cr" /\ t[i + 3] = "lf"}
      BY <1>1, BlankLinesAre
    <2>2. Len(t) = m
      BY <1>1
    <2> HIDE DEF lfs, crlfs
    <2> QED BY <2>1, <2>2
  <1>3. NewLine(t) = IF crlfs # {} THEN <<"cr", "lf">> ELSE <<"lf">>
    BY DEF NewLine
  <1>4. s.newLine = <<"lf">> \/ s.newLine = <<"cr", "lf">>
    BY DEF ScriptSet, LineEnds
  <1>5. <<"lf">> # <<"cr", "lf">>
    <2>1. Len(<<"lf">>) = 1 /\ Len(<<"cr", "lf">>) = 2
      OBVIOUS
    <2> QED BY <2>1
  <1>6. m \in Nat /\ m <= H + Len(s.body)
    BY <1>0
  <1> HIDE DEF lfs, crlfs, out, H
  <1>7. CASE s.newLine = <<"lf">>
    <2>1. /\ H >= 3
          /\ \A i \in 1..H : out[i] # "cr"
          /\ \A i \in 1..H - 1 : out[i] = "lf" /\ out[i + 1] = "lf" <=> i = H - 1
      <3>1. H = 2 * Len(s.lines) + 1 /\ Len(s.lines) \in Nat \ {0}
        BY <1>7, LfHead DEF H
      <3>2. H >= 3
        BY <3>1
      <3> QED BY <1>7, <3>2, LfHead DEF H, out
    <2>2. ASSUME m < H PROVE lfs = {} /\ crlfs = {}
      <3>1. ASSUME NEW i \in lfs PROVE FALSE
        <4>1. i \in 1..m - 1 /\ t[i] = "lf" /\ t[i + 1] = "lf"
          BY <1>2, <3>1
        <4>2. i \in 1..m /\ i + 1 \in 1..m /\ i \in 1..H - 1 /\ i # H - 1
          BY <1>0, <1>6, <2>2, <4>1
        <4>3. t[i] = out[i] /\ t[i + 1] = out[i + 1]
          BY <1>1, <4>2
        <4> QED BY <2>1, <4>1, <4>2, <4>3
      <3>2. ASSUME NEW i \in crlfs PROVE FALSE
        <4>1. i \in 1..m - 3 /\ t[i] = "cr"
          BY <1>2, <3>2
        <4>2. i \in 1..m /\ i \in 1..H
          BY <1>0, <1>6, <2>2, <4>1
        <4> QED BY <1>1, <2>1, <4>1, <4>2
      <3> QED BY <3>1, <3>2
    <2>3. ASSUME m >= H
          PROVE  /\ H - 1 \in lfs
                 /\ \A i \in lfs : H - 1 <= i
                 /\ crlfs # {} => BlankLines(s.body, <<"cr", "lf">>) # {}
      <3>1. H - 1 \in lfs
        <4>1. H - 1 \in 1..m /\ (H - 1) + 1 \in 1..m /\ H - 1 \in 1..m - 1 /\ H - 1 \in 1..H - 1
          BY <1>0, <1>6, <2>1, <2>3
        <4>2. t[H - 1] = out[H - 1] /\ t[(H - 1) + 1] = out[(H - 1) + 1]
          BY <1>1, <4>1
        <4>3. out[H - 1] = "lf" /\ out[(H - 1) + 1] = "lf"
          BY <2>1, <4>1
        <4> QED BY <1>2, <4>1, <4>2, <4>3
      <3>2. ASSUME NEW i \in lfs PROVE H - 1 <= i
        <4>1. i \in 1..m - 1 /\ t[i] = "lf" /\ t[i + 1] = "lf"
          BY <1>2, <3>2
        <4>2. i \in 1..m /\ i + 1 \in 1..m /\ (i \in 1..H - 1 \/ H - 1 <= i)
          BY <1>0, <1>6, <4>1
        <4>3. t[i] = out[i] /\ t[i + 1] = out[i + 1]
          BY <1>1, <4>2
        <4>4. i \in 1..H - 1 => i = H - 1
          BY <2>1, <4>1, <4>3
        <4> QED BY <1>0, <4>1, <4>2, <4>4
      <3>3. ASSUME NEW i \in crlfs PROVE i - H \in BlankLines(s.body, <<"cr", "lf">>)
        <4>1. i \in 1..m - 3 /\ t[i] = "cr" /\ t[i + 1] = "lf" /\ t[i + 2] = "cr" /\ t[i + 3] = "lf"
          BY <1>2, <3>3
        <4>2. i \in 1..m /\ i + 1 \in 1..m /\ i + 2 \in 1..m /\ i + 3 \in 1..m /\ i \in Nat
          BY <1>6, <4>1
        <4>3. out[i] = "cr" /\ out[i + 1] = "lf" /\ out[i + 2] = "cr" /\ out[i + 3] = "lf"
          BY <1>1, <4>1, <4>2
        <4>4. ~(i \in 1..H)
          BY <2>1, <4>3
        <4> DEFINE j == i - H
        <4>5. /\ j \in 1..Len(s.body) - 3 /\ j \in Nat
              /\ j \in 1..Len(s.body) /\ j + 1 \in 1..Len(s.body)
              /\ j + 2 \in 1..Len(s.body) /\ j + 3 \in 1..Len(s.body)
              /\ H + j = i /\ H + (j + 1) = i + 1 /\ H + (j + 2) = i + 2 /\ H + (j + 3) = i + 3
          <5> DEFINE L == Len(s.body)
          <5>1. /\ H \in Nat /\ L \in Nat /\ m \in Nat /\ m <= H + L
                /\ i \in Nat /\ i >= 1 /\ i <= m - 3 /\ i > H
            <6>1. H \in Nat /\ L \in Nat
              BY <1>0
            <6>2. m \in Nat /\ m <= H + L
              BY <1>6
            <6> HIDE DEF L
            <6>3. i \in Nat /\ i >= 1 /\ i <= m - 3
              BY <4>1, <4>2, <6>2
            <6>4. i > H
              BY <4>4, <6>1, <6>3
            <6> QED BY <6>1, <6>2, <6>3, <6>4
          <5> HIDE DEF L
          <5>2. /\ j \in 1..L - 3 /\ j \in Nat
                /\ j \in 1..L /\ j + 1 \in 1..L /\ j + 2 \in 1..L /\ j + 3 \in 1..L
            BY <5>1
          <5>3. H + j = i /\ H + (j + 1) = i + 1 /\ H + (j + 2) = i + 2 /\ H + (j + 3) = i + 3
            BY <5>1
          <5> QED BY <5>2, <5>3 DEF L
        <4> HIDE DEF j
        <4>6. s.body[j] = "cr" /\ s.body[j + 1] = "lf" /\ s.body[j + 2] = "cr" /\ s.body[j + 3] = "lf"
          BY <1>0, <4>3, <4>5
        <4>7. s.body \in Seq(Symbols)
          BY DEF ScriptSet, Symbols
        <4>8. j \in BlankLines(s.body, <<"cr", "lf">>)
          BY <4>5, <4>6, <4>7, BlankLinesAre
        <4> QED BY <4>8 DEF j
      <3> QED BY <3>1, <3>2, <3>3
    <2>4. ASSUME m >= H PROVE BlankLines(t, NewLine(t)) # {}
      BY <1>3, <2>3, <2>4 DEF lfs, crlfs
    <2>5. HeadBlank(s) = H - 1
      BY <1>7 DEF HeadBlank, H
    <2>6. ASSUME m >= H, BlankLines(s.body, <<"cr", "lf">>) = {}
          PROVE  /\ NewLine(t) = s.newLine
                 /\ HeadBlank(s) \in BlankLines(t, s.newLine)
                 /\ \A i \in BlankLines(t, s.newLine) : HeadBlank(s) <= i
      <3>1. BlankLines(t, s.newLine) = lfs
        BY <1>7 DEF lfs
      <3> QED BY <1>3, <1>7, <2>3, <2>5, <2>6, <3>1
    <2> QED BY <1>7, <2>2, <2>4, <2>6 DEF lfs, crlfs, H
  <1>8. CASE s.newLine = <<"cr", "lf">>
    <2>1. /\ H >= 5
          /\ \A i \in 1..H - 1 : ~(out[i] = "lf" /\ out[i + 1] = "lf")
          /\ \A i \in 1..H - 3 :
               /\ out[i] = "cr" /\ out[i + 2] = "cr" => i = H - 3
               /\ i = H - 3 => out[i] = "cr" /\ out[i + 1] = "lf" /\ out[i + 2] = "cr" /\ out[i + 3] = "lf"
      <3>1. H = 3 * Len(s.lines) + 2 /\ Len(s.lines) \in Nat \ {0}
        BY <1>8, CrlfHead DEF H
      <3>2. H >= 5
        BY <3>1
      <3> QED BY <1>8, <3>2, CrlfHead DEF H, out
    <2>2. ASSUME m < H PROVE lfs = {} /\ crlfs = {}
      <3>1. ASSUME NEW i \in lfs PROVE FALSE
        <4>1. i \in 1..m - 1 /\ t[i] = "lf" /\ t[i + 1] = "lf"
          BY <1>2, <3>1
        <4>2. i \in 1..m /\ i + 1 \in 1..m /\ i \in 1..H - 1
          BY <1>0, <1>6, <2>2, <4>1
        <4>3. t[i] = out[i] /\ t[i + 1] = out[i + 1]
          BY <1>1, <4>2
        <4> QED BY <2>1, <4>1, <4>2, <4>3
      <3>2. ASSUME NEW i \in crlfs PROVE FALSE
        <4>1. i \in 1..m - 3 /\ t[i] = "cr" /\ t[i + 2] = "cr"
          BY <1>2, <3>2
        <4>2. i \in 1..m /\ i + 2 \in 1..m /\ i \in 1..H - 3 /\ i # H - 3
          BY <1>0, <1>6, <2>2, <4>1
        <4>3. t[i] = out[i] /\ t[i + 2] = out[i + 2]
          BY <1>1, <4>2
        <4> QED BY <2>1, <4>1, <4>2, <4>3
      <3> QED BY <3>1, <3>2
    <2>3. ASSUME m >= H
          PROVE  H - 3 \in crlfs /\ \A i \in crlfs : H - 3 <= i
      <3>1. H - 3 \in crlfs
        <4> DEFINE i == H - 3
        <4>1. /\ i \in 1..m /\ i + 1 \in 1..m /\ i + 2 \in 1..m /\ i + 3 \in 1..m
              /\ i \in 1..m - 3 /\ i \in 1..H - 3
          BY <1>0, <1>6, <2>1, <2>3
        <4>3. out[i] = "cr" /\ out[i + 1] = "lf" /\ out[i + 2] = "cr" /\ out[i + 3] = "lf"
          BY <2>1, <4>1
        <4> HIDE DEF i
        <4>2. t[i] = out[i] /\ t[i + 1] = out[i + 1] /\ t[i + 2] = out[i + 2] /\ t[i + 3] = out[i + 3]
          BY <1>1, <4>1
        <4>4. i \in crlfs
          BY <1>2, <4>1, <4>2, <4>3
        <4> QED BY <4>4 DEF i
      <3>2. ASSUME NEW i \in crlfs PROVE H - 3 <= i
        <4>1. i \in 1..m - 3 /\ t[i] = "cr" /\ t[i + 2] = "cr"
          BY <1>2, <3>2
        <4>2. i \in 1..m /\ i + 2 \in 1..m /\ (i \in 1..H - 3 \/ H - 3 <= i)
          BY <1>0, <1>6, <4>1
        <4>3. t[i] = out[i] /\ t[i + 2] = out[i + 2]
          BY <1>1, <4>2
        <4>4. i \in 1..H - 3 => i = H - 3
          BY <2>1, <4>1, <4>3
        <4> QED BY <1>0, <4>1, <4>2, <4>4
      <3> QED BY <3>1, <3>2
    <2>5. HeadBlank(s) = H - 3
      BY <1>5, <1>8 DEF HeadBlank, H
    <2>6. ASSUME m >= H
          PROVE  /\ NewLine(t) = s.newLine
                 /\ HeadBlank(s) \in BlankLines(t, s.newLine)
                 /\ \A i \in BlankLines(t, s.newLine) : HeadBlank(s) <= i
      <3>1. BlankLines(t, s.newLine) = crlfs
        BY <1>8 DEF crlfs
      <3> QED BY <1>3, <1>8, <2>3, <2>5, <2>6, <3>1
    <2>4. ASSUME m >= H PROVE BlankLines(t, NewLine(t)) # {}
      BY <2>4, <2>6
    <2> QED BY <2>2, <2>4, <2>6 DEF lfs, crlfs, H
  <1> QED BY <1>4, <1>7, <1>8

-----------------------------------------------------------------------------
(* Utils::SplitWithMultipleSpecifier.                                        *)

LEMMA NatGreatest ==
  ASSUME NEW T, T \subseteq Nat, NEW b \in T, \A m \in T : b >= m
  PROVE  Max(T) = b
  <1>1. \A x \in T : (\A m \in T : x >= m) => x = b
    OBVIOUS
  <1>2. Max(T) \in T /\ \A m \in T : Max(T) >= m
    BY DEF Max
  <1> QED BY <1>1, <1>2

\* P lists a set of n numbers in increasing order.
Lists(P, n, starts) ==
  /\ P \in [1..n -> Nat]
  /\ \A k, l \in 1..n : k < l => P[k] < P[l]
  /\ \A i : i \in starts <=> \E k \in 1..n : i = P[k]

UpTo(starts, i) == {j \in starts : j <= i}

\* How many of them are up to one of them.
LEMMA CountUpTo ==
  ASSUME NEW n \in Nat, NEW P, NEW starts, Lists(P, n, starts), NEW k \in 1..n
  PROVE  Cardinality(UpTo(starts, P[k])) = k
  <1> USE DEF Lists, UpTo
  <1> DEFINE g == [l \in 1..k |-> P[l]]
             A == {j \in starts : j <= P[k]}
  <1>1. k \in Nat /\ \A l \in 1..k : l \in 1..n
    OBVIOUS
  <1>2. \A l \in 1..n : P[l] <= P[k] <=> l \in 1..k
    <2> TAKE l \in 1..n
    <2>1. CASE l < k
      BY <2>1
    <2>2. CASE l = k
      BY <2>2
    <2>3. CASE k < l
      <3>1. P[k] < P[l]
        BY <2>3
      <3> QED BY <2>3, <3>1
    <2> QED BY <2>1, <2>2, <2>3
  <1>3. \A i : i \in A <=> \E l \in 1..k : i = P[l]
    BY <1>1, <1>2
  <1>4. g \in [1..k -> A]
    BY <1>3
  <1>5. \A l, m \in 1..k : g[l] = g[m] => l = m
    <2> TAKE l, m \in 1..k
    <2>1. l < m => P[l] < P[m]
      BY <1>1
    <2>2. m < l => P[m] < P[l]
      BY <1>1
    <2>3. P[l] \in Nat /\ P[m] \in Nat
      BY <1>1
    <2> QED BY <2>1, <2>2, <2>3
  <1>6. \A i \in A : \E l \in 1..k : g[l] = i
    BY <1>3
  <1> HIDE DEF g, A
  <1>7. g \in Bijection(1..k, A)
    BY <1>4, <1>5, <1>6 DEF Bijection, Injection, IsInjective, Surjection
  <1>8. ExistsBijection(1..k, A)
    BY <1>7 DEF ExistsBijection
  <1>9. IsFiniteSet(1..k) /\ Cardinality(1..k) = k
    BY <1>1, FS_Interval
  <1>10. Cardinality(A) = k
    BY <1>8, <1>9, FS_Bijection
  <1> QED BY <1>10 DEF A

\* P lists the places of a text that do not separate; none is next to another.
Singles(P, n, T, seps) ==
  /\ P \in [1..n -> Nat]
  /\ \A k \in 1..n : P[k] \in 1..Len(T)
  /\ \A k, l \in 1..n : k < l => P[k] + 1 < P[l]
  /\ \A i \in 1..Len(T) : T[i] \notin seps <=> \E k \in 1..n : i = P[k]

\* Such a text falls into pieces of one symbol.
LEMMA SplitSingles ==
  ASSUME NEW S, NEW T \in Seq(S), NEW seps, NEW n \in Nat, NEW P, Singles(P, n, T, seps)
  PROVE  /\ DOMAIN Split(T, seps) = 1..n
         /\ \A k \in 1..n : Split(T, seps)[k] = <<T[P[k]]>>
  <1> USE DEF Singles
  <1> DEFINE Word(i, j) == \A k \in i..j : T[k] \notin seps
             starts == {i \in DOMAIN T : Word(i, i) /\ (i = 1 \/ ~Word(i - 1, i - 1))}
             End(i) == Max({j \in i..Len(T) : Word(i, j)})
             Start(m) == CHOOSE i \in starts : Cardinality({j \in starts : j <= i}) = m
  <1>0. Len(T) \in Nat /\ DOMAIN T = 1..Len(T)
    BY LenProperties
  <1>1. Split(T, seps) = [m \in 1..Cardinality(starts) |-> SubSeq(T, Start(m), End(Start(m)))]
    BY DEF Split
  <1>2. \A k, l \in 1..n : k < l => P[k] < P[l]
    OBVIOUS
  <1>3. \A i \in 1..Len(T) : Word(i, i) <=> \E k \in 1..n : i = P[k]
    <2> TAKE i \in 1..Len(T)
    <2>1. i..i = {i}
      OBVIOUS
    <2> QED BY <2>1
  <1>4. ASSUME NEW k \in 1..n
        PROVE  /\ P[k] = 1 \/ ~Word(P[k] - 1, P[k] - 1)
               /\ P[k] = Len(T) \/ T[P[k] + 1] \in seps
    <2>0. P[k] \in 1..Len(T) /\ P[k] \in Nat
      OBVIOUS
    <2>1. ASSUME P[k] # 1, Word(P[k] - 1, P[k] - 1)
          PROVE  FALSE
      <3>1. P[k] - 1 \in 1..Len(T)
        BY <1>0, <2>0, <2>1
      <3>2. PICK l \in 1..n : P[k] - 1 = P[l]
        BY <1>3, <2>1, <3>1
      <3>3. l < k => P[l] + 1 < P[k]
        OBVIOUS
      <3>4. k < l => P[k] + 1 < P[l]
        OBVIOUS
      <3>5. P[l] \in Nat
        OBVIOUS
      <3> QED BY <2>0, <3>2, <3>3, <3>4, <3>5
    <2>2. ASSUME P[k] # Len(T), T[P[k] + 1] \notin seps
          PROVE  FALSE
      <3>1. P[k] + 1 \in 1..Len(T)
        BY <1>0, <2>0, <2>2
      <3>2. PICK l \in 1..n : P[k] + 1 = P[l]
        BY <2>2, <3>1
      <3>3. l < k => P[l] + 1 < P[k]
        OBVIOUS
      <3>4. k < l => P[k] + 1 < P[l]
        OBVIOUS
      <3>5. P[l] \in Nat
        OBVIOUS
      <3> QED BY <2>0, <3>2, <3>3, <3>4, <3>5
    <2> QED BY <2>1, <2>2
  <1>5. \A i : i \in starts <=> \E k \in 1..n : i = P[k]
    BY <1>0, <1>3, <1>4
  <1>6. ASSUME NEW k \in 1..n
        PROVE  End(P[k]) = P[k]
    <2> DEFINE E == {j \in P[k]..Len(T) : Word(P[k], j)}
    <2>0. P[k] \in 1..Len(T) /\ P[k] \in Nat /\ P[k] + 1 \in Nat
      OBVIOUS
    <2>1. Word(P[k], P[k])
      BY <1>3, <2>0
    <2>2. P[k] \in E
      <3>1. P[k] \in P[k]..Len(T)
        BY <1>0, <2>0
      <3> QED BY <2>1, <3>1
    <2>3. ASSUME NEW j \in E
          PROVE  P[k] >= j
      <3>1. j \in P[k]..Len(T) /\ Word(P[k], j)
        BY <2>3
      <3>2. SUFFICES ASSUME j > P[k] PROVE FALSE
        BY <1>0, <2>0, <3>1
      <3>3. P[k] + 1 \in P[k]..j /\ P[k] # Len(T)
        BY <1>0, <2>0, <3>1, <3>2
      <3>4. T[P[k] + 1] \notin seps
        BY <3>1, <3>3
      <3> QED BY <1>4, <3>3, <3>4
    <2>4. E \subseteq Nat
      BY <1>0, <2>0
    <2> HIDE DEF E, Word
    <2>5. Max(E) = P[k]
      BY <2>2, <2>3, <2>4, NatGreatest
    <2> QED BY <2>5 DEF E
  <1> HIDE DEF starts, End, Word, Start
  <1>7. ASSUME NEW k \in 1..n
        PROVE  Cardinality({j \in starts : j <= P[k]}) = k
    <2>1. Lists(P, n, starts)
      BY <1>2, <1>5 DEF Lists
    <2>2. Cardinality(UpTo(starts, P[k])) = k
      BY <2>1, CountUpTo
    <2> QED BY <2>2 DEF UpTo
  <1> USE DEF Start
  <1>8. ASSUME NEW k \in 1..n
        PROVE  Start(k) = P[k]
    <2>1. P[k] \in starts /\ Cardinality({j \in starts : j <= P[k]}) = k
      BY <1>5, <1>7
    <2>2. \A i \in starts : Cardinality({j \in starts : j <= i}) = k => i = P[k]
      <3> TAKE i \in starts
      <3>1. PICK l \in 1..n : i = P[l]
        BY <1>5
      <3> QED BY <1>7, <3>1
    <2> QED BY <2>1, <2>2
  <1>9. Cardinality(starts) = n
    <2>1. CASE n = 0
      <3>1. starts = {}
        BY <1>5, <2>1
      <3> QED BY <2>1, <3>1, FS_EmptySet
    <2>2. CASE n # 0
      <3>1. n \in 1..n
        BY <2>2
      <3>2. \A j \in starts : j <= P[n]
        <4> TAKE j \in starts
        <4>1. PICK l \in 1..n : j = P[l]
          BY <1>5
        <4>2. l = n \/ l < n
          OBVIOUS
        <4> QED BY <1>2, <3>1, <4>1, <4>2
      <3>3. {j \in starts : j <= P[n]} = starts
        BY <3>2
      <3> QED BY <1>7, <3>1, <3>3
    <2> QED BY <2>1, <2>2
  <1>10. \A k \in 1..n : SubSeq(T, Start(k), End(Start(k))) = <<T[P[k]]>>
    <2> TAKE k \in 1..n
    <2>1. SubSeq(T, Start(k), End(Start(k))) = SubSeq(T, P[k], P[k])
      BY <1>6, <1>8
    <2> HIDE DEF Start
    <2>2. P[k] \in 1..Len(T) /\ P[k] \in Nat /\ T[P[k]] \in S
      BY ElementOfSeq
    <2>3. SubSeq(T, P[k], P[k]) = <<T[P[k]]>>
      <3> DEFINE p == P[k]
                 u == SubSeq(T, p, p)
      <3>1. p \in 1..Len(T) /\ p \in Nat
        BY <2>2
      <3> HIDE DEF p
      <3>2. u \in Seq(S) /\ Len(u) = 1 /\ u[1] = T[p]
        BY <1>0, <3>1
      <3>3. <<T[p]>> \in Seq(S) /\ Len(<<T[p]>>) = 1 /\ <<T[p]>>[1] = T[p]
        BY <2>2 DEF p
      <3> HIDE DEF u
      <3>4. u = <<T[p]>>
        <4>1. \A i \in 1..Len(u) : u[i] = <<T[p]>>[i]
          BY <3>2, <3>3
        <4> QED BY <3>2, <3>3, <4>1, SeqEqual
      <3> QED BY <3>4 DEF p, u
    <2> QED BY <2>1, <2>3
  <1> HIDE DEF Start
  <1> QED BY <1>1, <1>9, <1>10

\* A set of numbers that none above b is in has a greatest one.
LEMMA GreatestIs ==
  ASSUME NEW b \in Nat, NEW T, T \subseteq 0..b, T # {}
  PROVE  Max(T) \in T /\ \A m \in T : Max(T) >= m
  <1> DEFINE D == {d \in Nat : b - d \in T}
  <1>1. PICK x \in T : TRUE
    OBVIOUS
  <1>2. b - x \in D
    <2>1. b - x \in Nat /\ b - (b - x) = x
      BY <1>1
    <2> QED BY <1>1, <2>1
  <1>3. D \subseteq Nat /\ D # {}
    BY <1>2
  <1> HIDE DEF D
  <1>4. PICK d \in D : \A e \in D : d <= e
    BY <1>3, NatLeast
  <1>5. b - d \in T /\ d \in Nat
    BY <1>4 DEF D
  <1>6. \A m \in T : b - d >= m
    <2> TAKE m \in T
    <2>1. b - m \in Nat /\ b - (b - m) = m
      OBVIOUS
    <2>2. b - m \in D
      BY <2>1 DEF D
    <2>3. d <= b - m
      BY <1>4, <2>2
    <2> QED BY <1>5, <2>1, <2>3
  <1>7. T \subseteq Nat
    OBVIOUS
  <1>8. Max(T) = b - d
    BY <1>5, <1>6, <1>7, NatGreatest
  <1> QED BY <1>5, <1>6, <1>8

LEMMA FirstPiece ==
  ASSUME NEW S, NEW T \in Seq(S), NEW seps
  PROVE  \E c \in Nat : /\ DOMAIN Split(T, seps) = 1..c
                        /\ c # 0 => Split(T, seps)[1][1] \in S
  <1> DEFINE Word(i, j) == \A k \in i..j : T[k] \notin seps
             starts == {i \in DOMAIN T : Word(i, i) /\ (i = 1 \/ ~Word(i - 1, i - 1))}
             End(i) == Max({j \in i..Len(T) : Word(i, j)})
             Start(m) == CHOOSE i \in starts : Cardinality({j \in starts : j <= i}) = m
             c == Cardinality(starts)
  <1>0. Len(T) \in Nat /\ DOMAIN T = 1..Len(T)
    BY LenProperties
  <1>1. Split(T, seps) = [m \in 1..c |-> SubSeq(T, Start(m), End(Start(m)))]
    BY DEF Split
  <1>2. starts \subseteq 1..Len(T) /\ \A i \in starts : Word(i, i)
    BY <1>0
  <1>3. IsFiniteSet(starts) /\ c \in Nat
    <2>1. IsFiniteSet(1..Len(T))
      BY <1>0, FS_Interval
    <2> HIDE DEF starts
    <2> QED BY <1>2, <2>1, FS_Subset, FS_CardinalityType
  <1> HIDE DEF starts, Word
  <1>4. ASSUME c # 0
        PROVE  Split(T, seps)[1][1] \in S
    <2>1. starts # {}
      BY <1>3, <1>4, FS_EmptySet
    <2> DEFINE least == Min(starts)
    <2>2. least \in starts /\ \A i \in starts : least <= i
      <3>1. starts \subseteq Nat
        BY <1>0, <1>2
      <3> QED BY <2>1, <3>1, MinIs
    <2> HIDE DEF least
    <2>3. {j \in starts : j <= least} = {least}
      <3>1. \A j \in starts : j <= least => j = least
        BY <1>0, <1>2, <2>2
      <3>2. least <= least
        BY <1>0, <1>2, <2>2
      <3> QED BY <2>2, <3>1, <3>2
    <2>4. Cardinality({j \in starts : j <= least}) = 1
      BY <2>3, FS_Singleton
    <2>5. Start(1) \in starts
      BY <2>2, <2>4
    <2> DEFINE a == Start(1)
               E == {j \in a..Len(T) : Word(a, j)}
    <2>6. a \in 1..Len(T) /\ Word(a, a)
      BY <1>2, <2>5
    <2> HIDE DEF a
    <2>7. Max(E) \in E
      <3>1. a \in E
        BY <1>0, <2>6
      <3>2. E \subseteq 0..Len(T)
        BY <1>0, <2>6
      <3> HIDE DEF E
      <3> QED BY <1>0, <3>1, <3>2, GreatestIs
    <2> DEFINE e == End(a)
    <2>8. e \in a..Len(T)
      <3>1. e = Max(E)
        OBVIOUS
      <3>2. E \subseteq a..Len(T)
        OBVIOUS
      <3> HIDE DEF e, E
      <3> QED BY <2>7, <3>1, <3>2
    <2> HIDE DEF e, E, Start, End
    <2>9. Split(T, seps)[1] = SubSeq(T, a, e)
      <3>1. 1 \in 1..c
        BY <1>3, <1>4
      <3> HIDE DEF c
      <3>2. Split(T, seps)[1] = SubSeq(T, Start(1), End(Start(1)))
        BY <1>1, <3>1
      <3> QED BY <3>2 DEF a, e
    <2>10. SubSeq(T, a, e)[1] = T[a]
      BY <1>0, <2>6, <2>8
    <2>11. T[a] \in S
      BY <2>6, ElementOfSeq
    <2> QED BY <2>9, <2>10, <2>11
  <1> HIDE DEF Start, End, c
  <1>5. DOMAIN Split(T, seps) = 1..c
    BY <1>1
  <1> QED BY <1>3, <1>4, <1>5

-----------------------------------------------------------------------------
(* ParseHeader.                                                              *)

LEMMA HeadersTyped ==
  ASSUME NEW lines, NEW c \in Nat, DOMAIN lines = 1..c
  PROVE  [i \in DOMAIN lines |-> MakeHeader(lines[i])] \in Seq(HeaderLines)
  <1>1. \A l : MakeHeader(l) \in HeaderLines
    BY DEF MakeHeader, HeaderLines
  <1>2. [i \in DOMAIN lines |-> MakeHeader(lines[i])] \in [1..c -> HeaderLines]
    BY <1>1
  <1> QED BY <1>2

LEMMA NewLineIs ==
  /\ \A t : NewLine(t) \in LineEnds
  /\ Range(<<"lf">>) = {"lf"} /\ Range(<<"cr", "lf">>) = {"cr", "lf"}
  /\ Len(<<"lf">>) = 1 /\ Len(<<"cr", "lf">>) = 2
  BY DEF NewLine, LineEnds, Range

\* Whatever was read, the parser keeps its types.
LEMMA HeadTyped ==
  ASSUME NEW t \in Seq(Symbols), BlankLines(t, NewLine(t)) # {}
  PROVE  /\ Min(BlankLines(t, NewLine(t))) \in Nat \ {0}
         /\ ParseHead(t).thrown \in BOOLEAN
         /\ ParseHead(t).thrown => ParseHead(t).parser = parser
         /\ ~ParseHead(t).thrown => /\ ParseHead(t).parser \in Parsers
                                    /\ ParseHead(t).parser.state = "kBody"
                                    /\ ParseHead(t).parser.type # "kToBeDetermined"
  <1> DEFINE nl == NewLine(t)
             end == Min(BlankLines(t, nl))
             lines == Split(SubSeq(t, 1, end - 1), Range(nl))
             headers == [i \in DOMAIN lines |-> MakeHeader(lines[i])]
             body == SubSeq(t, end + 2 * Len(nl), Len(t))
             type == ResponseType(headers, body)
             p == [header |-> SubSeq(t, 1, end - 1), headers |-> headers,
                   body |-> body, type |-> type, state |-> "kBody"]
  <1>0. ParseHead(t) = IF ParseHeaderThrows(headers) \/ type = "kErrType" THEN Thrown ELSE Parsed(p)
    BY Zenon DEF ParseHead
  <1>1. nl = <<"lf">> \/ nl = <<"cr", "lf">>
    BY NewLineIs DEF LineEnds
  <1>2. BlankLines(t, nl) \subseteq 1..Len(t) /\ Len(t) \in Nat
    <2>1. Len(t) \in Nat
      OBVIOUS
    <2>2. /\ BlankLines(t, <<"lf">>) \subseteq 1..Len(t) - 1
          /\ BlankLines(t, <<"cr", "lf">>) \subseteq 1..Len(t) - 3
      BY BlankLinesAre
    <2>3. 1..Len(t) - 1 \subseteq 1..Len(t) /\ 1..Len(t) - 3 \subseteq 1..Len(t)
      BY <2>1
    <2> QED BY <1>1, <2>1, <2>2, <2>3
  <1>3. end \in 1..Len(t)
    <2>1. BlankLines(t, nl) \subseteq Nat
      BY <1>2
    <2> QED BY <1>2, <2>1, MinIs
  <1>4. Len(nl) \in {1, 2}
    BY <1>1, NewLineIs
  <1> HIDE DEF nl, end
  <1>5. SubSeq(t, 1, end - 1) \in Seq(Symbols)
    <2>1. 1 \in Nat \ {0} /\ end - 1 \in 0..Len(t)
      BY <1>2, <1>3
    <2> QED BY <2>1, PartsAre
  <1>6. body \in Seq(Symbols)
    <2>1. end + 2 * Len(nl) \in Nat \ {0} /\ Len(t) \in 0..Len(t)
      BY <1>2, <1>3, <1>4
    <2> QED BY <2>1, PartsAre
  <1>7. headers \in Seq(HeaderLines)
    <2> DEFINE head == SubSeq(t, 1, end - 1)
               seps == Range(nl)
    <2>1. head \in Seq(Symbols)
      BY <1>5
    <2> HIDE DEF head, seps, headers, lines, body, type, p
    <2>2. PICK c \in Nat : DOMAIN Split(head, seps) = 1..c
      BY <2>1, FirstPiece
    <2>3. DOMAIN lines = 1..c
      BY <2>2 DEF lines, head, seps
    <2> QED BY <2>3, HeadersTyped DEF headers
  <1>8. type \in (ResponseTypes \ {"kToBeDetermined"}) \cup {"kErrType"}
    <2> HIDE DEF headers, body
    <2> QED BY DEF ResponseType, ResponseTypes
  <1> HIDE DEF headers, body, type
  <1>9. type # "kErrType" => p \in Parsers
    BY <1>5, <1>6, <1>7, <1>8 DEF Parsers
  <1>10. p.state = "kBody" /\ p.type = type
    OBVIOUS
  <1> HIDE DEF p
  <1>11. /\ Thrown.thrown = TRUE /\ Thrown.parser = parser
         /\ Parsed(p).thrown = FALSE /\ Parsed(p).parser = p
    BY DEF Thrown, Parsed
  <1>12. "kErrType" \notin ResponseTypes
    BY DEF ResponseTypes
  <1>13. end \in Nat \ {0}
    BY <1>2, <1>3
  <1>14. CASE ParseHeaderThrows(headers) \/ type = "kErrType"
    BY <1>0, <1>11, <1>13, <1>14 DEF end, nl
  <1>15. CASE ~(ParseHeaderThrows(headers) \/ type = "kErrType")
    <2>1. ParseHead(t) = Parsed(p) /\ p \in Parsers /\ type # "kToBeDetermined"
      BY <1>0, <1>8, <1>9, <1>15
    <2> QED BY <1>10, <1>11, <1>13, <2>1 DEF end, nl
  <1> QED BY <1>14, <1>15

\* An output without header lines is never understood.
LEMMA NoHeadNoReply ==
  ASSUME NEW t \in Seq(Characters), BlankLines(t, NewLine(t)) # {}
  PROVE  ParseHead(t) = Thrown
  <1> DEFINE nl == NewLine(t)
             end == Min(BlankLines(t, nl))
             head == SubSeq(t, 1, end - 1)
             lines == Split(head, Range(nl))
             headers == [i \in DOMAIN lines |-> MakeHeader(lines[i])]
             body == SubSeq(t, end + 2 * Len(nl), Len(t))
             type == ResponseType(headers, body)
             p == [header |-> head, headers |-> headers,
                   body |-> body, type |-> type, state |-> "kBody"]
  <1>0. ParseHead(t) = IF ParseHeaderThrows(headers) \/ type = "kErrType" THEN Thrown ELSE Parsed(p)
    BY Zenon DEF ParseHead
  <1>1. t \in Seq(Symbols)
    BY DEF Symbols
  <1>2. end \in Nat \ {0}
    BY <1>1, HeadTyped
  <1>3. end <= Len(t) /\ Len(t) \in Nat
    <2>1. Len(t) \in Nat
      OBVIOUS
    <2>2. /\ BlankLines(t, <<"lf">>) \subseteq 1..Len(t) - 1
          /\ BlankLines(t, <<"cr", "lf">>) \subseteq 1..Len(t) - 3
      BY <1>1, BlankLinesAre
    <2>3. nl = <<"lf">> \/ nl = <<"cr", "lf">>
      BY NewLineIs DEF LineEnds
    <2>4. BlankLines(t, nl) \subseteq 1..Len(t)
      BY <2>1, <2>2, <2>3
    <2>5. end \in BlankLines(t, nl)
      <3>1. BlankLines(t, nl) \subseteq Nat
        BY <2>4
      <3> QED BY <3>1, MinIs
    <2> QED BY <2>1, <2>4, <2>5
  <1> HIDE DEF nl, end
  <1>4. head \in Seq(Characters)
    BY <1>2, <1>3
  <1> HIDE DEF head
  <1>5. PICK c \in Nat : DOMAIN lines = 1..c /\ (c # 0 => lines[1][1] \in Characters)
    BY <1>4, FirstPiece
  <1> HIDE DEF lines
  <1>6. CASE c = 0
    <2>1. DOMAIN headers = {}
      BY <1>5, <1>6
    <2>2. Len(headers) = 0
      <3>1. headers \in Seq(HeaderLines)
        BY <1>5, HeadersTyped
      <3> HIDE DEF headers
      <3> QED BY <2>1, <3>1
    <2>3. headers # <<"path">>
      <3>1. Len(<<"path">>) = 1
        OBVIOUS
      <3> QED BY <2>2, <3>1
    <2> HIDE DEF headers, body
    <2>4. type = "kErrType"
      BY <2>1, <2>2, <2>3
         DEF ResponseType, Has, ClinetRedirectResponseWithDocument, DocumentResponse,
             LocalRedirectResponse, ClientRedirectResponse
    <2> QED BY <1>0, <2>4
  <1>7. CASE c # 0
    <2>1. 1 \in DOMAIN headers /\ headers[1] = MakeHeader(lines[1])
      BY <1>5, <1>7
    <2>2. MakeHeader(lines[1]) = "bad"
      BY <1>5, <1>7, SymbolsDiffer DEF MakeHeader
    <2> HIDE DEF headers
    <2>3. ParseHeaderThrows(headers)
      BY <2>1, <2>2 DEF ParseHeaderThrows, Has
    <2> QED BY <1>0, <2>3
  <1> QED BY <1>6, <1>7

\* The symbols of a header that are not separators, and where they are.
HeadMark(s, k) == IF s.newLine = <<"lf">> THEN 2 * k - 1 ELSE 3 * k - 2

LEMMA MarksAre ==
  ASSUME NEW s \in ScriptSet, s.lines # <<>>
  PROVE  /\ HeadBlank(s) \in Nat \ {0} /\ HeadBlank(s) <= HeadLen(s)
         /\ HeadBlank(s) + 2 * Len(s.newLine) = HeadLen(s) + 1
         /\ Len(s.lines) \in Nat
         /\ \A k \in 1..Len(s.lines) : /\ HeadMark(s, k) \in Nat
                                       /\ HeadMark(s, k) \in 1..HeadBlank(s) - 1
                                       /\ Output(s)[HeadMark(s, k)] = s.lines[k]
         /\ \A k, l \in 1..Len(s.lines) : k < l => HeadMark(s, k) + 1 < HeadMark(s, l)
         /\ \A i \in 1..HeadBlank(s) - 1 :
              Output(s)[i] \notin Range(s.newLine)
                <=> \E k \in 1..Len(s.lines) : i = HeadMark(s, k)
  <1> DEFINE n == Len(s.lines)
             out == Output(s)
             H == HeadLen(s)
  <1>0. n \in Nat \ {0} /\ \A k \in 1..n : s.lines[k] \in HeaderLines
    BY DEF ScriptSet
  <1>1. H \in Nat /\ \A i \in 1..H : out[i] = HeadOf(s)[i]
    BY HeadIs, OutputIs
  <1>2. s.newLine = <<"lf">> \/ s.newLine = <<"cr", "lf">>
    BY DEF ScriptSet, LineEnds
  <1>3. Len(<<"lf">>) = 1 /\ Len(<<"cr", "lf">>) = 2 /\ <<"lf">> # <<"cr", "lf">>
    <2>1. Len(<<"lf">>) = 1 /\ Len(<<"cr", "lf">>) = 2
      OBVIOUS
    <2> QED BY <2>1
  <1>4. CASE s.newLine = <<"lf">>
    <2>1. H = 2 * n + 1 /\ HeadBlank(s) = 2 * n /\ \A k \in 1..n : HeadMark(s, k) = 2 * k - 1
      <3>1. H = 2 * n + 1
        BY <1>4 DEF HeadLen
      <3>2. HeadBlank(s) = H - 1
        BY <1>4 DEF HeadBlank
      <3>3. \A k \in 1..n : HeadMark(s, k) = 2 * k - 1
        BY <1>4 DEF HeadMark
      <3> HIDE DEF n, H
      <3> QED BY <1>0, <3>1, <3>2, <3>3
    <2>2. Len(s.newLine) = 1 /\ Range(s.newLine) = {"lf"}
      BY <1>4, NewLineIs
    <2>3. \A k \in 1..n : HeadOf(s)[2 * k - 1] = s.lines[k] /\ HeadOf(s)[2 * k] = "lf"
      BY <1>4, HeadIs
    <2> HIDE DEF n, out, H
    <2>4. ASSUME NEW k \in 1..n
          PROVE  /\ 2 * k - 1 \in Nat /\ 2 * k - 1 \in 1..2 * n - 1
                 /\ out[2 * k - 1] = s.lines[k]
                 /\ 2 * k \in 1..H /\ out[2 * k] = "lf"
      <3>1. /\ 2 * k - 1 \in Nat /\ 2 * k - 1 \in 1..2 * n - 1 /\ 2 * k - 1 \in 1..H
            /\ 2 * k \in 1..H
        BY <1>0, <2>1
      <3> QED BY <1>1, <2>3, <3>1
    <2>5. \A k, l \in 1..n : k < l => 2 * k - 1 + 1 < 2 * l - 1
      BY <1>0
    <2>6. ASSUME NEW i \in 1..2 * n - 1
          PROVE  out[i] \notin {"lf"} <=> \E k \in 1..n : i = 2 * k - 1
      <3> DEFINE k == (i + 1) \div 2
      <3>1. k \in 1..n /\ (i = 2 * k - 1 \/ i = 2 * k)
        BY <1>0
      <3>2. \A l \in 1..n : i = 2 * l - 1 => out[i] # "lf"
        <4> TAKE l \in 1..n
        <4>1. out[2 * l - 1] = s.lines[l] /\ s.lines[l] # "lf"
          BY <1>0, <2>4, SymbolsDiffer
        <4> QED BY <4>1
      <3>3. i = 2 * k => out[i] = "lf"
        BY <2>4, <3>1
      <3> HIDE DEF k
      <3> QED BY <3>1, <3>2, <3>3
    <2>7. /\ 2 * n \in Nat \ {0} /\ 2 * n <= H /\ 2 * n + 2 * Len(s.newLine) = H + 1
      BY <1>0, <2>1, <2>2
    <2>8. \A k \in 1..n : /\ HeadMark(s, k) \in Nat
                          /\ HeadMark(s, k) \in 1..HeadBlank(s) - 1
                          /\ out[HeadMark(s, k)] = s.lines[k]
      BY <2>1, <2>4
    <2>9. \A k, l \in 1..n : k < l => HeadMark(s, k) + 1 < HeadMark(s, l)
      BY <2>1, <2>5
    <2>10. \A i \in 1..HeadBlank(s) - 1 :
             out[i] \notin Range(s.newLine) <=> \E k \in 1..n : i = HeadMark(s, k)
      BY <2>1, <2>2, <2>6
    <2> QED BY <1>0, <2>1, <2>7, <2>8, <2>9, <2>10 DEF n, out, H
  <1>5. CASE s.newLine = <<"cr", "lf">>
    <2>1. H = 3 * n + 2 /\ HeadBlank(s) = 3 * n - 1 /\ \A k \in 1..n : HeadMark(s, k) = 3 * k - 2
      <3>1. H = 3 * n + 2
        BY <1>3, <1>5 DEF HeadLen
      <3>2. HeadBlank(s) = H - 3
        BY <1>3, <1>5 DEF HeadBlank
      <3>3. \A k \in 1..n : HeadMark(s, k) = 3 * k - 2
        BY <1>3, <1>5 DEF HeadMark
      <3> HIDE DEF n, H
      <3> QED BY <1>0, <3>1, <3>2, <3>3
    <2>2. Len(s.newLine) = 2 /\ Range(s.newLine) = {"cr", "lf"}
      BY <1>5, NewLineIs
    <2>3. \A k \in 1..n : /\ HeadOf(s)[3 * k - 2] = s.lines[k] /\ HeadOf(s)[3 * k - 1] = "cr"
                          /\ HeadOf(s)[3 * k] = "lf"
      BY <1>5, HeadIs
    <2> HIDE DEF n, out, H
    <2>4. ASSUME NEW k \in 1..n
          PROVE  /\ 3 * k - 2 \in Nat /\ 3 * k - 2 \in 1..3 * n - 2
                 /\ out[3 * k - 2] = s.lines[k]
                 /\ out[3 * k - 1] = "cr" /\ out[3 * k] = "lf"
      <3>1. /\ 3 * k - 2 \in Nat /\ 3 * k - 2 \in 1..3 * n - 2 /\ 3 * k - 2 \in 1..H
            /\ 3 * k - 1 \in 1..H /\ 3 * k \in 1..H
        BY <1>0, <2>1
      <3>2. /\ out[3 * k - 2] = HeadOf(s)[3 * k - 2] /\ out[3 * k - 1] = HeadOf(s)[3 * k - 1]
            /\ out[3 * k] = HeadOf(s)[3 * k]
        BY <1>1, <3>1
      <3> QED BY <2>3, <3>1, <3>2
    <2>5. \A k, l \in 1..n : k < l => 3 * k - 2 + 1 < 3 * l - 2
      BY <1>0
    <2>6. ASSUME NEW i \in 1..3 * n - 2
          PROVE  out[i] \notin {"cr", "lf"} <=> \E k \in 1..n : i = 3 * k - 2
      <3> DEFINE k == (i + 2) \div 3
      <3>1. k \in 1..n /\ (i = 3 * k - 2 \/ i = 3 * k - 1 \/ i = 3 * k)
        BY <1>0
      <3>2. \A l \in 1..n : i = 3 * l - 2 => out[i] # "lf" /\ out[i] # "cr"
        <4> TAKE l \in 1..n
        <4>1. out[3 * l - 2] = s.lines[l] /\ s.lines[l] # "lf" /\ s.lines[l] # "cr"
          BY <1>0, <2>4, SymbolsDiffer
        <4> QED BY <4>1
      <3> HIDE DEF k
      <3>3. i # 3 * k - 2 => out[i] = "lf" \/ out[i] = "cr"
        BY <2>4, <3>1
      <3> QED BY <3>1, <3>2, <3>3
    <2>7. /\ 3 * n - 1 \in Nat \ {0} /\ 3 * n - 1 <= H /\ 3 * n - 1 + 2 * Len(s.newLine) = H + 1
          /\ (3 * n - 1) - 1 = 3 * n - 2
      BY <1>0, <2>1, <2>2
    <2>8. \A k \in 1..n : /\ HeadMark(s, k) \in Nat
                          /\ HeadMark(s, k) \in 1..HeadBlank(s) - 1
                          /\ out[HeadMark(s, k)] = s.lines[k]
      BY <2>1, <2>4, <2>7
    <2>9. \A k, l \in 1..n : k < l => HeadMark(s, k) + 1 < HeadMark(s, l)
      BY <2>1, <2>5
    <2>10. \A i \in 1..HeadBlank(s) - 1 :
             out[i] \notin Range(s.newLine) <=> \E k \in 1..n : i = HeadMark(s, k)
      <3>1. HeadBlank(s) - 1 = 3 * n - 2
        BY <2>1, <2>7
      <3> TAKE i \in 1..HeadBlank(s) - 1
      <3>2. out[i] \notin {"cr", "lf"} <=> \E k \in 1..n : i = 3 * k - 2
        BY <2>6, <3>1
      <3> QED BY <2>1, <2>2, <3>2
    <2> QED BY <1>0, <2>1, <2>7, <2>8, <2>9, <2>10 DEF n, out, H
  <1> QED BY <1>2, <1>4, <1>5

\* The parser's findings when the header is whole and its blank line is found.
LEMMA HeadParsed ==
  ASSUME NEW s \in ScriptSet, s.lines # <<>>,
         NEW m \in 0..Len(Output(s)), m >= HeadLen(s),
         NEW t, t = SubSeq(Output(s), 1, m),
         NewLine(t) = s.newLine,
         HeadBlank(s) \in BlankLines(t, s.newLine),
         \A i \in BlankLines(t, s.newLine) : HeadBlank(s) <= i,
         NEW body, body = SubSeq(Output(s), HeadLen(s) + 1, m),
         NEW type, type = ResponseType(s.lines, body)
  PROVE  ParseHead(t) =
           IF ParseHeaderThrows(s.lines) \/ type = "kErrType" THEN Thrown
           ELSE Parsed([header |-> SubSeq(t, 1, HeadBlank(s) - 1), headers |-> s.lines,
                        body |-> body, type |-> type, state |-> "kBody"])
  <1> DEFINE end == HeadBlank(s)
             n == Len(s.lines)
             head == SubSeq(t, 1, end - 1)
             P == [k \in 1..n |-> HeadMark(s, k)]
             lines == Split(head, Range(s.newLine))
             headers == [i \in DOMAIN lines |-> MakeHeader(lines[i])]
  <1>0. /\ Output(s) \in Seq(Symbols) /\ HeadLen(s) \in Nat
        /\ Len(Output(s)) \in Nat /\ m \in Nat /\ m <= Len(Output(s))
    <2>1. Output(s) \in Seq(Symbols) /\ HeadLen(s) \in Nat
      BY OutputIs, HeadIs
    <2> QED BY <2>1
  <1>1. t \in Seq(Symbols) /\ Len(t) = m /\ \A i \in 1..m : t[i] = Output(s)[i]
    <2>1. 1 \in Nat \ {0} /\ m \in 0..Len(Output(s))
      OBVIOUS
    <2>2. /\ t \in Seq(Symbols)
          /\ Len(t) = IF 1 <= m THEN m - 1 + 1 ELSE 0
          /\ \A i \in 1..m - 1 + 1 : t[i] = Output(s)[1 + i - 1]
      BY <1>0, <2>1, PartsAre
    <2> QED BY <1>0, <2>2
  <1>2. /\ end \in Nat \ {0} /\ end <= HeadLen(s) /\ end + 2 * Len(s.newLine) = HeadLen(s) + 1
        /\ n \in Nat
    BY MarksAre
  <1>3. Min(BlankLines(t, s.newLine)) = end
    <2>1. BlankLines(t, s.newLine) \subseteq Nat
      <3>1. /\ BlankLines(t, <<"lf">>) \subseteq 1..Len(t) - 1
            /\ BlankLines(t, <<"cr", "lf">>) \subseteq 1..Len(t) - 3
        BY <1>1, BlankLinesAre
      <3>2. s.newLine = <<"lf">> \/ s.newLine = <<"cr", "lf">>
        BY DEF ScriptSet, LineEnds
      <3>3. 1..Len(t) - 1 \subseteq Nat /\ 1..Len(t) - 3 \subseteq Nat
        BY <1>0, <1>1
      <3> QED BY <3>1, <3>2, <3>3
    <2> DEFINE least == Min(BlankLines(t, s.newLine))
    <2>2. least \in BlankLines(t, s.newLine) /\ \A i \in BlankLines(t, s.newLine) : least <= i
      BY <2>1, MinIs
    <2> HIDE DEF least
    <2>3. least \in Nat /\ end \in Nat /\ least <= end /\ end <= least
      BY <1>2, <2>1, <2>2
    <2> QED BY <2>3 DEF least
  <1> HIDE DEF end
  <1>4. /\ head \in Seq(Symbols) /\ Len(head) = end - 1
        /\ \A i \in 1..end - 1 : head[i] = Output(s)[i]
    <2>1. 1 \in Nat \ {0} /\ end - 1 \in 0..Len(t) /\ \A i \in 1..end - 1 : i \in 1..m
      BY <1>0, <1>1, <1>2
    <2>2. /\ head \in Seq(Symbols)
          /\ Len(head) = IF 1 <= end - 1 THEN (end - 1) - 1 + 1 ELSE 0
          /\ \A i \in 1..(end - 1) - 1 + 1 : head[i] = t[1 + i - 1]
      BY <1>1, <2>1, PartsAre
    <2> HIDE DEF head
    <2>0. /\ (end - 1) - 1 + 1 = end - 1
          /\ ~(1 <= end - 1) => end - 1 = 0
          /\ \A i \in 1..end - 1 : 1 + i - 1 = i
      BY <1>2
    <2>3. Len(head) = end - 1 /\ \A i \in 1..end - 1 : head[i] = t[i]
      BY <2>0, <2>2
    <2> QED BY <1>1, <2>1, <2>2, <2>3
  <1> HIDE DEF head
  <1>5. /\ P \in [1..n -> Nat]
        /\ \A k \in 1..n : P[k] \in 1..Len(head)
        /\ \A k, l \in 1..n : k < l => P[k] + 1 < P[l]
        /\ \A i \in 1..Len(head) : head[i] \notin Range(s.newLine) <=> \E k \in 1..n : i = P[k]
        /\ \A k \in 1..n : head[P[k]] = s.lines[k]
    <2>1. /\ \A k \in 1..n : /\ HeadMark(s, k) \in Nat
                             /\ HeadMark(s, k) \in 1..end - 1
                             /\ Output(s)[HeadMark(s, k)] = s.lines[k]
          /\ \A k, l \in 1..n : k < l => HeadMark(s, k) + 1 < HeadMark(s, l)
          /\ \A i \in 1..end - 1 :
               Output(s)[i] \notin Range(s.newLine) <=> \E k \in 1..n : i = HeadMark(s, k)
      BY MarksAre DEF end
    <2> HIDE DEF n
    <2>2. P \in [1..n -> Nat] /\ \A k \in 1..n : P[k] = HeadMark(s, k)
      BY <2>1
    <2> HIDE DEF P
    <2>3. \A k \in 1..n : P[k] \in 1..Len(head) /\ head[P[k]] = s.lines[k]
      BY <1>4, <2>1, <2>2
    <2>4. \A k, l \in 1..n : k < l => P[k] + 1 < P[l]
      BY <2>1, <2>2
    <2>5. \A i \in 1..Len(head) : head[i] \notin Range(s.newLine) <=> \E k \in 1..n : i = P[k]
      BY <1>4, <2>1, <2>2
    <2> QED BY <2>2, <2>3, <2>4, <2>5
  <1> HIDE DEF P, n
  <1>6. DOMAIN lines = 1..n /\ \A k \in 1..n : lines[k] = <<head[P[k]]>>
    <2>1. Singles(P, n, head, Range(s.newLine))
      BY <1>5 DEF Singles
    <2> QED BY <1>2, <1>4, <2>1, SplitSingles
  <1> HIDE DEF lines
  <1>7. headers = s.lines
    <2>1. \A k \in 1..n : s.lines[k] \in HeaderLines
      BY DEF ScriptSet, n
    <2>2. DOMAIN lines = 1..n
      BY <1>6
    <2>3. ASSUME NEW k \in 1..n
          PROVE  MakeHeader(lines[k]) = s.lines[k]
      <3>1. lines[k] = <<s.lines[k]>>
        BY <1>5, <1>6
      <3> QED BY <2>1, <3>1 DEF MakeHeader
    <2>4. headers = [k \in 1..n |-> s.lines[k]]
      BY <2>2, <2>3
    <2>5. s.lines = [k \in 1..n |-> s.lines[k]]
      BY DEF ScriptSet, n
    <2> QED BY <2>4, <2>5
  <1> HIDE DEF headers
  <1>8. SubSeq(t, end + 2 * Len(s.newLine), Len(t)) = body
    <2> DEFINE H == HeadLen(s)
               u == SubSeq(t, H + 1, m)
               v == SubSeq(Output(s), H + 1, m)
    <2>1. H + 1 \in Nat \ {0} /\ m \in 0..Len(t) /\ m \in 0..Len(Output(s))
      BY <1>0, <1>1
    <2>2. /\ u \in Seq(Symbols) /\ Len(u) = IF H + 1 <= m THEN m - (H + 1) + 1 ELSE 0
          /\ \A i \in 1..m - (H + 1) + 1 : u[i] = t[H + 1 + i - 1]
      BY <1>1, <2>1, PartsAre
    <2>3. /\ v \in Seq(Symbols) /\ Len(v) = IF H + 1 <= m THEN m - (H + 1) + 1 ELSE 0
          /\ \A i \in 1..m - (H + 1) + 1 : v[i] = Output(s)[H + 1 + i - 1]
      BY <1>0, <2>1, PartsAre
    <2>4. H \in Nat /\ m \in Nat
      BY <1>0
    <2> HIDE DEF u, v, H
    <2>5. \A i \in 1..m - (H + 1) + 1 : H + 1 + i - 1 \in 1..m
      BY <2>4
    <2>6. \A i \in 1..m - (H + 1) + 1 : u[i] = v[i]
      BY <1>1, <2>2, <2>3, <2>5
    <2>7. 1..Len(u) \subseteq 1..m - (H + 1) + 1
      BY <2>2, <2>4
    <2>8. \A i \in 1..Len(u) : u[i] = v[i]
      BY <2>6, <2>7
    <2>9. u = v
      BY <2>2, <2>3, <2>8, SameTexts
    <2>10. end + 2 * Len(s.newLine) = H + 1
      BY <1>2 DEF H
    <2> QED BY <1>1, <2>9, <2>10 DEF u, v, H
  <1>9. ParseHead(t) =
          IF ParseHeaderThrows(headers) \/ ResponseType(headers, body) = "kErrType" THEN Thrown
          ELSE Parsed([header |-> head, headers |-> headers, body |-> body,
                       type |-> ResponseType(headers, body), state |-> "kBody"])
    BY <1>3, <1>8, Zenon DEF ParseHead, headers, lines, head
  <1> QED BY <1>7, <1>9 DEF head, end

-----------------------------------------------------------------------------
(* What a header means.                                                      *)

LEMMA HasIs ==
  \A hs, h : Has(hs, {h}) <=> h \in Range(hs)
  BY DEF Has, Range

LEMMA ThreeLines ==
  ASSUME NEW hs \in Seq(HeaderLines), {"type", "found", "uri"} \subseteq Range(hs)
  PROVE  Len(hs) >= 3
  <1>1. PICK i \in 1..Len(hs), j \in 1..Len(hs), k \in 1..Len(hs) :
          hs[i] = "type" /\ hs[j] = "found" /\ hs[k] = "uri"
    BY DEF Range
  <1>2. i # j /\ j # k /\ i # k
    BY <1>1
  <1>3. Len(hs) \in Nat
    OBVIOUS
  <1> QED BY <1>2, <1>3

\* The parser throws at a header that means nothing, and finds what another
\* one means.
LEMMA MeaningIs ==
  ASSUME script \in ScriptSet, ~CutMatters, NEW body, script.body = <<>> => body = <<>>
  PROVE  /\ ParseHeaderThrows(script.lines) \/ ResponseType(script.lines, body) = "kErrType"
              <=> Meaning = "error"
         /\ Meaning # "error" => ResponseType(script.lines, body) = Meaning
  <1> DEFINE hs == script.lines
  <1>1. hs \in Seq(HeaderLines) /\ DOMAIN hs = 1..Len(hs) /\ Len(hs) \in Nat
    BY DEF ScriptSet
  <1>2. Lines = Range(hs)
    BY DEF Lines
  <1>3. ClinetRedirectResponseWithDocument(hs) <=> {"type", "found", "uri"} \subseteq Lines
    <2>1. ClinetRedirectResponseWithDocument(hs)
            <=> Len(hs) >= 3 /\ {"type", "found", "uri"} \subseteq Lines
      BY <1>2, HasIs DEF ClinetRedirectResponseWithDocument
    <2>2. {"type", "found", "uri"} \subseteq Lines => Len(hs) >= 3
      BY <1>1, <1>2, ThreeLines
    <2> QED BY <2>1, <2>2
  <1>4. DocumentResponse(hs) <=> "type" \in Lines /\ "badStatus" \notin Lines
    BY <1>2, HasIs DEF DocumentResponse
  <1>5. ClientRedirectResponse(hs) <=> "uri" \in Lines
    BY <1>2, HasIs DEF ClientRedirectResponse
  <1>6. LocalRedirectResponse(hs, body) <=> hs = <<"path">> /\ script.body = <<>>
    BY DEF LocalRedirectResponse, CutMatters
  <1>7. Has(hs, {"forbidden"}) <=> "forbidden" \in Lines
    BY <1>2, HasIs
  <1>8. ParseHeaderThrows(hs)
          <=> "bad" \in Lines \/ ~(\A i, j \in DOMAIN hs : Key(hs[i]) = Key(hs[j]) => i = j)
    <2>1. Has(hs, {"bad"}) <=> "bad" \in Lines
      BY <1>2, HasIs
    <2>2. (\E i, j \in DOMAIN hs : i < j /\ Key(hs[i]) = Key(hs[j]))
            <=> ~(\A i, j \in DOMAIN hs : Key(hs[i]) = Key(hs[j]) => i = j)
      <3>1. \A i, j \in DOMAIN hs : i # j => i < j \/ j < i
        BY <1>1
      <3>2. \A i, j \in DOMAIN hs : i < j => i # j
        BY <1>1
      <3> QED BY <3>1, <3>2
    <2> QED BY <2>1, <2>2 DEF ParseHeaderThrows
  <1>9. ValidHead <=> ~ParseHeaderThrows(hs) /\ "forbidden" \notin Lines
    BY <1>8 DEF ValidHead
  <1>10. CASE ~ValidHead
    <2>1. Meaning = "error"
      BY <1>10 DEF Meaning
    <2>2. "forbidden" \in Lines => ResponseType(hs, body) = "kErrType"
      BY <1>7 DEF ResponseType
    <2> QED BY <1>9, <1>10, <2>1, <2>2
  <1>11. CASE ValidHead
    <2>1. ~ParseHeaderThrows(hs) /\ ~Has(hs, {"forbidden"})
      BY <1>7, <1>9, <1>11
    <2>2. CASE {"type", "found", "uri"} \subseteq Lines
      <3>1. Meaning = "kClientRediredocResponse"
        BY <1>11, <2>2 DEF Meaning
      <3>2. ResponseType(hs, body) = "kClientRediredocResponse"
        BY <1>3, <2>1, <2>2 DEF ResponseType
      <3> QED BY <2>1, <3>1, <3>2
    <2>3. CASE ~({"type", "found", "uri"} \subseteq Lines)
      <3>1. Meaning =
              CASE "type" \in Lines /\ "badStatus" \notin Lines -> "kDocumentResponse"
                [] script.lines = <<"path">> /\ script.body = <<>> -> "kLocalRedirResponse"
                [] "uri" \in Lines /\ ({"type", "badStatus"} \subseteq Lines
                                       \/ "type" \notin Lines) -> "kClientRedirResponse"
                [] OTHER -> "error"
        BY <1>11, <2>3, Zenon DEF Meaning
      <3>2. ResponseType(hs, body) =
              CASE DocumentResponse(hs) -> "kDocumentResponse"
                [] ~DocumentResponse(hs)
                     /\ LocalRedirectResponse(hs, body) -> "kLocalRedirResponse"
                [] ~DocumentResponse(hs)
                     /\ ClientRedirectResponse(hs) -> "kClientRedirResponse"
                [] OTHER -> "kErrType"
        BY <1>3, <2>1, <2>3, Zenon DEF ResponseType
      <3>3. hs = <<"path">> => Lines = {"path"}
        BY <1>2 DEF Range
      <3>4. CASE DocumentResponse(hs)
        <4>1. hs # <<"path">>
          BY <1>4, <3>3, <3>4
        <4>2. ~({"type", "badStatus"} \subseteq Lines \/ "type" \notin Lines)
          BY <1>4, <3>4
        <4>3. Meaning = "kDocumentResponse"
          BY <1>4, <3>1, <3>4, <4>1, <4>2
        <4>4. ResponseType(hs, body) = "kDocumentResponse"
          BY <3>2, <3>4
        <4> QED BY <2>1, <4>3, <4>4
      <3>5. CASE ~DocumentResponse(hs) /\ LocalRedirectResponse(hs, body)
        <4>1. "uri" \notin Lines /\ "type" \notin Lines
          BY <1>6, <3>3, <3>5
        <4>2. Meaning = "kLocalRedirResponse"
          BY <1>6, <3>1, <3>5, <4>1
        <4>3. ResponseType(hs, body) = "kLocalRedirResponse"
          BY <1>5, <3>2, <3>5, <4>1
        <4> QED BY <2>1, <4>2, <4>3
      <3>6. CASE ~DocumentResponse(hs) /\ ~LocalRedirectResponse(hs, body) /\ "uri" \in Lines
        <4>1. {"type", "badStatus"} \subseteq Lines \/ "type" \notin Lines
          BY <1>4, <3>6
        <4>2. Meaning = "kClientRedirResponse"
          BY <1>4, <1>6, <3>1, <3>6, <4>1
        <4>3. ResponseType(hs, body) = "kClientRedirResponse"
          BY <1>5, <3>2, <3>6
        <4> QED BY <2>1, <4>2, <4>3
      <3>7. CASE ~DocumentResponse(hs) /\ ~LocalRedirectResponse(hs, body) /\ "uri" \notin Lines
        <4>2. Meaning = "error"
          BY <1>4, <1>6, <3>1, <3>7
        <4>3. ResponseType(hs, body) = "kErrType"
          BY <1>5, <3>2, <3>7
        <4> QED BY <4>2, <4>3
      <3> QED BY <3>4, <3>5, <3>6, <3>7
    <2> QED BY <2>2, <2>3
  <1> QED BY <1>10, <1>11

\* An output that begins with a blank line means nothing.
LEMMA NoLinesNoMeaning ==
  ASSUME script \in ScriptSet, script.lines = <<>>
  PROVE  Meaning = "error"
  <1>1. Lines = {}
    BY DEF Lines, Range
  <1>2. script.lines # <<"path">>
    <2>1. Len(script.lines) = 0 /\ Len(<<"path">>) = 1
      OBVIOUS
    <2> QED BY <2>1
  <1> QED BY <1>1, <1>2 DEF Meaning

-----------------------------------------------------------------------------
(* What one read brings.                                                     *)

\* What a C string keeps of a text.
LEMMA CStringIs ==
  \A t \in Seq(Symbols) :
    /\ AsCString(t) \in Seq(Symbols)
    /\ Len(AsCString(t)) \in Nat /\ Len(AsCString(t)) <= Len(t)
    /\ \A i \in 1..Len(AsCString(t)) : AsCString(t)[i] = t[i]
    /\ \A k \in 0..Len(t) : (\A i \in 1..k : t[i] # "nul") => Len(AsCString(t)) >= k
  <1> TAKE t \in Seq(Symbols)
  <1> DEFINE I == {i \in 1..Len(t) : t[i] = "nul"}
             nul == IF I # {} THEN Min(I) ELSE 0
  <1>0. Len(t) \in Nat /\ \A i \in 1..Len(t) : t[i] \in Symbols
    OBVIOUS
  <1>1. AsCString(t) = IF nul = 0 THEN t ELSE SubSeq(t, 1, nul - 1)
    BY DEF AsCString, SelectInSeq
  <1>2. CASE I = {}
    <2>1. AsCString(t) = t
      BY <1>1, <1>2
    <2> QED BY <1>0, <2>1
  <1>3. CASE I # {}
    <2>1. I \subseteq Nat
      BY <1>0
    <2>2. nul \in I /\ \A i \in I : nul <= i
      <3>1. Min(I) \in I /\ \A i \in I : Min(I) <= i
        <4> HIDE DEF I
        <4> QED BY <1>3, <2>1, MinIs
      <3> QED BY <1>3, <3>1
    <2>3. nul \in 1..Len(t) /\ t[nul] = "nul"
      BY <2>2
    <2>4. AsCString(t) = SubSeq(t, 1, nul - 1)
      <3> HIDE DEF I, nul
      <3> QED BY <1>1, <2>3
    <2> HIDE DEF I, nul
    <2>6. /\ AsCString(t) \in Seq(Symbols)
          /\ Len(AsCString(t)) = nul - 1
          /\ \A i \in 1..nul - 1 : AsCString(t)[i] = t[i]
      BY <1>0, <2>3, <2>4
    <2>7. ASSUME NEW k \in 0..Len(t), \A i \in 1..k : t[i] # "nul"
          PROVE  nul - 1 >= k
      BY <1>0, <2>3, <2>7
    <2> QED BY <1>0, <2>3, <2>6, <2>7
  <1> QED BY <1>2, <1>3

\* A header holds no byte 0.
LEMMA HeadHasNoNul ==
  ASSUME NEW s \in ScriptSet, s.lines # <<>>, NEW i \in 1..HeadLen(s)
  PROVE  Output(s)[i] # "nul"
  <1> DEFINE H == HeadLen(s)
             end == HeadBlank(s)
  <1>0. H \in Nat /\ end \in Nat \ {0} /\ end <= H /\ i \in 1..H
    BY HeadIs, MarksAre
  <1>1. CASE i \in 1..end - 1
    <2>1. CASE Output(s)[i] \in Range(s.newLine)
      <3>1. s.newLine = <<"lf">> \/ s.newLine = <<"cr", "lf">>
        BY DEF ScriptSet, LineEnds
      <3>2. Range(s.newLine) \subseteq {"cr", "lf"}
        BY <3>1, NewLineIs
      <3> QED BY <2>1, <3>2
    <2>2. CASE Output(s)[i] \notin Range(s.newLine)
      <3>1. PICK k \in 1..Len(s.lines) : i = HeadMark(s, k)
        BY <1>1, <2>2, MarksAre
      <3>2. Output(s)[i] = s.lines[k]
        BY <3>1, MarksAre
      <3>3. s.lines[k] \in HeaderLines
        BY DEF ScriptSet
      <3> QED BY <3>2, <3>3, SymbolsDiffer
    <2> QED BY <2>1, <2>2
  <1>2. CASE ~(i \in 1..end - 1)
    <2>1. CASE s.newLine = <<"lf">>
      <3>1. H \in Nat /\ end = H - 1
        BY <1>0, <2>1 DEF HeadBlank
      <3>2. H - 1 \in 1..H - 1 /\ (i = H - 1 \/ i = (H - 1) + 1)
        <4> HIDE DEF H, end
        <4> QED BY <1>0, <1>2, <3>1
      <3>3. Output(s)[H - 1] = "lf" /\ Output(s)[(H - 1) + 1] = "lf"
        BY <2>1, <3>2, LfHead
      <3> HIDE DEF H
      <3> QED BY <3>2, <3>3
    <2>2. CASE s.newLine = <<"cr", "lf">>
      <3>0. s.newLine # <<"lf">>
        BY <2>2, NewLineIs
      <3>1. H \in Nat /\ end = H - 3
        BY <1>0, <3>0 DEF HeadBlank
      <3>2. H - 3 \in 1..H - 3 /\ i \in {H - 3, (H - 3) + 1, (H - 3) + 2, (H - 3) + 3}
        <4> HIDE DEF H, end
        <4> QED BY <1>0, <1>2, <3>1
      <3>3. /\ Output(s)[H - 3] = "cr" /\ Output(s)[(H - 3) + 1] = "lf"
            /\ Output(s)[(H - 3) + 2] = "cr" /\ Output(s)[(H - 3) + 3] = "lf"
        BY <2>2, <3>2, CrlfHead
      <3> HIDE DEF H
      <3> QED BY <3>2, <3>3
    <2> QED BY <2>1, <2>2 DEF ScriptSet, LineEnds
  <1> QED BY <1>1, <1>2

\* x is what Parse is given of the next n symbols of the output.
PieceOf(x, n) ==
  /\ n \in Nat \ {0} /\ read + n <= Len(Output(script))
  /\ x \in Seq(Symbols) /\ Len(x) <= n
  /\ \A i \in 1..Len(x) : x[i] = Output(script)[read + i]
  /\ ~HasNul /\ script.lines # <<>> => Len(x) = n
  /\ script.lines # <<>> /\ read < HeadLen(script) =>
       /\ x # <<>>
       /\ read + n < HeadLen(script) => Len(x) = n
       /\ read + n >= HeadLen(script) => read + Len(x) >= HeadLen(script)

LEMMA PieceIs ==
  ASSUME TypeOK, NEW n \in Nat \ {0}, read + n <= Len(Output(script))
  PROVE  PieceOf(AsCString(SubSeq(Output(script), read + 1, read + n)), n)
  <1> DEFINE out == Output(script)
             H == HeadLen(script)
             t == SubSeq(out, read + 1, read + n)
             x == AsCString(t)
             L == Len(x)
  <1>0. /\ script \in ScriptSet /\ out \in Seq(Symbols) /\ H \in Nat
        /\ Len(out) \in Nat /\ read \in Nat /\ n \in Nat /\ read + n \in 0..Len(out)
        /\ Len(script.body) \in Nat /\ Len(out) = H + Len(script.body)
    <2>1. script \in ScriptSet /\ read \in 0..Len(out)
      BY DEF TypeOK
    <2>2. /\ out \in Seq(Symbols) /\ H \in Nat
          /\ Len(script.body) \in Nat /\ Len(out) = H + Len(script.body)
      BY <2>1, OutputIs, HeadIs
    <2>3. Len(out) \in Nat
      BY <2>2
    <2> HIDE DEF out
    <2> QED BY <2>1, <2>2, <2>3 DEF out
  <1>1. t \in Seq(Symbols) /\ Len(t) = n /\ \A i \in 1..n : t[i] = out[read + i]
    <2>1. read + 1 \in Nat \ {0} /\ read + n \in 0..Len(out)
      BY <1>0
    <2>2. /\ t \in Seq(Symbols)
          /\ Len(t) = IF read + 1 <= read + n THEN (read + n) - (read + 1) + 1 ELSE 0
          /\ \A i \in 1..(read + n) - (read + 1) + 1 : t[i] = out[read + 1 + i - 1]
      BY <1>0, <2>1, PartsAre
    <2>3. read + 1 <= read + n /\ (read + n) - (read + 1) + 1 = n
      BY <1>0
    <2>4. \A i \in 1..n : read + 1 + i - 1 = read + i
      BY <1>0
    <2> HIDE DEF t, out
    <2> QED BY <2>2, <2>3, <2>4
  <1> HIDE DEF t
  <1>2. /\ x \in Seq(Symbols) /\ L \in Nat /\ L <= n
        /\ \A i \in 1..L : x[i] = t[i]
        /\ \A k \in 0..n : (\A i \in 1..k : t[i] # "nul") => L >= k
    BY <1>1, CStringIs
  <1>3. \A i \in 1..L : x[i] = out[read + i]
    <2>1. 1..L \subseteq 1..n
      BY <1>0, <1>2
    <2> HIDE DEF x, L, out
    <2> QED BY <1>1, <1>2, <2>1
  <1>4. ASSUME script.lines # <<>>, NEW i \in 1..H
        PROVE  out[i] # "nul"
    BY <1>0, <1>4, HeadHasNoNul
  <1>5. ASSUME script.lines # <<>>, ~HasNul
        PROVE  L = n
    <2>1. ASSUME NEW i \in 1..n PROVE t[i] # "nul"
      <3>1. CASE read + i \in 1..H
        BY <1>1, <1>4, <1>5, <3>1
      <3>2. CASE ~(read + i \in 1..H)
        <4> DEFINE j == (read + i) - H
        <4>1. j \in 1..Len(script.body) /\ H + j = read + i
          <5> DEFINE M == Len(script.body)
                     N == Len(out)
          <5>1. /\ H \in Nat /\ M \in Nat /\ N = H + M /\ read + n <= N /\ N \in Nat
                /\ read \in Nat /\ n \in Nat /\ i \in Nat /\ i >= 1 /\ i <= n
            BY <1>0
          <5> HIDE DEF M, N, H
          <5>2. read + i > H /\ read + i <= H + M
            BY <3>2, <5>1
          <5>3. j \in 1..M /\ H + j = read + i
            BY <5>1, <5>2
          <5> QED BY <5>3 DEF M
        <4> HIDE DEF j
        <4>2. out[H + j] = script.body[j]
          BY <1>0, <4>1, OutputIs
        <4>3. script.body[j] # "nul"
          BY <1>0, <1>5, <4>1 DEF HasNul, Range, ScriptSet
        <4> QED BY <1>1, <4>1, <4>2, <4>3
      <3> QED BY <3>1, <3>2
    <2>2. n \in 0..n
      BY <1>0
    <2>3. L >= n
      BY <1>2, <2>1, <2>2
    <2> QED BY <1>0, <1>2, <2>3
  <1>6. ASSUME script.lines # <<>>, read < H
        PROVE  /\ L >= 1
               /\ read + n < H => L = n
               /\ read + n >= H => read + L >= H
    <2> DEFINE k == IF read + n < H THEN n ELSE H - read
    <2>1. k \in 0..n /\ k >= 1 /\ read + k <= H
      BY <1>0, <1>6
    <2>2. ASSUME NEW i \in 1..k PROVE t[i] # "nul"
      <3>1. i \in 1..n /\ read + i \in 1..H
        BY <1>0, <2>1
      <3> QED BY <1>1, <1>4, <1>6, <3>1
    <2>3. L >= k
      <3> HIDE DEF k
      <3> QED BY <1>2, <2>1, <2>2
    <2> HIDE DEF L, H
    <2> QED BY <1>0, <1>2, <2>1, <2>3
  <1>7. L >= 1 => x # <<>>
    <2>1. Len(<<>>) = 0
      OBVIOUS
    <2> QED BY <2>1
  <1> HIDE DEF x, L
  <1>8. PieceOf(x, n)
    BY <1>0, <1>2, <1>3, <1>5, <1>6, <1>7 DEF PieceOf, L
  <1> QED BY <1>8 DEF x, t

\* A part of a text and what follows it.
LEMMA Extended ==
  ASSUME NEW t \in Seq(Symbols), NEW a \in Nat \ {0}, NEW r \in Nat, a <= r + 1,
         NEW x \in Seq(Symbols), r + Len(x) <= Len(t),
         \A i \in 1..Len(x) : x[i] = t[r + i]
  PROVE  SubSeq(t, a, r) \o x = SubSeq(t, a, r + Len(x))
  <1> DEFINE L == Len(x)
             u == SubSeq(t, a, r)
             v == SubSeq(t, a, r + L)
  <1>0. L \in Nat /\ Len(t) \in Nat /\ r \in 0..Len(t) /\ r + L \in 0..Len(t)
    <2>1. L \in Nat /\ Len(t) \in Nat
      OBVIOUS
    <2> QED BY <2>1
  <1>1. /\ u \in Seq(Symbols) /\ Len(u) = IF a <= r THEN r - a + 1 ELSE 0
        /\ \A i \in 1..r - a + 1 : u[i] = t[a + i - 1]
    BY <1>0, PartsAre
  <1>2. /\ v \in Seq(Symbols) /\ Len(v) = IF a <= r + L THEN (r + L) - a + 1 ELSE 0
        /\ \A i \in 1..(r + L) - a + 1 : v[i] = t[a + i - 1]
    BY <1>0, PartsAre
  <1>3. /\ u \o x \in Seq(Symbols) /\ Len(u \o x) = Len(u) + L
        /\ \A i \in 1..Len(u) : (u \o x)[i] = u[i]
        /\ \A j \in 1..L : (u \o x)[Len(u) + j] = x[j]
    BY <1>1, TextsJoined
  <1> DEFINE w == u \o x
             K == r - a + 1
  <1>4. K \in Nat /\ (r + L) - a + 1 = K + L
    BY <1>0
  <1>5. Len(u) = K /\ Len(v) = K + L
    <2> HIDE DEF u, v, L
    <2> QED BY <1>0, <1>1, <1>2
  <1> HIDE DEF u, v, w
  <1>6. ASSUME NEW i \in 1..K + L PROVE w[i] = v[i]
    <2>1. CASE i \in 1..K
      <3>1. w[i] = u[i]
        BY <1>3, <1>5, <2>1 DEF w
      <3>2. u[i] = t[a + i - 1]
        BY <1>1, <2>1
      <3> QED BY <1>2, <1>4, <3>1, <3>2
    <2>2. CASE ~(i \in 1..K)
      <3> DEFINE j == i - K
      <3>1. j \in 1..L /\ K + j = i /\ r + j = a + i - 1
        <4> HIDE DEF L
        <4> QED BY <1>0, <1>4, <2>2
      <3> HIDE DEF j, K
      <3>2. w[K + j] = x[j]
        BY <1>3, <1>5, <3>1 DEF w
      <3>3. x[j] = t[r + j]
        BY <3>1
      <3>4. v[i] = t[a + i - 1]
        BY <1>2, <1>4 DEF K
      <3> QED BY <3>1, <3>2, <3>3, <3>4
    <2> QED BY <2>1, <2>2
  <1>7. w \in Seq(Symbols) /\ Len(w) = K + L
    BY <1>3, <1>5 DEF w
  <1> HIDE DEF K, L
  <1>8. w = v
    BY <1>2, <1>5, <1>6, <1>7, SameTexts
  <1> QED BY <1>8 DEF w, u, v, L

-----------------------------------------------------------------------------
(* The inductive invariant.                                                  *)

\* How far the parser is, and what was published.
StagesFit ==
  /\ parser.state = "kBody" <=> parser.type # "kToBeDetermined"
  /\ socket.type = parser.type
  /\ published = "none" =>
       parser.type = "kToBeDetermined" /\ ~socket.code /\ socket.size \in {"unset", "data"}
  /\ published = "error" => parser.type = "kToBeDetermined" /\ socket.code
  /\ published \in {"reply", "redirect"} => parser.type # "kToBeDetermined"
  /\ published = "reply" => ~socket.code
  /\ published = "redirect" <=> parser.type = "kLocalRedirResponse"

\* Before the header is complete the parser holds all that was read.
HeaderFits ==
  published = "none" =>
    \/ script.lines = <<>> /\ parser.header \in Seq(Characters)
    \/ /\ script.lines # <<>> /\ read < HeadLen(script)
       /\ parser.header = SubSeq(Output(script), 1, read)

\* Afterwards it holds what the header means, and the body read so far.
BodyFits ==
  parser.state = "kBody" =>
    /\ script.lines # <<>> /\ read >= HeadLen(script)
    /\ ~CutMatters => /\ parser.type = Meaning
                      /\ parser.headers = script.lines /\ socket.headers = script.lines
    /\ ~CutMatters /\ ~HasNul =>
         /\ parser.body = SubSeq(Output(script), HeadLen(script) + 1, read)
         /\ socket.body = parser.body

Inv == TypeOK /\ StagesFit /\ HeaderFits /\ BodyFits /\ ErrorIsRight

-----------------------------------------------------------------------------
(* CgiParser::Parse.                                                         *)

WithHeader(p, h) == [p EXCEPT !.header = h]
WithBody(p, b) == [p EXCEPT !.body = b]

LEMMA ParseIs ==
  ASSUME StagesFit, NEW x, NEW header, header = parser.header \o x
  PROVE  /\ x = <<>> /\ parser.type = "kToBeDetermined" => Parse(parser, x) = Thrown
         /\ parser.state = "kBody" =>
              Parse(parser, x) = Parsed(WithBody(parser, parser.body \o x))
         /\ x # <<>> /\ parser.type = "kToBeDetermined" =>
              /\ BlankLines(header, NewLine(header)) # {} => Parse(parser, x) = ParseHead(header)
              /\ BlankLines(header, NewLine(header)) = {} /\ Len(header) <= kMaxHeaderSize =>
                   Parse(parser, x) = Parsed(WithHeader(parser, header))
              /\ BlankLines(header, NewLine(header)) = {} /\ ~(Len(header) <= kMaxHeaderSize) =>
                   Parse(parser, x) = Thrown
  <1>1. parser.state = "kBody" <=> parser.type # "kToBeDetermined"
    BY DEF StagesFit
  <1> DEFINE blank == BlankLines(header, NewLine(header)) # {}
             late == CASE blank -> ParseHead(header)
                       [] ~blank /\ Len(header) <= kMaxHeaderSize ->
                            Parsed(WithHeader(parser, header))
                       [] OTHER -> Thrown
  <1>2. Parse(parser, x) =
          CASE x = <<>> /\ parser.type = "kToBeDetermined" -> Thrown
            [] parser.state = "kBody" -> Parsed(WithBody(parser, parser.body \o x))
            [] OTHER -> late
    BY Zenon DEF Parse, WithHeader, WithBody
  <1>3. /\ blank => late = ParseHead(header)
        /\ ~blank /\ Len(header) <= kMaxHeaderSize =>
             late = Parsed(WithHeader(parser, header))
        /\ ~blank /\ ~(Len(header) <= kMaxHeaderSize) => late = Thrown
    OBVIOUS
  <1> HIDE DEF late
  <1>4. x = <<>> /\ parser.type = "kToBeDetermined" => Parse(parser, x) = Thrown
    BY <1>1, <1>2
  <1>5. parser.state = "kBody" => Parse(parser, x) = Parsed(WithBody(parser, parser.body \o x))
    BY <1>1, <1>2
  <1>6. x # <<>> /\ parser.type = "kToBeDetermined" => Parse(parser, x) = late
    BY <1>1, <1>2
  <1> QED BY <1>3, <1>4, <1>5, <1>6

\* What is left of a reading: parser p, and whether Parse threw.
ReadsOn(o) ==
  /\ ~o.thrown /\ o.parser \in Parsers
  /\ o.parser.state = "kHeader" /\ o.parser.type = "kToBeDetermined"

HeadFound(o) ==
  /\ ~o.thrown /\ o.parser \in Parsers
  /\ o.parser.state = "kBody" /\ o.parser.type # "kToBeDetermined"

GivesUp(o) == o.thrown /\ o.parser = parser

LEMMA OutcomesAre ==
  /\ GivesUp(Thrown)
  /\ \A p : Parsed(p).parser = p /\ ~Parsed(p).thrown
  /\ \A p \in Parsers, h \in Seq(Symbols) :
       /\ WithHeader(p, h) \in Parsers
       /\ WithHeader(p, h).header = h
       /\ WithHeader(p, h).type = p.type
       /\ WithHeader(p, h).state = p.state
  /\ \A p \in Parsers, b \in Seq(Symbols) :
       /\ WithBody(p, b) \in Parsers
       /\ WithBody(p, b).body = b
       /\ WithBody(p, b).type = p.type
       /\ WithBody(p, b).state = p.state
       /\ WithBody(p, b).headers = p.headers
       /\ WithBody(p, b).header = p.header
  BY DEF GivesUp, Thrown, Parsed, Parsers, WithHeader, WithBody

\* Parse before the header is complete, for a script that has header lines.
LEMMA ParseInHead ==
  ASSUME Inv, published = "none", script.lines # <<>>,
         NEW n, NEW x, PieceOf(x, n), NEW o, o = Parse(parser, x)
  PROVE  \/ /\ ReadsOn(o) /\ read + n < HeadLen(script)
            /\ o.parser.header = SubSeq(Output(script), 1, read + n)
         \/ /\ GivesUp(o)
            /\ Meaning = "error" \/ CutMatters \/ HeadLen(script) > kMaxHeaderSize + 1
         \/ /\ HeadFound(o) /\ read + n >= HeadLen(script)
            /\ ~CutMatters => o.parser.type = Meaning /\ o.parser.headers = script.lines
            /\ ~CutMatters /\ ~HasNul =>
                 o.parser.body = SubSeq(Output(script), HeadLen(script) + 1, read + n)
  <1> DEFINE out == Output(script)
             H == HeadLen(script)
             L == Len(x)
             m == read + L
             header == parser.header \o x
  <1>0. /\ script \in ScriptSet /\ out \in Seq(Symbols) /\ H \in Nat /\ Len(out) \in Nat
        /\ read \in Nat /\ read < H /\ n \in Nat \ {0} /\ L \in Nat /\ kMaxHeaderSize \in Nat
        /\ parser.header = SubSeq(out, 1, read) /\ x \in Seq(Symbols)
        /\ parser \in Parsers /\ parser.type = "kToBeDetermined" /\ parser.state = "kHeader"
    <2>1. script \in ScriptSet /\ parser \in Parsers /\ read \in Nat
      BY DEF Inv, TypeOK
    <2>2. read < H /\ parser.header = SubSeq(out, 1, read)
      BY DEF Inv, HeaderFits
    <2>3. n \in Nat \ {0} /\ x \in Seq(Symbols)
      BY DEF PieceOf
    <2>4. L \in Nat
      BY <2>3
    <2>5. parser.type = "kToBeDetermined" /\ parser.state # "kBody"
      BY DEF Inv, StagesFit
    <2>6. parser.state = "kHeader"
      BY <2>1, <2>5 DEF Parsers
    <2>7. out \in Seq(Symbols) /\ H \in Nat
      BY <2>1, OutputIs, HeadIs
    <2>8. Len(out) \in Nat
      BY <2>7
    <2> HIDE DEF out, H, L
    <2> QED BY <2>1, <2>2, <2>3, <2>4, <2>5, <2>6, <2>7, <2>8, CgiParserAssumption
  <1>1. /\ read + n <= Len(out) /\ L <= n /\ x # <<>>
        /\ \A i \in 1..L : x[i] = out[read + i]
        /\ read + n < H => L = n
        /\ read + n >= H => read + L >= H
        /\ ~HasNul => L = n
    BY <1>0 DEF PieceOf
  <1>2. header = SubSeq(out, 1, m)
    <2>1. 1 \in Nat \ {0} /\ 1 <= read + 1 /\ m <= Len(out)
      <3> HIDE DEF L, H, out
      <3> QED BY <1>0, <1>1
    <2> HIDE DEF out
    <2>2. SubSeq(out, 1, read) \o x = SubSeq(out, 1, read + Len(x))
      BY <1>0, <1>1, <2>1, Extended
    <2> QED BY <1>0, <2>2
  <1>3. m \in 0..Len(out) /\ (m < H <=> read + n < H)
    <2> HIDE DEF L, H, out
    <2> QED BY <1>0, <1>1
  <1>4. header \in Seq(Symbols) /\ Len(header) = m
    <2>1. 1 \in Nat \ {0}
      OBVIOUS
    <2>2. /\ SubSeq(out, 1, m) \in Seq(Symbols)
          /\ Len(SubSeq(out, 1, m)) = IF 1 <= m THEN m - 1 + 1 ELSE 0
      BY <1>0, <1>3, <2>1, PartsAre
    <2>3. m \in Nat
      BY <1>0
    <2> HIDE DEF m, header
    <2> QED BY <1>2, <2>2, <2>3
  <1>5. /\ BlankLines(header, NewLine(header)) # {} => o = ParseHead(header)
        /\ BlankLines(header, NewLine(header)) = {} /\ Len(header) <= kMaxHeaderSize =>
             o = Parsed(WithHeader(parser, header))
        /\ BlankLines(header, NewLine(header)) = {} /\ ~(Len(header) <= kMaxHeaderSize) =>
             o = Thrown
    <2> HIDE DEF header
    <2> QED BY <1>0, <1>1, ParseIs DEF Inv, header
  <1>6. NewLine(header) = <<"lf">> \/ NewLine(header) = <<"cr", "lf">>
    BY NewLineIs DEF LineEnds
  <1>7. /\ m < H =>
             BlankLines(header, <<"lf">>) = {} /\ BlankLines(header, <<"cr", "lf">>) = {}
        /\ m >= H =>
             /\ BlankLines(header, NewLine(header)) # {}
             /\ \/ script.newLine = <<"lf">> /\ BlankLines(script.body, <<"cr", "lf">>) # {}
                \/ /\ NewLine(header) = script.newLine
                   /\ HeadBlank(script) \in BlankLines(header, script.newLine)
                   /\ \A i \in BlankLines(header, script.newLine) : HeadBlank(script) <= i
    <2> HIDE DEF header, m
    <2> QED BY <1>0, <1>2, <1>3, BlankIsFound
  <1> HIDE DEF header
  <1>8. CASE m < H
    <2>1. BlankLines(header, NewLine(header)) = {} /\ read + n < H /\ m = read + n
      <3>1. read + n < H /\ L = n
        BY <1>1, <1>3, <1>8
      <3> QED BY <1>6, <1>7, <1>8, <3>1
    <2>2. CASE Len(header) <= kMaxHeaderSize
      <3>1. o = Parsed(WithHeader(parser, header))
        BY <1>5, <2>1, <2>2
      <3>2. ReadsOn(o) /\ o.parser.header = header
        <4>1. /\ parser \in Parsers /\ header \in Seq(Symbols)
              /\ parser.type = "kToBeDetermined" /\ parser.state = "kHeader"
          BY <1>0, <1>4
        <4> HIDE DEF H, L, m, out
        <4> QED BY <3>1, <4>1, OutcomesAre DEF ReadsOn
      <3> QED BY <1>2, <2>1, <3>2
    <2>3. CASE ~(Len(header) <= kMaxHeaderSize)
      <3>1. GivesUp(o)
        BY <1>5, <2>1, <2>3, OutcomesAre
      <3>2. H > kMaxHeaderSize + 1
        <4> HIDE DEF H, L
        <4> QED BY <1>0, <1>4, <1>8, <2>3
      <3> QED BY <3>1, <3>2
    <2> QED BY <2>2, <2>3
  <1>9. CASE m >= H
    <2>1. BlankLines(header, NewLine(header)) # {} /\ o = ParseHead(header) /\ read + n >= H
      <3>1. ~(m < H)
        <4> HIDE DEF H, L
        <4> QED BY <1>0, <1>9
      <3>2. read + n >= H
        <4> HIDE DEF H, L, m
        <4> QED BY <1>0, <1>3, <3>1
      <3> QED BY <1>5, <1>7, <1>9, <3>2
    <2>2. GivesUp(o) \/ HeadFound(o)
      BY <1>4, <2>1, HeadTyped DEF GivesUp, HeadFound
    <2>3. CASE CutMatters
      BY <2>1, <2>2, <2>3
    <2>4. CASE ~CutMatters
      <3>1. /\ NewLine(header) = script.newLine
            /\ HeadBlank(script) \in BlankLines(header, script.newLine)
            /\ \A i \in BlankLines(header, script.newLine) : HeadBlank(script) <= i
        BY <1>7, <1>9, <2>4 DEF CutMatters
      <3> DEFINE body == SubSeq(out, H + 1, m)
                 type == ResponseType(script.lines, body)
                 p == [header |-> SubSeq(header, 1, HeadBlank(script) - 1),
                       headers |-> script.lines, body |-> body, type |-> type, state |-> "kBody"]
      <3>2. o = IF ParseHeaderThrows(script.lines) \/ type = "kErrType" THEN Thrown ELSE Parsed(p)
        <4> HIDE DEF body, type, m
        <4> QED BY <1>0, <1>2, <1>3, <1>9, <2>1, <3>1, HeadParsed DEF body, type
      <3>3. script.body = <<>> => body = <<>>
        <4>1. SUFFICES ASSUME script.body = <<>> PROVE body = <<>>
          OBVIOUS
        <4>2. Len(script.body) = 0
          BY <4>1
        <4>3. Len(out) = H + Len(script.body)
          BY <1>0, OutputIs
        <4>4. m = H
          <5> HIDE DEF L, H, out
          <5> QED BY <1>0, <1>3, <1>9, <4>2, <4>3
        <4> HIDE DEF m, H, out
        <4>5. ~(H + 1 <= m) /\ H + 1 \in Nat \ {0}
          BY <1>0, <4>4
        <4>6. body \in Seq(Symbols) /\ Len(body) = 0
          BY <1>0, <1>3, <4>5, PartsAre
        <4> HIDE DEF body
        <4> QED BY <4>6
      <3> HIDE DEF body
      <3>4. /\ ParseHeaderThrows(script.lines) \/ type = "kErrType" <=> Meaning = "error"
            /\ Meaning # "error" => type = Meaning
        BY <1>0, <2>4, <3>3, MeaningIs
      <3> HIDE DEF type
      <3>5. CASE Meaning = "error"
        <4>1. o = Thrown
          BY <3>2, <3>4, <3>5
        <4> QED BY <3>5, <4>1, OutcomesAre
      <3>6. CASE Meaning # "error"
        <4>1. o = Parsed(p) /\ type = Meaning
          BY <3>2, <3>4, <3>6
        <4>2. o.parser = p /\ ~o.thrown
          BY <4>1, OutcomesAre
        <4>3. o.parser.type = Meaning /\ o.parser.headers = script.lines /\ o.parser.body = body
          BY <4>1, <4>2
        <4>4. HeadFound(o)
          BY <2>2, <4>2 DEF GivesUp
        <4>5. ~HasNul => m = read + n
          BY <1>1
        <4> QED BY <2>1, <4>3, <4>4, <4>5 DEF body
      <3> QED BY <3>5, <3>6
    <2> QED BY <2>3, <2>4
  <1>10. m < H \/ m >= H
    <2> HIDE DEF H, L
    <2> QED BY <1>0
  <1> QED BY <1>8, <1>9, <1>10

\* Parse when the script has no header lines.
LEMMA ParseWithoutHead ==
  ASSUME Inv, published = "none", script.lines = <<>>,
         NEW n, NEW x, PieceOf(x, n), NEW o, o = Parse(parser, x)
  PROVE  \/ ReadsOn(o) /\ o.parser.header \in Seq(Characters)
         \/ GivesUp(o)
  <1> DEFINE header == parser.header \o x
  <1>0. /\ script \in ScriptSet /\ parser \in Parsers /\ parser.header \in Seq(Characters)
        /\ parser.type = "kToBeDetermined" /\ parser.state = "kHeader"
        /\ read \in Nat /\ n \in Nat \ {0} /\ x \in Seq(Symbols)
        /\ read + n <= Len(Output(script)) /\ Len(x) <= n
        /\ \A i \in 1..Len(x) : x[i] = Output(script)[read + i]
    <2>1. script \in ScriptSet /\ parser \in Parsers /\ read \in Nat
      BY DEF Inv, TypeOK
    <2>2. parser.header \in Seq(Characters)
      BY DEF Inv, HeaderFits
    <2>3. parser.type = "kToBeDetermined" /\ parser.state # "kBody"
      BY DEF Inv, StagesFit
    <2>4. parser.state = "kHeader"
      BY <2>1, <2>3 DEF Parsers
    <2> QED BY <2>1, <2>2, <2>3, <2>4 DEF PieceOf
  <1>1. \A i \in 1..Len(Output(script)) : Output(script)[i] \in Characters
    <2> DEFINE H == HeadLen(script)
               M == Len(script.body)
    <2>1. Len(script.lines) = 0
      OBVIOUS
    <2>2. /\ H \in Nat /\ M \in Nat /\ Len(Output(script)) = H + M
          /\ \A i \in 1..H : Output(script)[i] = HeadOf(script)[i]
          /\ \A j \in 1..M : Output(script)[H + j] \in Characters
      BY <1>0, HeadIs, OutputIs
    <2>3. \A i \in 1..H : HeadOf(script)[i] \in Characters
      <3>1. CASE script.newLine = <<"lf">>
        <4>1. H = 1 /\ HeadOf(script)[1] = "lf"
          <5>1. H = 2 * Len(script.lines) + 1
            BY <3>1 DEF HeadLen
          <5>2. HeadOf(script)[2 * Len(script.lines) + 1] = "lf"
            BY <1>0, <3>1, HeadIs
          <5>3. 2 * Len(script.lines) + 1 = 1
            BY <2>1
          <5> HIDE DEF H
          <5> QED BY <5>1, <5>2, <5>3
        <4> HIDE DEF H
        <4> QED BY <4>1 DEF Characters
      <3>2. CASE script.newLine = <<"cr", "lf">>
        <4>0. script.newLine # <<"lf">>
          BY <3>2, NewLineIs
        <4>1. H = 2 /\ HeadOf(script)[1] = "cr" /\ HeadOf(script)[2] = "lf"
          <5>1. H = 3 * Len(script.lines) + 2
            BY <4>0 DEF HeadLen
          <5>2. /\ HeadOf(script)[3 * Len(script.lines) + 1] = "cr"
                /\ HeadOf(script)[3 * Len(script.lines) + 2] = "lf"
            BY <1>0, <3>2, HeadIs
          <5>3. 3 * Len(script.lines) + 1 = 1 /\ 3 * Len(script.lines) + 2 = 2
            BY <2>1
          <5> HIDE DEF H
          <5> QED BY <5>1, <5>2, <5>3
        <4> HIDE DEF H
        <4> QED BY <4>1 DEF Characters
      <3> QED BY <1>0, <3>1, <3>2 DEF ScriptSet, LineEnds
    <2> HIDE DEF H, M
    <2> TAKE i \in 1..Len(Output(script))
    <2>4. CASE i \in 1..H
      BY <2>2, <2>3, <2>4
    <2>5. CASE ~(i \in 1..H)
      <3>1. i - H \in 1..M /\ H + (i - H) = i
        BY <2>2, <2>5
      <3>2. Output(script)[H + (i - H)] \in Characters
        BY <2>2, <3>1
      <3> QED BY <3>1, <3>2
    <2> QED BY <2>4, <2>5
  <1>2. x \in Seq(Characters)
    <2> DEFINE L == Len(x)
               N == Len(Output(script))
    <2>1. L \in Nat /\ N \in Nat /\ x \in [1..L -> Symbols]
      <3>1. Output(script) \in Seq(Symbols)
        BY <1>0, OutputIs
      <3> QED BY <1>0, <3>1
    <2>2. ASSUME NEW i \in 1..L PROVE x[i] \in Characters
      <3>1. read + i \in 1..N
        <4> HIDE DEF L, N
        <4>1. read + n <= N /\ L <= n
          BY <1>0 DEF L, N
        <4> QED BY <1>0, <2>1, <4>1
      <3> QED BY <1>0, <1>1, <3>1
    <2>3. x \in [1..L -> Characters]
      BY <2>1, <2>2
    <2> QED BY <2>1, <2>3
  <1>3. header \in Seq(Characters) /\ header \in Seq(Symbols)
    <2>1. header \in Seq(Characters)
      BY <1>0, <1>2, ConcatProperties
    <2> HIDE DEF header
    <2> QED BY <2>1 DEF Symbols
  <1>4. /\ x = <<>> => o = Thrown
        /\ x # <<>> =>
             /\ BlankLines(header, NewLine(header)) # {} => o = ParseHead(header)
             /\ BlankLines(header, NewLine(header)) = {} /\ Len(header) <= kMaxHeaderSize =>
                  o = Parsed(WithHeader(parser, header))
             /\ BlankLines(header, NewLine(header)) = {} /\ ~(Len(header) <= kMaxHeaderSize) =>
                  o = Thrown
    <2>1. StagesFit
      BY DEF Inv
    <2> HIDE DEF header
    <2>2. /\ x = <<>> => Parse(parser, x) = Thrown
          /\ x # <<>> =>
             /\ BlankLines(header, NewLine(header)) # {} => Parse(parser, x) = ParseHead(header)
             /\ BlankLines(header, NewLine(header)) = {} /\ Len(header) <= kMaxHeaderSize =>
                  Parse(parser, x) = Parsed(WithHeader(parser, header))
             /\ BlankLines(header, NewLine(header)) = {} /\ ~(Len(header) <= kMaxHeaderSize) =>
                  Parse(parser, x) = Thrown
      BY <1>0, <2>1, ParseIs DEF header
    <2> QED BY <2>2
  <1> HIDE DEF header
  <1>5. BlankLines(header, NewLine(header)) # {} => ParseHead(header) = Thrown
    BY <1>3, NoHeadNoReply
  <1>6. o = Thrown \/ o = Parsed(WithHeader(parser, header))
    BY <1>4, <1>5
  <1>7. CASE o = Thrown
    BY <1>7, OutcomesAre
  <1>8. CASE o = Parsed(WithHeader(parser, header))
    <2> DEFINE q == WithHeader(parser, header)
    <2>1. parser \in Parsers /\ header \in Seq(Symbols)
      BY <1>0, <1>3
    <2>2. /\ q \in Parsers /\ q.header = header
          /\ q.type = parser.type /\ q.state = parser.state
      BY <2>1, OutcomesAre
    <2>3. o = Parsed(q)
      BY <1>8
    <2> HIDE DEF q
    <2>4. o.parser = q /\ ~o.thrown
      BY <2>3, OutcomesAre
    <2>5. ReadsOn(o) /\ o.parser.header = header
      BY <1>0, <2>2, <2>4 DEF ReadsOn
    <2> QED BY <1>3, <2>5
  <1> QED BY <1>6, <1>7, <1>8

\* Parse once the header is complete.
LEMMA ParseInBody ==
  ASSUME Inv, parser.type # "kToBeDetermined", NEW x \in Seq(Symbols), NEW o, o = Parse(parser, x)
  PROVE  /\ HeadFound(o) /\ o.parser.type = parser.type
         /\ o.parser.headers = parser.headers
         /\ o.parser.body = parser.body \o x
  <1>1. parser \in Parsers /\ parser.state = "kBody"
    BY DEF Inv, TypeOK, StagesFit
  <1>2. o = Parsed(WithBody(parser, parser.body \o x))
    BY <1>1, ParseIs DEF Inv
  <1> DEFINE b == parser.body \o x
  <1>3. b \in Seq(Symbols)
    BY <1>1, TextsJoined DEF Parsers
  <1> DEFINE q == WithBody(parser, b)
  <1>4. o = Parsed(q)
    BY <1>2
  <1> HIDE DEF b
  <1>5. /\ q \in Parsers /\ q.body = b /\ q.type = parser.type
        /\ q.state = parser.state /\ q.headers = parser.headers
    BY <1>1, <1>3, OutcomesAre
  <1> HIDE DEF q
  <1>6. o.parser = q /\ ~o.thrown
    BY <1>4, OutcomesAre
  <1>7. HeadFound(o) /\ o.parser.type = parser.type /\ o.parser.headers = parser.headers
        /\ o.parser.body = b
    BY <1>1, <1>5, <1>6 DEF HeadFound
  <1> QED BY <1>7 DEF b

-----------------------------------------------------------------------------
(* CgiRead::Do.                                                              *)

LEMMA InitInv ==
  ASSUME Init
  PROVE  Inv
  <1>1. script \in ScriptSet
    BY CgiParserAssumption DEF Init
  <1>2. Output(script) \in Seq(Symbols) /\ Len(Output(script)) \in Nat /\ HeadLen(script) \in Nat
    <2>1. Output(script) \in Seq(Symbols) /\ HeadLen(script) \in Nat
      BY <1>1, OutputIs, HeadIs
    <2> QED BY <2>1
  <1>3. <<>> \in Seq(Symbols) /\ <<>> \in Seq(HeaderLines) /\ <<>> \in Seq(Characters)
    OBVIOUS
  <1>4. TypeOK
    <2>1. read \in 0..Len(Output(script))
      BY <1>2 DEF Init
    <2>2. parser \in Parsers /\ socket \in Sockets
      BY <1>3 DEF Init, Parsers, Sockets, ResponseTypes
    <2> QED BY <1>1, <2>1, <2>2 DEF TypeOK, Init
  <1>5. StagesFit
    BY DEF Init, StagesFit
  <1>6. HeaderFits
    <2>1. CASE script.lines = <<>>
      BY <1>3, <2>1 DEF Init, HeaderFits
    <2>2. CASE script.lines # <<>>
      <3>1. HeadBlank(script) \in Nat \ {0} /\ HeadBlank(script) <= HeadLen(script)
        BY <1>1, <2>2, MarksAre
      <3>2. read < HeadLen(script)
        BY <1>2, <3>1 DEF Init
      <3>3. SubSeq(Output(script), 1, 0) = <<>>
        OBVIOUS
      <3> QED BY <2>2, <3>2, <3>3 DEF Init, HeaderFits
    <2> QED BY <2>1, <2>2
  <1>7. BodyFits /\ ErrorIsRight
    BY DEF Init, BodyFits, ErrorIsRight
  <1> QED BY <1>4, <1>5, <1>6, <1>7 DEF Inv

\* What a step may do to the socket: s is socket before PublishNewEvent.
LEMMA PublishIs ==
  ASSUME NEW p \in Parsers, NEW s \in Sockets, NEW size, Publish(p, s, size)
  PROVE  /\ socket' \in Sockets /\ socket'.body = s.body /\ socket'.headers = s.headers
         /\ socket'.type = s.type /\ socket'.size = s.size
         /\ published # "none" => published' = published /\ socket' = s
         /\ published = "none" /\ (s.code \/ (size # "data" /\ p.type = "kToBeDetermined")) =>
              published' = "error" /\ socket'.code
         /\ published = "none" /\ ~s.code /\ size = "data" /\ p.type = "kToBeDetermined" =>
              published' = "none" /\ socket' = s
         /\ published = "none" /\ ~s.code /\ p.type # "kToBeDetermined" =>
              /\ p.type = "kLocalRedirResponse" => published' = "redirect"
              /\ p.type # "kLocalRedirResponse" => published' = "reply" /\ ~socket'.code
  <1> DEFINE failed == s.code \/ (size # "data" /\ p.type = "kToBeDetermined")
  <1>0. \A c \in BOOLEAN : /\ [s EXCEPT !.code = c] \in Sockets
                           /\ [s EXCEPT !.code = c].body = s.body
                           /\ [s EXCEPT !.code = c].headers = s.headers
                           /\ [s EXCEPT !.code = c].type = s.type
                           /\ [s EXCEPT !.code = c].size = s.size
                           /\ [s EXCEPT !.code = c].code = c
    BY DEF Sockets
  <1>1. CASE published # "none" /\ socket' = s /\ published' = published
    BY <1>1
  <1>2. CASE published = "none" /\ failed /\ socket' = [s EXCEPT !.code = TRUE]
             /\ published' = "error"
    <2>1. socket' \in Sockets /\ socket'.body = s.body /\ socket'.headers = s.headers
          /\ socket'.type = s.type /\ socket'.size = s.size /\ socket'.code
      BY <1>0, <1>2
    <2> QED BY <1>2, <2>1
  <1>3. CASE published = "none" /\ ~failed /\ p.type = "kToBeDetermined"
             /\ socket' = s /\ published' = published
    BY <1>3
  <1>4. CASE published = "none" /\ ~failed /\ p.type = "kLocalRedirResponse"
             /\ (\E static \in BOOLEAN : socket' = [s EXCEPT !.code = static])
             /\ published' = "redirect"
    <2>1. socket' \in Sockets /\ socket'.body = s.body /\ socket'.headers = s.headers
          /\ socket'.type = s.type /\ socket'.size = s.size
      BY <1>0, <1>4
    <2> QED BY <1>4, <2>1
  <1>5. CASE published = "none" /\ ~failed
             /\ p.type \notin {"kToBeDetermined", "kLocalRedirResponse"}
             /\ socket' = s /\ published' = "reply"
    BY <1>5
  <1> QED BY <1>1, <1>2, <1>3, <1>4, <1>5, Zenon DEF Publish

\* The socket as UpdateData leaves it.
Updated(o, size) ==
  IF o.thrown
    THEN [socket EXCEPT !.size = size, !.code = TRUE]
    ELSE [socket EXCEPT !.size = size, !.body = o.parser.body,
                        !.headers = o.parser.headers, !.type = o.parser.type]

LEMMA UpdatedIs ==
  ASSUME socket \in Sockets, NEW o, NEW size \in {"data", "eof"},
         ~o.thrown => o.parser \in Parsers
  PROVE  /\ Updated(o, size) \in Sockets /\ Updated(o, size).size = size
         /\ o.thrown => /\ Updated(o, size).code /\ Updated(o, size).type = socket.type
                        /\ Updated(o, size).body = socket.body
                        /\ Updated(o, size).headers = socket.headers
         /\ ~o.thrown => /\ Updated(o, size).code = socket.code
                         /\ Updated(o, size).type = o.parser.type
                         /\ Updated(o, size).body = o.parser.body
                         /\ Updated(o, size).headers = o.parser.headers
  <1>1. CASE o.thrown
    BY <1>1 DEF Updated, Sockets
  <1>2. CASE ~o.thrown
    BY <1>2 DEF Updated, Sockets, Parsers
  <1> QED BY <1>1, <1>2

\* Of the script nothing changes.
LEMMA SameScript ==
  ASSUME script' = script
  PROVE  /\ Meaning' = Meaning /\ (CutMatters' <=> CutMatters) /\ (HasNul' <=> HasNul)
         /\ HeadLen(script') = HeadLen(script) /\ HeadOf(script') = HeadOf(script)
         /\ Output(script') = Output(script)
  <1>1. Lines' = Lines
    BY DEF Lines
  <1>2. ValidHead' <=> ValidHead
    BY <1>1 DEF ValidHead
  <1>3. Meaning' = Meaning
    BY <1>1, <1>2 DEF Meaning
  <1> QED BY <1>3 DEF CutMatters, HasNul

-----------------------------------------------------------------------------
(* Every step keeps the invariant and is as the event loop assumes.          *)

LoopStep ==
  /\ published = "none" /\ published' = "none" =>
       ~Over' /\ socket'.size = "data" /\ socket'.type = "kToBeDetermined"
  /\ published = "none" /\ published' = "error" =>
       socket'.type = "kToBeDetermined" /\ socket'.code
  /\ published = "none" /\ published' \in {"reply", "redirect"} =>
       socket'.size = "data" /\ socket'.type # "kToBeDetermined"
  /\ published = "reply" => ~socket'.code
  /\ published # "none" =>
       published' = published /\ socket'.type = socket.type

LEMMA StateIs ==
  ASSUME Inv
  PROVE  /\ script \in ScriptSet /\ parser \in Parsers /\ socket \in Sockets
         /\ Output(script) \in Seq(Symbols) /\ Len(Output(script)) \in Nat
         /\ HeadLen(script) \in Nat /\ Len(HeadOf(script)) = HeadLen(script)
         /\ read \in Nat /\ read <= Len(Output(script))
         /\ published \in {"none", "error", "reply", "redirect"}
         /\ socket.type = parser.type
         /\ parser.state = "kBody" <=> parser.type # "kToBeDetermined"
  <1>1. script \in ScriptSet /\ parser \in Parsers /\ socket \in Sockets
        /\ read \in 0..Len(Output(script))
        /\ published \in {"none", "error", "reply", "redirect"}
    BY DEF Inv, TypeOK
  <1>2. Output(script) \in Seq(Symbols) /\ HeadLen(script) \in Nat
        /\ Len(HeadOf(script)) = HeadLen(script)
    BY <1>1, OutputIs, HeadIs
  <1>3. Len(Output(script)) \in Nat
    BY <1>2
  <1>4. read \in Nat /\ read <= Len(Output(script))
    BY <1>1, <1>3
  <1> QED BY <1>1, <1>2, <1>3, <1>4 DEF Inv, StagesFit

\* No header line is complete yet, or the header is not.
LEMMA ReadingOn ==
  ASSUME Inv, published = "none", script' = script,
         NEW n \in Nat, read' = read + n, read + n <= Len(Output(script)),
         NEW o, ReadsOn(o), parser' = o.parser, Publish(o.parser, Updated(o, "data"), "data"),
         \/ script.lines = <<>> /\ o.parser.header \in Seq(Characters)
         \/ /\ script.lines # <<>> /\ read + n < HeadLen(script)
            /\ o.parser.header = SubSeq(Output(script), 1, read + n)
  PROVE  Inv' /\ LoopStep
  <1> DEFINE u == Updated(o, "data")
  <1>0. socket \in Sockets /\ ~socket.code /\ "data" \in {"data", "eof"}
    BY StateIs DEF Inv, StagesFit
  <1>1. /\ o.parser \in Parsers /\ o.parser.state = "kHeader"
        /\ o.parser.type = "kToBeDetermined" /\ ~o.thrown
    BY DEF ReadsOn
  <1>2. /\ u \in Sockets /\ u.size = "data" /\ u.code = socket.code
        /\ u.type = o.parser.type
    BY <1>0, <1>1, UpdatedIs
  <1> HIDE DEF u
  <1>3. published' = "none" /\ socket' = u
    BY <1>0, <1>1, <1>2, PublishIs DEF u
  <1>4. /\ socket' \in Sockets /\ socket'.size = "data" /\ ~socket'.code
        /\ socket'.type = "kToBeDetermined"
    BY <1>0, <1>1, <1>2, <1>3
  <1>5. TypeOK'
    <2>1. read' \in 0..Len(Output(script'))
      BY StateIs
    <2> QED BY <1>1, <1>3, <1>4, <2>1, StateIs DEF TypeOK
  <1>6. StagesFit'
    BY <1>1, <1>3, <1>4 DEF StagesFit
  <1>7. HeaderFits'
    BY SameScript DEF HeaderFits
  <1>8. BodyFits' /\ ErrorIsRight'
    BY <1>1, <1>3 DEF BodyFits, ErrorIsRight
  <1>9. LoopStep
    BY <1>3, <1>4 DEF LoopStep, Over
  <1> QED BY <1>5, <1>6, <1>7, <1>8, <1>9 DEF Inv

\* Parse threw.
LEMMA GivingUp ==
  ASSUME Inv, published = "none", script' = script, NEW size \in {"data", "eof"},
         read' \in Nat, read' <= Len(Output(script)),
         NEW o, GivesUp(o), parser' = o.parser, Publish(o.parser, Updated(o, size), size),
         \/ Meaning = "error"
         \/ CutMatters
         \/ read' < HeadLen(script) /\ size = "eof"
         \/ HeadLen(script) > kMaxHeaderSize + 1
  PROVE  Inv' /\ LoopStep
  <1> DEFINE u == Updated(o, size)
  <1>0. /\ socket \in Sockets /\ parser \in Parsers /\ socket.type = parser.type
        /\ parser.type = "kToBeDetermined" /\ parser.state # "kBody"
    BY StateIs DEF Inv, StagesFit
  <1>1. o.thrown /\ o.parser = parser
    BY DEF GivesUp
  <1>2. u \in Sockets /\ u.size = size /\ u.code /\ u.type = socket.type
    BY <1>0, <1>1, UpdatedIs
  <1> HIDE DEF u
  <1>3. /\ published' = "error" /\ socket' \in Sockets /\ socket'.code
        /\ socket'.type = u.type /\ socket'.size = u.size
    BY <1>0, <1>1, <1>2, PublishIs DEF u
  <1>4. parser' = parser
    BY <1>1
  <1>5. TypeOK'
    <2>1. read' \in 0..Len(Output(script'))
      BY StateIs
    <2> QED BY <1>0, <1>3, <1>4, <2>1, StateIs DEF TypeOK
  <1>6. StagesFit'
    BY <1>0, <1>2, <1>3, <1>4 DEF StagesFit
  <1>7. HeaderFits' /\ BodyFits'
    BY <1>0, <1>3, <1>4 DEF HeaderFits, BodyFits
  <1>8. ErrorIsRight'
    <2>1. /\ Meaning' = Meaning /\ (CutMatters' <=> CutMatters)
          /\ HeadOf(script') = HeadOf(script)
      BY SameScript
    <2>2. Len(HeadOf(script)) = HeadLen(script)
      BY StateIs
    <2> QED BY <1>2, <1>3, <2>1, <2>2 DEF ErrorIsRight
  <1>9. LoopStep
    BY <1>0, <1>2, <1>3 DEF LoopStep
  <1> QED BY <1>5, <1>6, <1>7, <1>8, <1>9 DEF Inv

\* The header is complete with this read.
LEMMA FindingHead ==
  ASSUME Inv, published = "none", script' = script, script.lines # <<>>,
         NEW n \in Nat, read' = read + n, read + n <= Len(Output(script)),
         NEW o, HeadFound(o), parser' = o.parser, Publish(o.parser, Updated(o, "data"), "data"),
         read + n >= HeadLen(script),
         ~CutMatters => o.parser.type = Meaning /\ o.parser.headers = script.lines,
         ~CutMatters /\ ~HasNul =>
           o.parser.body = SubSeq(Output(script), HeadLen(script) + 1, read + n)
  PROVE  Inv' /\ LoopStep
  <1> DEFINE u == Updated(o, "data")
  <1>0. socket \in Sockets /\ ~socket.code /\ "data" \in {"data", "eof"}
    BY StateIs DEF Inv, StagesFit
  <1>1. /\ o.parser \in Parsers /\ o.parser.state = "kBody"
        /\ o.parser.type # "kToBeDetermined" /\ ~o.thrown
    BY DEF HeadFound
  <1>2. /\ u \in Sockets /\ u.size = "data" /\ u.code = socket.code
        /\ u.type = o.parser.type /\ u.body = o.parser.body /\ u.headers = o.parser.headers
    BY <1>0, <1>1, UpdatedIs
  <1> HIDE DEF u
  <1>3. /\ socket' \in Sockets /\ socket'.body = u.body /\ socket'.headers = u.headers
        /\ socket'.type = u.type /\ socket'.size = u.size
        /\ o.parser.type = "kLocalRedirResponse" => published' = "redirect"
        /\ o.parser.type # "kLocalRedirResponse" => published' = "reply" /\ ~socket'.code
    BY <1>0, <1>1, <1>2, PublishIs DEF u
  <1>5. TypeOK'
    <2>1. read' \in 0..Len(Output(script'))
      BY StateIs
    <2> QED BY <1>1, <1>3, <2>1, StateIs DEF TypeOK
  <1>6. StagesFit'
    BY <1>1, <1>2, <1>3 DEF StagesFit
  <1>7. HeaderFits' /\ ErrorIsRight'
    BY <1>3 DEF HeaderFits, ErrorIsRight
  <1>8. BodyFits'
    BY <1>1, <1>2, <1>3, SameScript DEF BodyFits
  <1>9. LoopStep
    BY <1>1, <1>2, <1>3 DEF LoopStep
  <1> QED BY <1>5, <1>6, <1>7, <1>8, <1>9 DEF Inv

\* The header was complete before.
LEMMA ReadingBody ==
  ASSUME Inv, published \notin {"none", "error"}, ~Over, script' = script,
         NEW size \in {"data", "eof"},
         NEW n \in Nat, read' = read + n, read + n <= Len(Output(script)),
         NEW x \in Seq(Symbols), ~HasNul => Len(x) = n,
         \A i \in 1..Len(x) : x[i] = Output(script)[read + i],
         NEW o, o = Parse(parser, x),
         parser' = o.parser, Publish(o.parser, Updated(o, size), size)
  PROVE  Inv' /\ LoopStep
  <1> DEFINE u == Updated(o, size)
             out == Output(script)
             H == HeadLen(script)
  <1>0. /\ socket \in Sockets /\ parser \in Parsers /\ ~socket.code /\ socket.type = parser.type
        /\ parser.type # "kToBeDetermined" /\ published \in {"reply", "redirect"}
        /\ parser.state = "kBody"
    BY StateIs DEF Inv, StagesFit, Over
  <1>1. HeadFound(o) /\ o.parser.type = parser.type /\ o.parser.headers = parser.headers
        /\ o.parser.body = parser.body \o x
    BY <1>0, ParseInBody
  <1>2. o.parser \in Parsers /\ o.parser.state = "kBody" /\ ~o.thrown
    BY <1>1 DEF HeadFound
  <1>3. /\ u \in Sockets /\ u.size = size /\ u.code = socket.code
        /\ u.type = o.parser.type /\ u.body = o.parser.body /\ u.headers = o.parser.headers
    BY <1>0, <1>2, UpdatedIs
  <1> HIDE DEF u
  <1>4. published' = published /\ socket' = u
    BY <1>0, <1>2, <1>3, PublishIs DEF u
  <1>5. TypeOK'
    <2>1. read' \in 0..Len(Output(script'))
      BY StateIs
    <2> QED BY <1>2, <1>3, <1>4, <2>1, StateIs DEF TypeOK
  <1>6. StagesFit'
    BY <1>0, <1>1, <1>2, <1>3, <1>4 DEF Inv, StagesFit
  <1>7. HeaderFits' /\ ErrorIsRight'
    BY <1>0, <1>4 DEF HeaderFits, ErrorIsRight
  <1>8. BodyFits'
    <2>1. /\ script.lines # <<>> /\ read >= H
          /\ ~CutMatters => parser.type = Meaning /\ parser.headers = script.lines
          /\ ~CutMatters /\ ~HasNul => parser.body = SubSeq(out, H + 1, read)
      BY <1>0 DEF Inv, BodyFits
    <2>2. /\ out \in Seq(Symbols) /\ Len(out) \in Nat /\ H \in Nat /\ read \in Nat
          /\ read + n <= Len(out)
      BY StateIs
    <2> HIDE DEF out, H
    <2>3. read' >= H
      BY <2>1, <2>2
    <2>4. ASSUME ~CutMatters, ~HasNul
          PROVE  o.parser.body = SubSeq(out, H + 1, read + n)
      <3>1. H + 1 \in Nat \ {0} /\ H + 1 <= read + 1 /\ read + Len(x) <= Len(out) /\ Len(x) = n
        BY <2>1, <2>2, <2>4
      <3>2. \A i \in 1..Len(x) : x[i] = out[read + i]
        BY DEF out
      <3>3. SubSeq(out, H + 1, read) \o x = SubSeq(out, H + 1, read + Len(x))
        BY <2>2, <3>1, <3>2, Extended
      <3> QED BY <1>1, <2>1, <2>4, <3>1, <3>3
    <2>5. /\ Meaning' = Meaning /\ (CutMatters' <=> CutMatters) /\ (HasNul' <=> HasNul)
          /\ HeadLen(script') = H /\ Output(script') = out
      BY SameScript DEF H, out
    <2> QED BY <1>1, <1>3, <1>4, <2>1, <2>3, <2>4, <2>5 DEF BodyFits
  <1>9. LoopStep
    BY <1>0, <1>1, <1>3, <1>4 DEF LoopStep
  <1> QED BY <1>5, <1>6, <1>7, <1>8, <1>9 DEF Inv

LEMMA ReadStep ==
  ASSUME Inv, Read
  PROVE  Inv' /\ LoopStep
  <1>1. PICK n \in 1..Min({kBuffSize, Len(Output(script)) - read}) :
          /\ Take(AsCString(SubSeq(Output(script), read + 1, read + n)), "data")
          /\ read' = read + n
    BY DEF Read
  <1>2. n \in Nat \ {0} /\ read + n <= Len(Output(script))
    <2> DEFINE left == Len(Output(script)) - read
    <2>1. left \in Nat /\ kBuffSize \in Nat /\ read \in Nat /\ Len(Output(script)) \in Nat
      <3>1. read \in Nat /\ Len(Output(script)) \in Nat /\ read <= Len(Output(script))
        BY StateIs
      <3> QED BY <3>1, CgiParserAssumption
    <2> DEFINE T == {kBuffSize, left}
    <2>2. T \subseteq Nat /\ T # {} /\ left \in T
      BY <2>1
    <2> HIDE DEF T, left
    <2>3. Min(T) \in T /\ \A k \in T : Min(T) <= k
      BY <2>2, MinIs
    <2>4. Min(T) \in Nat /\ Min(T) <= left
      BY <2>2, <2>3
    <2>5. n \in 1..Min(T)
      BY DEF T, left
    <2>6. n \in Nat \ {0} /\ n <= left
      BY <2>1, <2>4, <2>5
    <2> QED BY <2>1, <2>6 DEF left
  <1> DEFINE x == AsCString(SubSeq(Output(script), read + 1, read + n))
             o == Parse(parser, x)
  <1>3. PieceOf(x, n)
    BY <1>2, PieceIs DEF Inv
  <1> HIDE DEF x
  <1>4. Take(x, "data")
    BY <1>1 DEF x
  <1>5. /\ ~Over /\ parser' = o.parser /\ script' = script
        /\ Publish(o.parser, Updated(o, "data"), "data")
    BY <1>4, Zenon DEF Take, Updated
  <1> HIDE DEF o
  <1>6. o = Parse(parser, x)
    BY DEF o
  <1>7. CASE published = "none" /\ script.lines = <<>>
    <2>1. CASE ReadsOn(o) /\ o.parser.header \in Seq(Characters)
      BY <1>1, <1>2, <1>5, <1>7, <2>1, ReadingOn
    <2>2. CASE GivesUp(o)
      <3>1. Meaning = "error"
        BY <1>7, StateIs, NoLinesNoMeaning
      <3>2. read' \in Nat /\ read' <= Len(Output(script)) /\ "data" \in {"data", "eof"}
        BY <1>1, <1>2, StateIs
      <3> QED BY <1>5, <1>7, <2>2, <3>1, <3>2, GivingUp
    <2> QED BY <1>3, <1>6, <1>7, <2>1, <2>2, ParseWithoutHead
  <1>8. CASE published = "none" /\ script.lines # <<>>
    <2>1. CASE /\ ReadsOn(o) /\ read + n < HeadLen(script)
               /\ o.parser.header = SubSeq(Output(script), 1, read + n)
      BY <1>1, <1>2, <1>5, <1>8, <2>1, ReadingOn
    <2>2. CASE /\ GivesUp(o)
               /\ Meaning = "error" \/ CutMatters \/ HeadLen(script) > kMaxHeaderSize + 1
      <3>1. read' \in Nat /\ read' <= Len(Output(script)) /\ "data" \in {"data", "eof"}
        BY <1>1, <1>2, StateIs
      <3> QED BY <1>5, <1>8, <2>2, <3>1, GivingUp
    <2>3. CASE /\ HeadFound(o) /\ read + n >= HeadLen(script)
               /\ ~CutMatters => o.parser.type = Meaning /\ o.parser.headers = script.lines
               /\ ~CutMatters /\ ~HasNul =>
                    o.parser.body = SubSeq(Output(script), HeadLen(script) + 1, read + n)
      BY <1>1, <1>2, <1>5, <1>8, <2>3, FindingHead
    <2> QED BY <1>3, <1>6, <1>8, <2>1, <2>2, <2>3, ParseInHead
  <1>9. CASE published # "none"
    <2>1. published # "error"
      BY <1>5 DEF Inv, StagesFit, Over
    <2>2. script.lines # <<>>
      <3>1. parser.state = "kBody"
        BY <1>9, <2>1, StateIs DEF Inv, StagesFit
      <3> QED BY <3>1 DEF Inv, BodyFits
    <2>3. /\ x \in Seq(Symbols) /\ (~HasNul => Len(x) = n)
          /\ \A i \in 1..Len(x) : x[i] = Output(script)[read + i]
      BY <1>3, <2>2 DEF PieceOf
    <2>4. "data" \in {"data", "eof"} /\ n \in Nat
      BY <1>2
    <2>5. read + Len(x) <= Len(Output(script))
      <3>1. Len(x) <= n /\ Len(x) \in Nat
        BY <1>3, <2>3 DEF PieceOf
      <3> QED BY <1>2, <3>1, StateIs
    <2> QED BY <1>1, <1>2, <1>5, <1>6, <1>9, <2>1, <2>3, <2>4, ReadingBody
  <1> QED BY <1>7, <1>8, <1>9

LEMMA ReadEndStep ==
  ASSUME Inv, ReadEnd
  PROVE  Inv' /\ LoopStep
  <1> DEFINE x == <<>>
             o == Parse(parser, x)
  <1>1. Take(x, "eof") /\ read' = read
    BY DEF ReadEnd
  <1>2. /\ ~Over /\ parser' = o.parser /\ script' = script
        /\ Publish(o.parser, Updated(o, "eof"), "eof")
    BY <1>1, Zenon DEF Take, Updated
  <1> HIDE DEF o
  <1>3. /\ read \in Nat /\ read' = read + 0 /\ read + 0 <= Len(Output(script))
        /\ "eof" \in {"data", "eof"}
    BY <1>1, StateIs
  <1>4. CASE published = "none"
    <2>1. parser.type = "kToBeDetermined"
      BY <1>4 DEF Inv, StagesFit
    <2>2. o = Thrown
      <3>1. StagesFit
        BY DEF Inv
      <3>2. Parse(parser, x) = Thrown
        BY <2>1, <3>1, ParseIs
      <3> QED BY <3>2 DEF o
    <2>3. GivesUp(o)
      BY <2>2, OutcomesAre
    <2>4. Meaning = "error" \/ read' < HeadLen(script)
      <3>1. CASE script.lines = <<>>
        BY <3>1, StateIs, NoLinesNoMeaning
      <3>2. CASE script.lines # <<>>
        BY <1>1, <1>4, <3>2 DEF Inv, HeaderFits
      <3> QED BY <3>1, <3>2
    <2>5. read' \in Nat /\ read' <= Len(Output(script))
      BY <1>3
    <2> QED BY <1>2, <1>3, <1>4, <2>3, <2>4, <2>5, GivingUp
  <1>5. CASE published # "none"
    <2>1. published # "error"
      BY <1>2 DEF Inv, StagesFit, Over
    <2>2. x \in Seq(Symbols) /\ Len(x) = 0 /\ 0 \in Nat
      OBVIOUS
    <2>3. \A i \in 1..Len(x) : x[i] = Output(script)[read + i]
      BY <2>2
    <2>4. o = Parse(parser, x)
      BY DEF o
    <2> HIDE DEF x
    <2> QED BY <1>2, <1>3, <1>5, <2>1, <2>2, <2>3, <2>4, ReadingBody
  <1> QED BY <1>4, <1>5

LEMMA ReadFailsStep ==
  ASSUME Inv, ReadFails
  PROVE  Inv' /\ LoopStep
  <1> DEFINE s == [socket EXCEPT !.size = "error"]
  <1>1. /\ ~Over /\ Publish(parser, s, "error")
        /\ script' = script /\ read' = read /\ parser' = parser
    BY DEF ReadFails
  <1>2. /\ socket \in Sockets /\ parser \in Parsers /\ ~socket.code
        /\ socket.type = parser.type
    BY <1>1, StateIs DEF Over, Sockets
  <1>3. /\ s \in Sockets /\ s.size = "error" /\ s.code = socket.code /\ s.type = socket.type
        /\ s.body = socket.body /\ s.headers = socket.headers
    BY <1>2 DEF Sockets
  <1> HIDE DEF s
  <1>4. /\ socket' \in Sockets /\ socket'.body = s.body /\ socket'.headers = s.headers
        /\ socket'.type = s.type /\ socket'.size = s.size
        /\ published # "none" => published' = published /\ socket' = s
        /\ published = "none" /\ parser.type = "kToBeDetermined" =>
             published' = "error" /\ socket'.code
    BY <1>1, <1>2, <1>3, PublishIs
  <1>5. published = "none" => parser.type = "kToBeDetermined"
    BY DEF Inv, StagesFit
  <1>6. published # "error"
    BY <1>2 DEF Inv, StagesFit
  <1>7. published' \in {"none", "error", "reply", "redirect"}
    BY <1>4, <1>5, StateIs
  <1>8. TypeOK'
    BY <1>1, <1>2, <1>4, <1>7, StateIs DEF Inv, TypeOK
  <1>9. StagesFit'
    BY <1>1, <1>2, <1>3, <1>4, <1>5, <1>6 DEF Inv, StagesFit
  <1>10. HeaderFits'
    BY <1>4, <1>5 DEF HeaderFits
  <1>11. BodyFits'
    BY <1>1, <1>3, <1>4, SameScript DEF Inv, BodyFits
  <1>12. ErrorIsRight'
    <2>1. SUFFICES ASSUME published' = "error" PROVE ErrorIsRight'
      BY DEF ErrorIsRight
    <2>2. published = "none"
      BY <1>4, <1>6, <2>1
    <2>3. Meaning = "error" \/ read < HeadLen(script)
      <3>1. CASE script.lines = <<>>
        BY <3>1, StateIs, NoLinesNoMeaning
      <3>2. CASE script.lines # <<>>
        BY <2>2, <3>2 DEF Inv, HeaderFits
      <3> QED BY <3>1, <3>2
    <2>4. Meaning' = Meaning /\ HeadOf(script') = HeadOf(script)
      BY <1>1, SameScript
    <2>5. Len(HeadOf(script)) = HeadLen(script)
      BY StateIs
    <2> QED BY <1>1, <1>3, <1>4, <2>3, <2>4, <2>5 DEF ErrorIsRight
  <1>13. LoopStep
    BY <1>2, <1>3, <1>4, <1>5, <1>6 DEF LoopStep, Inv, StagesFit
  <1> QED BY <1>8, <1>9, <1>10, <1>11, <1>12, <1>13 DEF Inv

LEMMA NextInv ==
  ASSUME Inv, [Next]_vars
  PROVE  Inv' /\ [LoopStep]_vars
  <1>1. CASE Read
    BY <1>1, ReadStep
  <1>2. CASE ReadEnd
    BY <1>2, ReadEndStep
  <1>3. CASE ReadFails
    BY <1>3, ReadFailsStep
  <1>4. CASE UNCHANGED vars
    <2>1. /\ script' = script /\ read' = read /\ parser' = parser
          /\ socket' = socket /\ published' = published
      BY <1>4 DEF vars
    <2>2. /\ Meaning' = Meaning /\ (CutMatters' <=> CutMatters) /\ (HasNul' <=> HasNul)
      BY <2>1, SameScript
    <2>3. Inv'
      BY <2>1, <2>2 DEF Inv, TypeOK, StagesFit, HeaderFits, BodyFits, ErrorIsRight
    <2> QED BY <1>4, <2>3
  <1> QED BY <1>1, <1>2, <1>3, <1>4 DEF Next

(* The invariant holds throughout the reading of a script, which has the    *)
(* type invariant as its first part.                                        *)
THEOREM Invariance == Spec => []Inv
  <1>1. Init => Inv
    BY InitInv
  <1>2. Inv /\ [Next]_vars => Inv'
    BY NextInv
  <1> QED BY <1>1, <1>2, PTL DEF Spec

(* However the output of a script is cut into reads, what CgiRead publishes *)
(* is what the script's header means, and an error page answers only a      *)
(* header that means nothing, is not whole or is too long                   *)
(* (CgiParser::Parse, CgiRead::PublishNewEvent).                            *)
THEOREM PublishedRight == Spec => []PublishedIsRight
  <1>1. Inv => PublishedIsRight
    <2> SUFFICES ASSUME Inv PROVE PublishedIsRight
      OBVIOUS
    <2>1. VerdictIsRight
      <3> SUFFICES ASSUME published \in {"reply", "redirect"}, ~CutMatters
                   PROVE  /\ socket.type = Meaning
                          /\ published = "redirect" <=> Meaning = "kLocalRedirResponse"
                          /\ socket.headers = script.lines
        BY DEF VerdictIsRight
      <3>1. parser.state = "kBody" /\ socket.type = parser.type
        BY DEF Inv, StagesFit
      <3>2. parser.type = Meaning /\ socket.headers = script.lines
        BY <3>1 DEF Inv, BodyFits
      <3>3. published = "redirect" <=> parser.type = "kLocalRedirResponse"
        BY DEF Inv, StagesFit
      <3> QED BY <3>1, <3>2, <3>3
    <2>2. ErrorIsRight
      BY DEF Inv
    <2> QED BY <2>1, <2>2 DEF PublishedIsRight
  <1> QED BY <1>1, Invariance, PTL

(* The body of a reply is what the script wrote after its header, each byte *)
(* once and in order, as far as it was read (CgiParser::ParseBody,          *)
(* CgiRead::Do), unless the script writes a byte 0.                         *)
THEOREM BodyWhole == Spec => []BodyIsOutput
  <1>1. Inv => BodyIsOutput
    <2> SUFFICES ASSUME Inv, socket.type # "kToBeDetermined", ~HasNul, ~CutMatters
                 PROVE  socket.body = SubSeq(Output(script), Len(HeadOf(script)) + 1, read)
      BY DEF BodyIsOutput
    <2>1. parser.state = "kBody" /\ Len(HeadOf(script)) = HeadLen(script)
      BY StateIs
    <2> QED BY <2>1 DEF Inv, BodyFits
  <1> QED BY <1>1, Invariance, PTL

(* Every step of the reading is one the event loop's model allows for:      *)
(* published once and no later than the end, the type set with the reply,   *)
(* for good (CgiRead::Do, PublishNewEvent).                                 *)
THEOREM AsTheLoopTakesIt == Spec => AsTheLoopAssumes
  <1>1. Inv /\ [Next]_vars => [LoopStep]_vars
    BY NextInv
  <1> QED BY <1>1, Invariance, PTL DEF Spec, AsTheLoopAssumes, LoopStep
=============================================================================
