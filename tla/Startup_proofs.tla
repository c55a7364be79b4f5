--------------------------- MODULE Startup_proofs ---------------------------
(***************************************************************************)
(* Proofs about the parser and the start: where the parser's iterator can  *)
(* be, that the map of the servers loses none of them, which of them a     *)
(* request gets, and at which addresses they listen.                       *)
(***************************************************************************)
EXTENDS Startup, SequenceTheorems, FiniteSetTheorems, WellFoundedInduction, TLAPS

-----------------------------------------------------------------------------
(* The iterator of the parser                                               *)

CursorInv == tokens \in Seq(STRING) /\ CursorInBounds

LEMMA ThrowKeepsCursor == CursorInv /\ Throw => CursorInv'
BY DEF CursorInv, CursorInBounds, Throw

\* A directive of a server or of a location leaves the iterator at its
\* semicolon, or throws.
LEMMA AfterDirective ==
  ASSUME CursorInv,
         \/ /\ state \in {"server", "location"}
            /\ \E e \in StatementEnds : itr' = e /\ UNCHANGED <<tokens, state>>
         \/ Throw
  PROVE  CursorInv'
<1>1. CASE Throw
  BY <1>1, ThrowKeepsCursor
<1>2. ASSUME state \in {"server", "location"},
             NEW e \in StatementEnds, itr' = e, UNCHANGED <<tokens, state>>
      PROVE  CursorInv'
  <2>1. Len(tokens) \in Nat
    BY DEF CursorInv
  <2>2. e \in itr + 2 .. Len(tokens) /\ itr \in 1..Len(tokens)
    BY <1>2 DEF StatementEnds, CursorInv, CursorInBounds
  <2> QED
    BY <1>2, <2>1, <2>2 DEF CursorInv, CursorInBounds
<1> QED
  BY <1>1, <1>2

\* Every step of the parser leaves the iterator where it may be dereferenced.
LEMMA ParserStep == CursorInv /\ [ParserNext]_parserVars => CursorInv'
<1> SUFFICES ASSUME CursorInv, [ParserNext]_parserVars
             PROVE  CursorInv'
  OBVIOUS
<1>0. Len(tokens) \in Nat
  BY DEF CursorInv
<1>1. CASE BeginServer
  BY <1>0, <1>1 DEF BeginServer, NextIs, CursorInv, CursorInBounds
<1>2. CASE NoServer
  BY <1>2, ThrowKeepsCursor DEF NoServer
<1>3. CASE EndServer
  BY <1>0, <1>3 DEF EndServer, NextIs, Increment, CursorInv, CursorInBounds
<1>4. CASE BeginLocation
  <2>1. CASE LocationOpens /\ ~Throw
    BY <1>0, <1>4, <2>1 DEF BeginLocation, LocationOpens, CursorInv, CursorInBounds
  <2>2. CASE Throw
    BY <2>2, ThrowKeepsCursor
  <2> QED
    BY <1>4, <2>1, <2>2 DEF BeginLocation
<1>5. CASE EndLocation
  BY <1>0, <1>5 DEF EndLocation, NextIs, CursorInv, CursorInBounds
<1>6. CASE UnknownDirective
  BY <1>6, ThrowKeepsCursor DEF UnknownDirective
<1>7. CASE UNCHANGED parserVars
  BY <1>7 DEF parserVars, CursorInv, CursorInBounds
<1>8. CASE ServerDirective("listen", StoreListen)
  BY <1>8, AfterDirective, Zenon DEF ServerDirective
<1>9. CASE ServerDirective("client_max_body_size", StoreClientBodySize)
  BY <1>9, AfterDirective, Zenon DEF ServerDirective
<1>10. CASE ServerDirective("server_name", StoreServerName)
  BY <1>10, AfterDirective, Zenon DEF ServerDirective
<1>11. CASE ServerDirective("error_page", StoreErrorPage)
  BY <1>11, AfterDirective, Zenon DEF ServerDirective
<1>12. CASE LocationDirective("limit_except", StoreLimitExcept)
  BY <1>12, AfterDirective, Zenon DEF LocationDirective
<1>13. CASE LocationDirective("return", StoreRedirect)
  BY <1>13, AfterDirective, Zenon DEF LocationDirective
<1>14. CASE LocationDirective("root", StoreRoot)
  BY <1>14, AfterDirective, Zenon DEF LocationDirective
<1>15. CASE LocationDirective("autoindex", StoreAutoIndex)
  BY <1>15, AfterDirective, Zenon DEF LocationDirective
<1>16. CASE LocationDirective("index", StoreIndex)
  BY <1>16, AfterDirective, Zenon DEF LocationDirective
<1>17. CASE LocationDirective("cgi_extension", StoreCgiExtension)
  BY <1>17, AfterDirective, Zenon DEF LocationDirective
<1> QED
  BY <1>1, <1>2, <1>3, <1>4, <1>5, <1>6, <1>7, <1>8, <1>9,
     <1>10, <1>11, <1>12, <1>13, <1>14, <1>15, <1>16, <1>17 DEF ParserNext

\* Whatever the tokens are, TokenManager's iterator is dereferenced only where
\* there is a token, although Increment does not look for the end.
THEOREM CursorStaysInBounds == ParserSpec => []CursorInBounds
<1>1. ParserInit => CursorInv
  <2>1. ParserInit => tokens \in Seq(STRING) /\ itr = 1 /\ state = "top"
    BY Zenon DEF ParserInit
  <2>2. tokens \in Seq(STRING) => Len(tokens) \in Nat
    OBVIOUS
  <2> QED
    BY <2>1, <2>2 DEF CursorInv, CursorInBounds
<1>2. CursorInv => CursorInBounds
  BY DEF CursorInv
<1> QED
  BY <1>1, <1>2, ParserStep, PTL DEF ParserSpec

-----------------------------------------------------------------------------
(* The map of the servers                                                   *)

\* What a place in a listen's list says, and the lists complete up to next.
Listed(map, n) ==
  \A l \in DOMAIN map :
    /\ map[l] \in Seq(Nat) /\ 1 \in DOMAIN map[l]
    /\ \A i, j \in DOMAIN map[l] : i < j => map[l][i] < map[l][j]
    /\ Range(map[l]) = {i \in 1..n - 1 : contexts[i].listen = l}

Complete(map, n) == \A i \in 1..n - 1 : contexts[i].listen \in DOMAIN map

MapInv ==
  /\ \E T : contexts \in Seq(T)
  /\ next \in 1..Len(contexts) + 1
  /\ state \in {"file", "lex", "top", "server", "location"} =>
       next = 1 /\ cmap = <<>> /\ bound = {}
  /\ Listed(cmap, next)
  /\ Complete(cmap, next)
  /\ bound \subseteq DOMAIN cmap
  /\ state \in {"listen", "run"} => next = Len(contexts) + 1
  /\ state = "run" => DOMAIN cmap \subseteq bound

\* A larger number at the end of an increasing sequence.
LEMMA AppendLast ==
  ASSUME NEW s \in Seq(Nat), NEW n \in Nat,
         \A i, j \in DOMAIN s : i < j => s[i] < s[j],
         \A i \in DOMAIN s : s[i] < n
  PROVE  /\ \A i, j \in DOMAIN Append(s, n) : i < j => Append(s, n)[i] < Append(s, n)[j]
         /\ Range(Append(s, n)) = Range(s) \cup {n}
<1> DEFINE t == Append(s, n)
<1>1. PICK m \in Nat : m = Len(s)
  OBVIOUS
<1>2. DOMAIN s = 1..m /\ DOMAIN t = 1..m + 1 /\ t[m + 1] = n /\ \A i \in 1..m : t[i] = s[i]
  BY <1>1
<1>3. \A i \in 1..m : s[i] \in Nat
  BY <1>1
<1> HIDE DEF t
<1>4. \A i, j \in 1..m + 1 : i < j => t[i] < t[j]
  <2> SUFFICES ASSUME NEW i \in 1..m + 1, NEW j \in 1..m + 1, i < j PROVE t[i] < t[j]
    OBVIOUS
  <2>1. i \in 1..m /\ (j = m + 1 \/ j \in 1..m)
    OBVIOUS
  <2> QED
    BY <1>2, <2>1
<1>5. Range(t) = Range(s) \cup {n}
  <2>1. 1..m + 1 = (1..m) \cup {m + 1}
    OBVIOUS
  <2>2. \A x : x \in Range(t) <=> \E i \in 1..m + 1 : t[i] = x
    BY <1>2, Zenon DEF Range
  <2>3. \A x : x \in Range(s) <=> \E i \in 1..m : s[i] = x
    BY <1>2, Zenon DEF Range
  <2> QED
    BY <1>2, <2>1, <2>2, <2>3
<1> QED
  BY <1>2, <1>4, <1>5 DEF t

LEMMA LastListed ==
  ASSUME NEW n \in Nat \ {0}, NEW l, Listed(cmap, n), Complete(cmap, n),
         l = contexts[n].listen,
         NEW new \in Enter(cmap, l, n)
  PROVE  Listed(new, n + 1) /\ Complete(new, n + 1) /\ DOMAIN cmap \subseteq DOMAIN new
<1>1. /\ DOMAIN new = DOMAIN cmap \cup {l}
      /\ \A k \in DOMAIN cmap \ {l} : new[k] = cmap[k]
      /\ new[l] = IF l \in DOMAIN cmap THEN Append(cmap[l], n) ELSE <<n>>
  <2>1. CASE l \in DOMAIN cmap
    BY <2>1 DEF Enter
  <2>2. CASE l \notin DOMAIN cmap
    <3>1. new = Insert(cmap, l, <<n>>)
      BY <2>2, Zenon DEF Enter, If
    <3> QED
      BY <2>2, <3>1 DEF Insert
  <2> QED
    BY <2>1, <2>2
<1>2. Complete(new, n + 1)
  BY <1>1 DEF Complete
<1>3. ASSUME NEW k \in DOMAIN new
      PROVE  /\ new[k] \in Seq(Nat) /\ 1 \in DOMAIN new[k]
             /\ \A i, j \in DOMAIN new[k] : i < j => new[k][i] < new[k][j]
             /\ Range(new[k]) = {i \in 1..n : contexts[i].listen = k}
  <2>1. CASE k # l
    <3>1. k \in DOMAIN cmap /\ new[k] = cmap[k]
      BY <1>1, <1>3, <2>1
    <3>2. {i \in 1..n : contexts[i].listen = k} = {i \in 1..n - 1 : contexts[i].listen = k}
      BY <2>1
    <3> QED
      BY <3>1, <3>2 DEF Listed
  <2>2. CASE k = l /\ l \in DOMAIN cmap
    <3> DEFINE s == cmap[l]
    <3>1. /\ s \in Seq(Nat)
          /\ \A i, j \in DOMAIN s : i < j => s[i] < s[j]
          /\ Range(s) = {i \in 1..n - 1 : contexts[i].listen = l}
      BY <2>2 DEF Listed
    <3>2. new[k] = Append(s, n)
      BY <1>1, <2>2
    <3>3. /\ Append(s, n) \in Seq(Nat)
          /\ DOMAIN Append(s, n) = 1..Len(s) + 1
          /\ Append(s, n)[Len(s) + 1] = n
          /\ \A i \in 1..Len(s) : Append(s, n)[i] = s[i]
      BY <3>1
    <3>4. \A i \in DOMAIN s : s[i] < n
      <4>1. \A i \in DOMAIN s : s[i] \in Range(s)
        BY Zenon DEF Range
      <4>2. \A x \in Range(s) : x < n
        BY <3>1
      <4> QED
        BY <4>1, <4>2
    <3>5. \A i, j \in DOMAIN Append(s, n) : i < j => Append(s, n)[i] < Append(s, n)[j]
      BY <3>1, <3>4, AppendLast
    <3>6. Range(Append(s, n)) = Range(s) \cup {n}
      BY <3>1, <3>4, AppendLast
    <3>7. {i \in 1..n : contexts[i].listen = l} = {i \in 1..n - 1 : contexts[i].listen = l} \cup {n}
      OBVIOUS
    <3> QED
      BY <2>2, <3>1, <3>2, <3>3, <3>5, <3>6, <3>7
  <2>3. CASE k = l /\ l \notin DOMAIN cmap
    <3>1. new[k] = <<n>>
      BY <1>1, <2>3
    <3>2. {i \in 1..n : contexts[i].listen = l} = {n}
      BY <2>3 DEF Complete
    <3>3. /\ <<n>> \in Seq(Nat)
          /\ DOMAIN <<n>> = {1}
          /\ <<n>>[1] = n
      OBVIOUS
    <3>4. Range(<<n>>) = {n}
      BY <3>3, Zenon DEF Range
    <3>5. \A i, j \in {1} : ~(i < j)
      OBVIOUS
    <3>6. \A i, j \in DOMAIN <<n>> : i < j => <<n>>[i] < <<n>>[j]
      BY <3>3, <3>5, Zenon
    <3> QED
      BY <2>3, <3>1, <3>2, <3>3, <3>4, <3>6, Zenon
  <2> QED
    BY <1>1, <2>1, <2>2, <2>3
<1> QED
  BY <1>1, <1>2, <1>3 DEF Listed

\* While the parser runs, contexts only grow at their end.
ParserFrame ==
  /\ state \in {"top", "server", "location"}
  /\ state' \in {"top", "server", "location", "exit"}
  /\ contexts' = contexts \/ contexts' = Append(contexts, sc)

LEMMA ParserKeeps == ParserNext => ParserFrame
<1> SUFFICES ASSUME ParserNext PROVE ParserFrame
  OBVIOUS
<1>1. CASE BeginServer
  BY <1>1 DEF BeginServer, Throw, ParserFrame
<1>2. CASE NoServer
  BY <1>2 DEF NoServer, Throw, ParserFrame
<1>3. CASE EndServer
  BY <1>3 DEF EndServer, Throw, ParserFrame
<1>4. CASE BeginLocation
  BY <1>4 DEF BeginLocation, Throw, ParserFrame
<1>5. CASE EndLocation
  BY <1>5 DEF EndLocation, Throw, ParserFrame
<1>6. CASE UnknownDirective
  BY <1>6 DEF UnknownDirective, Throw, ParserFrame
<1>7. CASE ServerDirective("listen", StoreListen)
  BY <1>7, Zenon DEF ServerDirective, Throw, ParserFrame
<1>8. CASE ServerDirective("client_max_body_size", StoreClientBodySize)
  BY <1>8, Zenon DEF ServerDirective, Throw, ParserFrame
<1>9. CASE ServerDirective("server_name", StoreServerName)
  BY <1>9, Zenon DEF ServerDirective, Throw, ParserFrame
<1>10. CASE ServerDirective("error_page", StoreErrorPage)
  BY <1>10, Zenon DEF ServerDirective, Throw, ParserFrame
<1>11. CASE LocationDirective("limit_except", StoreLimitExcept)
  BY <1>11, Zenon DEF LocationDirective, Throw, ParserFrame
<1>12. CASE LocationDirective("return", StoreRedirect)
  BY <1>12, Zenon DEF LocationDirective, Throw, ParserFrame
<1>13. CASE LocationDirective("root", StoreRoot)
  BY <1>13, Zenon DEF LocationDirective, Throw, ParserFrame
<1>14. CASE LocationDirective("autoindex", StoreAutoIndex)
  BY <1>14, Zenon DEF LocationDirective, Throw, ParserFrame
<1>15. CASE LocationDirective("index", StoreIndex)
  BY <1>15, Zenon DEF LocationDirective, Throw, ParserFrame
<1>16. CASE LocationDirective("cgi_extension", StoreCgiExtension)
  BY <1>16, Zenon DEF LocationDirective, Throw, ParserFrame
<1> QED
  BY <1>1, <1>2, <1>3, <1>4, <1>5, <1>6, <1>7, <1>8, <1>9,
     <1>10, <1>11, <1>12, <1>13, <1>14, <1>15, <1>16 DEF ParserNext

\* Nothing but ToMap fills the map, and only when the parser has finished.
LEMMA MapStep == MapInv /\ [Next]_vars => MapInv'
<1> SUFFICES ASSUME MapInv, [Next]_vars
             PROVE  MapInv'
  OBVIOUS
<1>0. Len(contexts) \in Nat /\ next \in Nat \ {0}
  BY DEF MapInv
<1>1. ASSUME ToMap PROVE MapInv'
  <2>1. CASE Throw /\ UNCHANGED <<next, cmap, bound>>
    BY <2>1 DEF Throw, MapInv, Listed, Complete
  <2>2. ASSUME cmap' \in Enter(cmap, contexts[next].listen, next), next' = next + 1,
               UNCHANGED <<parserVars, bound>>
        PROVE  MapInv'
    <3>1. /\ Listed(cmap', next + 1) /\ Complete(cmap', next + 1)
          /\ DOMAIN cmap \subseteq DOMAIN cmap'
      BY <1>0, <2>2, LastListed DEF MapInv
    <3>2. next \in DOMAIN contexts /\ DOMAIN contexts = 1..Len(contexts)
      BY <1>1 DEF ToMap, MapInv
    <3>3. state = "map" /\ state' = state /\ contexts' = contexts
      BY <1>1, <2>2 DEF ToMap, parserVars
    <3>4. Listed(cmap, next)' /\ Complete(cmap, next)'
      BY <2>2, <3>1, <3>3 DEF Listed, Complete
    <3>5. bound' \subseteq DOMAIN cmap'
      BY <2>2, <3>1 DEF MapInv
    <3> QED
      BY <1>0, <2>2, <3>2, <3>3, <3>4, <3>5 DEF MapInv
  <2> QED
    BY <1>1, <2>1, <2>2, Zenon DEF ToMap
<1>2. ASSUME Parsing PROVE MapInv'
  <2>1. ParserFrame /\ UNCHANGED <<next, cmap, bound>>
    BY <1>2, ParserKeeps DEF Parsing
  <2>2. next = 1 /\ cmap = <<>> /\ bound = {}
    BY <2>1 DEF MapInv, ParserFrame
  <2>3. \E T : contexts' \in Seq(T)
    <3>1. PICK T : contexts \in Seq(T)
      BY DEF MapInv
    <3>2. contexts \in Seq(T \cup {sc})
      BY <3>1
    <3>3. contexts' \in Seq(T \cup {sc})
      BY <2>1, <3>2 DEF ParserFrame
    <3> QED
      BY <3>3, Zenon
  <2>4. Len(contexts') \in Nat
    BY <2>3
  <2>5. Listed(cmap, next)' /\ Complete(cmap, next)'
    BY <2>1, <2>2 DEF Listed, Complete
  <2>6. next' \in 1..Len(contexts') + 1
    BY <2>1, <2>2, <2>4
  <2>7. state' # "listen" /\ state' # "run"
    BY <2>1 DEF ParserFrame
  <2>8. next' = 1 /\ cmap' = <<>> /\ bound' = {} /\ bound' \subseteq DOMAIN cmap'
    BY <2>1, <2>2
  <2>9. (state \in {"listen", "run"} => next = Len(contexts) + 1)'
    BY <2>7
  <2> QED
    BY <2>3, <2>5, <2>6, <2>7, <2>8, <2>9, Zenon DEF MapInv
<1>3. CASE InitListen
  <2>1. UNCHANGED <<contexts, next, cmap>> /\ state = "listen" /\ state' \in {"listen", "exit"}
    BY <1>3 DEF InitListen, Throw, parserVars
  <2>2. bound' \subseteq DOMAIN cmap
    <3>1. bound' = bound \/ \E l \in DOMAIN cmap : bound' = bound \cup {l}
      BY <1>3, Zenon DEF InitListen
    <3> QED
      BY <3>1 DEF MapInv
  <2>3. Listed(cmap, next)' /\ Complete(cmap, next)'
    BY <2>1 DEF MapInv, Listed, Complete
  <2> QED
    BY <2>1, <2>2, <2>3 DEF MapInv
<1>4. CASE Run
  BY <1>4 DEF Run, MapInv, Listed, Complete
<1>5. CASE Mapped
  BY <1>0, <1>5 DEF Mapped, MapInv, Listed, Complete
<1>6. CASE Parsed \/ Tokenized \/ Tokenize \/ StoreFileLinesInVec \/ NeverEnds \/ CannotRead
  BY <1>6 DEF Parsed, Tokenized, Tokenize, StoreFileLinesInVec, NeverEnds, CannotRead,
              Throw, MapInv, Listed, Complete
<1>7. CASE UNCHANGED vars
  BY <1>7 DEF vars, parserVars, MapInv, Listed, Complete
<1> QED
  BY <1>1, <1>2, <1>3, <1>4, <1>5, <1>6, <1>7 DEF Next

LEMMA MapStarts == Init => MapInv
<1>1. Init => contexts = <<>> /\ next = 1 /\ cmap = <<>> /\ bound = {} /\ state = "file"
  BY Zenon DEF Init
<1>2. contexts = <<>> => \E T : contexts \in Seq(T)
  <2>1. <<>> \in Seq({})
    OBVIOUS
  <2> QED
    BY <2>1, Zenon
<1>3. Init => Listed(cmap, next) /\ Complete(cmap, next) /\ bound \subseteq DOMAIN cmap
  BY <1>1 DEF Listed, Complete
<1>4. Init => next \in 1..Len(contexts) + 1
  BY <1>1
<1> QED
  BY <1>1, <1>2, <1>3, <1>4 DEF MapInv

\* However many servers a configuration has and whatever they listen to, the
\* map has each of them, under its listen and in the order of the file, and a
\* running server has a socket for each.
THEOREM NoServerIsLost == Spec => []EveryServerListened
<1>1. MapInv => EveryServerListened
  BY DEF MapInv, Listed, Complete, EveryServerListened
<1> QED
  BY <1>1, MapStarts, MapStep, PTL DEF Spec

-----------------------------------------------------------------------------
(* The choice of a server                                                   *)

LEMMA NatLeast ==
  ASSUME NEW T, T \subseteq Nat, T # {}
  PROVE  \E n \in T : \A m \in T : n <= m
<1>1. PICK x \in T : \A y \in T : <<y, x>> \notin OpToRel(<, Nat)
  BY WFMin, NatLessThanWellFounded
<1>2. \A y \in T : ~(y < x)
  BY <1>1 DEF OpToRel
<1>3. \A y \in T : x <= y
  BY <1>2
<1> QED
  BY <1>3

LEMMA MinIs ==
  ASSUME NEW T, T \subseteq Nat, NEW x \in T, \A y \in T : x <= y
  PROVE  Min(T) = x
<1>1. \A z \in T : (\A y \in T : z <= y) => z = x
  OBVIOUS
<1>2. Min(T) \in T /\ \A y \in T : Min(T) <= y
  BY DEF Min
<1> QED
  BY <1>1, <1>2

LEMMA MaxIs ==
  ASSUME NEW T, T \subseteq Nat, NEW x \in T, \A y \in T : x >= y
  PROVE  Max(T) = x
<1>1. \A z \in T : (\A y \in T : z >= y) => z = x
  OBVIOUS
<1>2. Max(T) \in T /\ \A y \in T : Max(T) >= y
  BY DEF Max
<1> QED
  BY <1>1, <1>2

\* A host as HostsAssumption has it: no word next to another.
Spread(h) ==
  /\ h \in Seq(STRING \ {""})
  /\ \A i \in 1..Len(h) - 1 : ":" \in {h[i], h[i + 1]}

HostWords(h) == {i \in DOMAIN h : h[i] # ":"}

UpTo(words, i) == {j \in words : j <= i}

\* i is the n-th of the words.
Nth(words, i, n) ==
  /\ i \in words /\ Cardinality(UpTo(words, i)) = n
  /\ \A j \in words : Cardinality(UpTo(words, j)) = n => j = i

\* A host falls into its words.
LEMMA HostPieces ==
  ASSUME NEW h, Spread(h)
  PROVE  /\ IsFiniteSet(HostWords(h))
         /\ Len(Split(h, {":"})) = Cardinality(HostWords(h))
         /\ \A n \in 1..Cardinality(HostWords(h)) :
              \A i : Nth(HostWords(h), i, n) => Split(h, {":"})[n] = <<h[i]>>
<1> DEFINE W == HostWords(h)
           Word(i, j) == \A k \in i..j : h[k] \notin {":"}
           starts == {i \in DOMAIN h : Word(i, i) /\ (i = 1 \/ ~Word(i - 1, i - 1))}
           End(i) == Max({j \in i..Len(h) : Word(i, j)})
           Start(n) == CHOOSE i \in starts : Cardinality({j \in starts : j <= i}) = n
           c == Cardinality(W)
<1> DEFINE S == STRING \ {""}
<1>s. h \in Seq(S)
  BY Zenon DEF Spread
<1> HIDE DEF S
<1>0. Len(h) \in Nat /\ DOMAIN h = 1..Len(h)
  BY <1>s
<1>1. \A i \in 1..Len(h) : Word(i, i) <=> h[i] # ":"
  <2> TAKE i \in 1..Len(h)
  <2>1. i..i = {i}
    OBVIOUS
  <2> QED
    BY <2>1
<1>2. \A i \in 1..Len(h) : h[i] # ":" => i = 1 \/ ~Word(i - 1, i - 1)
  <2> SUFFICES ASSUME NEW i \in 1..Len(h), h[i] # ":", i # 1
               PROVE  ~Word(i - 1, i - 1)
    OBVIOUS
  <2>1. i - 1 \in 1..Len(h) - 1 /\ i - 1 \in 1..Len(h) /\ (i - 1) + 1 = i
    BY <1>0
  <2>2. h[i - 1] = ":"
    BY <2>1 DEF Spread
  <2> QED
    BY <1>1, <2>1, <2>2
<1>3. starts = W
  BY <1>0, <1>1, <1>2 DEF HostWords
<1>4. ASSUME NEW i \in W PROVE End(i) = i
  <2> DEFINE E == {j \in i..Len(h) : Word(i, j)}
  <2>1. i \in 1..Len(h) /\ h[i] # ":"
    BY <1>0 DEF HostWords
  <2>2. i \in E
    BY <1>0, <1>1, <2>1
  <2>3. ASSUME NEW j \in E PROVE i >= j
    <3>1. j \in i..Len(h) /\ Word(i, j)
      BY <2>3
    <3> SUFFICES ASSUME j > i PROVE FALSE
      BY <1>0, <2>1, <3>1
    <3>2. i + 1 \in i..j /\ i \in 1..Len(h) - 1
      BY <1>0, <2>1, <3>1
    <3>3. h[i + 1] # ":"
      BY <3>1, <3>2
    <3> QED
      BY <2>1, <3>2, <3>3 DEF Spread
  <2>4. E \subseteq Nat
    BY <1>0, <2>1
  <2> HIDE DEF E, Word
  <2>5. Max(E) = i
    BY <2>2, <2>3, <2>4, MaxIs
  <2> QED
    BY <2>5 DEF E
<1>5. IsFiniteSet(W) /\ c \in Nat
  <2>1. IsFiniteSet(1..Len(h)) /\ W \subseteq 1..Len(h)
    BY <1>0, FS_Interval DEF HostWords
  <2> HIDE DEF W
  <2> QED
    BY <2>1, FS_Subset, FS_CardinalityType
<1> DEFINE piece(n) == SubSeq(h, Start(n), End(Start(n)))
           pieces == [n \in 1..c |-> piece(n)]
<1>6. Split(h, {":"}) = pieces
  BY <1>3, Zenon DEF Split
<1>7. ASSUME NEW n \in 1..c, NEW i, Nth(W, i, n) PROVE piece(n) = <<h[i]>>
  <2>1. Start(n) = i
    <3>1. i \in starts /\ Cardinality({j \in starts : j <= i}) = n
      BY <1>3, <1>7, Zenon DEF Nth, UpTo
    <3>2. \A k \in starts : Cardinality({j \in starts : j <= k}) = n => k = i
      BY <1>3, <1>7, Zenon DEF Nth, UpTo
    <3> HIDE DEF starts
    <3> QED
      BY <3>1, <3>2
  <2>2. i \in W
    BY <1>7 DEF Nth
  <2>3. piece(n) = SubSeq(h, i, i)
    <3> HIDE DEF Start, End, W
    <3> QED
      BY <1>4, <2>1, <2>2
  <2>4. i \in 1..Len(h)
    BY <1>0, <2>2 DEF HostWords
  <2>5. SubSeq(h, i, i) = <<h[i]>>
    <3> DEFINE u == SubSeq(h, i, i)
    <3>1. u \in Seq(S) /\ Len(u) = 1 /\ u[1] = h[i]
      BY <1>0, <1>s, <2>4, SubSeqProperties
    <3> HIDE DEF u
    <3>2. u = <<u[1]>>
      BY <3>1
    <3> QED
      BY <3>1, <3>2 DEF u
  <2> QED
    BY <2>3, <2>5
<1> HIDE DEF W, c, piece
<1>8. Len(pieces) = c
  <2> DEFINE P == {piece(n) : n \in 1..c}
  <2>1. pieces \in [1..c -> P]
    OBVIOUS
  <2>2. pieces \in Seq(P)
    BY <1>5, <2>1
  <2> QED
    BY <1>5, <2>2
<1>9. \A n \in 1..c : pieces[n] = piece(n)
  OBVIOUS
<1> HIDE DEF pieces
<1> QED
  BY <1>5, <1>6, <1>7, <1>8, <1>9 DEF W, c

LEMMA OneWord ==
  ASSUME NEW words, NEW a \in Nat, words = {a}
  PROVE  Cardinality(words) = 1 /\ Nth(words, a, 1)
<1>1. UpTo(words, a) = {a}
  BY DEF UpTo
<1>2. Cardinality({a}) = 1
  BY FS_Singleton
<1> QED
  BY <1>1, <1>2 DEF Nth

LEMMA TwoWords ==
  ASSUME NEW words, NEW a \in Nat, NEW b \in Nat, a < b, words = {a, b}
  PROVE  Cardinality(words) = 2 /\ Nth(words, a, 1) /\ Nth(words, b, 2)
<1>1. UpTo(words, a) = {a} /\ UpTo(words, b) = {a, b}
  BY DEF UpTo
<1>2. Cardinality({a}) = 1 /\ IsFiniteSet({a})
  BY FS_Singleton
<1>3. Cardinality({a} \cup {b}) = Cardinality({a}) + 1
  <2>1. b \notin {a}
    OBVIOUS
  <2> QED
    BY <1>2, <2>1, FS_AddElement
<1>4. {a} \cup {b} = {a, b}
  OBVIOUS
<1>5. Cardinality({a, b}) = 2
  BY <1>2, <1>3, <1>4
<1> QED
  BY <1>1, <1>2, <1>5 DEF Nth

\* A set with two elements, in their order.
LEMMA AsPair ==
  ASSUME NEW words, words \subseteq Nat, IsFiniteSet(words), Cardinality(words) = 2
  PROVE  \E a, b \in Nat : a < b /\ words = {a, b}
<1>1. words # {}
  BY FS_EmptySet
<1>2. PICK a \in words : \A x \in words : a <= x
  BY <1>1, NatLeast
<1>3. IsFiniteSet(words \ {a}) /\ Cardinality(words \ {a}) = 1
  BY FS_RemoveElement
<1>4. PICK b : words \ {a} = {b}
  BY <1>3, FS_Singleton
<1>5. words = {a, b} /\ a # b
  BY <1>4
<1> QED
  BY <1>2, <1>5

\* No name and no port.
Blank == ""

FitsHost(h, c) ==
  /\ c.serverName = ParseHostHeader(h)[1]
  /\ ParseHostHeader(h)[2] \in {Blank, c.listen[2]}

\* Means with the words of the host and what is known of the server.
MeansBy(words, h, name, port) ==
  IF name = Blank
    THEN Cardinality(words) \notin 1..2
    ELSE /\ Cardinality(words) <= 2
         /\ \E i \in words : /\ h[i] = name
                             /\ \A j \in words \ {i} : j > i /\ h[j] = port

\* Its three cases: a name, a name and a port, anything else.
MeansCases(words, h, name, port) ==
  /\ Cardinality(words) \notin 1..2 => (MeansBy(words, h, name, port) <=> name = Blank)
  /\ \A a : words = {a} => (MeansBy(words, h, name, port) <=> h[a] = name)
  /\ \A a, b : words = {a, b} /\ a < b =>
       (MeansBy(words, h, name, port) <=> h[a] = name /\ h[b] = port)

LEMMA MeansIs ==
  ASSUME NEW W, NEW h, NEW name, NEW port, IsFiniteSet(W), W \subseteq Nat,
         \A i \in W : h[i] # Blank
  PROVE  MeansCases(W, h, name, port)
<1>1. Cardinality(W) \in Nat /\ (Cardinality(W) = 0 => W = {})
  BY FS_EmptySet, FS_CardinalityType
<1>2. ASSUME NEW a, W = {a} PROVE MeansBy(W, h, name, port) <=> h[a] = name
  <2>1. Cardinality(W) = 1
    BY <1>2, FS_Singleton
  <2> QED
    <3>1. 1 \in 1..2 /\ 1 <= 2 /\ h[a] # Blank
      BY <1>2
    <3> QED
      BY <1>2, <2>1, <3>1 DEF MeansBy
<1>3. ASSUME NEW a, NEW b, W = {a, b}, a < b
      PROVE  MeansBy(W, h, name, port) <=> h[a] = name /\ h[b] = port
  <2>0. a \in Nat /\ b \in Nat
    BY <1>3
  <2>1. Cardinality(W) = 2
    BY <1>3, <2>0, TwoWords
  <2>2. a # b /\ ~(a > b) /\ b > a /\ h[a] # Blank
    BY <1>3, <2>0
  <2>3. Cardinality(W) <= 2 /\ Cardinality(W) \in 1..2
    BY <2>1
  <2>4. ASSUME name # Blank
        PROVE  MeansBy(W, h, name, port) <=> \E i \in W : /\ h[i] = name
                                      /\ \A j \in W \ {i} : j > i /\ h[j] = port
    BY <2>3, <2>4 DEF MeansBy
  <2>5. ASSUME NEW i \in W, \A j \in W \ {i} : j > i /\ h[j] = port
        PROVE  i = a /\ h[b] = port
    BY <1>3, <2>2, <2>5
  <2>6. ASSUME h[b] = port PROVE \A j \in W \ {a} : j > a /\ h[j] = port
    BY <1>3, <2>2, <2>6
  <2>7. CASE name = Blank
    BY <2>2, <2>3, <2>7 DEF MeansBy
  <2>8. CASE name # Blank
    <3>1. ASSUME MeansBy(W, h, name, port) PROVE h[a] = name /\ h[b] = port
      <4>1. PICK i \in W : h[i] = name /\ \A j \in W \ {i} : j > i /\ h[j] = port
        BY <2>4, <2>8, <3>1
      <4> QED
        BY <2>5, <4>1
    <3>2. ASSUME h[a] = name, h[b] = port PROVE MeansBy(W, h, name, port)
      <4>1. a \in W
        BY <1>3
      <4> QED
        BY <2>4, <2>6, <2>8, <3>2, <4>1
    <3> QED
      BY <3>1, <3>2
  <2> QED
    BY <2>7, <2>8
<1>4. ASSUME Cardinality(W) \notin 1..2 PROVE MeansBy(W, h, name, port) <=> name = Blank
  <2>1. Cardinality(W) <= 2 => W = {}
    BY <1>1, <1>4
  <2> QED
    BY <1>4, <2>1 DEF MeansBy
<1> QED
  BY <1>2, <1>3, <1>4, Zenon DEF MeansCases

\* What ParseHostHeader and the comparison of SelectServerContext make of a
\* host is what it means.
LEMMA FitsIsMeans ==
  ASSUME NEW h, Spread(h), NEW c
  PROVE  FitsHost(h, c) <=> Means(h, c)
<1> DEFINE W == HostWords(h)
           p == Split(h, {":"})
           parsed == ParseHostHeader(h)
           name == c.serverName
           port == c.listen[2]
           S == STRING \ {""}
<1>s. h \in Seq(S)
  BY Zenon DEF Spread
<1>t. \A x \in S : x # Blank
  BY Zenon DEF Blank
<1> HIDE DEF S
<1>0. DOMAIN h = 1..Len(h) /\ Len(h) \in Nat /\ \A i \in 1..Len(h) : h[i] \in S
  BY <1>s
<1>1. W \subseteq Nat /\ \A i \in W : h[i] # Blank
  <2>1. W \subseteq 1..Len(h)
    BY <1>0 DEF HostWords
  <2> HIDE DEF W
  <2> QED
    BY <1>0, <1>t, <2>1
<1>2. IsFiniteSet(W) /\ Len(p) = Cardinality(W) /\ Cardinality(W) \in Nat
  BY HostPieces, FS_CardinalityType
<1>3. \A n \in 1..Cardinality(W) : \A i : Nth(W, i, n) => p[n] = <<h[i]>>
  BY HostPieces
<1>4. Means(h, c) <=> MeansBy(W, h, name, port)
  BY Zenon DEF Means, MeansBy, HostWords, Blank
<1>5. FitsHost(h, c) <=> name = parsed[1] /\ parsed[2] \in {Blank, port}
  BY Zenon DEF FitsHost, Blank
<1>6. parsed = CASE Len(p) = 1 -> <<p[1][1], Blank>>
                 [] Len(p) = 2 -> <<p[1][1], p[2][1]>>
                 [] OTHER -> <<Blank, Blank>>
  BY Zenon DEF ParseHostHeader, Blank
<1>7. \A x : <<x>>[1] = x
  OBVIOUS
<1>8. \A x, y : <<x, y>>[1] = x /\ <<x, y>>[2] = y
  OBVIOUS
<1> HIDE DEF W, p, parsed, name, port
<1>k. MeansCases(W, h, name, port)
  BY <1>1, <1>2, MeansIs
<1>m. /\ Cardinality(W) \notin 1..2 => (Means(h, c) <=> name = Blank)
      /\ \A a : W = {a} => (Means(h, c) <=> h[a] = name)
      /\ \A a, b : W = {a, b} /\ a < b => (Means(h, c) <=> h[a] = name /\ h[b] = port)
  BY <1>4, <1>k, Zenon DEF MeansCases
<1>9. CASE Cardinality(W) = 1
  <2>1. PICK a : W = {a}
    BY <1>2, <1>9, FS_Singleton
  <2>2. a \in Nat
    BY <1>1, <2>1
  <2>3. Nth(W, a, 1)
    BY <2>1, <2>2, OneWord
  <2>4. p[1] = <<h[a]>>
    BY <1>3, <1>9, <2>3
  <2>5. parsed = <<p[1][1], Blank>>
    <3>1. Len(p) = 1 /\ Len(p) # 2
      BY <1>2, <1>9
    <3> QED
      BY <1>6, <3>1
  <2>6. parsed[1] = h[a] /\ parsed[2] = Blank
    BY <1>7, <1>8, <2>4, <2>5, Zenon
  <2> QED
    BY <1>5, <1>m, <2>1, <2>6, Zenon
<1>10. CASE Cardinality(W) = 2
  <2>1. PICK a \in Nat, b \in Nat : a < b /\ W = {a, b}
    BY <1>1, <1>2, <1>10, AsPair
  <2>2. h[b] # Blank
    BY <1>1, <2>1
  <2>3. Nth(W, a, 1) /\ Nth(W, b, 2)
    BY <2>1, TwoWords
  <2>4. p[1] = <<h[a]>> /\ p[2] = <<h[b]>>
    BY <1>3, <1>10, <2>3
  <2>5. parsed = <<p[1][1], p[2][1]>>
    <3>1. Len(p) # 1 /\ Len(p) = 2
      BY <1>2, <1>10
    <3> QED
      BY <1>6, <3>1
  <2>6. parsed[1] = h[a] /\ parsed[2] = h[b]
    BY <1>7, <1>8, <2>4, <2>5, Zenon
  <2> QED
    BY <1>5, <1>m, <2>1, <2>2, <2>6, Zenon
<1>11. CASE Cardinality(W) \notin 1..2
  <2>1. parsed = <<Blank, Blank>>
    <3>1. Len(p) # 1 /\ Len(p) # 2
      BY <1>2, <1>11
    <3> QED
      BY <1>6, <3>1
  <2>2. parsed[1] = Blank /\ parsed[2] = Blank
    BY <1>8, <2>1, Zenon
  <2> QED
    BY <1>5, <1>m, <1>11, <2>2, Zenon
<1> QED
  BY <1>2, <1>9, <1>10, <1>11

\* The least of the numbers an increasing sequence has from a place on.
LEMMA LeastListed ==
  ASSUME NEW s \in Seq(Nat), \A i, j \in DOMAIN s : i < j => s[i] < s[j],
         NEW n \in DOMAIN s, NEW T, s[n] \in T,
         \A x \in T : \E m \in DOMAIN s : s[m] = x /\ n <= m
  PROVE  Min(T) = s[n]
<1>1. DOMAIN s = 1..Len(s) /\ Len(s) \in Nat /\ \A m \in DOMAIN s : s[m] \in Nat
  OBVIOUS
<1>2. T \subseteq Nat
  BY <1>1
<1>3. ASSUME NEW x \in T PROVE s[n] <= x
  <2>1. PICK m \in DOMAIN s : s[m] = x /\ n <= m
    OBVIOUS
  <2>2. n = m \/ n < m
    BY <1>1, <2>1
  <2>3. n < m => s[n] < s[m]
    BY <2>1
  <2> QED
    BY <1>1, <2>1, <2>2, <2>3
<1> QED
  BY <1>2, <1>3, MinIs

\* The servers that listen somewhere, and those of them a host means.
Here(l) == {i \in DOMAIN contexts : contexts[i].listen = l}
Meant(l, host) == {i \in Here(l) : host # NoHost /\ Means(host, contexts[i])}

LEMMA Selection ==
  ASSUME MapInv, state = "run", NEW l \in bound, NEW host \in Hosts
  PROVE  SelectServerContext(cmap[l], host) =
           Min(IF Meant(l, host) = {} THEN Here(l) ELSE Meant(l, host))
<1> DEFINE list == cmap[l]
           here == Here(l)
           meant == Meant(l, host)
           fitting == {n \in DOMAIN list : FitsHost(host, contexts[list[n]])}
           first == Len(list) = 1 \/ host = NoHost \/ fitting = {}
<1>1. /\ list \in Seq(Nat) /\ 1 \in DOMAIN list
      /\ \A i, j \in DOMAIN list : i < j => list[i] < list[j]
      /\ Range(list) = {i \in 1..next - 1 : contexts[i].listen = l}
  BY DEF MapInv, Listed
<1>2. Range(list) = here
  <2>1. DOMAIN contexts = 1..Len(contexts) /\ next = Len(contexts) + 1 /\ Len(contexts) \in Nat
    BY DEF MapInv
  <2>2. 1..next - 1 = DOMAIN contexts
    BY <2>1
  <2> QED
    BY <1>1, <2>2 DEF Here
<1>3. /\ \A n \in DOMAIN list : list[n] \in here
      /\ \A i \in here : \E n \in DOMAIN list : list[n] = i
  BY <1>2, Zenon DEF Range
<1>4. \A c : FitsHost(host, c) <=> Means(host, c)
  <2>1. Spread(host)
    BY HostsAssumption, Zenon DEF Spread
  <2> QED
    BY <2>1, FitsIsMeans
<1>5. \A n \in DOMAIN list : list[n] \in meant <=> host # NoHost /\ n \in fitting
  BY <1>3, <1>4 DEF Meant
<1>6. SelectServerContext(list, host) = list[IF first THEN 1 ELSE Min(fitting)]
  BY Zenon DEF SelectServerContext, FitsHost, Blank
<1>7. DOMAIN list = 1..Len(list) /\ Len(list) \in Nat
  BY <1>1
<1>8. fitting \subseteq DOMAIN list /\ meant \subseteq here
  BY DEF Meant
<1> HIDE DEF fitting, list, here, meant
<1>9. CASE meant = {}
  <2>1. first
    BY <1>3, <1>5, <1>8, <1>9
  <2>2. \A x \in here : \E m \in DOMAIN list : list[m] = x /\ 1 <= m
    BY <1>3, <1>7
  <2>3. Min(here) = list[1]
    BY <1>1, <1>3, <2>2, LeastListed
  <2> QED
    BY <1>6, <1>9, <2>1, <2>3 DEF list, here, meant
<1>10. CASE meant # {} /\ Len(list) = 1
  <2>1. \A n \in DOMAIN list : n = 1
    BY <1>7, <1>10
  <2>2. \A x \in meant : \E m \in DOMAIN list : list[m] = x /\ 1 <= m
    BY <1>3, <1>7, <1>8
  <2>3. list[1] \in meant
    BY <1>10, <2>1, <2>2
  <2>4. Min(meant) = list[1]
    BY <1>1, <2>2, <2>3, LeastListed
  <2> QED
    BY <1>6, <1>10, <2>4 DEF list, here, meant
<1>11. CASE meant # {} /\ Len(list) # 1
  <2>1. host # NoHost /\ fitting # {}
    BY <1>3, <1>5, <1>8, <1>11
  <2>2. fitting \subseteq Nat
    BY <1>7, <1>8
  <2>3. PICK n \in fitting : \A m \in fitting : n <= m
    BY <2>1, <2>2, NatLeast
  <2>4. Min(fitting) = n
    BY <2>2, <2>3, MinIs
  <2>5. n \in DOMAIN list /\ list[n] \in meant
    BY <1>5, <1>8, <2>1, <2>3
  <2>6. \A x \in meant : \E m \in DOMAIN list : list[m] = x /\ n <= m
    BY <1>3, <1>5, <1>8, <2>3
  <2>7. Min(meant) = list[n]
    BY <1>1, <2>5, <2>6, LeastListed
  <2>8. ~first
    BY <1>11, <2>1
  <2> QED
    BY <1>6, <1>11, <2>4, <2>7, <2>8 DEF list, here, meant
<1> QED
  BY <1>9, <1>10, <1>11

\* However many servers share a listen and whatever their names are, a request
\* gets the first that its header Host means, by its words, and the first of
\* all where it means none, however SelectServerContext cuts the header.
THEOREM SelectionIsRight == Spec => []SelectedIsRight
<1>1. MapInv => SelectedIsRight
  <2>1. ASSUME MapInv, state = "run"
        PROVE  \A l \in bound, host \in Hosts :
                 SelectServerContext(cmap[l], host) =
                   Min(IF Meant(l, host) = {} THEN Here(l) ELSE Meant(l, host))
    BY <2>1, Selection
  <2> QED
    BY <2>1 DEF SelectedIsRight, Here, Meant
<1> QED
  BY <1>1, MapStarts, MapStep, PTL DEF Spec

-----------------------------------------------------------------------------
(* The addresses of a running server                                        *)

\* What Startable says of the file and its listens, of the contexts as parsed.
RunsWhereItMay ==
  state = "run" =>
    LET listens == {contexts[i].listen : i \in DOMAIN contexts}
    IN  /\ CanRead(file)
        /\ NoListen \notin listens
        /\ \A l \in listens : /\ Address(l).ip # "elsewhere"
                              /\ \A m \in listens \ {l} : ~Overlap(Address(l), Address(m))

\* The sockets, however InitListen orders them.
Bindable(listens) ==
  /\ \A l \in listens : Address(l).ip # "elsewhere"
  /\ \A l, m \in listens : l # m => ~Overlap(Address(l), Address(m))

SocketInv ==
  /\ state \in {"lex", "top", "server", "location", "map", "listen", "run"} => CanRead(file)
  /\ \A l \in DOMAIN cmap : l[2] # ""
  /\ Bindable(bound)

LEMMA OneMoreSocket ==
  ASSUME Bindable(bound), NEW l, Binds(l)
  PROVE  Bindable(bound \cup {l})
<1>1. \A a, b : Overlap(a, b) <=> Overlap(b, a)
  BY DEF Overlap
<1>2. Address(l).ip # "elsewhere" /\ \A m \in bound : ~Overlap(Address(l), Address(m))
  BY Zenon DEF Binds
<1>3. \A m \in bound : ~Overlap(Address(m), Address(l))
  BY <1>1, <1>2, Zenon
<1> QED
  BY <1>2, <1>3, Zenon DEF Bindable

LEMMA SocketStep == MapInv /\ SocketInv /\ [Next]_vars => SocketInv'
<1> SUFFICES ASSUME MapInv, SocketInv, [Next]_vars
             PROVE  SocketInv'
  OBVIOUS
<1>1. ASSUME ToMap PROVE SocketInv'
  <2>1. file' = file /\ bound' = bound /\ state = "map"
    BY <1>1, Zenon DEF ToMap
  <2>2. \A l \in DOMAIN cmap' : l[2] # ""
    <3>1. CASE cmap' = cmap
      BY <3>1, Zenon DEF SocketInv
    <3>2. ASSUME cmap' \in Enter(cmap, contexts[next].listen, next)
          PROVE  \A l \in DOMAIN cmap' : l[2] # ""
      <4> DEFINE l == contexts[next].listen
      <4>1. CASE l \in DOMAIN cmap
        <5>1. cmap' = [cmap EXCEPT ![l] = Append(@, next)]
          BY <3>2, <4>1, Zenon DEF Enter
        <5>2. DOMAIN cmap' = DOMAIN cmap
          BY <5>1
        <5> QED
          BY <5>2, Zenon DEF SocketInv
      <4>2. CASE l \notin DOMAIN cmap
        <5>1. l[2] # "" /\ cmap' = Insert(cmap, l, <<next>>)
          BY <3>2, <4>2, Zenon DEF Enter, If
        <5>2. DOMAIN cmap' = DOMAIN cmap \cup {l}
          BY <5>1 DEF Insert
        <5> QED
          BY <5>1, <5>2, Zenon DEF SocketInv
      <4> QED
        BY <4>1, <4>2
    <3> QED
      BY <1>1, <3>1, <3>2, Zenon DEF ToMap
  <2> QED
    BY <2>1, <2>2 DEF SocketInv
<1>2. ASSUME InitListen PROVE SocketInv'
  <2>1. file' = file /\ cmap' = cmap /\ state = "listen"
    BY <1>2, Zenon DEF InitListen
  <2>2. Bindable(bound')
    <3>1. bound' = bound \/ \E l : Binds(l) /\ bound' = bound \cup {l}
      BY <1>2, Zenon DEF InitListen
    <3> QED
      BY <3>1, OneMoreSocket DEF SocketInv
  <2> QED
    BY <2>1, <2>2 DEF SocketInv
<1>3. CASE Parsing
  <2>1. ParserFrame /\ UNCHANGED <<file, cmap, bound>>
    BY <1>3, ParserKeeps DEF Parsing
  <2> QED
    BY <2>1 DEF ParserFrame, SocketInv
<1>4. CASE StoreFileLinesInVec
  BY <1>4 DEF StoreFileLinesInVec, SocketInv
<1>5. CASE Parsed \/ Tokenized \/ Tokenize \/ NeverEnds \/ CannotRead \/ Mapped \/ Run
  BY <1>5 DEF Parsed, Tokenized, Tokenize, NeverEnds, CannotRead, Mapped, Run, Throw, SocketInv
<1>6. CASE UNCHANGED vars
  BY <1>6 DEF vars, parserVars, SocketInv
<1> QED
  BY <1>1, <1>2, <1>3, <1>4, <1>5, <1>6 DEF Next

\* Whatever the order of the map, InitListen gets to Run only with a file that
\* may be read whose servers all name a port and listen at addresses of the
\* host of which no two overlap.
THEOREM AddressesApart == Spec => []RunsWhereItMay
<1>1. Init => SocketInv
  <2>1. Init => state = "file" /\ cmap = <<>> /\ bound = {}
    BY Zenon DEF Init
  <2> QED
    BY <2>1 DEF SocketInv, Bindable
<1>2. ASSUME MapInv, SocketInv, state = "run"
      PROVE  LET listens == {contexts[i].listen : i \in DOMAIN contexts}
             IN  /\ CanRead(file)
                 /\ NoListen \notin listens
                 /\ \A l \in listens :
                      /\ Address(l).ip # "elsewhere"
                      /\ \A m \in listens \ {l} : ~Overlap(Address(l), Address(m))
  <2> DEFINE listens == {contexts[i].listen : i \in DOMAIN contexts}
  <2>1. \A i \in DOMAIN contexts : contexts[i].listen \in DOMAIN cmap
    <3>1. DOMAIN contexts = 1..Len(contexts) /\ next = Len(contexts) + 1 /\ Len(contexts) \in Nat
      BY <1>2 DEF MapInv
    <3>2. DOMAIN contexts = 1..next - 1
      BY <3>1
    <3> QED
      BY <1>2, <3>2 DEF MapInv, Complete
  <2>2. listens \subseteq bound /\ listens \subseteq DOMAIN cmap
    BY <1>2, <2>1 DEF MapInv
  <2>3. NoListen[2] = ""
    BY DEF NoListen
  <2> HIDE DEF listens
  <2>4. NoListen \notin listens
    BY <1>2, <2>2, <2>3, Zenon DEF SocketInv
  <2>5. Bindable(bound) /\ CanRead(file)
    BY <1>2 DEF SocketInv
  <2>6. \A l \in listens : /\ Address(l).ip # "elsewhere"
                           /\ \A m \in listens \ {l} : ~Overlap(Address(l), Address(m))
    BY <2>2, <2>5, Zenon DEF Bindable
  <2> QED
    BY <2>4, <2>5, <2>6, Zenon DEF listens
<1>3. MapInv /\ SocketInv => RunsWhereItMay
  BY <1>2, Zenon DEF RunsWhereItMay
<1> QED
  BY <1>1, <1>3, MapStarts, MapStep, SocketStep, PTL DEF Spec
=============================================================================
