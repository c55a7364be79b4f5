------------------------------- MODULE Utils -------------------------------
(* Helpers on strings (Utils.cpp), which are sequences of symbols here. *)
EXTENDS Naturals, Sequences, FiniteSets, SequencesExt, FiniteSetsExt

\* insert of a std::map: an element that is there stays.
Insert(map, key, value) ==
  [k \in DOMAIN map \cup {key} |-> IF k \in DOMAIN map THEN map[k] ELSE value]

\* SplitWithMultipleSpecifier: the longest pieces without a separator.
Split(text, separators) ==
  LET Word(i, j) == \A k \in i..j : text[k] \notin separators
      starts == {i \in DOMAIN text : Word(i, i) /\ (i = 1 \/ ~Word(i - 1, i - 1))}
      End(i) == Max({j \in i..Len(text) : Word(i, j)})
      Start(n) == CHOOSE i \in starts : Cardinality({j \in starts : j <= i}) = n
  IN  [n \in 1..Cardinality(starts) |-> SubSeq(text, Start(n), End(Start(n)))]
=============================================================================
