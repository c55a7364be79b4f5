------------------------------- MODULE Lexer -------------------------------
(***************************************************************************)
(* From the text of a configuration to its tokens: class Lexer.            *)
(*                                                                         *)
(* A word is one symbol; a line never has two of them next to each other.  *)
(* The number of a token's line only matters to messages and is left out.  *)
(* The operator named Faulty... is the definition below it with a          *)
(* plausible bug; no specification uses it.                                *)
(***************************************************************************)
EXTENDS Utils

Blanks == {" ", "\t", "\n"}
Semicolon == ";"
Opening == "{"
Closing == "}"
Separators == {Semicolon, Opening, Closing}

StoreIfNotEmpty(piece) == IF piece = <<>> THEN <<>> ELSE <<piece[1]>>

\* Fault: what follows the last separator of a piece is not stored.
FaultySeparate(piece) ==
  LET at == SelectInSeq(piece, LAMBDA c : c \in Separators)
  IN  IF at = 0 THEN StoreIfNotEmpty(piece)
      ELSE StoreIfNotEmpty(SubSeq(piece, 1, at - 1)) \o <<piece[at]>>

\* SeparateAndStoreDelimiterCharacters: the loop over a piece without blanks.
Separate(piece) ==
  LET store[rest \in Seq(STRING)] ==
        LET at == SelectInSeq(rest, LAMBDA c : c \in Separators)
        IN  IF at = 0 THEN StoreIfNotEmpty(rest)
            ELSE StoreIfNotEmpty(SubSeq(rest, 1, at - 1)) \o <<rest[at]>>
                   \o store[SubSeq(rest, at + 1, Len(rest))]
  IN  store[piece]

\* DecomposeAndStoreLineWithDelimiters: the tokens of a line.
TokensOf(line) ==
  LET pieces == Split(line, Blanks)
  IN  FlattenSeq([i \in DOMAIN pieces |-> Separate(pieces[i])])
=============================================================================
