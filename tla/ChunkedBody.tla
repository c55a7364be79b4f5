---------------------------- MODULE ChunkedBody ----------------------------
(***************************************************************************)
(* The decoder of a chunked request body: class ChunkedBody.  A call of    *)
(* DecodeChunkedBody appends what was received to buf and turns in its     *)
(* loop, a size line and its chunk at a time; here is what one turn does.  *)
(*                                                                         *)
(* A byte is a hexadecimal digit, a sign, a data byte, one of "cr" and     *)
(* "lf", or "nul".  head counts from 0 as str_head_ does: it is the number of bytes *)
(* of buf already consumed; a negative head stands for the size_t that a   *)
(* negative chunk size wraps it to, which is beyond any buffer.  Operators *)
(* named Faulty... are the definition below them with a plausible bug; no  *)
(* specification uses them.                                                *)
(***************************************************************************)
EXTENDS Integers, Sequences, SequencesExt

CONSTANTS
  Bytes,      \* all the bytes of a payload
  MaxBody     \* max_body_size_: client_max_body_size of the server

ASSUME ChunkedBodyAssumption == MaxBody \in Nat

-----------------------------------------------------------------------------
Digits == {"0", "1", "2", "3", "6"}
DigitValue(d) == CASE d = "0" -> 0 [] d = "1" -> 1 [] d = "2" -> 2
                   [] d = "3" -> 3 [] d = "6" -> 6

NL == <<"cr", "lf">>

\* Is buf.substr(n, 2) a line end?
NLAt(buf, n) == n + 2 <= Len(buf) /\ SubSeq(buf, n + 1, n + 2) = NL

\* Fault: a line end that is the last thing in buf is not found.
FaultyNLs(buf, n) == {p \in n..Len(buf) - 3 : NLAt(buf, p)}

\* buf.find(NL, n): the offsets at or after n where a line end begins.
NLs(buf, n) == {p \in n..Len(buf) : NLAt(buf, p)}

Magnitude(digits) ==
  LET value[i \in 0..Len(digits)] ==
        IF i = 0 THEN 0 ELSE 16 * value[i - 1] + DigitValue(digits[i])
  IN  value[Len(digits)]

\* utils::HexStrToLong: strtol takes a sign, makes 0 of an empty line, and
\* fails on a sign alone.
HexStrToLong(line) ==
  LET signed == line # <<>> /\ line[1] \in {"-", "+"}
      digits == IF signed THEN Tail(line) ELSE line
      number == /\ \A i \in DOMAIN digits : digits[i] \in Digits
                /\ signed => digits # <<>>
  IN  CASE ~number -> -1
        [] number /\ signed /\ line[1] = "-" -> -Magnitude(digits)
        [] OTHER -> Magnitude(digits)

-----------------------------------------------------------------------------
Stats == {"waitSize", "waitBody", "chunkError", "decodeComplete"}

Decoders == [stat : Stats,
             buf : Seq(Bytes),
             head : Int,
             next : Int,
             decoded : Seq(Bytes),
             thrown : {"none", "413", "out_of_range"}]

NewDecoder == [stat |-> "waitSize", buf |-> <<>>, head |-> 0, next |-> 0,
               decoded |-> <<>>, thrown |-> "none"]

Stopped(d) == d.thrown # "none" \/ d.stat \in {"chunkError", "decodeComplete"}

\* Fault: only one byte of the line end is skipped.
FaultyTakeSize(d) ==
  IF NLs(d.buf, d.head) = {}
    THEN d
    ELSE LET pos == Min(NLs(d.buf, d.head))
             n == HexStrToLong(SubSeq(d.buf, d.head + 1, pos))
         IN  [d EXCEPT !.next = n, !.stat = "waitBody", !.head = pos + 1]

\* A size line, when one is complete.
TakeSize(d) ==
  IF NLs(d.buf, d.head) = {}
    THEN d
    ELSE LET pos == Min(NLs(d.buf, d.head))
             n == HexStrToLong(SubSeq(d.buf, d.head + 1, pos))
         IN  IF n = -1
               THEN [d EXCEPT !.next = n, !.stat = "chunkError"]
               ELSE [d EXCEPT !.next = n, !.stat = "waitBody", !.head = pos + 2]

\* Fault: the line end after the data is not skipped.
FaultyTakeChunkEnd(d) ==
  [d EXCEPT !.stat = IF d.head >= 0 /\ NLAt(d.buf, d.head) THEN "waitSize"
                                                           ELSE "chunkError"]

\* What follows the data of a chunk, str_head_ being moved past it already.
\* The bound is checked with the 2 on the wrong side: when the data itself is
\* one or two bytes short, substr is asked for a position past the end.
TakeChunkEnd(d) ==
  CASE d.head < 0 \/ d.head > Len(d.buf) + 2 -> [d EXCEPT !.stat = "chunkError"]
    [] d.head \in Len(d.buf) + 1 .. Len(d.buf) + 2 ->
         [d EXCEPT !.stat = "waitSize", !.thrown = "out_of_range"]
    [] d.head >= 0 /\ NLAt(d.buf, d.head) ->
         [d EXCEPT !.stat = "waitSize", !.head = @ + 2]
    [] OTHER -> [d EXCEPT !.stat = "chunkError"]

\* The data of a chunk; substr stops at the end of buf, and takes all of it
\* for a negative size, which also moves str_head_ back.
TakeChunk(d) ==
  LET last == IF d.next < 0 THEN Len(d.buf) ELSE Min({d.head + d.next, Len(d.buf)})
      data == d.decoded \o SubSeq(d.buf, d.head + 1, last)
  IN  CASE d.next = 0 /\ NLAt(d.buf, d.head) ->
             [d EXCEPT !.stat = "decodeComplete"]
        [] Len(data) > MaxBody ->
             [d EXCEPT !.decoded = data, !.thrown = "413"]
        [] OTHER ->
             TakeChunkEnd([d EXCEPT !.decoded = data, !.head = @ + d.next])

\* One turn of the loop: a size line, when one is complete, and its chunk.
Turned(d) == LET sized == TakeSize(d)
             IN  IF sized.stat = "waitBody" THEN TakeChunk(sized) ELSE sized

\* After this turn the loop ends.
LastTurn(d) == NLs(d.buf, d.head) = {} \/ Stopped(Turned(d))

=============================================================================
