-------------------------- MODULE MCRequestReader --------------------------
(***************************************************************************)
(* Requests for TLC.                                                       *)
(***************************************************************************)
EXTENDS RequestReader

MCBytes == {"0", "1", "2", "3", "6", "-", "+", "x", "y", "cr", "lf", "nul"}

Request(m, h, p) == [method |-> m, headers |-> h, payload |-> p]

\* Every head of at most two headers, and of three for the valid ones, with
\* short payloads: cut anywhere, with and without a nul.
ShortPayloads == BoundedSeq({"x", "y", "nul"}, 3)

MCFraming ==
  {Request(m, h, p) : m \in Methods, h \in BoundedSeq(Headers, 2),
                      p \in {<<>>, <<"x">>, <<"x", "y">>}}
    \cup {Request("POST", <<a, b, c>>, p) :
            a, b, c \in {"host", "other", "length2"}, p \in ShortPayloads}

\* Chunked bodies: well-formed ones of up to two chunks of up to three bytes,
\* and malformed ones.
MalformedPayloads ==
  {<<"2">> \o NL \o <<"x">>,                              \* data short by one
   <<"3">> \o NL \o <<"x">>,                              \* by two
   <<"1">> \o NL \o <<"x", "y">> \o NL,                   \* data too long
   <<"1">> \o NL \o <<"x", "cr", "y">>,                   \* no line end
   <<"x">> \o NL \o <<"y">> \o NL,                        \* bad size
   NL \o NL,                                              \* empty size
   <<"1", "0">> \o NL \o <<"x">>,                         \* two digits
   <<"-", "1">> \o NL \o <<"x">> \o NL,                   \* signed sizes: -1,
   <<"-", "2">> \o NL \o SizeLine(1) \o <<"x">> \o NL,     \* back to its own
   <<"-", "3", "0">> \o NL \o <<"x">> \o NL,              \* line end, wrapped,
   SizeLine(1) \o <<"x">> \o NL \o <<"-", "6">> \o NL,    \* its own line,
   <<"+", "1">> \o NL \o <<"x">> \o NL \o SizeLine(0) \o NL, \* positive,
   <<"-", "0">> \o NL \o NL,                              \* zero,
   <<"-">> \o NL \o NL,                                   \* a sign alone
   <<"1">> \o NL \o <<"nul">> \o NL \o <<"0">> \o NL \o NL,
   <<"0">> \o NL \o <<"x">> \o NL}                        \* a trailer

MCPieces == UNION {[1..n -> BoundedSeq({"x", "y"}, 3) \ {<<>>}] : n \in 0..2}

MCChunked ==
  {Request("POST", <<"host", "chunked">>, Chunked(p)) : p \in MCPieces}
    \cup {Request("POST", <<"chunked", "host">>, p) : p \in MalformedPayloads}

MCRequests == MCFraming \cup MCChunked

=============================================================================
