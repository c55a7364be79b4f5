--------------------------- MODULE RequestReader ---------------------------
(***************************************************************************)
(* How the request of one connection is read: class ReceiveHttpRequest,    *)
(* called once for every readiness report of the client's descriptor.  The *)
(* steps of a call are the parts of ReadHttpRequest and the turns of its   *)
(* loops; nothing else comes between them.                                 *)
(*                                                                         *)
(* A request line and a header line are one symbol each, between line ends *)
(* of two symbols; a body is symbols of ChunkedBody.  TCP delivers the     *)
(* request in segments of any length, so one call sees any next piece of   *)
(* it.  Which server of the configuration is selected is not modelled: its *)
(* client_max_body_size is the constant MaxBody.  Operators named          *)
(* Faulty... are the definition below them with a plausible bug; no        *)
(* specification uses them.                                                *)
(***************************************************************************)
EXTENDS ChunkedBody

CONSTANTS
  Requests,     \* the requests a client may send
  BufferSize,   \* BUFFER_SIZE: bytes asked of one read
  Pieces        \* data as lists of chunks, to compare bodies with

\* The lengths a content-length header may declare; strtol makes -1 of the
\* last one.
Declared(h) == CASE h = "length0" -> 0 [] h = "length1" -> 1
                 [] h = "length2" -> 2 [] h = "length5" -> 5
                 [] h = "lengthBad" -> -1

LengthHeaders == {"length0", "length1", "length2", "length5", "lengthBad"}

\* "bad" is a line without a colon, a key or a value.
Headers == LengthHeaders \cup {"host", "chunked", "other", "bad"}

\* DELETE is treated as GET; "bad" is every line that is rejected.
Methods == {"GET", "POST", "bad"}

RequestSet == [method : Methods, headers : Seq(Headers), payload : Seq(Bytes)]

ASSUME RequestReaderAssumption ==
  /\ Requests \subseteq RequestSet
  /\ BufferSize \in Nat \ {0}
  /\ Bytes \cap (Headers \cup Methods) = {}
  /\ NL \in Seq(Bytes)
  /\ Pieces \subseteq Seq(Seq(Bytes \ {"nul"}))
  /\ \A p \in Pieces : \A i \in DOMAIN p :
       Len(p[i]) \in {DigitValue(d) : d \in Digits \ {"0"}}

VARIABLES
  request,    \* what the client sends
  sent,       \* how much of it the process has read
  reader,     \* fd_data_, content_length_value_ and cb_
  call,       \* where in ReadHttpRequest the thread is
  result      \* what the last call returned or threw

vars == <<request, sent, reader, call, result>>

-----------------------------------------------------------------------------
\* Lines as the bytes of the connection, each with its line end.
Lines(ls) == [i \in 1..3 * Len(ls) |->
                IF i % 3 = 1 THEN ls[i \div 3 + 1] ELSE NL[IF i % 3 = 2 THEN 1 ELSE 2]]

HeadOf(r) == Lines(<<r.method>> \o r.headers) \o NL
Wire(r) == HeadOf(r) \o r.payload

Symbols == Headers \cup Methods \cup Bytes

States == {"unread", "waitRequest", "waitHeader", "waitBody", "readComplete"}

\* "again" stands for the three kinds of kWait...; 400, 413 and 500 are the
\* codes of an ErrorResponse; any other exception ends the process.
\* "400" stands for 505 HTTP Version Not Supported as well.
Results == {"again", "complete", "400", "413", "500", "disconnected", "aborted"}

Readers == [s : States,
            buf : Seq(Symbols),
            method : Methods \cup {"kError"},
            headers : Seq(Headers),
            body : Seq(Bytes),
            length : Nat,
            isChunked : BOOLEAN,
            decoder : Decoders]

Calls == {"none", "line", "headers", "body", "decode"}

TypeOK ==
  /\ request \in RequestSet
  /\ sent \in 0..Len(Wire(request))
  /\ reader \in Readers
  /\ call \in Calls
  /\ result \in Results

NewReader == [s |-> "unread", buf |-> <<>>, method |-> "kError",
              headers |-> <<>>, body |-> <<>>, length |-> 0,
              isChunked |-> FALSE, decoder |-> NewDecoder]

Init ==
  /\ request \in Requests
  /\ sent = 0
  /\ reader = NewReader
  /\ call = "none"
  /\ result = "again"

-----------------------------------------------------------------------------
(* The parts of ReadHttpRequest, in order.  A part ends the call with its   *)
(* reader and a result, or goes on with another part.                       *)

Return(r, res) ==
  /\ reader' = r
  /\ result' = res
  /\ call' = "none"
  /\ UNCHANGED <<request, sent>>

GoOn(r, part) ==
  /\ reader' = r
  /\ call' = part
  /\ UNCHANGED <<request, sent, result>>

HasLine(r) == NLs(r.buf, 0) # {}
FirstLine(r) == SubSeq(r.buf, 1, Min(NLs(r.buf, 0)))
\* Fault: one byte too many is dropped with the line.
FaultyAfterLine(r) == [r EXCEPT !.buf = SubSeq(@, Min(NLs(@, 0)) + 4, Len(@))]

AfterLine(r) == [r EXCEPT !.buf = SubSeq(@, Min(NLs(@, 0)) + 3, Len(@))]

RequestLine ==
  /\ call = "line"
  /\ \/ /\ ~HasLine(reader)
        /\ Return([reader EXCEPT !.s = "waitRequest"], "again")
     \/ /\ HasLine(reader)
        /\ FirstLine(reader) \in {<<"GET">>, <<"POST">>}
        /\ GoOn([AfterLine(reader) EXCEPT !.s = "waitHeader",
                                          !.method = FirstLine(reader)[1]], "headers")
     \/ /\ HasLine(reader)
        /\ FirstLine(reader) \notin {<<"GET">>, <<"POST">>}
        /\ Return(AfterLine(reader), "400")

Find(r, names) == {i \in DOMAIN r.headers : r.headers[i] \in names}
Count(r, names) == Cardinality(Find(r, names))

IsBodyRequired(r) == r.method # "GET"

\* content-length, if it is looked at.
ContentLength(r) ==
  IF IsBodyRequired(r) /\ Count(r, LengthHeaders) = 1
    THEN Declared(r.headers[Min(Find(r, LengthHeaders))])
    ELSE 0

IsValidHeader(r) ==
  /\ IsBodyRequired(r) => Count(r, {"chunked"}) + Count(r, LengthHeaders) = 1
  /\ ContentLength(r) >= 0
  /\ Count(r, {"host"}) = 1

\* After the last header: its checks, the selection of the server and its
\* limit.
AcceptHeaders(r) ==
  LET chunked == IsBodyRequired(r) /\ Count(r, {"chunked"}) = 1
  IN  \/ /\ ~IsValidHeader(r)
         /\ Return(r, "400")
      \/ /\ IsValidHeader(r)
         /\ ContentLength(r) > MaxBody
         /\ Return([r EXCEPT !.length = ContentLength(r), !.isChunked = chunked], "413")
      \/ /\ IsValidHeader(r)
         /\ ContentLength(r) <= MaxBody
         /\ GoOn([r EXCEPT !.length = ContentLength(r), !.isChunked = chunked,
                           !.s = "waitBody"], "body")

\* A turn of the loop over header lines.
HeaderLine ==
  /\ call = "headers"
  /\ \/ /\ ~HasLine(reader)
        /\ Return(reader, "again")
     \/ /\ HasLine(reader)
        /\ FirstLine(reader) = <<>>
        /\ AcceptHeaders(AfterLine(reader))
     \/ /\ HasLine(reader)
        /\ FirstLine(reader) # <<>>
        /\ FirstLine(reader)[1] \in Headers \ {"bad"}
        /\ GoOn([AfterLine(reader) EXCEPT !.headers = Append(@, FirstLine(reader)[1])],
                "headers")
     \/ /\ HasLine(reader)
        /\ FirstLine(reader) # <<>>
        /\ FirstLine(reader)[1] \notin Headers \ {"bad"}
        /\ Return(AfterLine(reader), "400")

\* Fault: all that was received is taken for the body.
FaultyBody ==
  /\ call = "body"
  /\ \/ /\ ~IsBodyRequired(reader)
        /\ Return(reader, "complete")
     \/ /\ IsBodyRequired(reader) /\ reader.isChunked
        /\ GoOn([reader EXCEPT !.decoder.buf = @ \o reader.buf, !.buf = <<>>], "decode")
     \/ /\ IsBodyRequired(reader) /\ ~reader.isChunked
        /\ Len(reader.buf) < reader.length
        /\ Return(reader, "again")
     \/ /\ IsBodyRequired(reader) /\ ~reader.isChunked
        /\ Len(reader.buf) >= reader.length
        /\ Return([reader EXCEPT !.s = "readComplete", !.buf = <<>>,
                                 !.body = reader.buf], "complete")

Body ==
  /\ call = "body"
  /\ \/ /\ ~IsBodyRequired(reader)
        /\ Return(reader, "complete")
     \/ /\ IsBodyRequired(reader) /\ reader.isChunked
        /\ GoOn([reader EXCEPT !.decoder.buf = @ \o reader.buf, !.buf = <<>>], "decode")
     \/ /\ IsBodyRequired(reader) /\ ~reader.isChunked
        /\ Len(reader.buf) < reader.length
        /\ Return(reader, "again")
     \/ /\ IsBodyRequired(reader) /\ ~reader.isChunked
        /\ Len(reader.buf) >= reader.length
        /\ Return([reader EXCEPT !.s = "readComplete", !.buf = <<>>,
                                 !.body = SubSeq(reader.buf, 1, reader.length)], "complete")

\* A turn of the decoder's loop.  Whatever the decoder returns, the request
\* is complete.
DecodeChunkedBody ==
  /\ call = "decode"
  /\ LET d == Turned(reader.decoder)
         r == [reader EXCEPT !.decoder = d]
     IN  \/ /\ ~LastTurn(reader.decoder)
            /\ GoOn(r, "decode")
         \/ /\ LastTurn(reader.decoder) /\ d.thrown = "none"
            /\ Return([r EXCEPT !.body = @ \o d.decoded], "complete")
         \/ /\ LastTurn(reader.decoder) /\ d.thrown = "413"
            /\ Return(r, "413")
         \/ /\ LastTurn(reader.decoder) /\ d.thrown = "out_of_range"
            /\ Return(r, "aborted")

-----------------------------------------------------------------------------
(* How a call begins: read returns some of what is left, nothing (the       *)
(* client closed its side) or an error.                                     *)

\* The buffer is appended to as a C string: what follows a nul is lost.
AsCString(text) ==
  LET nul == SelectInSeq(text, LAMBDA b : b = "nul")
  IN  IF nul = 0 THEN text ELSE SubSeq(text, 1, nul - 1)

\* The part that handles the state the last call left.
PartFor(s) == CASE s \in {"unread", "waitRequest"} -> "line"
                [] s = "waitHeader" -> "headers"
                [] s = "waitBody" -> "body"

Waits == result = "again" /\ call = "none"

Receive ==
  /\ Waits
  /\ \E n \in 1..Min({BufferSize, Len(Wire(request)) - sent}) :
       /\ sent' = sent + n
       /\ reader' = [reader EXCEPT
                       !.buf = @ \o AsCString(SubSeq(Wire(request), sent + 1, sent + n))]
  /\ call' = PartFor(reader.s)
  /\ UNCHANGED <<request, result>>

ReceiveNothing == Waits /\ Return(reader, "disconnected")

ReceiveError == Waits /\ Return(reader, "500")

Next ==
  \/ Receive \/ ReceiveNothing \/ ReceiveError
  \/ RequestLine \/ HeaderLine \/ Body \/ DecodeChunkedBody

Spec == Init /\ [][Next]_vars

-----------------------------------------------------------------------------
(* What the client means by its request, without reference to the reader.   *)

Arrived == SubSeq(Wire(request), 1, sent)
HasNul(text) == \E i \in DOMAIN text : text[i] = "nul"

HeadersIn(names) == {i \in DOMAIN request.headers : request.headers[i] \in names}

Posts == request.method = "POST"
SendsChunks == Posts /\ HeadersIn({"chunked"}) # {}
SendsLength == Posts /\ HeadersIn(LengthHeaders) # {}
DeclaredLength == Declared(request.headers[Min(HeadersIn(LengthHeaders))])

\* A request the server has to accept, whatever its payload.
Valid ==
  /\ request.method # "bad"
  /\ HeadersIn({"bad"}) = {}
  /\ Cardinality(HeadersIn({"host"})) = 1
  /\ Posts => Cardinality(HeadersIn({"chunked"} \cup LengthHeaders)) = 1
  /\ SendsLength => DeclaredLength \in 0..MaxBody

\* The chunked coding of a sequence of nonempty pieces of data.
Digit(n) == CHOOSE d \in Digits : DigitValue(d) = n
SizeLine(n) == <<Digit(n)>> \o NL
Chunked(pieces) ==
  FlattenSeq([i \in DOMAIN pieces |-> SizeLine(Len(pieces[i])) \o pieces[i] \o NL])
    \o SizeLine(0) \o NL

\* The pieces the payload codes, if it codes any.
Coded == {p \in Pieces : Chunked(p) = request.payload}
Data == FlattenSeq(CHOOSE p \in Coded : TRUE)

-----------------------------------------------------------------------------
(* While more is waited for, what was parsed and what is still in the       *)
(* buffer make up exactly the text that arrived, however it was cut         *)
(* (TrimByCRLF and the early returns of ReadHttpRequest).  A nul is the     *)
(* exception: see AsCString.                                                *)
Parsed ==
  (IF reader.s \in {"unread", "waitRequest"}
     THEN <<>>
     ELSE Lines(<<reader.method>> \o reader.headers))
    \o (IF reader.s = "waitBody" THEN NL ELSE <<>>)

NothingLost ==
  result = "again" /\ call # "decode" /\ ~HasNul(Arrived) => Parsed \o reader.buf = Arrived

(* A request reported complete is a valid one and is the one the client     *)
(* sent: its method, its headers in order and, with a content-length, its   *)
(* first bytes up to that length, all of them (ReceiveHttpRequest.cpp       *)
(* 288-307).  No body is longer than client_max_body_size, well-formed or   *)
(* not, whatever sizes its chunks claim.                                    *)
CompleteIsRight ==
  /\ result = "complete" => Len(reader.body) <= MaxBody
  /\ result = "complete" /\ ~HasNul(Arrived) =>
       /\ Valid
       /\ reader.method = request.method
       /\ reader.headers = request.headers
       /\ ~Posts => reader.body = <<>>
       /\ SendsLength => reader.body = SubSeq(request.payload, 1, DeclaredLength)

(* A request is refused for what is wrong with it, never for how it was     *)
(* cut: 400 when it is invalid, 413 when the body it declares or codes is   *)
(* too large.                                                               *)
RejectIsRight ==
  /\ result = "400" => ~Valid
  /\ result = "413" => \/ SendsLength /\ DeclaredLength > MaxBody
                       \/ SendsChunks /\ (Coded = {} \/ Len(Data) > MaxBody)

(* What the reader makes of a request is right and does not depend on how   *)
(* it was cut: both of the above (ReceiveHttpRequest::ReadHttpRequest).     *)
OutcomeIsRight == CompleteIsRight /\ RejectIsRight

(* The decoder turns in a circle.                                           *)
Circles ==
  /\ call = "decode"
  /\ ~LastTurn(reader.decoder)
  /\ Turned(reader.decoder) = reader.decoder

(* When the whole request has arrived the reader does not go on waiting,    *)
(* unless the client sent less than it declared or a nul swallowed some;    *)
(* and the decoder does not read the same size again and again unless the   *)
(* body is malformed (a negative size leads str_head_ back to its line).    *)
WaitsOnlyForMore ==
  /\ Waits /\ sent = Len(Wire(request)) =>
       \/ HasNul(request.payload)
       \/ SendsLength /\ Len(request.payload) < DeclaredLength
  /\ Circles => Coded = {}

(* A well-formed chunked body that the decoder sees as a whole is decoded   *)
(* completely: no error, no exception, and the body is the data.            *)
WholeChunkedDecoded ==
  /\ result \in {"complete", "413", "400", "aborted"}
  /\ SendsChunks /\ Valid /\ Coded # {}
  /\ sent = Len(Wire(request))
  => IF Len(Data) > MaxBody
       THEN result = "413"
       ELSE /\ result = "complete"
            /\ reader.decoder.stat = "decodeComplete"
            /\ reader.body = Data

(* However a well-formed chunked body is cut, what is handed on as the body *)
(* is a beginning of the data: bytes of the framing never get into it.      *)
ChunkedIsPrefix ==
  result = "complete" /\ SendsChunks /\ Coded # {} => IsPrefix(reader.body, Data)

(* tests/unit_test/ReceiveHttpRequest_test.cc:296 expects the decoder of a  *)
(* chunked request that was read completely to have reached                 *)
(* kDecodeComplete.  The code returns kReadComplete after the first call of *)
(* the decoder, whatever that call returned.                                *)
ChunkedCompleteMeansDecoded ==
  result = "complete" /\ SendsChunks /\ Coded # {} =>
    reader.decoder.stat = "decodeComplete"

=============================================================================
