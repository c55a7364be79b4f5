----------------------------- MODULE CgiParser -----------------------------
(***************************************************************************)
(* How the output of one script is read and understood: CgiRead::Do with   *)
(* Socket::CgiReadAndStoreToBuf, the parser CgiParser and the event        *)
(* CgiRead publishes.                                                      *)
(*                                                                         *)
(* A header line is one symbol, named for what the parser makes of it;     *)
(* what it is followed by up to the line end belongs to its value.  The    *)
(* script's output arrives in pieces of any length, so the parser sees any *)
(* next piece of it; the script may die anywhere.  Operators named         *)
(* Faulty... are the definition below them with a plausible bug; no        *)
(* specification uses them.                                                *)
(***************************************************************************)
EXTENDS Utils

CONSTANTS
  Scripts,        \* what scripts may write
  kMaxHeaderSize,
  kBuffSize

\* "found" is STATUS: 302 Found, "status" any other valid one; "forbidden" is
\* CONTENT-LENGTH or CONNECTION; the three kinds of LOCATION are a full path,
\* an absolute URI and anything else; "bad" has no colon, key or value.
Location == {"path", "uri", "nowhere"}
Status == {"found", "status", "badStatus"}
HeaderLines == Location \cup Status \cup {"type", "forbidden", "other", "bad"}
Characters == {"x", "cr", "lf", "nul"}

Key(h) == CASE h \in Location -> "LOCATION"
            [] h \in Status -> "STATUS"
            [] OTHER -> h

LineEnds == {<<"lf">>, <<"cr", "lf">>}

ScriptSet == [lines : Seq(HeaderLines), newLine : LineEnds, body : Seq(Characters)]

ASSUME CgiParserAssumption ==
  /\ Scripts \subseteq ScriptSet
  /\ kMaxHeaderSize \in Nat
  /\ kBuffSize \in Nat \ {0}

VARIABLES
  script,     \* what the script writes, and
  read,       \* how much of it was read
  parser,     \* the CgiParser
  socket,     \* what of the Socket and its CgiRes the parser writes
  published   \* the event published by this CgiRead

vars == <<script, read, parser, socket, published>>

-----------------------------------------------------------------------------
\* The script's header, the blank line included, and its whole output.
HeadOf(s) ==
  LET width == 1 + Len(s.newLine)
  IN  [i \in 1..width * Len(s.lines) |->
         IF i % width = 1 THEN s.lines[i \div width + 1] ELSE s.newLine[(i - 1) % width]]
        \o s.newLine
Output(s) == HeadOf(s) \o s.body

ResponseTypes == {"kToBeDetermined", "kDocumentResponse", "kLocalRedirResponse",
                  "kClientRedirResponse", "kClientRediredocResponse"}

Symbols == HeaderLines \cup Characters

Parsers == [header : Seq(Symbols), headers : Seq(HeaderLines),
            body : Seq(Symbols), type : ResponseTypes,
            state : {"kHeader", "kBody"}]

\* code: response_code is set.  size: the CgiRes's read_size.
Sockets == [body : Seq(Symbols), headers : Seq(HeaderLines),
            type : ResponseTypes, code : BOOLEAN,
            size : {"unset", "data", "eof", "error"}]

TypeOK ==
  /\ script \in ScriptSet
  /\ read \in 0..Len(Output(script))
  /\ parser \in Parsers
  /\ socket \in Sockets
  /\ published \in {"none", "error", "reply", "redirect"}

Init ==
  /\ script \in Scripts
  /\ read = 0
  /\ parser = [header |-> <<>>, headers |-> <<>>, body |-> <<>>,
               type |-> "kToBeDetermined", state |-> "kHeader"]
  /\ socket = [body |-> <<>>, headers |-> <<>>, type |-> "kToBeDetermined",
               code |-> FALSE, size |-> "unset"]
  /\ published = "none"

-----------------------------------------------------------------------------
(* ParseHeader: the lines of a header.                                      *)

MakeHeader(line) == IF line[1] \in HeaderLines THEN line[1] ELSE "bad"

\* FindByKey finds a header.
Has(headers, hs) == \E i \in DOMAIN headers : headers[i] \in hs

ParseHeaderThrows(headers) ==
  \/ Has(headers, {"bad"})
  \/ \E i, j \in DOMAIN headers : i < j /\ Key(headers[i]) = Key(headers[j])

-----------------------------------------------------------------------------
(* ValidateHeader *)

\* Fault: any status makes it a redirect with a document.
FaultyClinetRedirectResponseWithDocument(headers) ==
  Has(headers, Status) /\ Has(headers, {"type"}) /\ Has(headers, {"uri"})

ClinetRedirectResponseWithDocument(headers) ==
  /\ Len(headers) >= 3
  /\ Has(headers, {"found"}) /\ Has(headers, {"type"}) /\ Has(headers, {"uri"})

DocumentResponse(headers) ==
  Has(headers, {"type"}) /\ ~Has(headers, {"badStatus"})

LocalRedirectResponse(headers, body) == headers = <<"path">> /\ body = <<>>

ClientRedirectResponse(headers) == Has(headers, {"uri"})

\* The type of a response, or kErrType.
ResponseType(headers, body) ==
  CASE Has(headers, {"forbidden"}) -> "kErrType"
    [] ~Has(headers, {"forbidden"})
         /\ ClinetRedirectResponseWithDocument(headers) -> "kClientRediredocResponse"
    [] OTHER -> CASE DocumentResponse(headers) -> "kDocumentResponse"
                  [] ~DocumentResponse(headers)
                       /\ LocalRedirectResponse(headers, body) -> "kLocalRedirResponse"
                  [] ~DocumentResponse(headers)
                       /\ ClientRedirectResponse(headers) -> "kClientRedirResponse"
                  [] OTHER -> "kErrType"

-----------------------------------------------------------------------------
(* Parse, as the parser it leaves behind and whether it throws.  A throw    *)
(* ends the reading of the script, so what it leaves behind is of no use.   *)

Parsed(p) == [parser |-> p, thrown |-> FALSE]
Thrown == [parser |-> parser, thrown |-> TRUE]

BlankLines(text, nl) ==
  LET blank == nl \o nl
  IN  {i \in 1..(Len(text) - Len(blank) + 1) :
         SubSeq(text, i, i + Len(blank) - 1) = blank}

\* The line end in use: \r\n wherever a blank line of it is found.
NewLine(text) ==
  IF BlankLines(text, <<"cr", "lf">>) # {} THEN <<"cr", "lf">> ELSE <<"lf">>

ParseHead(text) ==
  LET nl == NewLine(text)
      end == Min(BlankLines(text, nl))
      lines == Split(SubSeq(text, 1, end - 1), Range(nl))
      headers == [i \in DOMAIN lines |-> MakeHeader(lines[i])]
      body == SubSeq(text, end + 2 * Len(nl), Len(text))
      type == ResponseType(headers, body)
  IN  IF ParseHeaderThrows(headers) \/ type = "kErrType"
        THEN Thrown
        ELSE Parsed([header |-> SubSeq(text, 1, end - 1), headers |-> headers,
                     body |-> body, type |-> type, state |-> "kBody"])

\* Fault: what a read brings replaces what earlier ones brought.
FaultyParse(p, text) ==
  CASE text = <<>> /\ p.type = "kToBeDetermined" -> Thrown
    [] p.state = "kBody" -> Parsed([p EXCEPT !.body = text])
    [] OTHER -> IF BlankLines(text, NewLine(text)) # {}
                  THEN ParseHead(text)
                  ELSE Parsed([p EXCEPT !.header = text])

Parse(p, text) ==
  LET header == p.header \o text IN
  CASE text = <<>> /\ p.type = "kToBeDetermined" -> Thrown
    [] p.state = "kBody" -> Parsed([p EXCEPT !.body = @ \o text])
    [] OTHER -> CASE BlankLines(header, NewLine(header)) # {} -> ParseHead(header)
                  [] BlankLines(header, NewLine(header)) = {}
                       /\ Len(header) <= kMaxHeaderSize ->
                       Parsed([p EXCEPT !.header = header])
                  [] OTHER -> Thrown

-----------------------------------------------------------------------------
(* CgiRead *)

\* The read is stored as a C string.
AsCString(text) ==
  LET nul == SelectInSeq(text, LAMBDA b : b = "nul")
  IN  IF nul = 0 THEN text ELSE SubSeq(text, 1, nul - 1)

\* State: kDel.
Over == socket.size = "eof" \/ socket.code

\* PublishNewEvent, for a read of the given size: once only; an error page
\* if a code is set, or if the output ended or failed without a header.  A
\* local redirect that needs no script sets the code of its own reply.
\* Fault: that a read failed or found the end is not looked at.
FaultyPublish(p, s, size) ==
  /\ socket' = s
  /\ published' = IF published # "none" \/ p.type = "kToBeDetermined"
                    THEN published ELSE "reply"

Publish(p, s, size) ==
  LET failed == s.code \/ (size # "data" /\ p.type = "kToBeDetermined") IN
  \/ published # "none" /\ socket' = s /\ UNCHANGED published
  \/ published = "none" /\ failed /\ socket' = [s EXCEPT !.code = TRUE]
       /\ published' = "error"
  \/ published = "none" /\ ~failed /\ p.type = "kToBeDetermined"
       /\ socket' = s /\ UNCHANGED published
  \/ published = "none" /\ ~failed /\ p.type = "kLocalRedirResponse"
       /\ \E static \in BOOLEAN : socket' = [s EXCEPT !.code = static]
       /\ published' = "redirect"
  \/ published = "none" /\ ~failed
       /\ p.type \notin {"kToBeDetermined", "kLocalRedirResponse"}
       /\ socket' = s /\ published' = "reply"

\* UpdateData copies the parser's findings, unless Parse threw.
Take(text, size) ==
  LET o == Parse(parser, text)
      p == o.parser
      s == IF o.thrown
             THEN [socket EXCEPT !.size = size, !.code = TRUE]
             ELSE [socket EXCEPT !.size = size, !.body = p.body,
                                 !.headers = p.headers, !.type = p.type]
  IN  /\ ~Over
      /\ parser' = p
      /\ Publish(p, s, size)
      /\ UNCHANGED script

Read ==
  \E n \in 1..Min({kBuffSize, Len(Output(script)) - read}) :
    /\ Take(AsCString(SubSeq(Output(script), read + 1, read + n)), "data")
    /\ read' = read + n

\* The script closed its output, or died before it had written it all.
ReadEnd == Take(<<>>, "eof") /\ UNCHANGED read

\* read fails: Do returns before Parse.
ReadFails ==
  /\ ~Over
  /\ Publish(parser, [socket EXCEPT !.size = "error"], "error")
  /\ UNCHANGED <<script, read, parser>>

Next == Read \/ ReadEnd \/ ReadFails

Spec == Init /\ [][Next]_vars

-----------------------------------------------------------------------------
(* What the script means, without reference to the parser.                  *)

Lines == Range(script.lines)
HasNul == "nul" \in Range(script.body)

ValidHead ==
  /\ Lines \cap {"forbidden", "bad"} = {}
  /\ \A i, j \in DOMAIN script.lines :
       Key(script.lines[i]) = Key(script.lines[j]) => i = j

Meaning ==
  CASE ~ValidHead -> "error"
    [] ValidHead /\ {"type", "found", "uri"} \subseteq Lines ->
         "kClientRediredocResponse"
    [] OTHER ->
         CASE "type" \in Lines /\ "badStatus" \notin Lines -> "kDocumentResponse"
           [] script.lines = <<"path">> /\ script.body = <<>> -> "kLocalRedirResponse"
           [] "uri" \in Lines /\ ({"type", "badStatus"} \subseteq Lines
                                  \/ "type" \notin Lines) -> "kClientRedirResponse"
           [] OTHER -> "error"

\* The two kinds of output whose meaning for the parser depends on how it is
\* cut: a local redirect with a body, which is one as long as the body has
\* not arrived, and a header of \n lines before a body with a blank \r\n line,
\* which is taken for the end of the header if it arrives with it.
CutMatters ==
  \/ script.lines = <<"path">> /\ script.body # <<>>
  \/ /\ script.newLine = <<"lf">>
     /\ BlankLines(script.body, <<"cr", "lf">>) # {}

-----------------------------------------------------------------------------
(* Properties *)

(* However the output is cut, the event published for it is the one its     *)
(* header means (CgiParser::Parse, CgiRead::PublishNewEvent), but for the   *)
(* outputs of CutMatters.                                                   *)
VerdictIsRight ==
  published \in {"reply", "redirect"} /\ ~CutMatters =>
    /\ socket.type = Meaning
    /\ published = "redirect" <=> Meaning = "kLocalRedirResponse"
    /\ socket.headers = script.lines

(* An error page is the reply only to a header that means nothing, one that *)
(* did not arrive whole, one too long to be read at once, or to a read that *)
(* failed before the header was complete.                                   *)
ErrorIsRight ==
  published = "error" =>
    \/ Meaning = "error"
    \/ CutMatters
    \/ read < Len(HeadOf(script)) /\ socket.size \in {"eof", "error"}
    \/ Len(HeadOf(script)) > kMaxHeaderSize + 1

(* What CgiRead publishes is right: both of the above.                      *)
PublishedIsRight == VerdictIsRight /\ ErrorIsRight

(* Once the header is complete, the body a reply is made of is exactly what *)
(* was read after the header: nothing lost between reads, nothing twice,    *)
(* nothing of the header.  A byte 0 is the exception.                       *)
BodyIsOutput ==
  socket.type # "kToBeDetermined" /\ ~HasNul /\ ~CutMatters =>
    socket.body = SubSeq(Output(script), Len(HeadOf(script)) + 1, read)

(* What EventLoop takes for granted of a CgiRead: it publishes once, and    *)
(* not later than it ends, so that no client is left without an answer;     *)
(* until then the CgiRes is undetermined; a reply or a redirect is          *)
(* published by a read that brought data and sets the type, for good; an    *)
(* error page sets the response code, which ends this event, and leaves the *)
(* type alone.                                                              *)
AsTheLoopAssumes ==
  [][/\ published = "none" /\ published' = "none" =>
          ~Over' /\ socket'.size = "data" /\ socket'.type = "kToBeDetermined"
     /\ published = "none" /\ published' = "error" =>
          socket'.type = "kToBeDetermined" /\ socket'.code
     /\ published = "none" /\ published' \in {"reply", "redirect"} =>
          socket'.size = "data" /\ socket'.type # "kToBeDetermined"
     /\ published = "reply" => ~socket'.code
     /\ published # "none" =>
          published' = published /\ socket'.type = socket.type]_vars
=============================================================================
