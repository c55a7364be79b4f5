----------------------------- MODULE ClientView -----------------------------
(***************************************************************************)
(* What the clients of a few connections get to see: the bytes of their    *)
(* replies, and the end of their connections.  It joins ResponseToTheClient*)
(* with HttpResponse, CgiResponse with its head and its chunks, and the    *)
(* descriptors that Cgi::Fork hands down to every script.                  *)
(*                                                                         *)
(* A reply is a sequence of symbols, pairs of a name and a number: a line  *)
(* of the head, a byte of a body, the size and the line end of a chunk.    *)
(* A write takes any beginning of what it is given and may fail once the   *)
(* client has left.  Where SendChunked stands in the body is the variable  *)
(* position of a reply; that the code's two counters amount to it is shown *)
(* in CgiRelay.  A connection serves one request, as in the code.  What a  *)
(* CgiRead does after its Socket was deleted is in EventLoop, not here.    *)
(* Operators named Faulty... are the definition below them with a          *)
(* plausible bug; no specification uses them.                              *)
(***************************************************************************)
EXTENDS Integers, Utils

CONSTANTS
  Conn,      \* connections, and the scripts run for them
  Pages,     \* answers of the methods, by connection: code, body, headers
  Heads,     \* valid headers of scripts, by connection: verdict and fields
  MaxOut     \* bound: bytes of a script's body, by connection

Keys == <<"Connection", "Content-Length", "Content-Type", "Date", "Location">>

ASSUME ClientViewAssumption ==
  /\ MaxOut \in [Conn -> Nat]
  /\ \A c \in Conn :
       /\ \A p \in Pages[c] : DOMAIN p.headers \subseteq {"Location"}
       /\ \A h \in Heads[c] : h.type \in {"document", "redirect"}

VARIABLES
  stage,     \* where each connection stands
  reply,     \* its reply: the fields of the Socket and of the sending event
  holders,   \* who has a descriptor of its connection: the server, scripts
  script,    \* the process of its script
  left,      \* the connections whose client has left
  wire       \* what was written to its client

vars == <<stage, reply, holders, script, left, wire>>

-----------------------------------------------------------------------------
(* HttpResponse *)

Line(key, value) == <<key, value>>
Blank == Line("blank", 0)

\* Fault: the length is taken before the body is set.
FaultySetHttpResponse(page) ==
  [status |-> page.code, body |-> page.body,
   headers |-> Insert(Insert(Insert(Insert(page.headers,
                 "Content-Type", 0), "Connection", 0), "Date", 0),
                 "Content-Length", 0)]

\* SetHeader throws for a key that is there, which no page has.
SetHttpResponse(page) ==
  [status |-> page.code, body |-> page.body,
   headers |-> Insert(Insert(Insert(Insert(page.headers,
                 "Content-Type", 0), "Connection", 0), "Date", 0),
                 "Content-Length", Len(page.body))]

\* The order of a std::map.
GetResponseHeaders(response) ==
  LET present == SelectSeq(Keys, LAMBDA k : k \in DOMAIN response.headers)
  IN  [i \in DOMAIN present |-> Line(present[i], response.headers[present[i]])]

GetRawResponse(response) ==
  <<Line("status", response.status)>> \o GetResponseHeaders(response)
    \o <<Blank>> \o response.body

-----------------------------------------------------------------------------
(* CgiResponse: its head and its chunks *)

HasStatus(head) == \E i \in DOMAIN head.fields : head.fields[i][1] = "STATUS"

MakeResponseStatusCode(head) ==
  IF HasStatus(head)
    THEN LET statuses == SelectSeq(head.fields, LAMBDA f : f[1] = "STATUS")
         IN  Line("status", statuses[1][2])
    ELSE Line("status", 200)

MakeResponseHeader(head) == SelectSeq(head.fields, LAMBDA f : f[1] # "STATUS")

\* The constructor: the head of a client redirect has no blank line.
ResponseHead(head) ==
  IF head.type = "redirect"
    THEN <<Line("status", 302)>> \o MakeResponseHeader(head) \o <<Line("Connection", 0)>>
    ELSE <<MakeResponseStatusCode(head)>> \o MakeResponseHeader(head)
           \o <<Line("Transfer-Encoding", 0), Line("Connection", 1), Blank>>

Out(from, to) == [i \in 1..to - from |-> Line("byte", from + i)]

Chunk(from, to) ==
  <<Line("size", to - from)>> \o Out(from, to) \o <<Line("nl", 0)>>

LastChunk == <<Line("size", 0), Line("nl", 0)>>

-----------------------------------------------------------------------------
NoPage == [code |-> 0, body |-> <<>>, headers |-> <<>>]

NoReply == [type |-> "none",        \* "page", or the verdict on the script
            page |-> NoPage,        \* response_code, response_body, headers
            head |-> <<>>,          \* response_state_and_header_
            state |-> "kWrite",     \* state_ of a ResponseToTheClient
            buf |-> <<>>,           \* what the Sender has left
            body |-> 0,             \* bytes of the script's body that were read
            eof |-> FALSE,          \* read_size = 0
            chunk |-> <<>>,         \* send_chunk_
            position |-> 0,         \* where the last chunk ends in the body
            last |-> FALSE,         \* sent_last_chunked_
            err |-> FALSE]          \* err_ of the Sender or of SendChunked

Init ==
  /\ stage = [c \in Conn |-> "new"]
  /\ reply = [c \in Conn |-> NoReply]
  /\ holders = [c \in Conn |-> {}]
  /\ script = [c \in Conn |-> "none"]
  /\ left = {}
  /\ wire = [c \in Conn |-> <<>>]

-----------------------------------------------------------------------------
(* Requests and scripts *)

\* accept, with which the descriptor begins.
Accept(c) ==
  /\ stage[c] = "new"
  /\ stage' = [stage EXCEPT ![c] = "request"]
  /\ holders' = [holders EXCEPT ![c] = {"server"}]
  /\ UNCHANGED <<reply, script, left, wire>>

ReplyWithPage(c) ==
  /\ stage' = [stage EXCEPT ![c] = "reply"]
  /\ \E p \in Pages[c] : reply' = [reply EXCEPT ![c].type = "page", ![c].page = p]

\* A method, or an error before a script was started.
Answer(c) ==
  /\ stage[c] = "request"
  /\ ReplyWithPage(c)
  /\ UNCHANGED <<holders, script, left, wire>>

\* Cgi::Run: nothing is closed on exec, so the child has every descriptor the
\* server has, that of its own client included.
RunScript(c) ==
  /\ stage[c] = "request"
  /\ stage' = [stage EXCEPT ![c] = "script"]
  /\ script' = [script EXCEPT ![c] = "running"]
  /\ holders' = [d \in Conn |-> IF "server" \in holders[d]
                                  THEN holders[d] \cup {c} ELSE holders[d]]
  /\ UNCHANGED <<reply, left, wire>>

\* The header of the output is read and valid, with some of the body.
ScriptAnswers(c) ==
  /\ stage[c] = "script"
  /\ stage' = [stage EXCEPT ![c] = "reply"]
  /\ \E h \in Heads[c] : \E n \in 0..MaxOut[c] :
       /\ h.type = "redirect" => n = 0
       /\ reply' = [reply EXCEPT ![c].type = h.type, ![c].head = ResponseHead(h),
                                 ![c].buf = ResponseHead(h), ![c].body = n]
  /\ UNCHANGED <<holders, script, left, wire>>

\* It is not valid, or cannot be read: an error page.
ScriptFails(c) ==
  /\ stage[c] = "script"
  /\ ReplyWithPage(c)
  /\ UNCHANGED <<holders, script, left, wire>>

Reads(c) == stage[c] = "reply" /\ reply[c].type = "document" /\ ~reply[c].eof

\* The output may be read long after the script wrote it.
ReadOutput(c) ==
  /\ Reads(c)
  /\ \E n \in reply[c].body + 1 .. MaxOut[c] : reply' = [reply EXCEPT ![c].body = n]
  /\ UNCHANGED <<stage, holders, script, left, wire>>

ReadEnd(c) ==
  /\ Reads(c)
  /\ script[c] # "running"
  /\ reply' = [reply EXCEPT ![c].eof = TRUE]
  /\ UNCHANGED <<stage, holders, script, left, wire>>

\* A script closes its output, and exits, which closes all it inherited.
ScriptCloses(c) ==
  /\ script[c] = "running"
  /\ script' = [script EXCEPT ![c] = "silent"]
  /\ UNCHANGED <<stage, reply, holders, left, wire>>

ScriptExits(c) ==
  /\ script[c] = "silent"
  /\ script' = [script EXCEPT ![c] = "gone"]
  /\ holders' = [d \in Conn |-> holders[d] \ {c}]
  /\ UNCHANGED <<stage, reply, left, wire>>

ClientLeaves(c) ==
  /\ stage[c] # "new"
  /\ left' = left \cup {c}
  /\ UNCHANGED <<stage, reply, holders, script, wire>>

-----------------------------------------------------------------------------
(* Sending *)

\* The outcome of write: how much of text was taken, or -1, which it may be
\* once the client has left and then stays.
Written(c, text) ==
  (IF reply[c].err THEN {} ELSE 1..Len(text)) \cup (IF c \in left THEN {-1} ELSE {})

Rest(text, n) == IF n = -1 THEN text ELSE SubSeq(text, n + 1, Len(text))

Wrote(c, text, n) ==
  wire' = [wire EXCEPT ![c] = @ \o (IF n = -1 THEN <<>> ELSE SubSeq(text, 1, n))]

\* ~Socket: the client's descriptor is closed and the script, if it still
\* runs, is told to end.
Deleted(c, now) ==
  /\ stage' = [stage EXCEPT ![c] = IF now THEN "closed" ELSE @]
  /\ holders' = [holders EXCEPT ![c] = IF now THEN @ \ {"server"} ELSE @]

\* Fault: the response is made anew at every dispatch.
FaultyStateAfter(rest, err) ==
  IF rest = <<>> \/ err THEN "kDel" ELSE "kWrite"

StateAfter(rest, err) == IF rest = <<>> \/ err THEN "kDel" ELSE "kWriteAgain"

\* ResponseToTheClient::Do and State.
SendPage(c) ==
  /\ stage[c] = "reply"
  /\ reply[c].type = "page"
  /\ LET text == IF reply[c].state = "kWrite"
                   THEN GetRawResponse(SetHttpResponse(reply[c].page))
                   ELSE reply[c].buf
     IN  \E n \in Written(c, text) :
           LET state == StateAfter(Rest(text, n), n = -1) IN
           /\ Wrote(c, text, n)
           /\ reply' = [reply EXCEPT ![c].buf = Rest(text, n), ![c].state = state]
           /\ Deleted(c, state = "kDel")
  /\ UNCHANGED <<script, left>>

\* Fault: the reply of a client redirect does not end.
FaultyEnds(r) == r.eof /\ (r.last \/ r.err)

\* CgiResponse::State.
Ends(r) == r.type = "redirect" \/ (r.eof /\ (r.last \/ r.err))

\* Sender::Send with what is left of the head.
SendHead(c) ==
  /\ reply[c].buf # <<>>
  /\ \E n \in Written(c, reply[c].buf) :
       /\ Wrote(c, reply[c].buf, n)
       /\ reply' = [reply EXCEPT ![c].buf = Rest(@, n), ![c].err = @ \/ n = -1]

\* SendChunked::Send: what is left of a chunk, or a new one of all that was
\* read since.
SendChunk(c) ==
  LET r == reply[c]
      text == IF r.chunk # <<>> THEN r.chunk ELSE Chunk(r.position, r.body)
  IN  /\ r.buf = <<>> /\ r.type = "document"
      /\ r.chunk # <<>> \/ r.position < r.body
      /\ \E n \in Written(c, text) :
           /\ Wrote(c, text, n)
           /\ reply' = [reply EXCEPT ![c].chunk = Rest(text, n),
                          ![c].position = IF r.chunk # <<>> THEN @ ELSE r.body,
                          ![c].err = @ \/ n = -1]

\* One write, whatever it achieves.
SendLastChunk(c) ==
  LET r == reply[c]
  IN  /\ r.buf = <<>> /\ r.type = "document"
      /\ r.chunk = <<>> /\ r.position = r.body /\ r.eof
      /\ \E n \in Written(c, LastChunk) :
           /\ Wrote(c, LastChunk, n)
           /\ reply' = [reply EXCEPT ![c].last = TRUE, ![c].err = @ \/ n = -1]

\* CgiResponse::Do and State.
SendOutput(c) ==
  /\ stage[c] = "reply"
  /\ SendHead(c) \/ SendChunk(c) \/ SendLastChunk(c)
  /\ Deleted(c, Ends(reply'[c]))
  /\ UNCHANGED <<script, left>>

-----------------------------------------------------------------------------
Prepare(c) == Answer(c) \/ RunScript(c)
ReadHeader(c) == ScriptAnswers(c) \/ ScriptFails(c)
Respond(c) == SendPage(c) \/ SendOutput(c)

Next ==
  \E c \in Conn :
    \/ Accept(c) \/ Prepare(c) \/ ReadHeader(c) \/ ReadOutput(c) \/ ReadEnd(c)
    \/ Respond(c)
    \/ ScriptCloses(c) \/ ScriptExits(c) \/ ClientLeaves(c)

Spec == Init /\ [][Next]_vars

(* A client sends its request and takes its reply or leaves; a script       *)
(* answers, closes its output and exits.                                    *)
FairSpec ==
  Spec /\ \A c \in Conn : /\ WF_vars(Prepare(c))
                          /\ WF_vars(ReadHeader(c))
                          /\ WF_vars(ReadEnd(c))
                          /\ WF_vars(Respond(c))
                          /\ WF_vars(ScriptCloses(c))
                          /\ WF_vars(ScriptExits(c))

-----------------------------------------------------------------------------
(* What a client makes of what it received, by the rules of HTTP/1.1 and    *)
(* without reference to the server.                                         *)

Symbols == STRING \X Nat

\* Chunks: the data so far, whether their end was seen, and whether all of
\* it is chunks.
Dechunked[text \in Seq(Symbols)] ==
  LET size == text[1][2]
      rest == Tail(text)
      data == SubSeq(rest, 1, Min({size, Len(rest)}))
      after == Dechunked[SubSeq(rest, size + 2, Len(rest))]
  IN  CASE text = <<>> -> [data |-> <<>>, told |-> FALSE, sound |-> TRUE]
        [] text # <<>> /\ (text[1][1] # "size" \/ \E i \in DOMAIN data : data[i][1] # "byte") ->
             [data |-> <<>>, told |-> FALSE, sound |-> FALSE]
        [] text # <<>> /\ Len(rest) <= size ->
             [data |-> data, told |-> FALSE, sound |-> TRUE]
        [] text # <<>> /\ Len(rest) > size /\ size = 0 ->
             [data |-> <<>>, told |-> TRUE, sound |-> rest = <<Line("nl", 0)>>]
        [] OTHER -> [after EXCEPT !.data = data \o @,
                                  !.sound = @ /\ rest[size + 1] = Line("nl", 0)]

\* A reply: its data so far, and whether its end can be told from it alone.
Understood(text) ==
  LET blanks == {i \in DOMAIN text : text[i] = Blank}
      fields == {text[i] : i \in 1..Min(blanks) - 1}
      content == SubSeq(text, Min(blanks) + 1, Len(text))
      lengths == {f[2] : f \in {g \in fields : g[1] = "Content-Length"}}
      chunked == \E f \in fields : f[1] = "Transfer-Encoding"
  IN  CASE blanks = {} -> [data |-> <<>>, told |-> FALSE, sound |-> TRUE]
        [] blanks # {} /\ chunked -> Dechunked[content]
        [] blanks # {} /\ ~chunked /\ lengths # {} ->
             [data |-> SubSeq(content, 1, Min(lengths \cup {Len(content)})),
              told |-> Len(content) >= Min(lengths),
              sound |-> Cardinality(lengths) = 1 /\ Len(content) <= Min(lengths)]
        [] OTHER -> [data |-> content, told |-> FALSE, sound |-> TRUE]

\* The data the server means to send, as far as it knows it.
Meant(c) == IF reply[c].type = "page" THEN reply[c].page.body
                                      ELSE Out(0, reply[c].body)

\* A redirect of a script has no blank line: its end cannot be told.
Untold(c) == reply[c].type = "redirect"

-----------------------------------------------------------------------------
(* At any moment, wherever the writes were cut, what a client received is   *)
(* the beginning of a single well-formed reply and its data is a beginning  *)
(* of what was meant: no part of a head or a body comes twice, no framing   *)
(* gets into the data, and a client that is told the end has all of it      *)
(* (ResponseToTheClient::Do, CgiResponse::Do).                              *)
WireIsReply ==
  \A c \in Conn : LET seen == Understood(wire[c]) IN
    /\ seen.sound
    /\ IsPrefix(seen.data, Meant(c))
    /\ seen.told => seen.data = Meant(c)

(* A client that stayed until the server closed its connection was given    *)
(* all of the data, and could tell so without waiting for the end of the    *)
(* connection, which scripts of other clients may delay.  There are two     *)
(* exceptions: the client redirect of a script, and a last chunk that was   *)
(* cut by its only write (SendChunked.cpp:30).                              *)
EndIsKnown ==
  \A c \in Conn \ left : stage[c] = "closed" /\ ~Untold(c) =>
    LET seen == Understood(wire[c]) IN
    /\ seen.data = Meant(c)
    /\ \/ seen.told
       \/ reply[c].last /\ wire[c][Len(wire[c])] = LastChunk[1]

(* Every client whose connection was accepted knows the end of its reply at *)
(* some time, or leaves: it is told in the reply, or its connection ends,   *)
(* which takes every script that inherited its descriptor to have exited    *)
(* (Cgi::Fork, Cgi::Run).                                                   *)
KnowsEnd ==
  \A c \in Conn : stage[c] = "request" ~>
    \/ c \in left
    \/ Understood(wire[c]).told
    \/ stage[c] = "closed" /\ holders[c] = {}
=============================================================================
