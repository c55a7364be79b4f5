--------------------------- MODULE LocalRedirect ---------------------------
(***************************************************************************)
(* Two scripts and one Socket.  A script answered with a local redirect to *)
(* another script: the CgiRead of the old one stays until it has read the  *)
(* end of its output, the new one's reads the reply proper, and each read  *)
(* of either stores its own body as response_body (CgiParser::UpdateData), *)
(* of which the reply is made.                                             *)
(*                                                                         *)
(* A body is represented by whose it is and how long it is.  Of the reply, *)
(* the dispatches that send its header look at no shared state and are     *)
(* left out; a chunk is written whole here, the cuts are the subject of    *)
(* CgiRelay.  Operators named Faulty... are the definition below them with *)
(* a plausible bug; no specification uses them.                            *)
(***************************************************************************)
EXTENDS Naturals, Sequences

CONSTANT MaxOut   \* bound: bytes of body a script writes

ASSUME MaxOutAssumption == MaxOut \in Nat

Script == {"old", "new"}

VARIABLES
  body,       \* response_body
  output,     \* output[s] : how long body_ is in the parser of s
  readSize,   \* readSize[s] : read_size of its CgiRes
  reading,    \* reading[s] : whether its CgiRead exists
  reply,      \* the event that replies, once it is published
  sent,       \* the bytes given to the client: whose each one is
  closed,     \* whether the reply, and with it the Socket, is deleted
  disturbed   \* history: the reply worked with a body of the old script

vars == <<body, output, readSize, reading, reply, sent, closed, disturbed>>

Body(owner, n) == [of |-> owner, len |-> n]
ErrorPage == Body("page", 1)

TypeOK ==
  /\ body \in [of : Script \cup {"page"}, len : 0..MaxOut + 1]
  /\ output \in [Script -> 0..MaxOut]
  /\ readSize \in [Script -> {"unset", "data", "eof", "error"}]
  /\ reading \in [Script -> BOOLEAN]
  /\ reply \in {"none", "document", "error"}
  /\ sent \in Seq(Script \cup {"page"})
  /\ closed \in BOOLEAN
  /\ disturbed \in BOOLEAN

\* The redirect was published by the read that found it, and its body was
\* empty then.
Init ==
  /\ body = Body("old", 0)
  /\ output = [s \in Script |-> 0]
  /\ readSize = [s \in Script |-> IF s = "old" THEN "data" ELSE "unset"]
  /\ reading = [s \in Script |-> TRUE]
  /\ reply = "none"
  /\ sent = <<>>
  /\ closed = FALSE
  /\ disturbed = FALSE

-----------------------------------------------------------------------------
(* CgiRead *)

\* Only an error page sets response_code.
CodeSet == reply = "error"

\* The CgiRead of s is dispatched.
Dispatch(s) == ~closed /\ reading[s]

HeadComplete(s) == s = "old" \/ reply = "document"

\* A read after the header, of more body or of the end.
ReadMore(s) ==
  /\ Dispatch(s)
  /\ HeadComplete(s)
  /\ \E n \in output[s] + 1 .. MaxOut :
       /\ output' = [output EXCEPT ![s] = n]
       /\ body' = Body(s, n)
  /\ readSize' = [readSize EXCEPT ![s] = "data"]
  /\ reading' = [reading EXCEPT ![s] = ~CodeSet]
  /\ UNCHANGED <<reply, sent, closed, disturbed>>

\* Fault: the end of the output does not end its CgiRead.
FaultyReadEnd(s) ==
  /\ Dispatch(s)
  /\ HeadComplete(s)
  /\ body' = Body(s, output[s])
  /\ readSize' = [readSize EXCEPT ![s] = "eof"]
  /\ UNCHANGED <<output, reading, reply, sent, closed, disturbed>>

ReadEnd(s) ==
  /\ Dispatch(s)
  /\ HeadComplete(s)
  /\ body' = Body(s, output[s])
  /\ readSize' = [readSize EXCEPT ![s] = "eof"]
  /\ reading' = [reading EXCEPT ![s] = FALSE]
  /\ UNCHANGED <<output, reply, sent, closed, disturbed>>

\* Fault: a failed read ends its CgiRead.
FaultyReadFails(s) ==
  /\ Dispatch(s)
  /\ HeadComplete(s)
  /\ readSize' = [readSize EXCEPT ![s] = "error"]
  /\ reading' = [reading EXCEPT ![s] = FALSE]
  /\ UNCHANGED <<body, output, reply, sent, closed, disturbed>>

\* A read that fails: Do returns before UpdateData.
ReadFails(s) ==
  /\ Dispatch(s)
  /\ HeadComplete(s)
  /\ readSize' = [readSize EXCEPT ![s] = "error"]
  /\ reading' = [reading EXCEPT ![s] = ~CodeSet]
  /\ UNCHANGED <<body, output, reply, sent, closed, disturbed>>

\* A part of the new script's header.
NewHeader ==
  /\ Dispatch("new")
  /\ reply = "none"
  /\ body' = Body("new", 0)
  /\ readSize' = [readSize EXCEPT !["new"] = "data"]
  /\ UNCHANGED <<output, reading, reply, sent, closed, disturbed>>

\* The whole header of a document, and what of the body came with it.
NewDocument ==
  /\ Dispatch("new")
  /\ reply = "none"
  /\ \E n \in 0..MaxOut :
       /\ output' = [output EXCEPT !["new"] = n]
       /\ body' = Body("new", n)
  /\ readSize' = [readSize EXCEPT !["new"] = "data"]
  /\ reply' = "document"
  /\ UNCHANGED <<reading, sent, closed, disturbed>>

\* No header, or none the parser accepts.
NewError ==
  /\ Dispatch("new")
  /\ reply = "none"
  /\ body' = ErrorPage
  /\ \E size \in {"data", "eof", "error"} :
       readSize' = [readSize EXCEPT !["new"] = size]
  /\ reading' = [reading EXCEPT !["new"] = FALSE]
  /\ reply' = "error"
  /\ UNCHANGED <<output, sent, closed, disturbed>>

-----------------------------------------------------------------------------
(* The reply *)

\* A dispatch of the reply looks at response_body.
Look == disturbed' = (disturbed \/ body.of = "old")

From(n) == [i \in 1..body.len - n |-> body.of]

\* ResponseToTheClient::Do makes all of the reply at its first dispatch.
SendPage ==
  /\ ~closed
  /\ reply = "error"
  /\ Look
  /\ sent' = From(0)
  /\ closed' = TRUE
  /\ UNCHANGED <<body, output, readSize, reading, reply>>

\* Fault: each chunk is made of all of the body.
FaultySendChunk ==
  /\ ~closed
  /\ reply = "document"
  /\ Len(sent) < body.len
  /\ Look
  /\ sent' = sent \o From(0)
  /\ UNCHANGED <<body, output, readSize, reading, reply, closed>>

\* CgiResponse::Do: what response_body has beyond what was sent.
SendChunk ==
  /\ ~closed
  /\ reply = "document"
  /\ Len(sent) < body.len
  /\ Look
  /\ sent' = sent \o From(Len(sent))
  /\ UNCHANGED <<body, output, readSize, reading, reply, closed>>

SendLastChunk ==
  /\ ~closed
  /\ reply = "document"
  /\ Len(sent) = body.len
  /\ readSize["new"] = "eof"
  /\ Look
  /\ closed' = TRUE
  /\ UNCHANGED <<body, output, readSize, reading, reply, sent>>

Respond == SendPage \/ SendChunk \/ SendLastChunk

NewAnswers == NewDocument \/ NewError

Next ==
  \/ \E s \in Script : ReadMore(s) \/ ReadEnd(s) \/ ReadFails(s)
  \/ NewHeader \/ NewAnswers
  \/ Respond

Spec == Init /\ [][Next]_vars

(* The client's descriptor stays writable; each script answers and ends its *)
(* output.                                                                  *)
FairSpec ==
  /\ Spec
  /\ WF_vars(Respond)
  /\ WF_vars(NewAnswers)
  /\ \A s \in Script : WF_vars(ReadEnd(s))

-----------------------------------------------------------------------------
(* Properties *)

(* As long as no dispatch of the reply finds the old script's body in       *)
(* response_body, the client is given the new script's output and, when the *)
(* reply is closed, all of it, or the whole error page: what the old script *)
(* stored in between does no harm by itself (CgiResponse::Do,               *)
(* ResponseToTheClient::Do, CgiParser::UpdateData).                         *)
UndisturbedIsRight ==
  ~disturbed =>
    /\ \A i \in DOMAIN sent : sent[i] = IF reply = "error" THEN "page" ELSE "new"
    /\ Len(sent) <= IF reply = "error" THEN ErrorPage.len ELSE output["new"]
    /\ closed => /\ reply = "document" => Len(sent) = output["new"]
                                          /\ readSize["new"] = "eof"
                 /\ reply = "error" => Len(sent) = ErrorPage.len

(* The old script's end was read before the new script answered.            *)
EndsEarly == reply = "none" /\ readSize["old"] = "eof"

(* A script that ends with its redirect disturbs nothing: if the end of the *)
(* old output is read before the new script has answered, the reply never   *)
(* works with the old script's body (CgiRead::State).                       *)
EarlyEndIsHarmless == [](EndsEarly => []~disturbed)

(* A reply ends if the old script ended early.  If not, it ends or is stuck *)
(* for ever in one way: both outputs are read to the end, and the client    *)
(* was given more than the body stored last is long, so that CgiResponse    *)
(* waits for more of it (CgiResponse.cpp:49-53).                            *)
Stuck == /\ reply = "document"
         /\ Len(sent) > body.len
         /\ \A s \in Script : ~reading[s]

EndsOrStuck == <>(closed \/ Stuck) /\ (EndsEarly ~> closed)

=============================================================================
