----------------------- MODULE LocalRedirect_proofs ------------------------
(***************************************************************************)
(* Proofs about the reply that two scripts write into, for outputs of any  *)
(* length.                                                                 *)
(***************************************************************************)
EXTENDS LocalRedirect, SequenceTheorems, TLAPS

-----------------------------------------------------------------------------
(* The inductive invariant.  What UndisturbedIsRight says of the bytes sent  *)
(* rests on what response_body holds at any time, which the old script's     *)
(* reads change too.                                                         *)

\* response_body is all of what its owner wrote, or the error page.
BodyKnown ==
  /\ body.of = "old" => body.len = output["old"]
  /\ body.of = "new" => body.len = output["new"] /\ reply # "error"
  /\ body.of = "page" => body.len = 1 /\ reply = "error"

\* Nothing is sent before there is a reply, and an error page at once.
ReplyKnown ==
  /\ reply = "none" => /\ output["new"] = 0
                       /\ ~disturbed
                       /\ ~closed
  /\ reply # "document" /\ ~closed => sent = <<>>

\* Who has read the end of an output reads no more of it.
EndsKnown ==
  /\ readSize["old"] = "eof" => ~reading["old"]
  /\ reply = "document" /\ readSize["new"] = "eof" => ~reading["new"]
  /\ reply = "error" => ~reading["new"]

RInv == TypeOK /\ BodyKnown /\ ReplyKnown /\ EndsKnown /\ UndisturbedIsRight

\* What a read of s leaves: its own length is stored with body_.
LEMMA ReadFacts ==
  ASSUME RInv, NEW s \in Script, ReadMore(s) \/ ReadEnd(s) \/ ReadFails(s)
  PROVE  /\ ~closed /\ reading[s]
         /\ s = "new" => reply = "document"
         /\ output' \in [Script -> 0..MaxOut]
         /\ output'["new"] >= output["new"]
         /\ s = "old" => output'["new"] = output["new"]
         /\ \/ body' = Body(s, output'[s])
            \/ UNCHANGED <<body, output>>
         /\ readSize' \in [Script -> {"unset", "data", "eof", "error"}]
         /\ reading' \in [Script -> BOOLEAN]
         /\ readSize'[s] = "eof" => ~reading'[s]
         /\ \A t \in Script : t # s => /\ readSize'[t] = readSize[t]
                                       /\ reading'[t] = reading[t]
                                       /\ output'[t] = output[t]
         /\ UNCHANGED <<reply, sent, closed, disturbed>>
  <1>0. /\ output \in [Script -> 0..MaxOut]
        /\ readSize \in [Script -> {"unset", "data", "eof", "error"}]
        /\ reading \in [Script -> BOOLEAN]
    BY DEF RInv, TypeOK
  <1>1. ~closed /\ reading[s] /\ (s = "new" => reply = "document")
    BY DEF ReadMore, ReadEnd, ReadFails, Dispatch, HeadComplete
  <1>2. UNCHANGED <<reply, sent, closed, disturbed>>
    BY DEF ReadMore, ReadEnd, ReadFails
  <1>3. PICK size \in {"data", "eof", "error"}, going \in BOOLEAN :
          /\ readSize' = [readSize EXCEPT ![s] = size]
          /\ reading' = [reading EXCEPT ![s] = going]
          /\ size = "eof" => ~going
    BY DEF ReadMore, ReadEnd, ReadFails, CodeSet
  <1>4. \/ \E n \in output[s] + 1 .. MaxOut :
             /\ output' = [output EXCEPT ![s] = n]
             /\ body' = Body(s, n)
        \/ output' = output /\ (body' = Body(s, output[s]) \/ UNCHANGED body)
    BY DEF ReadMore, ReadEnd, ReadFails
  <1>5. CASE output' = output
    BY <1>0, <1>1, <1>2, <1>3, <1>4, <1>5, MaxOutAssumption DEF Script
  <1>6. CASE \E n \in output[s] + 1 .. MaxOut :
               /\ output' = [output EXCEPT ![s] = n]
               /\ body' = Body(s, n)
    <2>1. PICK n \in output[s] + 1 .. MaxOut :
            /\ output' = [output EXCEPT ![s] = n]
            /\ body' = Body(s, n)
      BY <1>6
    <2>2. n \in 0..MaxOut /\ n >= output[s]
      BY <1>0, MaxOutAssumption
    <2>3. /\ output' \in [Script -> 0..MaxOut]
          /\ output'[s] = n
          /\ \A t \in Script : t # s => output'[t] = output[t]
      BY <1>0, <2>1, <2>2
    <2>4. output'["new"] >= output["new"]
      BY <1>0, <2>2, <2>3, MaxOutAssumption DEF Script
    <2> QED BY <1>0, <1>1, <1>2, <1>3, <2>1, <2>3, <2>4 DEF Script
  <1> QED BY <1>4, <1>5, <1>6

LEMMA ReadRInv ==
  ASSUME RInv, NEW s \in Script, ReadMore(s) \/ ReadEnd(s) \/ ReadFails(s)
  PROVE  RInv'
  <1>1. TypeOK'
    BY ReadFacts, MaxOutAssumption DEF RInv, TypeOK, Body
  <1>2. BodyKnown'
    BY ReadFacts DEF RInv, BodyKnown, Body, Script, EndsKnown
  <1>3. ReplyKnown'
    BY ReadFacts DEF RInv, ReplyKnown, Script
  <1>4. EndsKnown'
    BY ReadFacts DEF RInv, EndsKnown, Script
  <1>5. UndisturbedIsRight'
    BY ReadFacts, MaxOutAssumption DEF RInv, UndisturbedIsRight, TypeOK, Script, ErrorPage, Body
  <1> QED BY <1>1, <1>2, <1>3, <1>4, <1>5 DEF RInv

LEMMA AnswerRInv ==
  ASSUME RInv, NewHeader \/ NewDocument \/ NewError
  PROVE  RInv'
  <1>1. /\ ~closed /\ ~disturbed /\ reply = "none" /\ sent = <<>> /\ output["new"] = 0
        /\ UNCHANGED <<sent, closed, disturbed>>
    BY DEF NewHeader, NewDocument, NewError, Dispatch, RInv, ReplyKnown
  <1>2. /\ readSize' \in [Script -> {"unset", "data", "eof", "error"}]
        /\ readSize'["old"] = readSize["old"]
        /\ reply' = "document" => readSize'["new"] = "data"
        /\ reading' \in [Script -> BOOLEAN]
        /\ reading'["old"] = reading["old"]
        /\ reply' = "error" => ~reading'["new"]
        /\ reply' \in {"none", "document", "error"}
    BY DEF NewHeader, NewDocument, NewError, RInv, TypeOK, Script
  <1>3. /\ output' \in [Script -> 0..MaxOut]
        /\ reply' = "none" => output'["new"] = 0
        /\ output'["old"] = output["old"]
        /\ \/ reply' # "error" /\ body' = Body("new", output'["new"])
           \/ reply' = "error" /\ body' = ErrorPage
    <2>1. CASE NewHeader \/ NewError
      BY <1>1, <2>1 DEF NewHeader, NewError, RInv, TypeOK, Script
    <2>2. CASE NewDocument
      <3>1. PICK n \in 0..MaxOut : /\ output' = [output EXCEPT !["new"] = n]
                                   /\ body' = Body("new", n)
                                   /\ reply' = "document"
        BY <2>2 DEF NewDocument
      <3> QED BY <3>1 DEF RInv, TypeOK, Script
    <2> QED BY <2>1, <2>2
  <1>4. TypeOK'
    BY <1>1, <1>2, <1>3, MaxOutAssumption DEF RInv, TypeOK, Body, ErrorPage, Script
  <1>5. BodyKnown' /\ ReplyKnown'
    BY <1>1, <1>3 DEF BodyKnown, ReplyKnown, Body, ErrorPage
  <1>6. EndsKnown'
    BY <1>2 DEF EndsKnown, RInv
  <1>7. UndisturbedIsRight'
    BY <1>1, <1>3, MaxOutAssumption DEF UndisturbedIsRight, ErrorPage, Body, Script
  <1> QED BY <1>4, <1>5, <1>6, <1>7 DEF RInv

\* What a chunk made after n bytes is.
LEMMA FromFacts ==
  ASSUME TypeOK, NEW n \in 0..body.len
  PROVE  /\ From(n) \in Seq(Script \cup {"page"})
         /\ Len(From(n)) = body.len - n
         /\ \A i \in DOMAIN From(n) : From(n)[i] = body.of
  <1>1. body.len \in Nat /\ body.of \in Script \cup {"page"} /\ body.len - n \in Nat
    BY MaxOutAssumption DEF TypeOK
  <1> QED BY <1>1 DEF From

LEMMA RespondRInv ==
  ASSUME RInv, Respond
  PROVE  RInv'
  <1>0. /\ TypeOK
        /\ body.of \in Script \cup {"page"}
        /\ body.len \in Nat
        /\ sent \in Seq(Script \cup {"page"})
        /\ Len(sent) \in Nat
        /\ output["new"] \in Nat
    BY MaxOutAssumption DEF RInv, TypeOK, Script
  <1>1. /\ ~closed
        /\ reply \in {"document", "error"}
        /\ disturbed' = (disturbed \/ body.of = "old")
        /\ UNCHANGED <<body, output, readSize, reading, reply>>
    BY DEF Respond, SendPage, SendChunk, SendLastChunk, Look
  <1>2. BodyKnown' /\ EndsKnown'
    BY <1>1 DEF RInv, BodyKnown, EndsKnown
  <1>3. CASE SendPage
    <2>1. /\ reply = "error"
          /\ sent' = From(0)
          /\ closed'
          /\ closed' \in BOOLEAN
      BY <1>3 DEF SendPage
    <2>2. /\ sent' \in Seq(Script \cup {"page"})
          /\ Len(sent') = body.len
          /\ \A i \in DOMAIN sent' : sent'[i] = body.of
      BY <1>0, <2>1, FromFacts
    <2>3. TypeOK' /\ ReplyKnown'
      BY <1>0, <1>1, <2>1, <2>2 DEF TypeOK, ReplyKnown
    <2>4. UndisturbedIsRight'
      <3>1. body.of # "old" => body.of = "page" /\ body.len = 1
        BY <1>0, <2>1 DEF RInv, BodyKnown, Script
      <3>2. ErrorPage.len = 1 /\ reply' = "error" /\ (~disturbed' => body.of # "old")
        BY <1>1, <2>1 DEF ErrorPage, Body
      <3> QED BY <2>2, <3>1, <3>2 DEF UndisturbedIsRight
    <2> QED BY <1>2, <2>3, <2>4 DEF RInv
  <1>4. CASE SendChunk
    <2> DEFINE chunk == From(Len(sent))
    <2>1. /\ reply = "document"
          /\ Len(sent) < body.len
          /\ sent' = sent \o chunk
          /\ UNCHANGED closed
      BY <1>4 DEF SendChunk
    <2>2. /\ chunk \in Seq(Script \cup {"page"})
          /\ Len(chunk) = body.len - Len(sent)
          /\ \A i \in DOMAIN chunk : chunk[i] = body.of
      BY <1>0, <2>1, FromFacts
    <2> HIDE DEF chunk
    <2>3. /\ sent' \in Seq(Script \cup {"page"})
          /\ Len(sent') = body.len
          /\ \A i \in DOMAIN sent' : \/ sent'[i] = body.of
                                     \/ i \in DOMAIN sent /\ sent'[i] = sent[i]
      <3>1. /\ sent' \in Seq(Script \cup {"page"})
            /\ Len(sent') = Len(sent) + Len(chunk)
            /\ \A i \in 1..Len(sent) + Len(chunk) :
                 sent'[i] = IF i <= Len(sent) THEN sent[i] ELSE chunk[i - Len(sent)]
        BY <1>0, <2>1, <2>2, ConcatProperties
      <3>2. /\ DOMAIN sent' = 1..Len(sent) + Len(chunk)
            /\ DOMAIN chunk = 1..Len(chunk) /\ Len(chunk) \in Nat
        BY <2>2, <3>1
      <3>3. ASSUME NEW i \in DOMAIN sent'
            PROVE  sent'[i] = body.of \/ (i \in DOMAIN sent /\ sent'[i] = sent[i])
        <4>1. CASE i <= Len(sent)
          BY <1>0, <3>1, <3>2, <4>1
        <4>2. CASE ~(i <= Len(sent))
          <5>1. i - Len(sent) \in DOMAIN chunk /\ sent'[i] = chunk[i - Len(sent)]
            <6>1. i \in 1..Len(sent) + Len(chunk)
              BY <3>2
            <6>2. i - Len(sent) \in 1..Len(chunk)
              BY <1>0, <3>2, <4>2, <6>1
            <6> QED BY <3>1, <3>2, <4>2, <6>1, <6>2
          <5> QED BY <2>2, <5>1
        <4> QED BY <4>1, <4>2
      <3>4. Len(sent') = body.len
        BY <1>0, <2>2, <3>1
      <3> QED BY <3>1, <3>3, <3>4
    <2>4. TypeOK' /\ ReplyKnown'
      <3>1. ReplyKnown'
        BY <1>0, <1>1, <2>1 DEF ReplyKnown
      <3>2. (disturbed' \in BOOLEAN) /\ (closed' \in BOOLEAN)
        BY <1>0, <1>1, <2>1 DEF TypeOK
      <3> QED BY <1>0, <1>1, <2>3, <3>1, <3>2 DEF TypeOK
    <2>5. UndisturbedIsRight'
      <3>1. ~disturbed' => /\ body.of = "new" /\ body.len = output["new"]
                           /\ ~disturbed
        BY <1>0, <1>1, <2>1 DEF RInv, BodyKnown, Script
      <3>2. \A i \in DOMAIN sent : ~disturbed => sent[i] = "new"
        BY <2>1 DEF RInv, UndisturbedIsRight
      <3>3. reply' = "document" /\ ~closed' /\ output' = output
        BY <1>1, <2>1
      <3> QED BY <1>0, <2>3, <3>1, <3>2, <3>3 DEF UndisturbedIsRight
    <2> QED BY <1>2, <2>4, <2>5 DEF RInv
  <1>5. CASE SendLastChunk
    <2>1. /\ reply = "document"
          /\ Len(sent) = body.len
          /\ readSize["new"] = "eof"
          /\ closed' = TRUE
          /\ UNCHANGED sent
      BY <1>5 DEF SendLastChunk
    <2>2. TypeOK' /\ ReplyKnown'
      BY <1>0, <1>1, <2>1 DEF TypeOK, ReplyKnown
    <2>3. UndisturbedIsRight'
      BY <1>0, <1>1, <2>1 DEF UndisturbedIsRight, RInv, BodyKnown, Script
    <2> QED BY <1>2, <2>2, <2>3 DEF RInv
  <1> QED BY <1>3, <1>4, <1>5 DEF Respond

LEMMA InitRInv == Init => RInv
  <1> SUFFICES ASSUME Init PROVE RInv
    OBVIOUS
  <1>1. TypeOK
    <2>1. body \in [of : Script \cup {"page"}, len : 0..MaxOut + 1]
      BY MaxOutAssumption DEF Init, Body, Script
    <2>2. output \in [Script -> 0..MaxOut] /\ sent \in Seq(Script \cup {"page"})
      BY MaxOutAssumption DEF Init
    <2> QED BY <2>1, <2>2 DEF Init, TypeOK, Script
  <1>2. BodyKnown /\ ReplyKnown /\ EndsKnown
    BY DEF Init, BodyKnown, ReplyKnown, EndsKnown, Body, Script
  <1>3. UndisturbedIsRight
    BY DEF Init, UndisturbedIsRight, ErrorPage, Body, Script
  <1> QED BY <1>1, <1>2, <1>3 DEF RInv

LEMMA NextRInv == RInv /\ [Next]_vars => RInv'
  <1> SUFFICES ASSUME RInv, [Next]_vars PROVE RInv'
    OBVIOUS
  <1>1. CASE UNCHANGED vars
    BY <1>1 DEF vars, RInv, TypeOK, BodyKnown, ReplyKnown, EndsKnown, UndisturbedIsRight
  <1>2. ASSUME NEW s \in Script, ReadMore(s) \/ ReadEnd(s) \/ ReadFails(s)
        PROVE  RInv'
    BY <1>2, ReadRInv
  <1>3. CASE NewHeader \/ NewAnswers
    BY <1>3, AnswerRInv DEF NewAnswers
  <1>4. CASE Respond
    BY <1>4, RespondRInv
  <1> QED BY <1>1, <1>2, <1>3, <1>4 DEF Next

-----------------------------------------------------------------------------
(* The theorems.                                                             *)

\* The variables stay in their types.
THEOREM RedirectTypeCorrect == Spec => []TypeOK
  <1>1. RInv => TypeOK
    BY DEF RInv
  <1> QED BY <1>1, InitRInv, NextRInv, PTL DEF Spec

\* However the reads of the two scripts and the writes to the client
\* interleave: as long as no dispatch of the reply finds the old script's body
\* in response_body, the client is given the new script's output and nothing
\* else, and all of it once the reply is closed.
THEOREM RightIfUndisturbed == Spec => []UndisturbedIsRight
  <1>1. RInv => UndisturbedIsRight
    BY DEF RInv
  <1> QED BY <1>1, InitRInv, NextRInv, PTL DEF Spec

\* What stays true from an early end of the old output on: its CgiRead is gone
\* and the answer takes the old body's place before any reply looks at it.
Harmless ==
  /\ readSize["old"] = "eof"
  /\ ~reading["old"]
  /\ ~disturbed
  /\ reply # "none" => body.of # "old"

LEMMA HarmlessStays == RInv /\ Harmless /\ [Next]_vars => Harmless'
  <1> SUFFICES ASSUME RInv, Harmless, [Next]_vars PROVE Harmless'
    OBVIOUS
  <1>1. CASE UNCHANGED vars
    BY <1>1 DEF vars, Harmless
  <1>2. ASSUME NEW s \in Script, ReadMore(s) \/ ReadEnd(s) \/ ReadFails(s)
        PROVE  Harmless'
    <2>1. s = "new"
      BY <1>2, ReadFacts DEF Harmless, Script
    <2>2. body' = Body("new", output'["new"]) \/ UNCHANGED body
      BY <1>2, <2>1, ReadFacts
    <2> QED BY <1>2, <2>1, <2>2, ReadFacts DEF Harmless, Script, Body
  <1>3. CASE NewHeader \/ NewAnswers
    BY <1>3 DEF NewAnswers, NewHeader, NewDocument, NewError, Harmless, Body, ErrorPage, RInv,
       TypeOK, Script
  <1>4. CASE Respond
    BY <1>4 DEF Respond, SendPage, SendChunk, SendLastChunk, Look, Harmless
  <1> QED BY <1>1, <1>2, <1>3, <1>4 DEF Next

\* If the end of the old output is read before the new script has answered,
\* the reply never works with the old script's body.
THEOREM EarlyEndHarmless == Spec => EarlyEndIsHarmless
  <1>1. RInv /\ EndsEarly => Harmless
    BY DEF RInv, EndsEarly, Harmless, EndsKnown, ReplyKnown
  <1>2. Harmless => ~disturbed
    BY DEF Harmless
  <1> QED BY <1>1, <1>2, InitRInv, NextRInv, HarmlessStays, PTL DEF Spec, EarlyEndIsHarmless
=============================================================================
