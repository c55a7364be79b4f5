------------------------------ MODULE CgiRelay ------------------------------
(***************************************************************************)
(* How the output of a CGI script reaches the client: CgiRead appends what *)
(* it reads to response_body, CgiResponse sends the reply's header through *)
(* a Sender and then the body as chunks through a SendChunked, and either  *)
(* may be dispatched at any time.  One connection, one script, a document  *)
(* response: the redirects are the subject of EventLoop.                   *)
(*                                                                         *)
(* Bytes are counted, not represented.  A write takes any part of what it  *)
(* is given, or fails because the client is gone.  A dispatch of           *)
(* CgiResponse that finds nothing to send changes nothing and is left to   *)
(* stuttering.  Operators named Faulty... are the definition below them    *)
(* with a plausible bug; no specification uses them.                       *)
(***************************************************************************)
EXTENDS Integers

CONSTANTS
  HeaderSize,   \* bytes of the status line and header of the reply
  MaxOut,       \* bound: bytes of body the script produces
  HexLen,       \* HexLen[n] : hexadecimal digits of n
  Modulus       \* of size_t

ASSUME CgiRelayAssumption ==
  /\ HeaderSize \in Nat \ {0}
  /\ MaxOut \in Nat
  /\ HexLen \in [0..MaxOut -> Nat \ {0}]
  /\ Modulus \in Nat \ {0}

VARIABLES
  body,         \* response_body.size()
  readSize,     \* cgi_res.read_size, as far as it is looked at
  clientOpen,   \* whether a write to the client can still succeed
  header,       \* bytes of the header sender_ has not sent
  headerErr,    \* sender_.err_
  sentByte,     \* chunked_.sent_byte_
  sizeOther,    \* chunked_.size_other_than_body_
  pending,      \* chunked_.send_chunk_.size()
  err,          \* chunked_.err_
  sentLast,     \* chunked_.sent_last_chunked_
  closed,       \* whether CgiResponse, and with it the Socket, is deleted
  frame         \* history: the part of the body the latest chunk is made of

scriptVars == <<body, readSize>>
headerVars == <<header, headerErr>>
chunkVars == <<sentByte, sizeOther, pending, frame>>
vars == <<scriptVars, clientOpen, headerVars, chunkVars, err, sentLast, closed>>

TypeOK ==
  /\ body \in 0..MaxOut
  /\ readSize \in {"data", "eof", "error"}
  /\ clientOpen \in BOOLEAN
  /\ header \in 0..HeaderSize
  /\ headerErr \in BOOLEAN
  /\ sentByte \in Nat
  /\ sizeOther \in 0..Modulus - 1
  /\ pending \in Nat
  /\ err \in BOOLEAN
  /\ sentLast \in BOOLEAN
  /\ closed \in BOOLEAN
  /\ frame \in [from : 0..MaxOut, to : 0..MaxOut]

\* CgiResponse is created when CgiRead has read the script's header, and
\* whatever of the body came with it.
Init ==
  /\ body \in 0..MaxOut
  /\ readSize = "data"
  /\ clientOpen = TRUE
  /\ header = HeaderSize
  /\ headerErr = FALSE
  /\ sentByte = 0
  /\ sizeOther = 0
  /\ pending = 0
  /\ err = FALSE
  /\ sentLast = FALSE
  /\ closed = FALSE
  /\ frame = [from |-> 0, to |-> 0]

-----------------------------------------------------------------------------
(* CgiRead::Do; at the end of the output CgiRead is deleted.                *)

Reading == ~closed /\ readSize # "eof"

ReadData ==
  /\ Reading
  /\ body' \in body + 1 .. MaxOut
  /\ readSize' = "data"
  /\ UNCHANGED <<clientOpen, headerVars, chunkVars, err, sentLast, closed>>

ReadEnd ==
  /\ Reading
  /\ readSize' = "eof"
  /\ UNCHANGED <<body, clientOpen, headerVars, chunkVars, err, sentLast, closed>>

ReadError ==
  /\ Reading
  /\ readSize' = "error"
  /\ UNCHANGED <<body, clientOpen, headerVars, chunkVars, err, sentLast, closed>>

ClientCloses ==
  /\ clientOpen
  /\ clientOpen' = FALSE
  /\ UNCHANGED <<scriptVars, headerVars, chunkVars, err, sentLast, closed>>

-----------------------------------------------------------------------------
(* CgiResponse::Do, and State, which decides after every dispatch whether   *)
(* the CgiResponse is deleted.                                              *)

\* size_t subtraction.
Minus(a, b) == IF b <= a THEN a - b ELSE Modulus + a - b

\* Fault: the result is not looked at for a borrow.
FaultySentByte == Minus(sentByte, sizeOther)

SentByte ==
  IF Minus(sentByte, sizeOther) > sentByte THEN 0 ELSE Minus(sentByte, sizeOther)

\* Fault: a write error does not end the reply.
FaultyDeletedIf(headerFailed, failed, last) == readSize = "eof" /\ last

\* Fault: a write error ends the reply while the script still runs.
FaultyHastyDeletedIf(headerFailed, failed, last) ==
  last \/ headerFailed \/ failed

DeletedIf(headerFailed, failed, last) ==
  readSize = "eof" /\ (last \/ headerFailed \/ failed)

SendHeader ==
  /\ ~closed
  /\ header > 0
  /\ \/ /\ clientOpen
        /\ header' \in 0..header - 1
        /\ headerErr' = headerErr
     \/ /\ ~clientOpen
        /\ headerErr' = TRUE
        /\ header' = header
  /\ closed' = DeletedIf(headerErr', err, sentLast)
  /\ UNCHANGED <<scriptVars, clientOpen, chunkVars, err, sentLast>>

\* Fault: the reply is ended whenever the client has all there is so far.
FaultyLastTurn == ~closed /\ header = 0 /\ SentByte = body

LastTurn == ~closed /\ header = 0 /\ SentByte = body /\ readSize = "eof"

ChunkTurn == ~closed /\ header = 0 /\ SentByte < body

\* Send with a chunk that was cut short before.
SendRest ==
  /\ ChunkTurn
  /\ pending > 0
  /\ \/ /\ clientOpen
        /\ \E n \in 1..pending : /\ sentByte' = sentByte + n
                                 /\ pending' = pending - n
        /\ err' = err
     \/ /\ ~clientOpen
        /\ err' = TRUE
        /\ UNCHANGED <<sentByte, pending>>
  /\ closed' = DeletedIf(headerErr, err', sentLast)
  /\ UNCHANGED <<scriptVars, clientOpen, headerVars, sizeOther, frame, sentLast>>

\* The size of a chunk of n bytes but for these.
Framing(n) == HexLen[n] + 4

\* Fault: the line end after the data is not counted.
FaultySendNew ==
  LET start == Minus(sentByte, sizeOther)
      size == body - start
  IN  /\ ChunkTurn
      /\ pending = 0
      /\ start <= body
      /\ sizeOther + Framing(size) < Modulus
      /\ \E n \in 1..Framing(size) + size :
           /\ sentByte' = sentByte + n
           /\ pending' = Framing(size) + size - n
      /\ sizeOther' = sizeOther + Framing(size) - 2
      /\ frame' = [from |-> start, to |-> body]
      /\ err' = err
      /\ closed' = DeletedIf(headerErr, err', sentLast)
      /\ UNCHANGED <<scriptVars, clientOpen, headerVars, sentLast>>

\* Send with a new chunk of all of the body not sent yet.  A failed write
\* leaves the chunk pending and its framing uncounted.  The framing of all
\* chunks together is bounded by what a size_t can count.
SendNew ==
  LET start == Minus(sentByte, sizeOther)
      size == body - start
  IN  /\ ChunkTurn
      /\ pending = 0
      /\ start <= body
      /\ sizeOther + Framing(size) < Modulus
      /\ \/ /\ clientOpen
            /\ \E n \in 1..Framing(size) + size :
                 /\ sentByte' = sentByte + n
                 /\ pending' = Framing(size) + size - n
            /\ sizeOther' = sizeOther + Framing(size)
            /\ err' = err
         \/ /\ ~clientOpen
            /\ pending' = Framing(size) + size
            /\ err' = TRUE
            /\ UNCHANGED <<sentByte, sizeOther>>
      /\ frame' = [from |-> start, to |-> body]
      /\ closed' = DeletedIf(headerErr, err', sentLast)
      /\ UNCHANGED <<scriptVars, clientOpen, headerVars, sentLast>>

\* One write, whole or not, counts as the last chunk sent.
SendLastChunk ==
  /\ LastTurn
  /\ sentLast' = TRUE
  /\ err' = (err \/ ~clientOpen)
  /\ closed' = DeletedIf(headerErr, err', sentLast')
  /\ UNCHANGED <<scriptVars, clientOpen, headerVars, chunkVars>>

Respond == SendHeader \/ SendRest \/ SendNew \/ SendLastChunk

Next == ReadData \/ ReadEnd \/ ReadError \/ ClientCloses \/ Respond

Spec == Init /\ [][Next]_vars

(* The client's descriptor is reported as long as it can be written to or   *)
(* its client is gone, which is assumed to happen in the end: a client      *)
(* reads or leaves.  The script is assumed to end its output.               *)
FairSpec == Spec /\ WF_vars(Respond) /\ WF_vars(ReadEnd)

-----------------------------------------------------------------------------
(* Every chunk begins in the body where the one before it ended, is not     *)
(* empty, which would end the reply, and no chunk is begun before the one   *)
(* before it is written out: nothing is left out or sent twice, wherever    *)
(* the writes are cut (SendChunked::Send).                                  *)
ChunksTile ==
  [][frame' # frame => /\ frame'.from = frame.to
                       /\ frame'.from < frame'.to
                       /\ pending = 0]_vars

(* Between chunks the position Send computes from its two counters is where *)
(* the last chunk ended; within one it is before the end, so that the chunk *)
(* is never taken for sent (SentByte).                                      *)
Accounting ==
  /\ pending = 0 => Minus(sentByte, sizeOther) = frame.to
  /\ pending > 0 => SentByte < frame.to
  /\ frame.to <= body

(* The last chunk follows all of a body that is complete.                   *)
LastIsLast ==
  sentLast => pending = 0 /\ frame.to = body /\ header = 0 /\ readSize = "eof"

(* A reply is given up only for a client that is gone and only when the     *)
(* script has ended; otherwise it is closed when all was sent.              *)
ClosedIsComplete ==
  closed => readSize = "eof" /\ (clientOpen => sentLast /\ ~err)

(* A reply ends as it should: both of the above (CgiResponse::Do,           *)
(* CgiResponse::State).                                                     *)
EndIsRight == LastIsLast /\ ClosedIsComplete

(* Every reply ends, whatever becomes of the client.                        *)
Ends == <>closed

-----------------------------------------------------------------------------
(* The relay implements Relay.                                              *)

\* How much of the body was written: of the latest chunk, what is written
\* without the data's line end, at least nothing.
Delivered ==
  LET size == frame.to - frame.from
      left == IF pending <= 2 THEN 0
              ELSE IF pending - 2 >= size THEN size ELSE pending - 2
  IN  frame.to - left

Ended == readSize = "eof"

Phase == IF ~closed THEN "open"
         ELSE IF err \/ headerErr THEN "broken" ELSE "finished"

R == INSTANCE Relay WITH produced <- body, ended <- Ended,
                         delivered <- Delivered, phase <- Phase

ImplementsRelay == R!Spec

=============================================================================
