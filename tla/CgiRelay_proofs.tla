-------------------------- MODULE CgiRelay_proofs --------------------------
(***************************************************************************)
(* Proofs about CgiRelay: the accounting of SendChunked is right, nothing  *)
(* follows or precedes the last chunk that should not, and the relay       *)
(* implements Relay, for every size of header and output.                  *)
(***************************************************************************)
EXTENDS CgiRelay, TLAPS

(* Either the counters know the framing of the latest chunk, and what is    *)
(* pending is what is missing between them, or the very first write of that *)
(* chunk failed and nothing of it was counted.                              *)
Counted == sentByte + pending = sizeOther + frame.to

Uncounted ==
  /\ ~clientOpen
  /\ pending > 0
  /\ pending = Framing(frame.to - frame.from) + (frame.to - frame.from)
  /\ sentByte = sizeOther + frame.from

FrameInv ==
  /\ frame.from <= frame.to
  /\ frame.to <= body
  /\ pending > 0 => frame.from < frame.to
  /\ Counted \/ Uncounted

EndInv ==
  /\ err \/ headerErr => ~clientOpen
  /\ closed => readSize = "eof" /\ (sentLast \/ headerErr \/ err)
  /\ sentLast => /\ closed
                 /\ pending = 0
                 /\ frame.to = body
                 /\ header = 0
                 /\ readSize = "eof"

IInv == TypeOK /\ FrameInv /\ EndInv

-----------------------------------------------------------------------------
LEMMA FramingIsNat ==
  ASSUME NEW n \in 0..MaxOut
  PROVE  Framing(n) \in Nat /\ Framing(n) > 4
BY CgiRelayAssumption DEF Framing

(* What SentByte makes of the counters, borrow or not.                      *)
LEMMA SentByteIs ==
  ASSUME TypeOK
  PROVE  /\ sentByte >= sizeOther => /\ Minus(sentByte, sizeOther) = sentByte - sizeOther
                                     /\ SentByte = sentByte - sizeOther
         /\ sentByte < sizeOther => SentByte = 0
BY CgiRelayAssumption DEF TypeOK, Minus, SentByte

(* The accounting property follows from the invariant.                      *)
LEMMA IInvAccounts == ASSUME IInv PROVE Accounting
<1>1. TypeOK /\ FrameInv
  BY DEF IInv
<1>2. /\ sentByte \in Nat /\ sizeOther \in Nat /\ pending \in Nat /\ body \in Nat
      /\ frame.from \in Nat /\ frame.to \in Nat
  BY <1>1, CgiRelayAssumption DEF TypeOK
<1>3. CASE Counted
  BY <1>1, <1>2, <1>3, SentByteIs DEF FrameInv, Counted, Accounting
<1>4. CASE Uncounted
  BY <1>1, <1>2, <1>4, SentByteIs DEF FrameInv, Uncounted, Accounting
<1>5. QED
  BY <1>1, <1>3, <1>4 DEF FrameInv

-----------------------------------------------------------------------------
LEMMA InitIInv == ASSUME Init PROVE IInv
<1>1. /\ clientOpen \in BOOLEAN /\ headerErr \in BOOLEAN /\ err \in BOOLEAN
      /\ sentLast \in BOOLEAN /\ closed \in BOOLEAN
  BY Zenon DEF Init
<1>2. /\ body \in 0..MaxOut /\ readSize \in {"data", "eof", "error"}
      /\ header \in 0..HeaderSize /\ sentByte \in Nat
      /\ sizeOther \in 0..Modulus - 1 /\ pending \in Nat
  BY CgiRelayAssumption DEF Init
<1>3. frame \in [from : 0..MaxOut, to : 0..MaxOut]
  BY CgiRelayAssumption DEF Init
<1>4. FrameInv
  BY <1>2 DEF Init, FrameInv, Counted
<1>5. EndInv
  BY DEF Init, EndInv
<1>6. QED
  BY <1>1, <1>2, <1>3, <1>4, <1>5 DEF IInv, TypeOK

(* The steps of CgiRead and of the client leave the chunks alone.           *)
LEMMA ReadKeepsIInv ==
  ASSUME IInv, ReadData \/ ReadEnd \/ ReadError \/ ClientCloses
  PROVE  IInv'
<1>1. TypeOK'
  <2>1. clientOpen' \in BOOLEAN
    BY Zenon DEF IInv, TypeOK, ReadData, ReadEnd, ReadError, ClientCloses, scriptVars
  <2>2. /\ headerErr' = headerErr /\ err' = err /\ sentLast' = sentLast
        /\ closed' = closed /\ header' = header /\ sentByte' = sentByte
        /\ sizeOther' = sizeOther /\ pending' = pending /\ frame' = frame
    BY DEF ReadData, ReadEnd, ReadError, ClientCloses, headerVars, chunkVars
  <2>3. body' \in 0..MaxOut /\ readSize' \in {"data", "eof", "error"}
    BY CgiRelayAssumption DEF IInv, TypeOK, ReadData, ReadEnd, ReadError, ClientCloses,
       scriptVars
  <2>4. QED
    BY <2>1, <2>2, <2>3 DEF IInv, TypeOK
<1>2. /\ body' \in Nat /\ body \in Nat /\ body <= body' /\ frame' = frame
      /\ frame.to \in Nat /\ frame.from \in Nat
      /\ pending' = pending /\ sentByte' = sentByte /\ sizeOther' = sizeOther
      /\ clientOpen' => clientOpen
  BY CgiRelayAssumption DEF IInv, TypeOK, ReadData, ReadEnd, ReadError, ClientCloses,
     Reading, scriptVars, headerVars, chunkVars
<1>3. FrameInv'
  BY <1>2 DEF IInv, FrameInv, Counted, Uncounted
<1>4. EndInv'
  BY DEF IInv, EndInv, TypeOK, ReadData, ReadEnd, ReadError, ClientCloses,
     Reading, scriptVars, headerVars, chunkVars
<1>5. QED
  BY <1>1, <1>3, <1>4 DEF IInv

LEMMA SendHeaderKeepsIInv == ASSUME IInv, SendHeader PROVE IInv'
<1>1. TypeOK'
  <2>1. headerErr' \in BOOLEAN /\ closed' \in BOOLEAN
    BY Zenon DEF IInv, TypeOK, SendHeader, DeletedIf
  <2>2. /\ body' = body /\ readSize' = readSize /\ clientOpen' = clientOpen
        /\ err' = err /\ sentLast' = sentLast /\ sentByte' = sentByte
        /\ sizeOther' = sizeOther /\ pending' = pending /\ frame' = frame
    BY DEF SendHeader, scriptVars, chunkVars
  <2>3. header' \in 0..HeaderSize
    BY CgiRelayAssumption DEF IInv, TypeOK, SendHeader
  <2>4. QED
    BY <2>1, <2>2, <2>3 DEF IInv, TypeOK
<1>2. FrameInv'
  BY DEF IInv, FrameInv, Counted, Uncounted, SendHeader,
     scriptVars, headerVars, chunkVars
<1>3. EndInv'
  BY DEF IInv, EndInv, TypeOK, SendHeader, DeletedIf,
     scriptVars, headerVars, chunkVars
<1>4. QED
  BY <1>1, <1>2, <1>3 DEF IInv

LEMMA SendRestKeepsIInv == ASSUME IInv, SendRest PROVE IInv'
<1>1. TypeOK'
  <2>1. err' \in BOOLEAN /\ closed' \in BOOLEAN
    BY Zenon DEF IInv, TypeOK, SendRest, DeletedIf
  <2>2. /\ body' = body /\ readSize' = readSize /\ clientOpen' = clientOpen
        /\ header' = header /\ headerErr' = headerErr /\ sentLast' = sentLast
        /\ sizeOther' = sizeOther /\ frame' = frame
    BY DEF SendRest, scriptVars, headerVars
  <2>3. sentByte' \in Nat /\ pending' \in Nat
    BY DEF IInv, TypeOK, SendRest
  <2>4. QED
    BY <2>1, <2>2, <2>3 DEF IInv, TypeOK
<1>2. FrameInv'
  <2>1. /\ sentByte \in Nat /\ sizeOther \in Nat /\ pending \in Nat
        /\ frame.to \in Nat /\ frame.from \in Nat
        /\ frame' = frame /\ body' = body /\ sizeOther' = sizeOther
        /\ clientOpen' = clientOpen /\ FrameInv /\ pending > 0
    BY CgiRelayAssumption DEF IInv, TypeOK, SendRest, scriptVars, headerVars
  <2>2. CASE ~clientOpen
    BY <2>1, <2>2 DEF SendRest, FrameInv, Counted, Uncounted
  <2>3. CASE clientOpen
    <3>1. Counted
      BY <2>1, <2>3 DEF FrameInv, Uncounted
    <3>2. PICK n \in 1..pending : sentByte' = sentByte + n /\ pending' = pending - n
      BY <2>3 DEF SendRest
    <3>3. pending' \in Nat /\ Counted'
      BY <2>1, <3>1, <3>2 DEF Counted
    <3>4. QED
      BY <2>1, <3>3 DEF FrameInv
  <2>4. QED
    BY <2>2, <2>3
<1>3. EndInv'
  BY DEF IInv, EndInv, TypeOK, SendRest, DeletedIf, ChunkTurn,
     scriptVars, headerVars
<1>4. QED
  BY <1>1, <1>2, <1>3 DEF IInv

(* A new chunk starts where the one before it ended and is not empty.       *)
LEMMA NewChunk ==
  ASSUME IInv, SendNew
  PROVE  /\ Minus(sentByte, sizeOther) = frame.to
         /\ sentByte = sizeOther + frame.to
         /\ frame.to < body
         /\ body - frame.to \in 0..MaxOut
         /\ frame' = [from |-> frame.to, to |-> body]
         /\ pending = 0
<1>1. Accounting
  BY IInvAccounts
<1>2. /\ sentByte \in Nat /\ sizeOther \in Nat /\ body \in 0..MaxOut
      /\ frame.to \in Nat /\ TypeOK
  BY CgiRelayAssumption DEF IInv, TypeOK
<1>3. pending = 0 /\ SentByte < body
  BY DEF SendNew, ChunkTurn
<1>4. Minus(sentByte, sizeOther) = frame.to
  BY <1>1, <1>3 DEF Accounting
<1>5. sentByte = sizeOther + frame.to
  BY <1>2, <1>3 DEF IInv, FrameInv, Counted, Uncounted
<1>6. SentByte = frame.to
  BY <1>2, <1>5, SentByteIs
<1>7. frame.to < body /\ body - frame.to \in 0..MaxOut
  BY <1>2, <1>3, <1>6, CgiRelayAssumption
<1>8. frame' = [from |-> Minus(sentByte, sizeOther), to |-> body]
  BY DEF SendNew
<1>9. QED
  BY <1>3, <1>4, <1>5, <1>7, <1>8

LEMMA SendNewKeepsIInv == ASSUME IInv, SendNew PROVE IInv'
<1> DEFINE size == body - frame.to
<1>1. /\ sentByte \in Nat /\ sizeOther \in Nat /\ body \in 0..MaxOut
      /\ frame.to \in 0..MaxOut
  BY CgiRelayAssumption DEF IInv, TypeOK
<1>2. /\ sentByte = sizeOther + frame.to
      /\ frame.to < body
      /\ size \in 0..MaxOut
      /\ frame' = [from |-> frame.to, to |-> body]
      /\ Minus(sentByte, sizeOther) = frame.to
  BY NewChunk
<1>3. Framing(size) \in Nat /\ Framing(size) > 4
  BY <1>2, FramingIsNat
<1>4. /\ sizeOther + Framing(size) < Modulus
      /\ \/ /\ clientOpen
            /\ \E n \in 1..Framing(size) + size :
                 /\ sentByte' = sentByte + n
                 /\ pending' = Framing(size) + size - n
            /\ sizeOther' = sizeOther + Framing(size)
            /\ err' = err
         \/ /\ ~clientOpen
            /\ pending' = Framing(size) + size
            /\ err' = TRUE
            /\ sentByte' = sentByte
            /\ sizeOther' = sizeOther
      /\ body' = body /\ readSize' = readSize /\ clientOpen' = clientOpen
      /\ header' = header /\ headerErr' = headerErr /\ sentLast' = sentLast
      /\ closed' = (readSize = "eof" /\ (sentLast \/ headerErr \/ err'))
      /\ ~closed
  BY <1>2 DEF SendNew, ChunkTurn, DeletedIf, scriptVars, headerVars
<1> HIDE DEF size
<1>5. /\ size \in Nat /\ frame'.from = frame.to /\ frame'.to = body
      /\ size = frame'.to - frame'.from
  BY <1>2, <1>1 DEF size
<1>6. pending' \in Nat /\ sentByte' \in Nat /\ sizeOther' \in 0..Modulus - 1
  <2>1. sizeOther \in 0..Modulus - 1 /\ Modulus \in Nat
    BY CgiRelayAssumption DEF IInv, TypeOK
  <2>2. sizeOther' \in 0..Modulus - 1
    BY <1>3, <1>4, <2>1
  <2>3. pending' \in Nat /\ sentByte' \in Nat
    BY <1>1, <1>3, <1>4, <1>5
  <2>4. QED
    BY <2>2, <2>3
<1>7. TypeOK'
  <2>1. err' \in BOOLEAN
    BY Zenon DEF IInv, TypeOK, SendNew
  <2>2. closed' \in BOOLEAN
    BY Zenon, <1>4
  <2>3. frame' \in [from : 0..MaxOut, to : 0..MaxOut]
    BY <1>1, <1>2
  <2>4. QED
    BY <1>4, <1>6, <2>1, <2>2, <2>3 DEF IInv, TypeOK
<1>8. FrameInv'
  <2>1. CASE clientOpen
    <3>1. PICK n \in 1..Framing(size) + size :
            sentByte' = sentByte + n /\ pending' = Framing(size) + size - n
      BY <1>4, <2>1
    <3>2. sentByte' + pending' = sizeOther' + body
      BY <1>1, <1>2, <1>3, <1>4, <1>5, <2>1, <3>1 DEF size
    <3>3. Counted'
      BY <1>5, <3>2 DEF Counted
    <3>4. QED
      BY <1>1, <1>2, <1>4, <1>5, <3>3 DEF FrameInv
  <2>2. CASE ~clientOpen
    <3>1. Uncounted'
      BY <1>1, <1>2, <1>3, <1>4, <1>5, <2>2 DEF Uncounted, Framing
    <3>2. QED
      BY <1>1, <1>2, <1>4, <1>5, <3>1 DEF FrameInv
  <2>3. QED
    BY <2>1, <2>2
<1>9. EndInv'
  BY <1>4 DEF IInv, EndInv, TypeOK
<1>10. QED
  BY <1>7, <1>8, <1>9 DEF IInv

(* The last chunk is due only when nothing is pending or left.              *)
LEMMA LastChunk ==
  ASSUME IInv, SendLastChunk
  PROVE  pending = 0 /\ frame.to = body /\ header = 0 /\ readSize = "eof"
<1>1. Accounting
  BY IInvAccounts
<1>2. /\ sentByte \in Nat /\ sizeOther \in Nat /\ body \in Nat /\ pending \in Nat
      /\ frame.to \in Nat /\ TypeOK
  BY CgiRelayAssumption DEF IInv, TypeOK
<1>3. SentByte = body /\ header = 0 /\ readSize = "eof"
  BY DEF SendLastChunk, LastTurn
<1>4. pending = 0
  BY <1>1, <1>2, <1>3 DEF Accounting
<1>5. sentByte = sizeOther + frame.to
  BY <1>2, <1>4 DEF IInv, FrameInv, Counted, Uncounted
<1>6. SentByte = frame.to
  BY <1>2, <1>5, SentByteIs
<1>7. QED
  BY <1>3, <1>4, <1>6

LEMMA SendLastChunkKeepsIInv == ASSUME IInv, SendLastChunk PROVE IInv'
<1>1. TypeOK'
  BY DEF IInv, TypeOK, SendLastChunk, DeletedIf, scriptVars, headerVars, chunkVars
<1>2. FrameInv'
  BY DEF IInv, FrameInv, Counted, Uncounted, SendLastChunk,
     scriptVars, headerVars, chunkVars
<1>3. EndInv'
  BY LastChunk DEF IInv, EndInv, TypeOK, SendLastChunk, DeletedIf,
     scriptVars, headerVars, chunkVars
<1>4. QED
  BY <1>1, <1>2, <1>3 DEF IInv

LEMMA NextIInv == IInv /\ [Next]_vars => IInv'
<1> SUFFICES ASSUME IInv, [Next]_vars PROVE IInv'
  OBVIOUS
<1>1. CASE ReadData \/ ReadEnd \/ ReadError \/ ClientCloses
  BY <1>1, ReadKeepsIInv
<1>2. CASE SendHeader
  BY <1>2, SendHeaderKeepsIInv
<1>3. CASE SendRest
  BY <1>3, SendRestKeepsIInv
<1>4. CASE SendNew
  BY <1>4, SendNewKeepsIInv
<1>5. CASE SendLastChunk
  BY <1>5, SendLastChunkKeepsIInv
<1>6. CASE UNCHANGED vars
  BY <1>6 DEF IInv, TypeOK, FrameInv, EndInv, Counted, Uncounted,
     vars, scriptVars, headerVars, chunkVars
<1>7. QED
  BY <1>1, <1>2, <1>3, <1>4, <1>5, <1>6 DEF Next, Respond

LEMMA Invariance == Spec => []IInv
<1>1. Init => IInv
  BY InitIInv
<1>2. IInv /\ [Next]_vars => IInv'
  BY NextIInv
<1>3. QED
  BY <1>1, <1>2, PTL DEF Spec

-----------------------------------------------------------------------------
(* The two counters of SendChunked always agree with what was written.      *)
THEOREM CountersAreRight == Spec => []Accounting
<1>1. IInv => Accounting
  BY IInvAccounts
<1>2. QED
  BY <1>1, Invariance, PTL

(* The last chunk is only ever sent after all of a complete body, and a     *)
(* connection whose client is still there is closed only when everything    *)
(* was sent to it.                                                          *)
THEOREM EndsRight == Spec => []EndIsRight
<1>1. IInv => EndIsRight
  BY DEF IInv, EndInv, EndIsRight, LastIsLast, ClosedIsComplete
<1>2. QED
  BY <1>1, Invariance, PTL

(* The chunks cut the body without gap, overlap or empty chunk.             *)
THEOREM NothingLostOrTwice == Spec => ChunksTile
<1> DEFINE A == frame' # frame => /\ frame'.from = frame.to
                                  /\ frame'.from < frame'.to
                                  /\ pending = 0
<1>1. IInv /\ [Next]_vars => [A]_vars
  <2> SUFFICES ASSUME IInv, [Next]_vars, frame' # frame PROVE A
    OBVIOUS
  <2>1. SendNew
    BY DEF Next, Respond, ReadData, ReadEnd, ReadError, ClientCloses, SendHeader,
       SendRest, SendLastChunk, vars, chunkVars
  <2>2. QED
    BY <2>1, NewChunk
<1>2. QED
  BY <1>1, Invariance, PTL DEF Spec, ChunksTile

-----------------------------------------------------------------------------
(* How Delivered moves with the chunks.                                     *)
LEMMA DeliveredIs ==
  ASSUME IInv
  PROVE  /\ Delivered \in Nat
         /\ pending = 0 => Delivered = frame.to
<1>1. /\ pending \in Nat /\ frame.from \in Nat /\ frame.to \in Nat
      /\ frame.from <= frame.to
  BY CgiRelayAssumption DEF IInv, TypeOK, FrameInv
<1>2. QED
  BY <1>1 DEF Delivered

LEMMA DeliveredGrows ==
  ASSUME IInv, IInv', frame' = frame, pending' <= pending
  PROVE  Delivered <= Delivered'
<1>1. /\ pending \in Nat /\ frame.from \in Nat /\ frame.to \in Nat
      /\ pending' \in Nat /\ frame.from <= frame.to
  BY CgiRelayAssumption DEF IInv, TypeOK, FrameInv
<1>2. QED
  BY <1>1 DEF Delivered

(* A step of the reply hands on more, gives up or finishes.                 *)
LEMMA ReplyStep ==
  ASSUME IInv, IInv', ~closed,
         body' = body, readSize' = readSize,
         Delivered <= Delivered',
         closed' => /\ Delivered' = Delivered
                    /\ err' \/ headerErr' \/ (Delivered = body /\ readSize = "eof")
  PROVE  [R!Next]_(R!vars)
<1>1. Delivered \in Nat /\ Delivered' \in Nat /\ Delivered' <= body
  <2>1. Delivered' \in Nat /\ Delivered' <= frame'.to
    <3>1. /\ pending' \in Nat /\ frame'.from \in Nat /\ frame'.to \in Nat
          /\ frame'.from <= frame'.to
      BY CgiRelayAssumption DEF IInv, TypeOK, FrameInv
    <3>2. QED
      BY <3>1 DEF Delivered
  <2>2. frame'.to <= body /\ frame'.to \in Nat /\ body \in Nat
    BY CgiRelayAssumption DEF IInv, TypeOK, FrameInv
  <2>3. QED
    BY <2>1, <2>2, DeliveredIs
<1>2. Ended' = Ended
  BY DEF Ended
<1>3. CASE closed'
  BY <1>2, <1>3 DEF Phase, Ended, R!Next, R!Finish, R!Break, R!vars
<1>4. CASE ~closed' /\ Delivered' = Delivered
  BY <1>2, <1>4 DEF Phase, R!vars
<1>5. CASE ~closed' /\ Delivered' # Delivered
  BY <1>1, <1>2, <1>5 DEF Phase, R!Next, R!Deliver, R!vars
<1>6. QED
  BY <1>3, <1>4, <1>5

LEMMA ReadStep ==
  ASSUME IInv, ReadData \/ ReadEnd \/ ReadError \/ ClientCloses
  PROVE  [R!Next]_(R!vars)
<1>1. Phase' = Phase /\ Delivered' = Delivered
  BY DEF Phase, Delivered, ReadData, ReadEnd, ReadError, ClientCloses,
     headerVars, chunkVars
<1>2. CASE ReadData
  <2>1. Ended = FALSE /\ Ended' = FALSE
    BY <1>2 DEF ReadData, Reading, Ended
  <2>2. body' \in Nat /\ body' > body
    BY <1>2, CgiRelayAssumption DEF ReadData, IInv, TypeOK
  <2>3. QED
    BY <1>1, <2>1, <2>2 DEF R!Next, R!Produce
<1>3. CASE ReadEnd
  <2>1. Ended' = TRUE /\ body' = body
    BY <1>3 DEF ReadEnd, Ended
  <2>2. QED
    BY <1>1, <2>1 DEF R!Next, R!End
<1>4. CASE ReadError \/ ClientCloses
  <2>1. Ended' = Ended /\ body' = body
    BY <1>4 DEF ReadError, ClientCloses, Reading, Ended, scriptVars
  <2>2. QED
    BY <1>1, <2>1 DEF R!vars
<1>5. QED
  BY <1>2, <1>3, <1>4

LEMMA RespondStep ==
  ASSUME IInv, IInv', Respond
  PROVE  [R!Next]_(R!vars)
<1>1. /\ ~closed /\ body' = body /\ readSize' = readSize /\ ~sentLast
      /\ clientOpen' = clientOpen
  BY DEF Respond, SendHeader, SendRest, SendNew, SendLastChunk, ChunkTurn,
     LastTurn, scriptVars, IInv, EndInv
<1>2. CASE SendHeader
  <2>1. Delivered' = Delivered
    BY <1>2 DEF SendHeader, chunkVars, Delivered
  <2>2. Delivered \in Nat
    BY DeliveredIs
  <2>3. closed' => err' \/ headerErr'
    BY <1>1, <1>2 DEF SendHeader, DeletedIf
  <2>4. QED
    BY <1>1, <2>1, <2>2, <2>3, ReplyStep
<1>3. CASE SendRest
  <2>1. frame' = frame /\ pending' <= pending
    BY <1>3 DEF SendRest, IInv, TypeOK
  <2>2. Delivered <= Delivered'
    BY <2>1, DeliveredGrows
  <2>3. closed' => ~clientOpen /\ (err' \/ headerErr')
    BY <1>1, <1>3 DEF SendRest, DeletedIf, headerVars, IInv, EndInv
  <2>4. ~clientOpen => Delivered' = Delivered
    BY <1>3 DEF SendRest, Delivered
  <2>5. QED
    BY <1>1, <2>2, <2>3, <2>4, ReplyStep
<1>4. CASE SendNew
  <2>1. /\ pending = 0 /\ frame'.from = frame.to /\ frame'.to = body
        /\ body - frame.to \in 0..MaxOut /\ Minus(sentByte, sizeOther) = frame.to
    BY <1>4, NewChunk
  <2>2. Delivered = frame.to /\ Delivered \in Nat
    BY <2>1, DeliveredIs
  <2>3. /\ frame'.from <= Delivered' /\ Delivered' \in Nat
        /\ pending' > 2 + (frame'.to - frame'.from) => Delivered' = frame'.from
    <3>1. /\ pending' \in Nat /\ frame'.from \in Nat /\ frame'.to \in Nat
          /\ frame'.from <= frame'.to
      BY CgiRelayAssumption DEF IInv, TypeOK, FrameInv
    <3>2. QED
      BY <3>1 DEF Delivered
  <2>4. closed' => ~clientOpen /\ (err' \/ headerErr')
    BY <1>1, <1>4 DEF SendNew, DeletedIf, headerVars, IInv, EndInv
  <2>5. ~clientOpen => Delivered' = Delivered
    <3>1. SUFFICES ASSUME ~clientOpen PROVE Delivered' = Delivered
      OBVIOUS
    <3>2. pending' = Framing(body - frame.to) + (body - frame.to)
      BY <1>4, <2>1, <3>1 DEF SendNew
    <3>3. Framing(body - frame.to) \in Nat /\ Framing(body - frame.to) > 4
      BY <2>1, FramingIsNat
    <3>4. pending' > 2 + (frame'.to - frame'.from)
      BY <2>1, <3>2, <3>3, CgiRelayAssumption
    <3>5. QED
      BY <2>1, <2>2, <2>3, <3>4
  <2>6. QED
    BY <1>1, <2>1, <2>2, <2>3, <2>4, <2>5, ReplyStep
<1>5. CASE SendLastChunk
  <2>1. Delivered' = Delivered
    BY <1>5 DEF SendLastChunk, chunkVars, Delivered
  <2>2. pending = 0 /\ frame.to = body /\ readSize = "eof"
    BY <1>5, LastChunk
  <2>3. Delivered = body /\ Delivered \in Nat
    BY <2>2, DeliveredIs
  <2>4. QED
    BY <1>1, <2>1, <2>2, <2>3, ReplyStep
<1>6. QED
  BY <1>2, <1>3, <1>4, <1>5 DEF Respond

(* The relay implements its abstract specification: what the client has     *)
(* been given only grows, and the reply is finished only when the client    *)
(* has been given everything.                                               *)
THEOREM RelayRefines == Spec => ImplementsRelay
<1>1. Init => R!Init
  BY CgiRelayAssumption DEF Init, R!Init, Ended, Delivered, Phase
<1>2. IInv /\ IInv' /\ [Next]_vars => [R!Next]_(R!vars)
  <2> SUFFICES ASSUME IInv, IInv', [Next]_vars PROVE [R!Next]_(R!vars)
    OBVIOUS
  <2>1. CASE ReadData \/ ReadEnd \/ ReadError \/ ClientCloses
    BY <2>1, ReadStep
  <2>2. CASE Respond
    BY <2>2, RespondStep
  <2>3. CASE UNCHANGED vars
    BY <2>3 DEF vars, scriptVars, headerVars, chunkVars, R!vars, Ended, Delivered, Phase
  <2>4. QED
    BY <2>1, <2>2, <2>3 DEF Next
<1>3. QED
  BY <1>1, <1>2, Invariance, PTL DEF Spec, ImplementsRelay, R!Spec

=============================================================================
