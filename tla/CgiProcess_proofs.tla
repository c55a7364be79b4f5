-------------------------- MODULE CgiProcess_proofs --------------------------
(***************************************************************************)
(* Proofs about the server and its scripts for every number of             *)
(* connections, every program, every body and every capacity of a buffer.  *)
(***************************************************************************)
EXTENDS CgiProcess, FiniteSetTheorems, TLAPS

-----------------------------------------------------------------------------
(* Counting the operations done.                                            *)

LEMMA DoneNone ==
  ASSUME NEW p, NEW op
  PROVE  Done(p, 0, op) = 0
  <1>1. {i \in 1..0 : p[i] = op} = {}
    OBVIOUS
  <1> QED BY <1>1, FS_EmptySet DEF Done

LEMMA DoneNat ==
  ASSUME NEW p, NEW op, NEW k \in Nat
  PROVE  /\ IsFiniteSet({i \in 1..k : p[i] = op})
         /\ Done(p, k, op) \in Nat
  <1>1. IsFiniteSet(1..k)
    BY FS_Interval
  <1>2. {i \in 1..k : p[i] = op} \in SUBSET (1..k)
    OBVIOUS
  <1>3. IsFiniteSet({i \in 1..k : p[i] = op})
    BY <1>1, <1>2, FS_Subset
  <1> QED BY <1>3, FS_CardinalityType DEF Done

LEMMA DoneOneMore ==
  ASSUME NEW p, NEW op, NEW k \in Nat
  PROVE  Done(p, k + 1, op) = Done(p, k, op) + (IF p[k + 1] = op THEN 1 ELSE 0)
  <1> DEFINE Of(n) == {i \in 1..n : p[i] = op}
  <1>1. IsFiniteSet(Of(k)) /\ Done(p, k, op) \in Nat
    BY DoneNat
  <1>2. CASE p[k + 1] = op
    <2>1. Of(k + 1) = Of(k) \cup {k + 1} /\ k + 1 \notin Of(k)
      BY <1>2
    <2>2. Cardinality(Of(k) \cup {k + 1}) = Cardinality(Of(k)) + 1
      BY <1>1, <2>1, FS_AddElement
    <2> QED BY <1>2, <2>1, <2>2 DEF Done
  <1>3. CASE p[k + 1] # op
    <2>1. Of(k + 1) = Of(k)
      BY <1>3
    <2> QED BY <1>1, <1>3, <2>1 DEF Done
  <1> QED BY <1>2, <1>3

-----------------------------------------------------------------------------
(* The inductive invariant.  That only a greedy script blocks the server    *)
(* needs the balance of both buffers: while the body is being written,      *)
(* nothing is read from the script, so what it has written is in its        *)
(* buffer, and what it has not read of the body is in the other or still    *)
(* left.  That a reply is taken whole needs what becomes of a process.      *)

Balance(c) ==
  /\ pc[c] <= Len(Program(c))
  /\ server = c => event[c] = "cgiwrite"
  /\ event[c] # "deleted" => Done(Program(c), pc[c], "readToEnd") = 0
  /\ event[c] = "cgiwrite" => output[c] = Done(Program(c), pc[c], "write")
  /\ event[c] = "cgiwrite" /\ process[c] = "running" /\ ~At(c, "readToEnd") =>
       input[c] + left[c] + Done(Program(c), pc[c], "read") = request[c].body

Fate(c) ==
  /\ killed[c] => event[c] = "deleted"
  /\ process[c] = "reaped" => event[c] = "deleted"
  /\ process[c] # "running" /\ ~killed[c] => pc[c] = Len(Program(c))
  /\ event[c] \in {"reply", "deleted"} /\ ~request[c].bad =>
       process[c] # "running" /\ pc[c] = Len(Program(c)) /\ output[c] = 0

IInv == TypeOK /\ \A c \in Conn : Balance(c) /\ Fate(c)

\* What the type invariant says of one connection.
LEMMA RequestTyped ==
  ASSUME TypeOK, NEW c \in Conn
  PROVE  /\ request[c].body \in Nat
         /\ request[c].redirected \in BOOLEAN
         /\ request[c].bad \in BOOLEAN
         /\ Program(c) \in Seq(Ops)
         /\ Len(Program(c)) \in Nat
  <1>1. request[c] \in RequestSet
    BY DEF TypeOK
  <1> QED BY <1>1 DEF RequestSet, Program

LEMMA InitEstablishes == Init => IInv
  <1> SUFFICES ASSUME Init PROVE IInv
    OBVIOUS
  <1> USE CgiProcessAssumption
  <1>1. TypeOK
    <2>1. request \in [Conn -> RequestSet]
      BY DEF Init
    <2>2. \A c \in Conn : request[c].body \in Nat
      BY <2>1 DEF RequestSet
    <2> QED BY <2>1, <2>2 DEF Init, TypeOK
  <1>2. ASSUME NEW c \in Conn PROVE Balance(c) /\ Fate(c)
    <2>1. \A op : Done(Program(c), 0, op) = 0
      BY DoneNone
    <2>2. Len(Program(c)) \in Nat /\ request[c].body \in Nat
      BY <1>1, RequestTyped
    <2> QED BY <2>1, <2>2 DEF Init, Balance, Fate
  <1> QED BY <1>1, <1>2 DEF IInv

-----------------------------------------------------------------------------
(* A step keeps the types.                                                  *)

LEMMA ServeKeepsTypes ==
  ASSUME TypeOK, NEW c \in Conn, Serve(c)
  PROVE  TypeOK'
  <1> USE CgiProcessAssumption DEF TypeOK, scriptVars, serverVars
  <1>1. CASE StartWrite(c)
    BY <1>1 DEF StartWrite
  <1>2. CASE Copy(c)
    <2>1. input[c] + 1 \in 0..Capacity /\ left[c] - 1 \in Nat
      BY <1>2 DEF Copy
    <2> QED BY <1>2, <2>1 DEF Copy
  <1>3. CASE EndWrite(c)
    BY <1>3 DEF EndWrite
  <1>4. CASE ReadOutput(c)
    <2>1. output' \in [Conn -> 0..Capacity]
      BY <1>4 DEF ReadOutput
    <2>2. event' \in [Conn -> {"cgiwrite", "cgiread", "reply", "deleted"}]
      BY <1>4 DEF ReadOutput
    <2> QED BY <1>4, <2>1, <2>2 DEF ReadOutput
  <1>5. CASE ReadEnd(c)
    BY <1>5 DEF ReadEnd
  <1>6. CASE FinishReply(c)
    <2>1. process' \in [Conn -> {"running", "closing", "zombie", "reaped"}]
      BY <1>6 DEF FinishReply
    <2>2. killed' \in [Conn -> BOOLEAN]
      BY <1>6 DEF FinishReply
    <2> QED BY <1>6, <2>1, <2>2 DEF FinishReply
  <1> QED BY <1>1, <1>2, <1>3, <1>4, <1>5, <1>6 DEF Serve

LEMMA ScriptKeepsTypes ==
  ASSUME TypeOK, NEW c \in Conn, Script(c)
  PROVE  TypeOK'
  <1> USE CgiProcessAssumption DEF TypeOK, scriptVars, serverVars, Advance
  <1>1. CASE ScriptReads(c)
    <2>1. input' \in [Conn -> 0..Capacity]
      BY <1>1 DEF ScriptReads
    <2>2. pc' \in [Conn -> Nat]
      BY <1>1 DEF ScriptReads
    <2> QED BY <1>1, <2>1, <2>2 DEF ScriptReads
  <1>2. CASE ScriptReadsToEnd(c)
    <2>1. input' \in [Conn -> 0..Capacity]
      BY <1>2 DEF ScriptReadsToEnd
    <2>2. pc' \in [Conn -> Nat]
      BY <1>2 DEF ScriptReadsToEnd
    <2> QED BY <1>2, <2>1, <2>2 DEF ScriptReadsToEnd
  <1>3. CASE ScriptWrites(c)
    <2>1. output' \in [Conn -> 0..Capacity]
      BY <1>3 DEF ScriptWrites
    <2>2. pc' \in [Conn -> Nat]
      BY <1>3 DEF ScriptWrites
    <2> QED BY <1>3, <2>1, <2>2 DEF ScriptWrites
  <1>4. CASE ScriptCloses(c)
    BY <1>4 DEF ScriptCloses
  <1>5. CASE ScriptExits(c)
    BY <1>5 DEF ScriptExits
  <1> QED BY <1>1, <1>2, <1>3, <1>4, <1>5 DEF Script

-----------------------------------------------------------------------------
(* A step of one connection leaves the others alone.                        *)

Same(d) ==
  /\ request' = request
  /\ event'[d] = event[d]
  /\ left'[d] = left[d]
  /\ input'[d] = input[d]
  /\ output'[d] = output[d]
  /\ pc'[d] = pc[d]
  /\ process'[d] = process[d]
  /\ killed'[d] = killed[d]
  /\ server' = d => server = d

LEMMA SameKeeps ==
  ASSUME NEW d \in Conn, Same(d), Balance(d), Fate(d)
  PROVE  Balance(d)' /\ Fate(d)'
  BY DEF Same, Balance, Fate, At, Program

LEMMA ServeLeavesOthers ==
  ASSUME TypeOK, NEW c \in Conn, Serve(c), NEW d \in Conn, d # c
  PROVE  Same(d)
  <1> USE CgiProcessAssumption DEF TypeOK, Same, scriptVars, serverVars
  <1>1. CASE StartWrite(c)
    BY <1>1 DEF StartWrite
  <1>2. CASE Copy(c)
    BY <1>2 DEF Copy
  <1>3. CASE EndWrite(c)
    BY <1>3 DEF EndWrite
  <1>4. CASE ReadOutput(c)
    BY <1>4 DEF ReadOutput
  <1>5. CASE ReadEnd(c)
    BY <1>5 DEF ReadEnd
  <1>6. CASE FinishReply(c)
    BY <1>6 DEF FinishReply
  <1> QED BY <1>1, <1>2, <1>3, <1>4, <1>5, <1>6 DEF Serve

LEMMA ScriptLeavesOthers ==
  ASSUME TypeOK, NEW c \in Conn, Script(c), NEW d \in Conn, d # c
  PROVE  Same(d)
  <1> USE DEF TypeOK, Same, scriptVars, serverVars, Advance
  <1>1. CASE ScriptReads(c)
    BY <1>1 DEF ScriptReads
  <1>2. CASE ScriptReadsToEnd(c)
    BY <1>2 DEF ScriptReadsToEnd
  <1>3. CASE ScriptWrites(c)
    BY <1>3 DEF ScriptWrites
  <1>4. CASE ScriptCloses(c)
    BY <1>4 DEF ScriptCloses
  <1>5. CASE ScriptExits(c)
    BY <1>5 DEF ScriptExits
  <1> QED BY <1>1, <1>2, <1>3, <1>4, <1>5 DEF Script

-----------------------------------------------------------------------------
(* A step keeps the balance and the fate of its own connection.             *)

LEMMA ServeKeepsOwn ==
  ASSUME TypeOK, NEW c \in Conn, Serve(c), Balance(c), Fate(c)
  PROVE  Balance(c)' /\ Fate(c)'
  <1> USE CgiProcessAssumption DEF scriptVars, serverVars
  <1>0. /\ left[c] \in Nat /\ input[c] \in 0..Capacity
        /\ Done(Program(c), pc[c], "read") \in Nat
    BY DoneNat DEF TypeOK
  <1>1. CASE StartWrite(c)
    BY <1>1 DEF StartWrite, Balance, Fate, At, Program
  <1>2. CASE Copy(c)
    <2>1. left'[c] = left[c] - 1 /\ input'[c] = input[c] + 1
      BY <1>2 DEF Copy, TypeOK
    <2>2. input'[c] + left'[c] = input[c] + left[c]
      BY <1>0, <2>1
    <2> QED BY <1>2, <2>2 DEF Copy, Balance, Fate, At, Program
  <1>3. CASE EndWrite(c)
    <2>1. event'[c] = "cgiread" /\ server' = "loop"
      BY <1>3 DEF EndWrite, TypeOK
    <2>2. event[c] = "cgiwrite"
      BY <1>3 DEF EndWrite, Balance
    <2> QED BY <1>3, <2>1, <2>2 DEF EndWrite, Balance, Fate, Program
  <1>4. CASE ReadOutput(c)
    <2>1. /\ output'[c] = 0
          /\ event'[c] = IF request[c].bad THEN "reply" ELSE "cgiread"
      BY <1>4 DEF ReadOutput, TypeOK
    <2> QED BY <1>4, <2>1 DEF ReadOutput, Balance, Fate, Program
  <1>5. CASE ReadEnd(c)
    <2>1. event'[c] = "reply"
      BY <1>5 DEF ReadEnd, TypeOK
    <2>2. process[c] # "running" /\ pc[c] = Len(Program(c)) /\ output[c] = 0
      BY <1>5 DEF ReadEnd, Hung, Fate
    <2> QED BY <1>5, <2>1, <2>2 DEF ReadEnd, Balance, Fate, Program
  <1>6. CASE FinishReply(c)
    <2>1. event'[c] = "deleted"
      BY <1>6 DEF FinishReply, TypeOK
    <2>2. /\ process[c] = "running" <=> process'[c] = "running"
          /\ killed'[c] \/ (killed'[c] <=> killed[c])
      BY <1>6 DEF FinishReply, TypeOK
    <2> QED BY <1>6, <2>1, <2>2 DEF FinishReply, Balance, Fate, Program
  <1> QED BY <1>1, <1>2, <1>3, <1>4, <1>5, <1>6 DEF Serve

\* One more operation done.
LEMMA Advanced ==
  ASSUME TypeOK, NEW c \in Conn, NEW op, At(c, op), Advance(c), request' = request
  PROVE  /\ pc'[c] = pc[c] + 1
         /\ pc'[c] <= Len(Program(c))
         /\ Program(c)' = Program(c)
         /\ \A o : Done(Program(c), pc'[c], o) =
                    Done(Program(c), pc[c], o) + (IF o = op THEN 1 ELSE 0)
         /\ \A o : Done(Program(c), pc[c], o) \in Nat
  <1>1. pc[c] \in Nat /\ pc'[c] = pc[c] + 1
    BY DEF TypeOK, Advance
  <1>2. Len(Program(c)) \in Nat
    BY RequestTyped
  <1>3. \A o : Done(Program(c), pc[c] + 1, o) =
               Done(Program(c), pc[c], o)
                 + (IF Program(c)[pc[c] + 1] = o THEN 1 ELSE 0)
    BY <1>1, DoneOneMore
  <1>4. \A o : Done(Program(c), pc[c], o) \in Nat
    BY <1>1, DoneNat
  <1>5. Program(c)[pc[c] + 1] = op /\ pc[c] < Len(Program(c))
    BY DEF At
  <1>6. \A o : Done(Program(c), pc'[c], o) =
               Done(Program(c), pc[c], o) + (IF o = op THEN 1 ELSE 0)
    BY <1>1, <1>3, <1>5
  <1> QED BY <1>1, <1>2, <1>4, <1>5, <1>6 DEF Program

LEMMA ScriptKeepsOwn ==
  ASSUME TypeOK, NEW c \in Conn, Script(c), Balance(c), Fate(c)
  PROVE  Balance(c)' /\ Fate(c)'
  <1> USE DEF scriptVars, serverVars
  <1>0. /\ input[c] \in Nat /\ output[c] \in Nat /\ left[c] \in Nat
        /\ request[c].body \in Nat
    BY RequestTyped, CgiProcessAssumption DEF TypeOK
  <1>1. CASE ScriptReads(c)
    <2>1. At(c, "read") /\ Advance(c) /\ request' = request /\ event' = event
      BY <1>1 DEF ScriptReads
    <2>0. /\ pc'[c] <= Len(Program(c))
          /\ Program(c)' = Program(c)
          /\ \A o : Done(Program(c), pc'[c], o) =
                     Done(Program(c), pc[c], o) + (IF o = "read" THEN 1 ELSE 0)
          /\ \A o : Done(Program(c), pc[c], o) \in Nat
      BY <2>1, Advanced, Zenon
    <2>2. /\ pc'[c] <= Len(Program(c))
          /\ Program(c)' = Program(c)
          /\ Done(Program(c), pc'[c], "read") = Done(Program(c), pc[c], "read") + 1
          /\ Done(Program(c), pc'[c], "write") = Done(Program(c), pc[c], "write")
          /\ Done(Program(c), pc'[c], "readToEnd")
               = Done(Program(c), pc[c], "readToEnd")
          /\ Done(Program(c), pc[c], "read") \in Nat
          /\ Done(Program(c), pc[c], "write") \in Nat
          /\ Done(Program(c), pc[c], "readToEnd") \in Nat
      BY <2>0
    <2>3. event[c] # "deleted" => input'[c] = input[c] - 1
      BY <1>1 DEF ScriptReads, Closed, TypeOK
    <2>4. process[c] = "running" /\ ~At(c, "readToEnd")
      BY <2>1 DEF At
    <2>5. event[c] = "cgiwrite" =>
            input'[c] + left[c] + Done(Program(c), pc'[c], "read") = request[c].body
      BY <1>0, <2>2, <2>3, <2>4 DEF Balance
    <2>6. Balance(c)'
      BY <1>1, <2>2, <2>5 DEF ScriptReads, Balance
    <2>7. Fate(c)'
      BY <1>1, <2>2, <2>4 DEF ScriptReads, Fate
    <2> QED BY <2>6, <2>7
  <1>2. CASE ScriptReadsToEnd(c)
    <2>1. process[c] = "running" /\ At(c, "readToEnd")
      BY <1>2 DEF ScriptReadsToEnd, At
    <2>2. CASE UNCHANGED pc
      BY <1>2, <2>1, <2>2 DEF ScriptReadsToEnd, Balance, Fate, At, Program
    <2>3. CASE Closed(c) /\ Advance(c)
      <3>1. request' = request /\ event' = event
        BY <1>2 DEF ScriptReadsToEnd
      <3>2. pc'[c] <= Len(Program(c)) /\ Program(c)' = Program(c)
        BY <2>1, <2>3, <3>1, Advanced
      <3>3. event[c] = "deleted"
        BY <2>3 DEF Closed
      <3> QED BY <1>2, <2>1, <3>2, <3>3 DEF ScriptReadsToEnd, Balance, Fate
    <2> QED BY <1>2, <2>2, <2>3 DEF ScriptReadsToEnd
  <1>3. CASE ScriptWrites(c)
    <2>1. At(c, "write") /\ Advance(c) /\ request' = request /\ event' = event
      BY <1>3 DEF ScriptWrites
    <2>0. /\ pc'[c] <= Len(Program(c))
          /\ Program(c)' = Program(c)
          /\ \A o : Done(Program(c), pc'[c], o) =
                     Done(Program(c), pc[c], o) + (IF o = "write" THEN 1 ELSE 0)
          /\ \A o : Done(Program(c), pc[c], o) \in Nat
      BY <2>1, Advanced, Zenon
    <2>2. /\ pc'[c] <= Len(Program(c))
          /\ Program(c)' = Program(c)
          /\ Done(Program(c), pc'[c], "read") = Done(Program(c), pc[c], "read")
          /\ Done(Program(c), pc'[c], "write")
               = Done(Program(c), pc[c], "write") + 1
          /\ Done(Program(c), pc'[c], "readToEnd")
               = Done(Program(c), pc[c], "readToEnd")
          /\ Done(Program(c), pc[c], "read") \in Nat
          /\ Done(Program(c), pc[c], "write") \in Nat
          /\ Done(Program(c), pc[c], "readToEnd") \in Nat
      BY <2>0
    <2>3. event[c] # "deleted" => output'[c] = output[c] + 1
      BY <1>3 DEF ScriptWrites, Closed, TypeOK
    <2>4. process[c] = "running" /\ ~At(c, "readToEnd")
      BY <2>1 DEF At
    <2>5. event[c] = "cgiwrite" =>
            /\ output'[c] = Done(Program(c), pc'[c], "write")
            /\ input[c] + left[c] + Done(Program(c), pc'[c], "read")
                 = request[c].body
      <3> SUFFICES ASSUME event[c] = "cgiwrite"
                   PROVE  /\ output'[c] = Done(Program(c), pc'[c], "write")
                          /\ input[c] + left[c] + Done(Program(c), pc'[c], "read")
                               = request[c].body
        OBVIOUS
      <3>1. /\ output[c] = Done(Program(c), pc[c], "write")
            /\ input[c] + left[c] + Done(Program(c), pc[c], "read") = request[c].body
        BY <2>4 DEF Balance
      <3>2. output'[c] = output[c] + 1
        BY <2>3
      <3> QED BY <2>2, <3>1, <3>2
    <2>6. Balance(c)'
      BY <1>3, <2>2, <2>5 DEF ScriptWrites, Balance
    <2>7. Fate(c)'
      BY <1>3, <2>2, <2>4 DEF ScriptWrites, Fate
    <2> QED BY <2>6, <2>7
  <1>4. CASE ScriptCloses(c)
    <2>1. process[c] = "running" /\ process'[c] = "closing"
      BY <1>4 DEF ScriptCloses, TypeOK
    <2> QED BY <1>4, <2>1 DEF ScriptCloses, Balance, Fate, Program
  <1>5. CASE ScriptExits(c)
    <2>1. process[c] = "closing" /\ process'[c] = "zombie"
      BY <1>5 DEF ScriptExits, TypeOK
    <2> QED BY <1>5, <2>1 DEF ScriptExits, Balance, Fate, Program
  <1> QED BY <1>1, <1>2, <1>3, <1>4, <1>5 DEF Script

LEMMA NextKeepsIInv == IInv /\ [Next]_vars => IInv'
  <1> SUFFICES ASSUME IInv, [Next]_vars PROVE IInv'
    OBVIOUS
  <1>1. TypeOK /\ \A d \in Conn : Balance(d) /\ Fate(d)
    BY DEF IInv
  <1>2. ASSUME NEW c \in Conn, Serve(c) PROVE IInv'
    <2>1. TypeOK'
      BY <1>1, <1>2, ServeKeepsTypes
    <2>2. ASSUME NEW d \in Conn PROVE Balance(d)' /\ Fate(d)'
      <3>1. CASE d = c
        BY <1>1, <1>2, <3>1, ServeKeepsOwn
      <3>2. CASE d # c
        BY <1>1, <1>2, <3>2, ServeLeavesOthers, SameKeeps
      <3> QED BY <3>1, <3>2
    <2> QED BY <2>1, <2>2 DEF IInv
  <1>3. ASSUME NEW c \in Conn, Script(c) PROVE IInv'
    <2>1. TypeOK'
      BY <1>1, <1>3, ScriptKeepsTypes
    <2>2. ASSUME NEW d \in Conn PROVE Balance(d)' /\ Fate(d)'
      <3>1. CASE d = c
        BY <1>1, <1>3, <3>1, ScriptKeepsOwn
      <3>2. CASE d # c
        BY <1>1, <1>3, <3>2, ScriptLeavesOthers, SameKeeps
      <3> QED BY <3>1, <3>2
    <2> QED BY <2>1, <2>2 DEF IInv
  <1>4. CASE UNCHANGED vars
    <2>1. TypeOK'
      BY <1>1, <1>4 DEF vars, serverVars, scriptVars, TypeOK
    <2>2. ASSUME NEW d \in Conn PROVE Balance(d)' /\ Fate(d)'
      <3>1. Same(d)
        BY <1>4 DEF vars, serverVars, scriptVars, Same
      <3> QED BY <1>1, <3>1, SameKeeps
    <2> QED BY <2>1, <2>2 DEF IInv
  <1> QED BY <1>2, <1>3, <1>4 DEF Next

\* The inductive invariant holds throughout.
THEOREM Invariance == Spec => []IInv
  BY InitEstablishes, NextKeepsIInv, PTL DEF Spec

-----------------------------------------------------------------------------
(* What follows from it.                                                    *)

\* The variables keep their types.
THEOREM TypeCorrect == Spec => []TypeOK
  <1>1. IInv => TypeOK
    BY DEF IInv
  <1> QED BY <1>1, Invariance, PTL

\* The server is blocked for ever only by a script that writes more than a
\* buffer before it has read all but a buffer of its input (CgiWrite::Do).
THEOREM OnlyGreedyBlocks == Spec => []BlockedByGreedy
  <1>1. IInv => BlockedByGreedy
    <2> SUFFICES ASSUME IInv, NEW c \in Conn, Blocked(c) PROVE Greedy(c)
      BY DEF BlockedByGreedy
    <2>1. TypeOK /\ Balance(c)
      BY DEF IInv
    <2>2. /\ server = c /\ left[c] > 0 /\ input[c] = Capacity
          /\ At(c, "write") /\ output[c] = Capacity
      BY DEF Blocked
    <2>3. /\ process[c] = "running" /\ ~At(c, "readToEnd")
          /\ Program(c)[pc[c] + 1] = "write" /\ pc[c] < Len(Program(c))
      BY <2>2 DEF At
    <2>4. event[c] = "cgiwrite"
      BY <2>1, <2>2 DEF Balance
    <2>5. /\ Done(Program(c), pc[c], "readToEnd") = 0
          /\ output[c] = Done(Program(c), pc[c], "write")
          /\ input[c] + left[c] + Done(Program(c), pc[c], "read") = request[c].body
      BY <2>1, <2>3, <2>4 DEF Balance
    <2>6. /\ pc[c] \in Nat /\ left[c] \in Nat /\ Capacity \in Nat
          /\ Len(Program(c)) \in Nat /\ request[c].body \in Nat
      BY <2>1, RequestTyped, CgiProcessAssumption DEF TypeOK
    <2>7. Done(Program(c), pc[c], "read") \in Nat
      BY <2>6, DoneNat
    <2>8. Done(Program(c), pc[c], "read") + Capacity < request[c].body
      BY <2>2, <2>5, <2>6, <2>7
    <2>9. pc[c] \in 0..Len(Program(c)) - 1
      BY <2>3, <2>6
    <2>10. Done(Program(c), pc[c], "write") >= Capacity
      BY <2>2, <2>5, <2>6
    <2> QED BY <2>3, <2>5, <2>8, <2>9, <2>10 DEF Greedy
  <1> QED BY <1>1, Invariance, PTL

\* A reply is finished only when the output of its script is taken whole
\* (CgiRead::State, CgiResponse::State).
THEOREM RepliesTakenWhole == Spec => []TakenWhole
  <1>1. IInv => TakenWhole
    BY DEF IInv, Fate, TakenWhole
  <1> QED BY <1>1, Invariance, PTL

\* A script with a valid header is killed only when it has closed its output
\* and not yet exited (Socket::~Socket, Socket::CgiFinished).
THEOREM KilledAtTheEnd == Spec => KilledWhileClosing
  <1> DEFINE Step == \A c \in Conn : killed'[c] /\ ~killed[c] /\ ~request[c].bad =>
                       process[c] = "closing"
  <1>1. IInv /\ [Next]_vars => [Step]_vars
    <2> SUFFICES ASSUME IInv, Next, NEW d \in Conn,
                        killed'[d], ~killed[d], ~request[d].bad
                 PROVE  process[d] = "closing"
      BY DEF vars
    <2>1. TypeOK /\ Fate(d)
      BY DEF IInv
    <2>2. PICK c \in Conn : Serve(c) \/ Script(c)
      BY DEF Next
    <2>3. c = d
      <3> SUFFICES ASSUME c # d PROVE FALSE
        OBVIOUS
      <3>1. Same(d)
        BY <2>1, <2>2, ServeLeavesOthers, ScriptLeavesOthers
      <3> QED BY <3>1 DEF Same
    <2>4. FinishReply(d) /\ process[d] # "zombie"
      BY <2>2, <2>3 DEF Serve, StartWrite, Copy, EndWrite, ReadOutput, ReadEnd,
         FinishReply, Script, ScriptReads, ScriptReadsToEnd, ScriptWrites,
         ScriptCloses, ScriptExits, serverVars
    <2>5. event[d] = "reply"
      BY <2>4 DEF FinishReply
    <2> QED BY <2>1, <2>4, <2>5 DEF Fate, TypeOK
  <1> QED BY <1>1, Invariance, PTL DEF Spec, KilledWhileClosing

=============================================================================
