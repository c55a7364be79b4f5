----------------------------- MODULE CgiProcess -----------------------------
(***************************************************************************)
(* The server and the scripts of its connections as processes, joined by a *)
(* socket pair each: two kernel buffers of bounded size.  The descriptors  *)
(* are left blocking (Cgi::SetSockopt is called by nobody), so a write of  *)
(* the server to a script holds up the only thread there is.               *)
(*                                                                         *)
(* A script is a program: it reads or writes a byte, or reads its input to *)
(* the end.  One byte stands for any share of a buffer.  Clients take      *)
(* their replies; what a reply consists of is the subject of CgiRelay.     *)
(* Operators named Faulty... are the definition below them with a          *)
(* plausible bug; no specification uses them.                              *)
(***************************************************************************)
EXTENDS Naturals, Sequences, FiniteSets

CONSTANTS
  Conn,       \* connections, each with one script
  Requests,   \* what the connections ask for and what their scripts do
  Capacity    \* of a kernel buffer

Ops == {"read", "write", "readToEnd"}

\* redirected: the script was started by a local redirect.  bad: its output
\* begins with no valid header.
RequestSet == [body : Nat, redirected : BOOLEAN, bad : BOOLEAN, program : Seq(Ops)]

ASSUME CgiProcessAssumption ==
  /\ "loop" \notin Conn
  /\ Requests \subseteq RequestSet
  /\ Capacity \in Nat \ {0}

VARIABLES
  request,    \* request[c]
  event,      \* event[c] : the event object that works for c
  left,       \* left[c] : bytes of the request's body its Sender has left
  server,     \* "loop", or the connection whose write the thread is in
  input,      \* input[c] : bytes in the buffer to the script of c
  output,     \* output[c] : bytes in the buffer from it
  pc,         \* pc[c] : how many operations the script has done
  process,    \* process[c] : "closing" has closed its descriptors
  killed      \* killed[c] : it was sent SIGTERM

serverVars == <<event, left, server, killed>>
scriptVars == <<pc, process>>
vars == <<request, serverVars, scriptVars, input, output>>

TypeOK ==
  /\ request \in [Conn -> RequestSet]
  /\ event \in [Conn -> {"cgiwrite", "cgiread", "reply", "deleted"}]
  /\ left \in [Conn -> Nat]
  /\ server \in Conn \cup {"loop"}
  /\ input \in [Conn -> 0..Capacity]
  /\ output \in [Conn -> 0..Capacity]
  /\ pc \in [Conn -> Nat]
  /\ process \in [Conn -> {"running", "closing", "zombie", "reaped"}]
  /\ killed \in [Conn -> BOOLEAN]

Program(c) == request[c].program

\* PrepareNextEventProcess has forked: a CgiWrite feeds the script if the
\* request has a body.
Init ==
  /\ request \in [Conn -> Requests]
  /\ event = [c \in Conn |-> IF request[c].body = 0 THEN "cgiread" ELSE "cgiwrite"]
  /\ left = [c \in Conn |-> request[c].body]
  /\ server = "loop"
  /\ input = [c \in Conn |-> 0]
  /\ output = [c \in Conn |-> 0]
  /\ pc = [c \in Conn |-> 0]
  /\ process = [c \in Conn |-> "running"]
  /\ killed = [c \in Conn |-> FALSE]

-----------------------------------------------------------------------------
(* The server *)

\* The script's end of the pair is closed: EPOLLHUP.
Hung(c) == process[c] # "running"

\* What the CgiWrite is registered for: EPOLLOUT, or, after a local redirect,
\* EPOLLIN.
Reported(c) ==
  Hung(c) \/ IF request[c].redirected THEN output[c] > 0 ELSE input[c] < Capacity

StartWrite(c) ==
  /\ server = "loop"
  /\ event[c] = "cgiwrite"
  /\ Reported(c)
  /\ server' = c
  /\ UNCHANGED <<request, event, left, killed, scriptVars, input, output>>

\* The write puts a byte into the buffer as soon as there is room.
Copy(c) ==
  /\ server = c
  /\ ~Hung(c)
  /\ left[c] > 0
  /\ input[c] < Capacity
  /\ left' = [left EXCEPT ![c] = @ - 1]
  /\ input' = [input EXCEPT ![c] = @ + 1]
  /\ UNCHANGED <<request, event, server, killed, scriptVars, output>>

\* Fault: the Sender is filled again at every dispatch.
FaultyEndWrite(c) ==
  /\ server = c
  /\ left[c] = 0 \/ Hung(c)
  /\ server' = "loop"
  /\ \/ event' = [event EXCEPT ![c] = "cgiread"] /\ UNCHANGED left
     \/ left' = [left EXCEPT ![c] = request[c].body] /\ UNCHANGED event
  /\ UNCHANGED <<request, killed, scriptVars, input, output>>

\* Fault: the error of a write is not looked at.
FaultyIgnoredError(c) ==
  /\ server = c
  /\ left[c] = 0 \/ Hung(c)
  /\ server' = "loop"
  /\ event' = IF left[c] = 0 THEN [event EXCEPT ![c] = "cgiread"] ELSE event
  /\ UNCHANGED <<request, left, killed, scriptVars, input, output>>

\* All is written, or the script is gone (EPIPE): the CgiRead takes over.
EndWrite(c) ==
  /\ server = c
  /\ left[c] = 0 \/ Hung(c)
  /\ server' = "loop"
  /\ event' = [event EXCEPT ![c] = "cgiread"]
  /\ UNCHANGED <<request, left, killed, scriptVars, input, output>>

\* Fault: the first read is taken for all of the output.
FaultyReadOutput(c) ==
  /\ server = "loop"
  /\ event[c] = "cgiread"
  /\ output[c] > 0
  /\ output' = [output EXCEPT ![c] = 0]
  /\ event' = [event EXCEPT ![c] = "reply"]
  /\ UNCHANGED <<request, left, server, killed, scriptVars, input>>

\* A bad header ends the CgiRead; an error page is the reply.
ReadOutput(c) ==
  /\ server = "loop"
  /\ event[c] = "cgiread"
  /\ output[c] > 0
  /\ output' = [output EXCEPT ![c] = 0]
  /\ event' = IF request[c].bad THEN [event EXCEPT ![c] = "reply"] ELSE event
  /\ UNCHANGED <<request, left, server, killed, scriptVars, input>>

\* The end of the output.
ReadEnd(c) ==
  /\ server = "loop"
  /\ event[c] = "cgiread"
  /\ output[c] = 0
  /\ Hung(c)
  /\ event' = [event EXCEPT ![c] = "reply"]
  /\ UNCHANGED <<request, left, server, killed, scriptVars, input, output>>

\* The reply is sent and deletes the Socket: waitpid without waiting, and
\* SIGTERM for a script that has not exited.
FinishReply(c) ==
  /\ server = "loop"
  /\ event[c] = "reply"
  /\ event' = [event EXCEPT ![c] = "deleted"]
  /\ IF process[c] = "zombie"
       THEN process' = [process EXCEPT ![c] = "reaped"] /\ UNCHANGED killed
       ELSE killed' = [killed EXCEPT ![c] = TRUE] /\ UNCHANGED process
  /\ UNCHANGED <<request, left, server, pc, input, output>>

Serve(c) == StartWrite(c) \/ Copy(c) \/ EndWrite(c) \/ ReadOutput(c)
              \/ ReadEnd(c) \/ FinishReply(c)

-----------------------------------------------------------------------------
(* The scripts *)

At(c, op) == process[c] = "running" /\ pc[c] < Len(Program(c))
               /\ Program(c)[pc[c] + 1] = op

Advance(c) == pc' = [pc EXCEPT ![c] = @ + 1]

\* The server's end of the pair is closed with the Socket, never before; a
\* copy of it that a later script inherited changes nothing for a script that
\* SIGTERM ends.
Closed(c) == event[c] = "deleted"

ScriptReads(c) ==
  /\ At(c, "read")
  /\ \/ input[c] > 0 /\ input' = [input EXCEPT ![c] = @ - 1]
     \/ input[c] = 0 /\ Closed(c) /\ UNCHANGED input
  /\ Advance(c)
  /\ UNCHANGED <<request, serverVars, process, output>>

ScriptReadsToEnd(c) ==
  /\ At(c, "readToEnd")
  /\ \/ input[c] > 0 /\ input' = [input EXCEPT ![c] = @ - 1] /\ UNCHANGED pc
     \/ input[c] = 0 /\ Closed(c) /\ Advance(c) /\ UNCHANGED input
  /\ UNCHANGED <<request, serverVars, process, output>>

\* SIGPIPE is ignored, by the script as well: a write to a closed pair fails.
ScriptWrites(c) ==
  /\ At(c, "write")
  /\ \/ ~Closed(c) /\ output[c] < Capacity /\ output' = [output EXCEPT ![c] = @ + 1]
     \/ Closed(c) /\ UNCHANGED output
  /\ Advance(c)
  /\ UNCHANGED <<request, serverVars, process, input>>

\* Exiting closes the descriptors before the process can be waited for.
ScriptCloses(c) ==
  /\ process[c] = "running"
  /\ pc[c] = Len(Program(c)) \/ killed[c]
  /\ process' = [process EXCEPT ![c] = "closing"]
  /\ UNCHANGED <<request, serverVars, pc, input, output>>

ScriptExits(c) ==
  /\ process[c] = "closing"
  /\ process' = [process EXCEPT ![c] = "zombie"]
  /\ UNCHANGED <<request, serverVars, pc, input, output>>

Script(c) == ScriptReads(c) \/ ScriptReadsToEnd(c) \/ ScriptWrites(c)
               \/ ScriptCloses(c) \/ ScriptExits(c)

Next == \E c \in Conn : Serve(c) \/ Script(c)

Spec == Init /\ [][Next]_vars

(* epoll reports again what is not dealt with, and the kernel schedules     *)
(* every process.                                                           *)
FairSpec == Spec /\ \A c \in Conn : WF_vars(Serve(c)) /\ WF_vars(Script(c))

-----------------------------------------------------------------------------
(* Properties *)

\* The server writes to a script that writes to the server.
Blocked(c) ==
  server = c /\ left[c] > 0 /\ input[c] = Capacity /\ ~killed[c]
    /\ At(c, "write") /\ output[c] = Capacity

\* A script that reads its input to the end: no end comes before the Socket
\* is deleted.
AwaitsEnd(c) ==
  event[c] = "cgiread" /\ At(c, "readToEnd") /\ input[c] = 0 /\ output[c] = 0

\* The body is written only after the script has answered, and the script
\* answers only after it has read.
AwaitsDispatch(c) ==
  event[c] = "cgiwrite" /\ request[c].redirected /\ input[c] = 0
    /\ output[c] = 0 /\ (At(c, "read") \/ At(c, "readToEnd"))

Waits(c) == AwaitsEnd(c) \/ AwaitsDispatch(c) \/ \E d \in Conn : Blocked(d)

\* How many of the first k operations of a program are op.
Done(p, k, op) == Cardinality({i \in 1..k : p[i] = op})

\* A script that wants to write more than a buffer before it has read all
\* but a buffer of its input.
Greedy(c) ==
  \E k \in 0..Len(Program(c)) - 1 :
    /\ Program(c)[k + 1] = "write"
    /\ Done(Program(c), k, "write") >= Capacity
    /\ Done(Program(c), k, "readToEnd") = 0
    /\ Done(Program(c), k, "read") + Capacity < request[c].body

(* The one thread is blocked for ever only by a greedy script: one that     *)
(* reads its input first, or writes no more than a buffer holds, never      *)
(* stops the server (CgiWrite::Do, Sender::Send).                           *)
BlockedByGreedy == \A c \in Conn : Blocked(c) => Greedy(c)

(* A reply is finished only when the script's output is taken whole: it     *)
(* did all it wanted to and nothing is left in the pair (CgiRead::State,    *)
(* CgiResponse::State).  The reply to a bad header is the exception.        *)
TakenWhole ==
  \A c \in Conn : event[c] \in {"reply", "deleted"} /\ ~request[c].bad =>
    pc[c] = Len(Program(c)) /\ output[c] = 0

(* A script is killed at work only if its header is bad.  Any other script  *)
(* that is killed has closed its output but not exited: it is not waited    *)
(* for again and stays a zombie (Socket::~Socket, Socket::CgiFinished).     *)
KilledWhileClosing ==
  [][\A c \in Conn : killed'[c] /\ ~killed[c] /\ ~request[c].bad =>
       process[c] = "closing"]_vars

(* Every connection is served to its end and its script is gone, unless it  *)
(* comes to one of the three circular waits above, which nothing resolves:  *)
(* there is no timeout (Server.cpp:86).                                     *)
Served(c) == event[c] = "deleted" /\ process[c] \in {"zombie", "reaped"}

ServedOrWaits == \A c \in Conn : <>Served(c) \/ <>[]Waits(c)

=============================================================================
