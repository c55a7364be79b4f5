-------------------------- MODULE EventLoop_proofs --------------------------
(***************************************************************************)
(* Proofs about the event loop for every set of connections, descriptors   *)
(* and scripts.                                                            *)
(*                                                                         *)
(* The first part holds whatever the scripts answer and even if            *)
(* registering an event fails.  The second is about who works for a        *)
(* connection: as long as no registration fails, exactly one event object  *)
(* brings each connection forward, the ones that outlive their Socket are  *)
(* those of redirects, and the loop implements Lifecycle, for every kind   *)
(* of answer.  While, besides, the scripts answer with documents only, the *)
(* epoll set and the event map agree, no dispatch disturbs another report  *)
(* of the same epoll_wait, and the loop never dereferences NULL or a       *)
(* deleted Socket.                                                         *)
(***************************************************************************)
EXTENDS EventLoop, FiniteSetTheorems, TLAPS

\* Replacing an entry of a sequence by a value of its elements' set.
LEMMA ExceptSeq ==
  ASSUME NEW S, NEW s \in Seq(S), NEW i, NEW v,
         i \in DOMAIN s => v \in S
  PROVE  [s EXCEPT ![i] = v] \in Seq(S)
  <1>1. /\ s \in [1..Len(s) -> S]
        /\ Len(s) \in Nat
    OBVIOUS
  <1>2. [s EXCEPT ![i] = v] = [j \in 1..Len(s) |-> IF j = i THEN v ELSE s[j]]
    BY <1>1
  <1>3. \A j \in 1..Len(s) : (IF j = i THEN v ELSE s[j]) \in S
    BY <1>1
  <1>4. [s EXCEPT ![i] = v] \in [1..Len(s) -> S]
    BY <1>2, <1>3
  <1> QED BY <1>1, <1>4

\* Storing a read size, or a size and a verdict, in an entry of a cgi_res
\* vector leaves a cgi_res vector.
LEMMA SizeKeepsScripts ==
  ASSUME NEW s \in Seq(Scripts), NEW i,
         NEW size \in {"unset", "data", "eof", "error"}
  PROVE  [s EXCEPT ![i].size = size] \in Seq(Scripts)
  <1> DEFINE v == [s[i] EXCEPT !.size = size]
  <1>1. ASSUME i \in DOMAIN s PROVE v \in Scripts
    <2>1. s[i] \in Scripts
      BY <1>1
    <2> QED BY <2>1 DEF Scripts
  <1> HIDE DEF v
  <1>2. [s EXCEPT ![i] = v] \in Seq(Scripts)
    BY <1>1, ExceptSeq
  <1> QED BY <1>2 DEF v

LEMMA VerdictKeepsScripts ==
  ASSUME NEW s \in Seq(Scripts), NEW i,
         NEW size \in {"unset", "data", "eof", "error"},
         NEW t \in Types \cup {"undetermined"}
  PROVE  [s EXCEPT ![i].size = size, ![i].type = t] \in Seq(Scripts)
  <1> DEFINE v == [s[i] EXCEPT !.size = size, !.type = t]
  <1>1. ASSUME i \in DOMAIN s PROVE v \in Scripts
    <2>1. s[i] \in Scripts
      BY <1>1
    <2> QED BY <2>1 DEF Scripts
  <1> HIDE DEF v
  <1>2. [s EXCEPT ![i] = v] \in Seq(Scripts)
    BY <1>1, ExceptSeq
  <1>3. [s EXCEPT ![i].size = size, ![i].type = t] = [s EXCEPT ![i] = v]
    BY DEF v
  <1> QED BY <1>2, <1>3

\* A report taken by epoll_wait is a sequence of descriptors.
LEMMA ReportsAreSequences ==
  ASSUME NEW b \in Reports
  PROVE  b \in Seq(AllFd)
  BY DEF Reports, Registered, AllFd

-----------------------------------------------------------------------------
(* The inductive invariant.  OwnersLive alone is not inductive: a receive    *)
(* event turns into a reply, and a Socket is deleted by whichever event      *)
(* drops it, so the invariant also says where receive events sit and that    *)
(* no event points to a Socket yet to be made.                               *)

\* The event e under descriptor f agrees with the Sockets s.
Fits(f, e, s) ==
  /\ e.kind \in Kinds \ {"listen"} => e.conn \in Conn
  /\ e.conn \in Conn => s[e.conn].st # "unborn"
  /\ e.kind = "receive" /\ s[e.conn].st = "live" => s[e.conn].fd = f
  /\ e.kind \in Replies => s[e.conn].st = "live" /\ s[e.conn].fd = f

AllFit == \A f \in AllFd : Fits(f, events[f], sock)

IInv == TypeOK /\ AllFit

LEMMA EventIsTyped ==
  ASSUME NEW k \in Kinds, NEW c \in Conn, NEW i \in Nat
  PROVE  /\ Event(k, c, i) \in Events
         /\ Event(k, c, i).kind = k
         /\ Event(k, c, i).conn = c
  BY DEF Event, Events

LEMMA NoEventFits ==
  /\ NoEvent \in Events
  /\ \A f, s : Fits(f, NoEvent, s)
  BY ConstantAssumption DEF NoEvent, Event, Events, Fits, Kinds, Replies

\* Events fit as before when no Socket is made or deleted.
LEMMA FitsFrame ==
  ASSUME NEW f, NEW e \in Events, NEW s, NEW t, Fits(f, e, s),
         \A c \in Conn : t[c].st = s[c].st /\ t[c].fd = s[c].fd
  PROVE  Fits(f, e, t)
  BY DEF Fits, Kinds, Replies

\* Deleting a Socket leaves every event fitting but its owner, which sits at
\* the Socket's descriptor.
LEMMA FitsFreed ==
  ASSUME NEW f, NEW e \in Events, NEW s \in [Conn -> Sockets], NEW c \in Conn,
         Fits(f, e, s), s[c].fd # f
  PROVE  Fits(f, e, [s EXCEPT ![c].st = "freed"])
  BY DEF Fits, Kinds, Replies, Sockets

\* So does making one, which no event can point to before.
LEMMA FitsBorn ==
  ASSUME NEW f, NEW e \in Events, NEW s \in [Conn -> Sockets], NEW c \in Conn,
         Fits(f, e, s), s[c].st = "unborn", NEW g
  PROVE  Fits(f, e, [s EXCEPT ![c].st = "live", ![c].fd = g])
  BY DEF Fits, Kinds, Replies, Sockets

\* Making a Socket, deleting one and noting whether its request has a body
\* keep the Sockets well-formed.
LEMMA SocketBorn ==
  ASSUME NEW s \in [Conn -> Sockets], NEW c \in Conn, NEW g \in Fd
  PROVE  [s EXCEPT ![c].st = "live", ![c].fd = g] \in [Conn -> Sockets]
  <1> DEFINE v == [s[c] EXCEPT !.st = "live", !.fd = g]
  <1>1. s[c] \in Sockets
    OBVIOUS
  <1>2. v \in Sockets
    BY <1>1 DEF Sockets, AllFd
  <1> HIDE DEF v
  <1>3. [s EXCEPT ![c] = v] \in [Conn -> Sockets]
    BY <1>2
  <1>4. [s EXCEPT ![c].st = "live", ![c].fd = g] = [s EXCEPT ![c] = v]
    BY DEF v
  <1> QED BY <1>3, <1>4

LEMMA SocketFreed ==
  ASSUME NEW s \in [Conn -> Sockets], NEW c \in Conn
  PROVE  [s EXCEPT ![c].st = "freed"] \in [Conn -> Sockets]
  <1> DEFINE v == [s[c] EXCEPT !.st = "freed"]
  <1>1. s[c] \in Sockets
    OBVIOUS
  <1>2. v \in Sockets
    BY <1>1 DEF Sockets
  <1> HIDE DEF v
  <1>3. [s EXCEPT ![c] = v] \in [Conn -> Sockets]
    BY <1>2
  <1> QED BY <1>3 DEF v

LEMMA SocketRead ==
  ASSUME NEW s \in [Conn -> Sockets], NEW c \in Conn, NEW body \in BOOLEAN
  PROVE  /\ [s EXCEPT ![c].body = body] \in [Conn -> Sockets]
         /\ \A d \in Conn : /\ [s EXCEPT ![c].body = body][d].st = s[d].st
                           /\ [s EXCEPT ![c].body = body][d].fd = s[d].fd
  <1> DEFINE v == [s[c] EXCEPT !.body = body]
  <1>1. s[c] \in Sockets
    OBVIOUS
  <1>2. v \in Sockets /\ v.st = s[c].st /\ v.fd = s[c].fd
    BY <1>1 DEF Sockets
  <1> HIDE DEF v
  <1>3. /\ [s EXCEPT ![c] = v] \in [Conn -> Sockets]
        /\ \A d \in Conn : /\ [s EXCEPT ![c] = v][d].st = s[d].st
                          /\ [s EXCEPT ![c] = v][d].fd = s[d].fd
    BY <1>2
  <1> QED BY <1>3 DEF v

\* A dispatch takes one report off the batch and finds a live Socket.
LEMMA DispatchFacts ==
  ASSUME IInv, NEW f, NEW k, Dispatch(f, k)
  PROVE  /\ f \in AllFd
         /\ batch' \in Seq(AllFd)
         /\ events[f] \in Events
         /\ events[f].kind = k
         /\ k \in Kinds \ {"listen"} => /\ events[f].conn \in Conn
                                        /\ sock[events[f].conn].st = "live"
         /\ k \in Replies \cup {"receive"} => sock[events[f].conn].fd = f
  <1>1. f \in AllFd /\ batch' \in Seq(AllFd)
    BY DEF IInv, TypeOK, Dispatch
  <1>2. /\ events[f] \in Events
        /\ events[f].kind = k
        /\ events[f].conn \in Conn => sock[events[f].conn].st = "live"
        /\ Fits(f, events[f], sock)
    BY <1>1 DEF IInv, AllFit, TypeOK, Dispatch, Live
  <1> QED BY <1>1, <1>2 DEF Fits, Kinds, Replies

LEMMA InitIInv == Init => IInv
  <1> SUFFICES ASSUME Init PROVE IInv
    OBVIOUS
  <1>1. TypeOK
    BY DEF Init, TypeOK, Sockets, Events, Event, NoEvent, Kinds
  <1>2. ASSUME NEW f \in AllFd PROVE Fits(f, events[f], sock)
    BY ConstantAssumption
    DEF Init, Fits, Event, NoEvent, Kinds, Replies
  <1> QED BY <1>1, <1>2 DEF IInv, AllFit

-----------------------------------------------------------------------------
(* One lemma per group of handlers. *)

LEMMA WaitIInv == IInv /\ Wait => IInv'
  <1> SUFFICES ASSUME IInv, Wait PROVE IInv'
    OBVIOUS
  <1>1. batch' \in Seq(AllFd)
    BY ReportsAreSequences DEF Wait
  <1>2. TypeOK'
    BY <1>1 DEF Wait, IInv, TypeOK
  <1>3. AllFit'
    BY DEF Wait, IInv, AllFit
  <1> QED BY <1>2, <1>3 DEF IInv

LEMMA AcceptIInv ==
  ASSUME IInv, NEW f \in AllFd, Accept(f)
  PROVE  IInv'
  <1>0. /\ batch' \in Seq(AllFd)
        /\ UNCHANGED <<cgi, status>>
    BY DispatchFacts DEF Accept
  <1>1. PICK c \in Conn, g \in Fd :
          /\ sock[c].st = "unborn"
          /\ sock' = [sock EXCEPT ![c].st = "live", ![c].fd = g]
          /\ \/ /\ events' = [events EXCEPT ![g] = Event("receive", c, 0)]
                /\ interest' = [interest EXCEPT ![g] = "in"]
             \/ /\ events' = [events EXCEPT ![g] = NoEvent]
                /\ UNCHANGED interest
    BY DEF Accept
  <1>2. Event("receive", c, 0) \in Events
    BY EventIsTyped DEF Kinds
  <1>3. sock' \in [Conn -> Sockets]
    <2>1. sock \in [Conn -> Sockets]
      BY DEF IInv, TypeOK
    <2> QED BY <1>1, <2>1, SocketBorn
  <1>4. TypeOK'
    BY <1>0, <1>1, <1>2, <1>3, NoEventFits DEF IInv, TypeOK, AllFd
  <1>5. ASSUME NEW h \in AllFd PROVE Fits(h, events'[h], sock')
    <2>1. Fits(h, events[h], sock')
      BY <1>1, FitsBorn DEF IInv, TypeOK, AllFit
    <2>2. /\ sock'[c].st = "live"
          /\ sock'[c].fd = g
      <3>1. sock[c] \in Sockets /\ sock \in [Conn -> Sockets]
        BY DEF IInv, TypeOK
      <3> QED BY <1>1, <3>1 DEF Sockets
    <2>3. Fits(g, Event("receive", c, 0), sock')
      BY <2>2 DEF Event, Fits, Kinds, Replies
    <2>4. events \in [AllFd -> Events]
      BY DEF IInv, TypeOK
    <2> QED BY <1>1, <2>1, <2>3, <2>4, NoEventFits
  <1> QED BY <1>4, <1>5 DEF IInv, AllFit

\* The dispatches that change nothing but the batch, and the status perhaps.
LEMMA QuietIInv ==
  ASSUME IInv, NEW f \in AllFd,
         \/ AcceptFails(f) \/ ReceiveAgain(f) \/ ResponseMore(f)
         \/ CgiResponseMore(f) \/ CgiWriteMore(f) \/ ReceiveAborts(f)
         \/ DispatchUndefined(f)
  PROVE  IInv'
  <1>1. \/ \E k : Dispatch(f, k)
        \/ batch # <<>> /\ batch' = Tail(batch)
    BY DEF AcceptFails, ReceiveAgain, ResponseMore, CgiResponseMore, ReplyMore,
       CgiWriteMore, ReceiveAborts, DispatchUndefined
  <1>2. batch' \in Seq(AllFd)
    <2>1. ASSUME NEW k, Dispatch(f, k) PROVE batch' \in Seq(AllFd)
      BY <2>1, DispatchFacts
    <2>2. batch # <<>> /\ batch' = Tail(batch) => batch' \in Seq(AllFd)
      BY DEF IInv, TypeOK
    <2> QED BY <1>1, <2>1, <2>2
  <1>3. /\ UNCHANGED <<sock, cgi, events, interest>>
        /\ status' \in {status, "aborted", "undefined"}
    BY DEF AcceptFails, ReceiveAgain, ResponseMore, CgiResponseMore, ReplyMore,
       CgiWriteMore, ReceiveAborts, DispatchUndefined
  <1>4. TypeOK'
    BY <1>2, <1>3 DEF IInv, TypeOK
  <1>5. AllFit'
    BY <1>3 DEF IInv, AllFit
  <1> QED BY <1>4, <1>5 DEF IInv

\* The dispatches that delete the Socket together with their own event.
LEMMA DeleteIInv ==
  ASSUME IInv, NEW f \in AllFd,
         ReceiveDisconnect(f) \/ ResponseDone(f) \/ CgiResponseDone(f)
  PROVE  IInv'
  <1> DEFINE c == events[f].conn
  <1>1. /\ \E k \in Replies \cup {"receive"} : Dispatch(f, k)
        /\ sock' = [sock EXCEPT ![c].st = "freed"]
        /\ events' = [events EXCEPT ![f] = NoEvent]
        /\ interest' = Closed(c, [interest EXCEPT ![f] = "off"])
        /\ UNCHANGED <<cgi, status>>
    BY DEF ReceiveDisconnect, ResponseDone, CgiResponseDone, ReplyDone, Freed,
       Replies
  <1>2. /\ batch' \in Seq(AllFd)
        /\ c \in Conn
        /\ sock[c].fd = f
    BY <1>1, DispatchFacts DEF Replies, Kinds
  <1> HIDE DEF c
  <1>3. sock' \in [Conn -> Sockets]
    <2>1. sock \in [Conn -> Sockets]
      BY DEF IInv, TypeOK
    <2> QED BY <1>1, <1>2, <2>1, SocketFreed
  <1>4. interest' \in [AllFd -> {"off", "in", "out"}]
    BY <1>1 DEF IInv, TypeOK, Closed
  <1>5. TypeOK'
    BY <1>1, <1>2, <1>3, <1>4, NoEventFits DEF IInv, TypeOK
  <1>6. ASSUME NEW h \in AllFd PROVE Fits(h, events'[h], sock')
    <2>1. CASE h = f
      BY <1>1, <2>1, NoEventFits DEF IInv, TypeOK
    <2>2. CASE h # f
      <3>1. Fits(h, events[h], sock')
        BY <1>1, <1>2, <2>2, FitsFreed DEF IInv, TypeOK, AllFit
      <3> QED BY <1>1, <2>2, <3>1 DEF IInv, TypeOK
    <2> QED BY <2>1, <2>2
  <1> QED BY <1>5, <1>6 DEF IInv, AllFit

LEMMA ReceiveRepliesIInv ==
  ASSUME IInv, NEW f \in AllFd, ReceiveReplies(f)
  PROVE  IInv'
  <1> DEFINE c == events[f].conn
  <1>1. /\ Dispatch(f, "receive")
        /\ sock' = [sock EXCEPT ![c].code = TRUE]
        /\ events' = [events EXCEPT ![f] = Event("response", c, 0)]
        /\ interest' = [interest EXCEPT ![f] = "out"]
        /\ UNCHANGED <<cgi, status>>
    BY DEF ReceiveReplies
  <1>2. /\ batch' \in Seq(AllFd)
        /\ c \in Conn
        /\ sock[c].st = "live"
        /\ sock[c].fd = f
    BY <1>1, DispatchFacts DEF Replies, Kinds
  <1> HIDE DEF c
  <1>3. /\ Event("response", c, 0) \in Events
        /\ Event("response", c, 0).kind = "response"
        /\ Event("response", c, 0).conn = c
    BY <1>2, EventIsTyped DEF Kinds
  <1>4. /\ sock' \in [Conn -> Sockets]
        /\ \A d \in Conn : sock'[d].st = sock[d].st /\ sock'[d].fd = sock[d].fd
    BY <1>1, <1>2 DEF IInv, TypeOK, Sockets
  <1>5. TypeOK'
    BY <1>1, <1>2, <1>3, <1>4 DEF IInv, TypeOK
  <1>6. ASSUME NEW h \in AllFd PROVE Fits(h, events'[h], sock')
    <2>1. Fits(h, events[h], sock')
      BY <1>4, FitsFrame DEF IInv, TypeOK, AllFit
    <2>2. Fits(f, Event("response", c, 0), sock')
      BY <1>2, <1>3, <1>4 DEF Fits, Kinds, Replies
    <2> QED BY <1>1, <2>1, <2>2 DEF IInv, TypeOK
  <1> QED BY <1>5, <1>6 DEF IInv, AllFit

\* The event of a script fits anywhere, as long as its Socket is alive.
LEMMA ScriptEventFits ==
  ASSUME IInv, NEW c \in Conn, NEW body \in BOOLEAN, NEW s, s[c].st = "live",
         NEW g
  PROVE  /\ ScriptEvent(c, body) \in Events
         /\ Fits(g, ScriptEvent(c, body), s)
  <1>1. Len(cgi[c]) + 1 \in Nat
    BY DEF IInv, TypeOK
  <1>2. /\ ScriptEvent(c, body) \in Events
        /\ ScriptEvent(c, body).kind \in {"cgiread", "cgiwrite"}
        /\ ScriptEvent(c, body).conn = c
    BY <1>1, EventIsTyped DEF ScriptEvent, Kinds
  <1> QED BY <1>2 DEF Fits, Kinds, Replies

LEMMA NewScriptIsTyped ==
  ASSUME NEW g \in Fd
  PROVE  NewScript(g) \in Scripts
  BY DEF NewScript, Scripts, AllFd

\* An event that has published its successor fits where it fitted.
LEMMA PublishedFits ==
  ASSUME NEW f, NEW e \in Events, NEW s, Fits(f, e, s)
  PROVE  /\ [e EXCEPT !.published = TRUE] \in Events
         /\ Fits(f, [e EXCEPT !.published = TRUE], s)
  BY DEF Fits, Events

LEMMA ReceiveStartsScriptIInv ==
  ASSUME IInv, NEW f \in AllFd, ReceiveStartsScript(f)
  PROVE  IInv'
  <1> DEFINE c == events[f].conn
  <1>1. PICK g \in Fd, body \in BOOLEAN :
          /\ sock' = [sock EXCEPT ![c].body = body]
          /\ cgi' = [cgi EXCEPT ![c] = Append(@, NewScript(g))]
          /\ \/ /\ events' = [events EXCEPT ![g] = ScriptEvent(c, body),
                                            ![f] = NoEvent]
                /\ interest' = [interest EXCEPT
                                  ![g] = IF body THEN "out" ELSE "in",
                                  ![f] = "off"]
             \/ /\ events' = [events EXCEPT ![g] = NoEvent,
                                            ![f].published = TRUE]
                /\ interest' = [interest EXCEPT ![f] = "out"]
    BY DEF ReceiveStartsScript
  <1>2. /\ batch' \in Seq(AllFd)
        /\ c \in Conn
        /\ sock[c].st = "live"
        /\ UNCHANGED status
    BY DispatchFacts DEF ReceiveStartsScript, Kinds
  <1> HIDE DEF c
  <1>3. /\ sock' \in [Conn -> Sockets]
        /\ \A d \in Conn : sock'[d].st = sock[d].st /\ sock'[d].fd = sock[d].fd
    <2>1. sock \in [Conn -> Sockets]
      BY DEF IInv, TypeOK
    <2> QED BY <1>1, <1>2, <2>1, SocketRead
  <1>4. cgi' \in [Conn -> Seq(Scripts)]
    BY <1>1, <1>2, NewScriptIsTyped DEF IInv, TypeOK
  <1>5. interest' \in [AllFd -> {"off", "in", "out"}]
    BY <1>1 DEF IInv, TypeOK, AllFd
  <1>6. ASSUME NEW h \in AllFd
        PROVE  Fits(h, events[h], sock') /\ events[h] \in Events
    BY <1>3, FitsFrame DEF IInv, TypeOK, AllFit
  <1>7. /\ ScriptEvent(c, body) \in Events
        /\ \A h : Fits(h, ScriptEvent(c, body), sock')
    BY <1>2, <1>3, ScriptEventFits
  <1>8. /\ events' \in [AllFd -> Events]
        /\ \A h \in AllFd : Fits(h, events'[h], sock')
    <2>1. /\ [events[f] EXCEPT !.published = TRUE] \in Events
          /\ Fits(f, [events[f] EXCEPT !.published = TRUE], sock')
      BY <1>6, PublishedFits
    <2>2. events \in [AllFd -> Events]
      BY DEF IInv, TypeOK
    <2>3. CASE events' = [events EXCEPT ![g] = ScriptEvent(c, body),
                                       ![f] = NoEvent]
      BY <1>6, <1>7, <2>2, <2>3, NoEventFits
    <2>4. CASE events' = [events EXCEPT ![g] = NoEvent, ![f].published = TRUE]
      <3>1. /\ [NoEvent EXCEPT !.published = TRUE] \in Events
            /\ Fits(f, [NoEvent EXCEPT !.published = TRUE], sock')
        BY NoEventFits, PublishedFits
      <3>2. CASE g = f
        <4>1. events' = [events EXCEPT ![f] = [NoEvent EXCEPT !.published = TRUE]]
          BY <2>2, <2>4, <3>2
        <4> QED BY <1>6, <2>2, <3>1, <4>1
      <3>3. CASE g # f
        <4>1. events' = [events EXCEPT ![g] = NoEvent,
                                       ![f] = [events[f] EXCEPT !.published = TRUE]]
          BY <2>2, <2>4, <3>3
        <4> HIDE <2>4
        <4> QED BY <1>6, <2>1, <2>2, <3>3, <4>1, NoEventFits
      <3> QED BY <3>2, <3>3
    <2> QED BY <1>1, <2>3, <2>4
  <1>9. TypeOK'
    BY <1>2, <1>3, <1>4, <1>5, <1>8 DEF IInv, TypeOK
  <1> QED BY <1>8, <1>9 DEF IInv, AllFit

LEMMA CgiWriteDoneIInv ==
  ASSUME IInv, NEW f \in AllFd, CgiWriteDone(f)
  PROVE  IInv'
  <1>1. /\ Dispatch(f, "cgiwrite")
        /\ events' = [events EXCEPT ![f].kind = "cgiread"]
        /\ interest' = [interest EXCEPT ![f] = "in"]
        /\ UNCHANGED <<sock, cgi, status>>
    BY DEF CgiWriteDone
  <1>2. /\ batch' \in Seq(AllFd)
        /\ events[f].kind = "cgiwrite"
    BY <1>1, DispatchFacts
  <1>3. /\ [events[f] EXCEPT !.kind = "cgiread"] \in Events
        /\ Fits(f, [events[f] EXCEPT !.kind = "cgiread"], sock)
    <2>1. events[f] \in Events /\ Fits(f, events[f], sock)
      BY DEF IInv, TypeOK, AllFit
    <2> QED BY <1>2, <2>1 DEF Fits, Events, Kinds, Replies
  <1>4. TypeOK'
    BY <1>1, <1>2, <1>3 DEF IInv, TypeOK
  <1>5. AllFit'
    BY <1>1, <1>3 DEF IInv, TypeOK, AllFit
  <1> QED BY <1>4, <1>5 DEF IInv

\* The reads that publish nothing.
LEMMA CgiReadQuietIInv ==
  ASSUME IInv, NEW f \in AllFd, CgiReadHeader(f) \/ CgiReadTail(f)
  PROVE  IInv'
  <1> DEFINE c == events[f].conn
             i == events[f].pos
  <1>1. /\ batch' \in Seq(AllFd)
        /\ c \in Conn
        /\ UNCHANGED <<sock, status>>
    <2>1. Dispatch(f, "cgiread") /\ UNCHANGED <<sock, status>>
      BY DEF CgiReadHeader, CgiReadTail
    <2> QED BY <2>1, DispatchFacts DEF Kinds
  <1>2. PICK size \in {"data", "eof", "error"} :
          cgi' = [cgi EXCEPT ![c][i].size = size]
    BY DEF CgiReadHeader, CgiReadTail
  <1>3. \/ UNCHANGED <<events, interest>>
        \/ /\ events' = [events EXCEPT ![f] = NoEvent]
           /\ interest' = [interest EXCEPT ![f] = "off"]
    BY DEF CgiReadHeader, CgiReadTail
  <1>4. cgi' \in [Conn -> Seq(Scripts)]
    <2>1. [cgi[c] EXCEPT ![i].size = size] \in Seq(Scripts)
      BY <1>1, SizeKeepsScripts DEF IInv, TypeOK
    <2> QED BY <1>1, <1>2, <2>1 DEF IInv, TypeOK
  <1>5. TypeOK'
    BY <1>1, <1>3, <1>4, NoEventFits DEF IInv, TypeOK
  <1>6. ASSUME NEW h \in AllFd PROVE Fits(h, events'[h], sock')
    <2>1. Fits(h, events[h], sock') /\ events \in [AllFd -> Events]
      BY <1>1 DEF IInv, AllFit, TypeOK
    <2> QED BY <1>3, <2>1, NoEventFits
  <1> QED BY <1>5, <1>6 DEF IInv, AllFit

\* The reads that publish a reply, or fail to.
LEMMA CgiReadRepliesIInv ==
  ASSUME IInv, NEW f \in AllFd,
         CgiReadError(f) \/ CgiReadLocalStatic(f) \/ CgiReadDocument(f)
  PROVE  IInv'
  <1> DEFINE c == events[f].conn
             i == events[f].pos
             reply == Event("response", c, 0)
             relay == Event("cgiresponse", c, i)
             told == [events[f] EXCEPT !.published = TRUE]
  <1>1. /\ batch' \in Seq(AllFd)
        /\ c \in Conn
        /\ sock[c].st = "live"
        /\ UNCHANGED status
    <2>1. Dispatch(f, "cgiread") /\ UNCHANGED status
      BY DEF CgiReadError, CgiReadLocalStatic, CgiReadReplies, CgiReadDocument
    <2> QED BY <2>1, DispatchFacts DEF Kinds
  <1>2. PICK size \in {"data", "eof", "error"},
             t \in Types \cup {"undetermined"} :
          LET r == [cgi[c] EXCEPT ![i].size = size, ![i].type = t] IN
          /\ cgi' = [cgi EXCEPT ![c] = r]
          /\ \/ /\ sock' = [sock EXCEPT ![c].code = TRUE]
                /\ events' = [events EXCEPT ![sock[c].fd] = reply,
                                            ![f] = NoEvent]
                /\ interest' = [interest EXCEPT ![sock[c].fd] = "out",
                                                ![f] = "off"]
             \/ /\ UNCHANGED sock
                /\ events' = [events EXCEPT ![sock[c].fd] = relay,
                                            ![f].published = TRUE]
                /\ interest' = [interest EXCEPT ![sock[c].fd] = "out"]
             \/ /\ sock' = [sock EXCEPT ![c].st = "freed"]
                /\ events' = [events EXCEPT ![sock[c].fd] = NoEvent,
                                            ![f].published = TRUE]
                /\ interest' = Closed(c, interest)
    <2>1. CASE CgiReadError(f)
      BY <2>1 DEF CgiReadError, CgiReadReplies, ReplyIsLost, Freed
    <2>2. CASE CgiReadLocalStatic(f)
      BY <2>2 DEF CgiReadLocalStatic, CgiReadReplies, ReplyIsLost, Freed, Types
    <2>3. CASE CgiReadDocument(f)
      <3>1. PICK t \in ResponseTypes \ {"localRedirect"} :
              LET r == [cgi[c] EXCEPT ![i].size = "data", ![i].type = t] IN
              \/ /\ cgi' = [cgi EXCEPT ![c] = r]
                 /\ events' = [events EXCEPT ![sock[c].fd] = relay,
                                             ![f].published = TRUE]
                 /\ interest' = [interest EXCEPT ![sock[c].fd] = "out"]
                 /\ UNCHANGED sock
              \/ ReplyIsLost(f, c, r)
        BY <2>3 DEF CgiReadDocument
      <3>2. t \in Types \cup {"undetermined"}
        BY ConstantAssumption
      <3> QED BY <3>1, <3>2 DEF ReplyIsLost, Freed
    <2> QED BY <2>1, <2>2, <2>3
  <1>3. /\ events[f] \in Events
        /\ events \in [AllFd -> Events]
        /\ i \in Nat
    BY DEF IInv, TypeOK, Events
  <1>4. cgi' \in [Conn -> Seq(Scripts)]
    <2>1. [cgi[c] EXCEPT ![i].size = size, ![i].type = t] \in Seq(Scripts)
      BY <1>1, VerdictKeepsScripts DEF IInv, TypeOK
    <2> QED BY <1>1, <1>2, <2>1 DEF IInv, TypeOK
  <1>5. /\ reply \in Events /\ reply.kind = "response" /\ reply.conn = c
        /\ relay \in Events /\ relay.kind = "cgiresponse" /\ relay.conn = c
    BY <1>1, <1>3, EventIsTyped DEF Kinds
  <1>6. /\ told \in Events
        /\ Fits(f, told, sock)
    BY <1>3, PublishedFits DEF IInv, AllFit
  <1>7. ~ told.kind \in Replies \cup {"receive"}
    <2>1. events[f].kind = "cgiread"
      BY DispatchFacts DEF CgiReadError, CgiReadLocalStatic, CgiReadReplies,
         CgiReadDocument
    <2> QED BY <1>3, <2>1 DEF Events, Replies
  <1> HIDE DEF c, i, reply, relay, told
  <1>8. /\ sock' \in [Conn -> Sockets]
        /\ interest' \in [AllFd -> {"off", "in", "out"}]
    <2>1. /\ [sock EXCEPT ![c].code = TRUE] \in [Conn -> Sockets]
          /\ [sock EXCEPT ![c].st = "freed"] \in [Conn -> Sockets]
          /\ sock \in [Conn -> Sockets]
      BY <1>1 DEF IInv, TypeOK, Sockets
    <2>2. interest \in [AllFd -> {"off", "in", "out"}]
      BY DEF IInv, TypeOK
    <2>3. Closed(c, interest) \in [AllFd -> {"off", "in", "out"}]
      BY <2>2 DEF Closed
    <2> QED BY <1>2, <2>1, <2>2, <2>3
  <1>9. /\ events' \in [AllFd -> Events]
        /\ \A h \in AllFd : Fits(h, events'[h], sock')
    <2>1. CASE /\ sock' = [sock EXCEPT ![c].code = TRUE]
               /\ events' = [events EXCEPT ![sock[c].fd] = reply,
                                           ![f] = NoEvent]
      <3>1. \A d \in Conn : sock'[d].st = sock[d].st /\ sock'[d].fd = sock[d].fd
        BY <1>1, <2>1 DEF IInv, TypeOK, Sockets
      <3>2. \A h \in AllFd : Fits(h, events[h], sock')
        BY <1>3, <3>1, FitsFrame DEF IInv, AllFit
      <3>3. Fits(sock[c].fd, reply, sock')
        BY <1>1, <1>5, <3>1 DEF Fits, Replies, Kinds
      <3> QED BY <1>3, <1>5, <2>1, <3>2, <3>3, NoEventFits
    <2>2. CASE /\ UNCHANGED sock
               /\ events' = [events EXCEPT ![sock[c].fd] = relay,
                                           ![f].published = TRUE]
      <3>1. sock[c].fd # f => events' = [events EXCEPT ![sock[c].fd] = relay,
                                                       ![f] = told]
        BY <1>3, <2>2 DEF told
      <3>2. sock[c].fd = f =>
              events' = [events EXCEPT ![f] = [relay EXCEPT !.published = TRUE]]
        BY <1>3, <2>2
      <3>3. Fits(sock[c].fd, relay, sock')
        BY <1>1, <1>5, <2>2 DEF Fits, Replies, Kinds
      <3>4. /\ [relay EXCEPT !.published = TRUE] \in Events
            /\ Fits(sock[c].fd, [relay EXCEPT !.published = TRUE], sock')
        BY <1>5, <3>3, PublishedFits
      <3> QED BY <1>3, <1>5, <1>6, <2>2, <3>1, <3>2, <3>3, <3>4
              DEF IInv, AllFit
    <2>3. CASE /\ sock' = [sock EXCEPT ![c].st = "freed"]
               /\ events' = [events EXCEPT ![sock[c].fd] = NoEvent,
                                           ![f].published = TRUE]
      <3>1. \A h \in AllFd : h # sock[c].fd => Fits(h, events[h], sock')
        BY <1>1, <1>3, <2>3, FitsFreed DEF IInv, TypeOK, AllFit
      <3>2. sock[c].fd # f => Fits(f, told, sock')
        BY <1>1, <1>6, <2>3, FitsFreed DEF IInv, TypeOK
      <3>3. sock[c].fd # f => events' = [events EXCEPT ![sock[c].fd] = NoEvent,
                                                       ![f] = told]
        BY <1>3, <2>3 DEF told
      <3>4. sock[c].fd = f =>
              events' = [events EXCEPT ![f] = [NoEvent EXCEPT !.published = TRUE]]
        BY <1>3, <2>3
      <3>5. /\ [NoEvent EXCEPT !.published = TRUE] \in Events
            /\ Fits(f, [NoEvent EXCEPT !.published = TRUE], sock')
        BY NoEventFits, PublishedFits
      <3> QED BY <1>3, <1>6, <2>3, <3>1, <3>2, <3>3, <3>4, <3>5, NoEventFits
    <2> QED BY <1>2, <2>1, <2>2, <2>3
  <1>10. TypeOK'
    BY <1>1, <1>4, <1>8, <1>9 DEF IInv, TypeOK
  <1> QED BY <1>9, <1>10 DEF IInv, AllFit

LEMMA CgiReadLocalScriptIInv ==
  ASSUME IInv, NEW f \in AllFd, CgiReadLocalScript(f)
  PROVE  IInv'
  <1> DEFINE c == events[f].conn
             i == events[f].pos
             body == sock[c].body
             told == [events[f] EXCEPT !.published = TRUE]
  <1>1. /\ batch' \in Seq(AllFd)
        /\ c \in Conn
        /\ sock[c].st = "live"
        /\ UNCHANGED <<sock, status>>
    <2>1. Dispatch(f, "cgiread") /\ UNCHANGED <<sock, status>>
      BY DEF CgiReadLocalScript, StartScript
    <2> QED BY <2>1, DispatchFacts DEF Kinds
  <1>2. PICK g \in Fd :
          /\ cgi' = [cgi EXCEPT ![c] =
                       Append([@ EXCEPT ![i].size = "data",
                                        ![i].type = "localRedirect"],
                              NewScript(g))]
          /\ \/ /\ events' = [events EXCEPT ![g] = ScriptEvent(c, body),
                                            ![f].published = TRUE]
                /\ interest' = [interest EXCEPT ![g] = "in"]
             \/ /\ events' = [events EXCEPT ![g] = NoEvent,
                                            ![f].published = TRUE]
                /\ UNCHANGED interest
    BY DEF CgiReadLocalScript
  <1>3. cgi' \in [Conn -> Seq(Scripts)]
    <2>1. [cgi[c] EXCEPT ![i].size = "data", ![i].type = "localRedirect"]
            \in Seq(Scripts)
      BY <1>1, VerdictKeepsScripts DEF IInv, TypeOK, Types
    <2>2. /\ NewScript(g) \in Scripts
          /\ cgi \in [Conn -> Seq(Scripts)]
      BY NewScriptIsTyped DEF IInv, TypeOK
    <2> DEFINE q == [cgi[c] EXCEPT ![i].size = "data", ![i].type = "localRedirect"]
    <2>3. cgi' = [cgi EXCEPT ![c] = Append(q, NewScript(g))]
      BY <1>1, <1>2
    <2>4. q \in Seq(Scripts)
      BY <2>1
    <2> HIDE DEF q
    <2>5. Append(q, NewScript(g)) \in Seq(Scripts)
      BY <2>2, <2>4
    <2> QED BY <2>2, <2>3, <2>5
  <1>4. PICK e : /\ e \in Events
                 /\ \A h : Fits(h, e, sock)
                 /\ events' = [events EXCEPT ![g] = e, ![f].published = TRUE]
    <2>1. body \in BOOLEAN
      BY <1>1 DEF IInv, TypeOK, Sockets
    <2>2. /\ ScriptEvent(c, body) \in Events
          /\ \A h : Fits(h, ScriptEvent(c, body), sock)
      BY <1>1, <2>1, ScriptEventFits
    <2> QED BY <1>2, <2>2, NoEventFits
  <1>5. interest' \in [AllFd -> {"off", "in", "out"}]
    BY <1>2 DEF IInv, TypeOK, AllFd
  <1>6. /\ events \in [AllFd -> Events]
        /\ events[f] \in Events
        /\ \A h \in AllFd : Fits(h, events[h], sock)
    BY DEF IInv, TypeOK, AllFit
  <1>7. /\ told \in Events /\ Fits(f, told, sock)
        /\ [e EXCEPT !.published = TRUE] \in Events
        /\ Fits(f, [e EXCEPT !.published = TRUE], sock)
    BY <1>4, <1>6, PublishedFits
  <1>8. /\ g # f => events' = [events EXCEPT ![g] = e, ![f] = told]
        /\ g = f => events' = [events EXCEPT ![f] = [e EXCEPT !.published = TRUE]]
    BY <1>4, <1>6
  <1> HIDE DEF c, i, told
  <1>9. events' \in [AllFd -> Events] /\ \A h \in AllFd : Fits(h, events'[h], sock')
    BY <1>1, <1>4, <1>6, <1>7, <1>8
  <1>10. TypeOK'
    BY <1>1, <1>3, <1>5, <1>9 DEF IInv, TypeOK
  <1> QED BY <1>9, <1>10 DEF IInv, AllFit

-----------------------------------------------------------------------------
LEMMA NextIInv == IInv /\ [Next]_vars => IInv'
  <1> SUFFICES ASSUME IInv, [Next]_vars PROVE IInv'
    OBVIOUS
  <1>1. CASE Wait
    BY <1>1, WaitIInv
  <1>2. ASSUME NEW f \in AllFd, Handler(f) PROVE IInv'
    BY <1>2, AcceptIInv, QuietIInv, DeleteIInv, ReceiveRepliesIInv,
       ReceiveStartsScriptIInv, CgiWriteDoneIInv, CgiReadQuietIInv,
       CgiReadRepliesIInv, CgiReadLocalScriptIInv
    DEF Handler
  <1>3. CASE UNCHANGED vars
    BY <1>3 DEF vars, IInv, TypeOK, AllFit
  <1> QED BY <1>1, <1>2, <1>3 DEF Next

\* Every variable of the loop keeps its type.
THEOREM TypeCorrect == Spec => []TypeOK
  <1>1. IInv => TypeOK
    BY DEF IInv
  <1> QED BY InitIInv, NextIInv, <1>1, PTL DEF Spec

\* No Socket is deleted twice, and none is deleted while another event object
\* would delete it again: for any number of connections and scripts, whatever
\* the scripts answer, and even if registering an event fails.
THEOREM NoDoubleDelete == Spec => []OwnersLive
  <1>1. IInv => OwnersLive
    BY DEF IInv, AllFit, Fits, OwnersLive, Live, Replies, Kinds
  <1> QED BY InitIInv, NextIInv, <1>1, PTL DEF Spec
-----------------------------------------------------------------------------
(* A reply of a script looks at fields of its CgiRes that have no initial    *)
(* value.  The invariant behind it: an event of a script sits at the         *)
(* descriptor of its entry, so two events never share one, and the verdict   *)
(* of an entry is open as long as its event has published nothing.           *)

\* Does e stand for a script of a live Socket?
Serves(e, s) ==
  /\ e.kind \in {"cgiwrite", "cgiread"}
  /\ e.conn \in Conn
  /\ s[e.conn].st = "live"

\* The event e under descriptor f agrees with the vectors r.
Placed(f, e, s, r) ==
  /\ e.kind = "cgiresponse" =>
       /\ e.pos \in DOMAIN r[e.conn]
       /\ r[e.conn][e.pos].size # "unset"
       /\ r[e.conn][e.pos].type # "undetermined"
  /\ Serves(e, s) =>
       /\ e.pos \in DOMAIN r[e.conn]
       /\ r[e.conn][e.pos].fd = f
       /\ e.kind = "cgiwrite" \/ ~e.published =>
            r[e.conn][e.pos].type = "undetermined"

AllPlaced == \A f \in AllFd : Placed(f, events[f], sock, cgi)

PInv == IInv /\ AllPlaced

\* The vectors t are what r may have become by a dispatch of the event of the
\* i-th script of c.
Later(r, t, c, i) ==
  \A d \in Conn : \A j \in DOMAIN r[d] :
    /\ j \in DOMAIN t[d]
    /\ t[d][j].fd = r[d][j].fd
    /\ r[d][j].size # "unset" => t[d][j].size # "unset"
    /\ r[d][j].type # "undetermined" => t[d][j].type # "undetermined"
    /\ d # c \/ j # i => t[d][j].type = r[d][j].type

\* An event stays placed if it is not the one dispatched.
LEMMA PlacedLater ==
  ASSUME NEW h, NEW e \in Events, NEW s, NEW r, Placed(h, e, s, r),
         Fits(h, e, s), NEW u, NEW t, NEW c, NEW i, Later(r, t, c, i),
         Serves(e, u) => Serves(e, s) /\ (e.conn # c \/ e.pos # i)
  PROVE  Placed(h, e, u, t)
  <1>1. e.kind = "cgiresponse" => e.conn \in Conn
    BY DEF Fits, Kinds
  <1>2. Serves(e, u) => e.conn \in Conn
    BY DEF Serves
  <1> QED BY <1>1, <1>2 DEF Placed, Later

LEMMA NoEventPlaced ==
  \A f, s, r : Placed(f, NoEvent, s, r)
  BY DEF Placed, Serves, NoEvent, Event

\* The vectors as they are.
LEMMA LaterSame ==
  ASSUME NEW r, NEW c, NEW i
  PROVE  Later(r, r, c, i)
  BY DEF Later

\* A read size is stored, and a verdict that stays or is open no more.
LEMMA LaterStored ==
  ASSUME NEW r \in [Conn -> Seq(Scripts)], NEW c \in Conn, NEW i \in DOMAIN r[c],
         NEW v \in Scripts, v.fd = r[c][i].fd, v.size # "unset",
         r[c][i].type # "undetermined" => v.type # "undetermined"
  PROVE  Later(r, [r EXCEPT ![c] = [r[c] EXCEPT ![i] = v]], c, i)
  <1>1. DOMAIN [r[c] EXCEPT ![i] = v] = DOMAIN r[c]
    OBVIOUS
  <1> QED BY <1>1 DEF Later

\* A script is appended.
LEMMA LaterAppended ==
  ASSUME NEW r \in [Conn -> Seq(Scripts)], NEW c \in Conn, NEW w \in Scripts, NEW i
  PROVE  /\ Later(r, [r EXCEPT ![c] = Append(@, w)], c, i)
         /\ Len(r[c]) + 1 \in DOMAIN Append(r[c], w)
         /\ Append(r[c], w)[Len(r[c]) + 1] = w
  <1>1. r[c] \in Seq(Scripts)
    OBVIOUS
  <1>2. /\ \A j \in DOMAIN r[c] : j \in DOMAIN Append(r[c], w) /\ Append(r[c], w)[j] = r[c][j]
        /\ Len(r[c]) + 1 \in DOMAIN Append(r[c], w)
        /\ Append(r[c], w)[Len(r[c]) + 1] = w
    BY <1>1
  <1> QED BY <1>2 DEF Later

LEMMA LaterTwice ==
  ASSUME NEW r, NEW s, NEW t, NEW c, NEW i, Later(r, s, c, i), Later(s, t, c, i)
  PROVE  Later(r, t, c, i)
  BY DEF Later

LEMMA InitPInv == Init => PInv
  <1> SUFFICES ASSUME Init PROVE PInv
    OBVIOUS
  <1>1. ASSUME NEW f \in AllFd PROVE Placed(f, events[f], sock, cgi)
    BY DEF Init, Placed, Serves, NoEvent, Event
  <1> QED BY <1>1, InitIInv DEF PInv, AllPlaced

\* The dispatches that leave the vectors alone, and change no event to one of
\* a script.
LEMMA PlainPInv ==
  ASSUME PInv, UNCHANGED cgi, IInv',
         \A d \in Conn : sock'[d].st = "live" => sock[d].st \in {"live", "unborn"},
         \A h \in AllFd : \/ events'[h] = events[h]
                          \/ events'[h].kind \in {"none", "receive", "response"}
  PROVE  PInv'
  <1>1. ASSUME NEW h \in AllFd PROVE Placed(h, events'[h], sock', cgi')
    <2>1. CASE events'[h] = events[h]
      <3>1. /\ events[h] \in Events
            /\ Fits(h, events[h], sock)
            /\ Placed(h, events[h], sock, cgi)
        BY DEF PInv, IInv, TypeOK, AllFit, AllPlaced
      <3>2. Serves(events[h], sock') => Serves(events[h], sock)
        BY <3>1 DEF Serves, Fits
      <3>3. Placed(h, events[h], sock', cgi)
        BY <3>1, <3>2 DEF Placed
      <3> QED BY <2>1, <3>3
    <2>2. CASE events'[h].kind \in {"none", "receive", "response"}
      BY <2>2 DEF Placed, Serves
    <2> QED BY <2>1, <2>2
  <1> QED BY <1>1 DEF PInv, AllPlaced

LEMMA PlainHandlersPInv ==
  ASSUME PInv, NEW f \in AllFd,
         \/ Accept(f) \/ AcceptFails(f) \/ ReceiveAgain(f) \/ ReceiveDisconnect(f)
         \/ ReceiveReplies(f) \/ ReceiveAborts(f) \/ ResponseMore(f)
         \/ ResponseDone(f) \/ CgiResponseMore(f) \/ CgiResponseDone(f)
         \/ CgiWriteMore(f) \/ DispatchUndefined(f)
  PROVE  PInv'
  <1>1. /\ IInv
        /\ sock \in [Conn -> Sockets]
        /\ events \in [AllFd -> Events]
    BY DEF PInv, IInv, TypeOK
  <1>2. /\ IInv'
        /\ UNCHANGED cgi
    BY <1>1, AcceptIInv, QuietIInv, DeleteIInv, ReceiveRepliesIInv
    DEF Accept, AcceptFails, ReceiveAgain, ReceiveDisconnect, ReceiveReplies,
        ReceiveAborts, ResponseMore, ResponseDone, CgiResponseMore,
        CgiResponseDone, ReplyMore, ReplyDone, CgiWriteMore, DispatchUndefined
  <1>3. /\ NoEvent.kind = "none"
        /\ \A c : Event("receive", c, 0).kind = "receive"
        /\ \A c : Event("response", c, 0).kind = "response"
    BY DEF NoEvent, Event
  <1>4. CASE Accept(f)
    <2>1. PICK c \in Conn, g \in Fd :
            /\ sock[c].st = "unborn"
            /\ sock' = [sock EXCEPT ![c].st = "live", ![c].fd = g]
            /\ \/ events' = [events EXCEPT ![g] = Event("receive", c, 0)]
               \/ events' = [events EXCEPT ![g] = NoEvent]
      BY <1>4 DEF Accept
    <2>2. \A d \in Conn : sock'[d].st = "live" => sock[d].st \in {"live", "unborn"}
      BY <1>1, <2>1 DEF Sockets
    <2>3. \A h \in AllFd : \/ events'[h] = events[h]
                           \/ events'[h].kind \in {"none", "receive", "response"}
      BY <1>1, <1>3, <2>1
    <2> QED BY <1>2, <2>2, <2>3, PlainPInv
  <1>5. CASE ReceiveDisconnect(f) \/ ResponseDone(f) \/ CgiResponseDone(f)
    <2>1. /\ sock' = [sock EXCEPT ![events[f].conn].st = "freed"]
          /\ events' = [events EXCEPT ![f] = NoEvent]
      BY <1>5 DEF ReceiveDisconnect, ResponseDone, CgiResponseDone, ReplyDone, Freed
    <2>2. \A d \in Conn : sock'[d].st = "live" => sock[d].st \in {"live", "unborn"}
      BY <1>1, <2>1 DEF Sockets
    <2> QED BY <1>1, <1>2, <1>3, <2>1, <2>2, PlainPInv
  <1>6. CASE ReceiveReplies(f)
    <2>1. /\ sock' = [sock EXCEPT ![events[f].conn].code = TRUE]
          /\ events' = [events EXCEPT ![f] = Event("response", events[f].conn, 0)]
      BY <1>6 DEF ReceiveReplies
    <2>2. \A d \in Conn : sock'[d].st = "live" => sock[d].st \in {"live", "unborn"}
      BY <1>1, <2>1 DEF Sockets
    <2> QED BY <1>1, <1>2, <1>3, <2>1, <2>2, PlainPInv
  <1>7. CASE \/ AcceptFails(f) \/ ReceiveAgain(f) \/ ReceiveAborts(f)
             \/ ResponseMore(f) \/ CgiResponseMore(f) \/ CgiWriteMore(f)
             \/ DispatchUndefined(f)
    <2>1. UNCHANGED <<sock, events>>
      BY <1>7 DEF AcceptFails, ReceiveAgain, ReceiveAborts, ResponseMore,
         CgiResponseMore, ReplyMore, CgiWriteMore, DispatchUndefined
    <2> QED BY <1>2, <2>1, PlainPInv
  <1> QED BY <1>4, <1>5, <1>6, <1>7

\* What a dispatched event knows of its place.
LEMMA PlacedFacts ==
  ASSUME PInv, NEW f \in AllFd, NEW k, Dispatch(f, k), k \in {"cgiwrite", "cgiread"}
  PROVE  LET c == events[f].conn
             i == events[f].pos
         IN  /\ c \in Conn
             /\ sock[c].st = "live"
             /\ events[f].kind = k
             /\ cgi \in [Conn -> Seq(Scripts)]
             /\ i \in DOMAIN cgi[c]
             /\ cgi[c][i] \in Scripts
             /\ cgi[c][i].fd = f
             /\ k = "cgiwrite" \/ ~events[f].published =>
                  cgi[c][i].type = "undetermined"
  <1> DEFINE c == events[f].conn
             i == events[f].pos
  <1>1. /\ c \in Conn
        /\ sock[c].st = "live"
        /\ events[f].kind = k
    BY DispatchFacts DEF PInv, Kinds
  <1>2. /\ Placed(f, events[f], sock, cgi)
        /\ Serves(events[f], sock)
    BY <1>1 DEF PInv, AllPlaced, Serves
  <1>3. /\ cgi \in [Conn -> Seq(Scripts)]
        /\ cgi[c] \in Seq(Scripts)
    BY <1>1 DEF PInv, IInv, TypeOK
  <1>4. i \in DOMAIN cgi[c]
    BY <1>2 DEF Placed
  <1>5. cgi[c][i] \in Scripts
    BY <1>3, <1>4
  <1> QED BY <1>1, <1>2, <1>3, <1>4, <1>5 DEF Placed

\* The dispatch of the event of a script: all the others stay placed.
LEMMA ScriptStepPInv ==
  ASSUME PInv, IInv', NEW f \in AllFd, NEW k, Dispatch(f, k),
         k \in {"cgiwrite", "cgiread"},
         Later(cgi, cgi', events[f].conn, events[f].pos),
         \A d \in Conn : sock'[d].st = "live" => sock[d].st = "live",
         \A h \in AllFd : \/ h # f /\ events'[h] = events[h]
                          \/ Placed(h, events'[h], sock', cgi')
  PROVE  PInv'
  <1> DEFINE c == events[f].conn
             i == events[f].pos
  <1>1. ASSUME NEW h \in AllFd, h # f, events'[h] = events[h]
        PROVE  Placed(h, events'[h], sock', cgi')
    <2>1. /\ events[h] \in Events
          /\ Fits(h, events[h], sock)
          /\ Placed(h, events[h], sock, cgi)
      BY DEF PInv, IInv, TypeOK, AllFit, AllPlaced
    <2>2. ASSUME Serves(events[h], sock')
          PROVE  Serves(events[h], sock) /\ (events[h].conn # c \/ events[h].pos # i)
      <3>1. Serves(events[h], sock)
        BY <2>2 DEF Serves
      <3>2. cgi[c][i].fd = f
        BY PlacedFacts
      <3>3. cgi[events[h].conn][events[h].pos].fd = h
        BY <2>1, <3>1 DEF Placed
      <3> QED BY <1>1, <3>1, <3>2, <3>3
    <2>3. Placed(h, events[h], sock', cgi')
      BY <2>1, <2>2, PlacedLater
    <2> QED BY <1>1, <2>3
  <1>2. \A h \in AllFd : Placed(h, events'[h], sock', cgi')
    BY <1>1
  <1> QED BY <1>2 DEF PInv, AllPlaced

LEMMA CgiWriteDonePInv ==
  ASSUME PInv, NEW f \in AllFd, CgiWriteDone(f)
  PROVE  PInv'
  <1>1. /\ Dispatch(f, "cgiwrite")
        /\ events' = [events EXCEPT ![f].kind = "cgiread"]
        /\ UNCHANGED <<sock, cgi>>
    BY DEF CgiWriteDone
  <1>2. IInv'
    BY CgiWriteDoneIInv DEF PInv
  <1>3. Placed(f, [events[f] EXCEPT !.kind = "cgiread"], sock, cgi)
    <2>1. events[f] \in Events
      BY DEF PInv, IInv, TypeOK
    <2>2. /\ [events[f] EXCEPT !.kind = "cgiread"].kind = "cgiread"
          /\ [events[f] EXCEPT !.kind = "cgiread"].conn = events[f].conn
          /\ [events[f] EXCEPT !.kind = "cgiread"].pos = events[f].pos
      BY <2>1 DEF Events
    <2> QED BY <1>1, <2>2, PlacedFacts DEF Placed
  <1>4. events \in [AllFd -> Events]
    BY DEF PInv, IInv, TypeOK
  <1>5. \A h \in AllFd : \/ h # f /\ events'[h] = events[h]
                         \/ Placed(h, events'[h], sock', cgi')
    BY <1>1, <1>3, <1>4
  <1> QED BY <1>1, <1>2, <1>5, LaterSame, ScriptStepPInv

\* The event of the script just started is placed.
LEMMA ScriptEventPlaced ==
  ASSUME NEW c \in Conn, cgi \in [Conn -> Seq(Scripts)], NEW body, NEW g, NEW s,
         NEW t, t[c] \in Seq(Scripts), Len(cgi[c]) + 1 \in DOMAIN t[c],
         t[c][Len(cgi[c]) + 1] = NewScript(g)
  PROVE  Placed(g, ScriptEvent(c, body), s, t)
  <1>1. /\ ScriptEvent(c, body).conn = c
        /\ ScriptEvent(c, body).pos = Len(cgi[c]) + 1
        /\ ScriptEvent(c, body).kind \in {"cgiwrite", "cgiread"}
    BY DEF ScriptEvent, Event
  <1> QED BY <1>1 DEF Placed, NewScript

\* Having published changes no place.
LEMMA PublishedPlaced ==
  ASSUME NEW f, NEW e \in Events, NEW s, NEW r, Placed(f, e, s, r)
  PROVE  Placed(f, [e EXCEPT !.published = TRUE], s, r)
  <1>1. /\ [e EXCEPT !.published = TRUE].kind = e.kind
        /\ [e EXCEPT !.published = TRUE].conn = e.conn
        /\ [e EXCEPT !.published = TRUE].pos = e.pos
        /\ [e EXCEPT !.published = TRUE].published
    BY DEF Events
  <1> QED BY <1>1 DEF Placed, Serves

LEMMA ReceiveStartsScriptPInv ==
  ASSUME PInv, NEW f \in AllFd, ReceiveStartsScript(f)
  PROVE  PInv'
  <1> DEFINE c == events[f].conn
  <1>1. PICK g \in Fd, body \in BOOLEAN :
          /\ sock' = [sock EXCEPT ![c].body = body]
          /\ cgi' = [cgi EXCEPT ![c] = Append(@, NewScript(g))]
          /\ \/ events' = [events EXCEPT ![g] = ScriptEvent(c, body), ![f] = NoEvent]
             \/ events' = [events EXCEPT ![g] = NoEvent, ![f].published = TRUE]
    BY DEF ReceiveStartsScript
  <1>2. /\ IInv /\ IInv'
        /\ events \in [AllFd -> Events]
        /\ cgi \in [Conn -> Seq(Scripts)]
        /\ sock \in [Conn -> Sockets]
    BY ReceiveStartsScriptIInv DEF PInv, IInv, TypeOK
  <1>3. /\ c \in Conn
        /\ events[f].kind = "receive"
    BY <1>2, DispatchFacts DEF ReceiveStartsScript, Kinds
  <1> HIDE DEF c
  <1>4. /\ Later(cgi, cgi', c, 0)
        /\ cgi'[c] \in Seq(Scripts)
        /\ Len(cgi[c]) + 1 \in DOMAIN cgi'[c]
        /\ cgi'[c][Len(cgi[c]) + 1] = NewScript(g)
    <2>1. NewScript(g) \in Scripts
      BY NewScriptIsTyped
    <2>2. cgi'[c] = Append(cgi[c], NewScript(g)) /\ cgi[c] \in Seq(Scripts)
      BY <1>1, <1>2, <1>3
    <2>3. /\ Later(cgi, cgi', c, 0)
          /\ Len(cgi[c]) + 1 \in DOMAIN Append(cgi[c], NewScript(g))
          /\ Append(cgi[c], NewScript(g))[Len(cgi[c]) + 1] = NewScript(g)
      <3>1. /\ Later(cgi, [cgi EXCEPT ![c] = Append(@, NewScript(g))], c, 0)
            /\ Len(cgi[c]) + 1 \in DOMAIN Append(cgi[c], NewScript(g))
            /\ Append(cgi[c], NewScript(g))[Len(cgi[c]) + 1] = NewScript(g)
        BY <1>2, <1>3, <2>1, LaterAppended
      <3>2. cgi' = [cgi EXCEPT ![c] = Append(@, NewScript(g))]
        BY <1>1
      <3> QED BY <3>1, <3>2
    <2>4. Append(cgi[c], NewScript(g)) \in Seq(Scripts)
      BY <2>1, <2>2
    <2> QED BY <2>2, <2>3, <2>4
  <1>5. ASSUME NEW h \in AllFd PROVE Placed(h, events[h], sock', cgi')
    <2>1. /\ events[h] \in Events
          /\ Fits(h, events[h], sock)
          /\ Placed(h, events[h], sock, cgi)
      BY <1>2 DEF PInv, IInv, AllFit, AllPlaced
    <2>2. Serves(events[h], sock') => /\ Serves(events[h], sock)
                                      /\ events[h].pos # 0
      <3>1. Serves(events[h], sock') => Serves(events[h], sock)
        BY <1>1, <1>2 DEF Serves, Sockets
      <3>2. Serves(events[h], sock) => events[h].pos \in DOMAIN cgi[events[h].conn]
        BY <2>1 DEF Placed
      <3>3. \A d \in Conn : 0 \notin DOMAIN cgi[d]
        BY <1>2
      <3> QED BY <3>1, <3>2, <3>3 DEF Serves
    <2> QED BY <1>4, <2>1, <2>2, PlacedLater
  <1>6. Placed(g, ScriptEvent(c, body), sock', cgi')
    BY <1>2, <1>3, <1>4, ScriptEventPlaced
  <1>7. /\ Placed(f, [events[f] EXCEPT !.published = TRUE], sock', cgi')
        /\ Placed(f, [NoEvent EXCEPT !.published = TRUE], sock', cgi')
    BY <1>2, <1>5, NoEventPlaced, NoEventFits, PublishedPlaced
  <1>8. ASSUME NEW h \in AllFd PROVE Placed(h, events'[h], sock', cgi')
    <2>1. CASE events' = [events EXCEPT ![g] = ScriptEvent(c, body), ![f] = NoEvent]
      BY <1>2, <1>5, <1>6, <2>1, NoEventPlaced
    <2>2. CASE events' = [events EXCEPT ![g] = NoEvent, ![f].published = TRUE]
      <3>1. events'[h] \in {events[h], NoEvent} \/ h = f
        BY <1>2, <2>2
      <3>2. h = f => events'[h] \in {[events[f] EXCEPT !.published = TRUE],
                                     [NoEvent EXCEPT !.published = TRUE]}
        BY <1>2, <2>2
      <3> HIDE <2>2
      <3>3. Placed(h, events[h], sock', cgi') /\ Placed(h, NoEvent, sock', cgi')
        BY <1>5, NoEventPlaced
      <3>4. CASE h = f
        BY <1>7, <3>2, <3>4
      <3>5. CASE h # f
        BY <3>1, <3>3, <3>5
      <3> QED BY <3>4, <3>5
    <2> QED BY <1>1, <2>1, <2>2
  <1> QED BY <1>2, <1>8 DEF PInv, AllPlaced

\* Storing what a read achieved, and the verdict if there is one.
LEMMA StoredLater ==
  ASSUME PInv, NEW f \in AllFd, Dispatch(f, "cgiread"),
         NEW size \in {"data", "eof", "error"}
  PROVE  LET c == events[f].conn
             i == events[f].pos
         IN  /\ [cgi[c] EXCEPT ![i].size = size] \in Seq(Scripts)
             /\ Later(cgi, [cgi EXCEPT ![c][i].size = size], c, i)
             /\ ~events[f].published =>
                  \A t \in Types \cup {"undetermined"} :
                    Later(cgi, [cgi EXCEPT ![c] =
                      [cgi[c] EXCEPT ![i].size = size, ![i].type = t]], c, i)
  <1> DEFINE c == events[f].conn
             i == events[f].pos
             v == [cgi[c][i] EXCEPT !.size = size]
             w(t) == [cgi[c][i] EXCEPT !.size = size, !.type = t]
  <1>1. /\ c \in Conn
        /\ cgi \in [Conn -> Seq(Scripts)]
        /\ cgi[c] \in Seq(Scripts)
        /\ i \in DOMAIN cgi[c]
        /\ cgi[c][i] \in Scripts
        /\ ~events[f].published => cgi[c][i].type = "undetermined"
    BY PlacedFacts
  <1>2. /\ v \in Scripts
        /\ v.fd = cgi[c][i].fd /\ v.size # "unset" /\ v.type = cgi[c][i].type
    BY <1>1 DEF Scripts
  <1>3. ASSUME NEW t \in Types \cup {"undetermined"}
        PROVE  w(t) \in Scripts /\ w(t).fd = cgi[c][i].fd /\ w(t).size # "unset"
    BY <1>1 DEF Scripts, Types
  <1>4. [cgi EXCEPT ![c][i].size = size] = [cgi EXCEPT ![c] = [cgi[c] EXCEPT ![i] = v]]
    BY <1>1
  <1>5. ASSUME NEW t
        PROVE  [cgi[c] EXCEPT ![i].size = size, ![i].type = t] = [cgi[c] EXCEPT ![i] = w(t)]
    BY <1>1
  <1>6. [cgi[c] EXCEPT ![i].size = size] \in Seq(Scripts)
    BY <1>1, SizeKeepsScripts
  <1> HIDE DEF c, i, v, w
  <1>7. Later(cgi, [cgi EXCEPT ![c] = [cgi[c] EXCEPT ![i] = v]], c, i)
    BY <1>1, <1>2, LaterStored
  <1>8. ASSUME NEW t \in Types \cup {"undetermined"}, ~events[f].published
        PROVE  Later(cgi, [cgi EXCEPT ![c] = [cgi[c] EXCEPT ![i] = w(t)]], c, i)
    BY <1>1, <1>3, <1>8, LaterStored
  <1>9. /\ [cgi[c] EXCEPT ![i].size = size] \in Seq(Scripts)
        /\ Later(cgi, [cgi EXCEPT ![c][i].size = size], c, i)
        /\ ~events[f].published =>
             \A t \in Types \cup {"undetermined"} :
               Later(cgi, [cgi EXCEPT ![c] =
                 [cgi[c] EXCEPT ![i].size = size, ![i].type = t]], c, i)
    BY <1>4, <1>5, <1>6, <1>7, <1>8
  <1> QED BY <1>9 DEF c, i

LEMMA CgiReadQuietPInv ==
  ASSUME PInv, NEW f \in AllFd, CgiReadHeader(f) \/ CgiReadTail(f)
  PROVE  PInv'
  <1>1. /\ Dispatch(f, "cgiread")
        /\ UNCHANGED sock
    BY DEF CgiReadHeader, CgiReadTail
  <1>2. PICK size \in {"data", "eof", "error"} :
          cgi' = [cgi EXCEPT ![events[f].conn][events[f].pos].size = size]
    BY DEF CgiReadHeader, CgiReadTail
  <1>3. UNCHANGED events \/ events' = [events EXCEPT ![f] = NoEvent]
    BY DEF CgiReadHeader, CgiReadTail
  <1>4. IInv' /\ events \in [AllFd -> Events] /\ cgi \in [Conn -> Seq(Scripts)]
    BY CgiReadQuietIInv DEF PInv, IInv, TypeOK
  <1>5. Later(cgi, cgi', events[f].conn, events[f].pos)
    BY <1>1, <1>2, StoredLater
  <1>6. Placed(f, events[f], sock, cgi')
    <2>1. /\ events[f].kind = "cgiread"
          /\ events[f].conn \in Conn
          /\ events[f].pos \in DOMAIN cgi[events[f].conn]
          /\ cgi[events[f].conn][events[f].pos].fd = f
          /\ ~events[f].published =>
               cgi[events[f].conn][events[f].pos].type = "undetermined"
      BY <1>1, PlacedFacts
    <2>2. cgi'[events[f].conn][events[f].pos].type
            = cgi[events[f].conn][events[f].pos].type
      BY <1>2, <1>4, <2>1
    <2> QED BY <1>5, <2>1, <2>2 DEF Placed, Later
  <1>7. \A h \in AllFd : \/ h # f /\ events'[h] = events[h]
                         \/ Placed(h, events'[h], sock', cgi')
    BY <1>1, <1>3, <1>4, <1>6, NoEventPlaced
  <1>8. \A d \in Conn : sock'[d].st = "live" => sock[d].st = "live"
    BY <1>1
  <1> QED BY <1>1, <1>4, <1>5, <1>7, <1>8, ScriptStepPInv

LEMMA CgiReadRepliesPInv ==
  ASSUME PInv, NEW f \in AllFd,
         CgiReadError(f) \/ CgiReadLocalStatic(f) \/ CgiReadDocument(f)
  PROVE  PInv'
  <1> DEFINE c == events[f].conn
             i == events[f].pos
             told == [events[f] EXCEPT !.published = TRUE]
             relay == Event("cgiresponse", c, i)
             reply == Event("response", c, 0)
             r(size, t) == [cgi[c] EXCEPT ![i].size = size, ![i].type = t]
  <1>1. /\ Dispatch(f, "cgiread")
        /\ ~events[f].published
    BY DEF CgiReadError, CgiReadLocalStatic, CgiReadReplies, CgiReadDocument
  <1>2. PICK size \in {"data", "eof", "error"}, t \in Types \cup {"undetermined"} :
          /\ cgi' = [cgi EXCEPT ![c] = r(size, t)]
          /\ \/ /\ sock' = [sock EXCEPT ![c].code = TRUE]
                /\ events' = [events EXCEPT ![sock[c].fd] = reply, ![f] = NoEvent]
             \/ /\ t # "undetermined"
                /\ UNCHANGED sock
                /\ events' = [events EXCEPT ![sock[c].fd] = relay,
                                            ![f].published = TRUE]
             \/ /\ sock' = [sock EXCEPT ![c].st = "freed"]
                /\ events' = [events EXCEPT ![sock[c].fd] = NoEvent,
                                            ![f].published = TRUE]
    <2>1. CASE CgiReadError(f)
      BY <2>1 DEF CgiReadError, CgiReadReplies, ReplyIsLost, Freed
    <2>2. CASE CgiReadLocalStatic(f)
      BY <2>2 DEF CgiReadLocalStatic, CgiReadReplies, ReplyIsLost, Freed, Types
    <2>3. CASE CgiReadDocument(f)
      <3>1. PICK t \in ResponseTypes \ {"localRedirect"} :
              \/ /\ cgi' = [cgi EXCEPT ![c] = r("data", t)]
                 /\ events' = [events EXCEPT ![sock[c].fd] = relay,
                                             ![f].published = TRUE]
                 /\ UNCHANGED sock
              \/ ReplyIsLost(f, c, r("data", t))
        BY <2>3 DEF CgiReadDocument
      <3>2. t \in Types /\ "undetermined" \notin Types
        BY ConstantAssumption DEF Types
      <3> QED BY <3>1, <3>2 DEF ReplyIsLost, Freed
    <2> QED BY <2>1, <2>2, <2>3
  <1>3. /\ IInv'
        /\ events \in [AllFd -> Events]
        /\ sock \in [Conn -> Sockets]
    BY CgiReadRepliesIInv DEF PInv, IInv, TypeOK
  <1>4. /\ c \in Conn
        /\ events[f].kind = "cgiread"
        /\ cgi \in [Conn -> Seq(Scripts)]
        /\ i \in DOMAIN cgi[c]
        /\ cgi[c][i] \in Scripts
        /\ cgi[c][i].fd = f
    BY <1>1, PlacedFacts
  <1>5. Later(cgi, cgi', c, i)
    BY <1>1, <1>2, StoredLater
  <1>6. /\ i \in DOMAIN cgi'[c]
        /\ cgi'[c][i].fd = f
        /\ cgi'[c][i].size # "unset"
        /\ cgi'[c][i].type = t
    <2> DEFINE v == [cgi[c][i] EXCEPT !.size = size, !.type = t]
    <2>1. r(size, t) = [cgi[c] EXCEPT ![i] = v]
      OBVIOUS
    <2>2. v.fd = f /\ v.size # "unset" /\ v.type = t
      BY <1>4 DEF Scripts
    <2>3. cgi'[c] = r(size, t) /\ cgi[c] \in Seq(Scripts)
      BY <1>2, <1>4
    <2> HIDE DEF v, r
    <2>4. cgi'[c][i] = v /\ i \in DOMAIN cgi'[c]
      BY <1>4, <2>1, <2>3
    <2> QED BY <2>2, <2>4
  <1>7. /\ told.kind = "cgiread" /\ told.conn = c /\ told.pos = i /\ told.published
        /\ relay.kind = "cgiresponse" /\ relay.conn = c /\ relay.pos = i
        /\ reply.kind = "response"
    BY <1>3, <1>4 DEF Events, Event
  <1>8. /\ Placed(f, told, sock', cgi')
        /\ \A h : Placed(h, reply, sock', cgi')
        /\ t # "undetermined" => \A h : /\ Placed(h, relay, sock', cgi')
                                        /\ Placed(h, [relay EXCEPT !.published = TRUE],
                                                  sock', cgi')
        /\ \A h : Placed(h, [NoEvent EXCEPT !.published = TRUE], sock', cgi')
    <2>1. /\ Placed(f, told, sock', cgi')
          /\ \A h : Placed(h, reply, sock', cgi')
      BY <1>6, <1>7 DEF Placed, Serves
    <2>2. t # "undetermined" => \A h : Placed(h, relay, sock', cgi')
      BY <1>6, <1>7 DEF Placed, Serves
    <2>3. relay \in Events /\ NoEvent \in Events
      <3>1. i \in Nat
        BY <1>3 DEF Events
      <3> QED BY <1>4, <3>1, EventIsTyped, NoEventFits DEF Kinds
    <2> QED BY <2>1, <2>2, <2>3, NoEventPlaced, PublishedPlaced
  <1> HIDE DEF c, i, told, relay, reply, r
  <1>9. \A h \in AllFd : \/ h # f /\ events'[h] = events[h]
                         \/ Placed(h, events'[h], sock', cgi')
    <2>1. CASE events' = [events EXCEPT ![sock[c].fd] = reply, ![f] = NoEvent]
      BY <1>3, <1>8, <2>1, NoEventPlaced
    <2>2. CASE /\ t # "undetermined"
               /\ events' = [events EXCEPT ![sock[c].fd] = relay, ![f].published = TRUE]
      <3>1. /\ events'[f] \in {told, [relay EXCEPT !.published = TRUE]}
            /\ \A h \in AllFd : h # f => events'[h] \in {events[h], relay}
        BY <1>3, <2>2 DEF told
      <3>2. /\ Placed(f, events'[f], sock', cgi')
            /\ \A h : Placed(h, relay, sock', cgi')
        BY <1>8, <2>2, <3>1
      <3> HIDE <2>2
      <3> QED BY <3>1, <3>2
    <2>3. CASE events' = [events EXCEPT ![sock[c].fd] = NoEvent, ![f].published = TRUE]
      <3>1. /\ events'[f] \in {told, [NoEvent EXCEPT !.published = TRUE]}
            /\ \A h \in AllFd : h # f => events'[h] \in {events[h], NoEvent}
        BY <1>3, <2>3 DEF told
      <3>2. Placed(f, events'[f], sock', cgi')
        BY <1>8, <3>1
      <3> HIDE <2>3
      <3> QED BY <3>1, <3>2, NoEventPlaced
    <2> QED BY <1>2, <2>1, <2>2, <2>3
  <1>10. \A d \in Conn : sock'[d].st = "live" => sock[d].st = "live"
    BY <1>2, <1>3 DEF Sockets
  <1>11. Later(cgi, cgi', events[f].conn, events[f].pos)
    BY <1>5 DEF c, i
  <1> QED BY <1>1, <1>3, <1>9, <1>10, <1>11, ScriptStepPInv

LEMMA CgiReadLocalScriptPInv ==
  ASSUME PInv, NEW f \in AllFd, CgiReadLocalScript(f)
  PROVE  PInv'
  <1> DEFINE c == events[f].conn
             i == events[f].pos
             told == [events[f] EXCEPT !.published = TRUE]
             q == [cgi[c] EXCEPT ![i].size = "data", ![i].type = "localRedirect"]
  <1>1. /\ Dispatch(f, "cgiread")
        /\ ~events[f].published
        /\ UNCHANGED sock
    BY DEF CgiReadLocalScript
  <1>2. PICK g \in Fd :
          /\ cgi' = [cgi EXCEPT ![c] = Append(q, NewScript(g))]
          /\ \E e \in {ScriptEvent(c, sock[c].body), NoEvent} :
               events' = [events EXCEPT ![g] = e, ![f].published = TRUE]
    <2>1. PICK g \in Fd :
            /\ cgi' = [cgi EXCEPT ![c] =
                         Append([@ EXCEPT ![i].size = "data",
                                          ![i].type = "localRedirect"],
                                NewScript(g))]
            /\ \/ events' = [events EXCEPT ![g] = ScriptEvent(c, sock[c].body),
                                           ![f].published = TRUE]
               \/ events' = [events EXCEPT ![g] = NoEvent, ![f].published = TRUE]
      BY DEF CgiReadLocalScript
    <2>2. cgi' = [cgi EXCEPT ![c] = Append(q, NewScript(g))]
      BY <2>1
    <2> QED BY <2>1, <2>2
  <1>3. /\ IInv /\ IInv'
        /\ events \in [AllFd -> Events]
        /\ sock \in [Conn -> Sockets]
    BY CgiReadLocalScriptIInv DEF PInv, IInv, TypeOK
  <1>4. /\ c \in Conn
        /\ sock[c].st = "live"
        /\ events[f].kind = "cgiread"
        /\ cgi \in [Conn -> Seq(Scripts)]
        /\ i \in DOMAIN cgi[c]
        /\ cgi[c][i].fd = f
    BY <1>1, PlacedFacts
  <1>5. /\ q \in Seq(Scripts)
        /\ Len(q) = Len(cgi[c])
        /\ Later(cgi, [cgi EXCEPT ![c] = q], c, i)
        /\ NewScript(g) \in Scripts
    <2>1. /\ "localRedirect" \in Types \cup {"undetermined"}
          /\ "data" \in {"unset", "data", "eof", "error"}
          /\ "data" \in {"data", "eof", "error"}
      BY DEF Types
    <2>2. q \in Seq(Scripts)
      BY <1>4, <2>1, VerdictKeepsScripts
    <2>3. DOMAIN q = DOMAIN cgi[c]
      OBVIOUS
    <2>4. Len(q) = Len(cgi[c])
      <3>1. cgi[c] \in Seq(Scripts)
        BY <1>4
      <3> HIDE DEF q
      <3> QED BY <2>2, <2>3, <3>1
    <2>5. Later(cgi, [cgi EXCEPT ![c] = q], c, i)
      BY <1>1, <2>1, StoredLater
    <2> QED BY <2>2, <2>4, <2>5, NewScriptIsTyped
  <1> HIDE DEF q
  <1>6. /\ Later(cgi, cgi', c, i)
        /\ cgi'[c] \in Seq(Scripts)
        /\ Len(cgi[c]) + 1 \in DOMAIN cgi'[c]
        /\ cgi'[c][Len(cgi[c]) + 1] = NewScript(g)
    <2> DEFINE s == [cgi EXCEPT ![c] = q]
    <2>1. /\ s \in [Conn -> Seq(Scripts)]
          /\ s[c] = q
          /\ cgi' = [s EXCEPT ![c] = Append(@, NewScript(g))]
      BY <1>2, <1>4, <1>5
    <2> HIDE DEF s
    <2>2. /\ Later(s, cgi', c, i)
          /\ Len(q) + 1 \in DOMAIN Append(q, NewScript(g))
          /\ Append(q, NewScript(g))[Len(q) + 1] = NewScript(g)
      BY <1>4, <1>5, <2>1, LaterAppended
    <2>3. Later(cgi, s, c, i)
      BY <1>5 DEF s
    <2>4. Later(cgi, cgi', c, i)
      BY <2>2, <2>3, LaterTwice
    <2>5. cgi'[c] = Append(q, NewScript(g)) /\ Append(q, NewScript(g)) \in Seq(Scripts)
      BY <1>2, <1>4, <1>5
    <2> QED BY <1>5, <2>2, <2>4, <2>5
  <1>7. PICK e : /\ e \in Events
                 /\ Placed(g, e, sock', cgi')
                 /\ events' = [events EXCEPT ![g] = e, ![f].published = TRUE]
    <2>1. ScriptEvent(c, sock[c].body) \in Events
      <3>1. sock[c].body \in BOOLEAN
        BY <1>3, <1>4 DEF Sockets
      <3> QED BY <1>3, <1>4, <3>1, ScriptEventFits
    <2>2. Placed(g, ScriptEvent(c, sock[c].body), sock', cgi')
      BY <1>4, <1>6, ScriptEventPlaced
    <2> QED BY <1>2, <2>1, <2>2, NoEventFits, NoEventPlaced
  <1>8. Placed(f, told, sock', cgi')
    <2>1. told.kind = "cgiread" /\ told.conn = c /\ told.pos = i /\ told.published
      BY <1>3, <1>4 DEF Events
    <2>2. i \in DOMAIN cgi'[c] /\ cgi'[c][i].fd = f
      BY <1>4, <1>6 DEF Later
    <2> QED BY <2>1, <2>2 DEF Placed
  <1>9. \A h \in AllFd : \/ h # f /\ events'[h] = events[h]
                         \/ Placed(h, events'[h], sock', cgi')
    <2>1. CASE g = f
      <3>1. events'[f] = [e EXCEPT !.published = TRUE]
        BY <1>3, <1>7, <2>1
      <3>2. Placed(f, events'[f], sock', cgi')
        BY <1>7, <2>1, <3>1, PublishedPlaced
      <3>3. \A h \in AllFd : h # f => events'[h] = events[h]
        BY <1>3, <1>7, <2>1
      <3> QED BY <3>2, <3>3
    <2>2. CASE g # f
      <3>1. /\ events'[f] = told
            /\ \A h \in AllFd : h # f => events'[h] = IF h = g THEN e ELSE events[h]
        BY <1>3, <1>7, <2>2
      <3> QED BY <1>7, <1>8, <3>1
    <2> QED BY <2>1, <2>2
  <1> QED BY <1>1, <1>3, <1>6, <1>9, ScriptStepPInv

LEMMA NextPInv == PInv /\ [Next]_vars => PInv'
  <1> SUFFICES ASSUME PInv, [Next]_vars PROVE PInv'
    OBVIOUS
  <1>1. IInv'
    BY NextIInv DEF PInv
  <1>2. CASE Wait
    BY <1>1, <1>2 DEF Wait, PInv, AllPlaced
  <1>3. ASSUME NEW f \in AllFd, Handler(f) PROVE PInv'
    BY <1>3, PlainHandlersPInv, ReceiveStartsScriptPInv, CgiWriteDonePInv,
       CgiReadQuietPInv, CgiReadRepliesPInv, CgiReadLocalScriptPInv
    DEF Handler
  <1>4. CASE UNCHANGED vars
    BY <1>1, <1>4 DEF vars, PInv, AllPlaced
  <1> QED BY <1>2, <1>3, <1>4 DEF Next

\* A reply of a script never looks at a field of its CgiRes before a read has
\* stored it, whichever scripts a connection went through before and whatever
\* else works on the same vector.
THEOREM ReplyKnows == Spec => []ReplyKnowsScript
  <1>1. PInv => ReplyKnowsScript
    BY DEF PInv, AllPlaced, Placed, ReplyKnowsScript, ScriptOf
  <1> QED BY InitPInv, NextPInv, <1>1, PTL DEF Spec

-----------------------------------------------------------------------------
(* The inductive invariant, about any Sockets s, vectors r, event map v and  *)
(* epoll set w, so that it can be stated for two states alike.               *)

\* The descriptors of a connection while it is open.
Own(s, r, c) ==
  IF s[c].st = "live" THEN {s[c].fd} \cup {r[c][i].fd : i \in DOMAIN r[c]} ELSE {}

Carrying(v, c) == {f \in AllFd : v[f].conn = c /\ Carries(v[f])}

\* An open connection: its client's descriptor has the event of its request or
\* of its reply, or waits unregistered for one, and one event carries it.
Mine(s, r, v, w, c) ==
  /\ \A i \in DOMAIN r[c] : r[c][i].fd # s[c].fd
  /\ \/ v[s[c].fd].conn = c /\ v[s[c].fd].kind \in Replies \cup {"receive"}
     \/ v[s[c].fd].kind = "none" /\ w[s[c].fd] = "off"
  /\ \E f \in AllFd : Carrying(v, c) = {f}

\* The event of a script that has published: of a local redirect, or the
\* output goes on and its reply is there.
Published(s, r, v, e) ==
  LET c == e.conn IN
  \/ r[c][e.pos].type = "localRedirect"
  \/ /\ r[c][e.pos].size # "eof"
     /\ v[s[c].fd].kind = "cgiresponse"
     /\ v[s[c].fd].conn = c
     /\ v[s[c].fd].pos = e.pos

Tidy(s, r, v, e) ==
  /\ e.kind \in {"none", "listen"} => e.conn = NoConn
  /\ e.kind = "cgiwrite" => ~e.published
  /\ e.conn \in Conn /\ s[e.conn].st # "live" =>
       /\ e.kind = "cgiread"
       /\ e.published
       /\ r[e.conn][e.pos].type \in {"clientRedirect", "localRedirect"}
  /\ e.conn \in Conn /\ s[e.conn].st = "live" /\ e.kind = "cgiread" /\ e.published =>
       Published(s, r, v, e)

Good(s, r, v, w) ==
  /\ \A c \in Conn : Own(s, r, c) \subseteq Fd
  /\ \A c, d \in Conn : c # d => Own(s, r, c) \cap Own(s, r, d) = {}
  /\ \A f \in Fd : (\A c \in Conn : f \notin Own(s, r, c)) => w[f] = "off"
  /\ \A c \in Conn : s[c].st = "unborn" => r[c] = <<>>
  /\ \A c \in Conn : s[c].st = "live" => Mine(s, r, v, w, c)
  /\ \A f \in AllFd : Tidy(s, r, v, v[f])

CInv == PInv /\ Good(sock, cgi, events, interest)

\* An event is as tidy as before when its connection is as before.
LEMMA TidyFrame ==
  ASSUME NEW s, NEW r, NEW v, NEW t, NEW q, NEW x, NEW e, Tidy(s, r, v, e),
         e.conn \in Conn =>
           /\ t[e.conn] = s[e.conn]
           /\ q[e.conn] = r[e.conn]
           /\ s[e.conn].st = "live" => x[s[e.conn].fd] = v[s[e.conn].fd]
  PROVE  Tidy(t, q, x, e)
  <1>1. CASE e.conn \in Conn /\ s[e.conn].st = "live"
    <2>1. /\ t[e.conn] = s[e.conn]
          /\ q[e.conn] = r[e.conn]
          /\ x[s[e.conn].fd] = v[s[e.conn].fd]
      BY <1>1
    <2>2. Published(s, r, v, e) => Published(t, q, x, e)
      BY <2>1 DEF Published
    <2> QED BY <1>1, <2>1, <2>2 DEF Tidy
  <1>2. CASE e.conn \in Conn /\ s[e.conn].st # "live"
    BY <1>2 DEF Tidy
  <1>3. CASE e.conn \notin Conn
    BY <1>3 DEF Tidy
  <1> QED BY <1>1, <1>2, <1>3

\* Every carrier sits at a descriptor of its connection.
Located(s, r, v) ==
  \A f \in AllFd : Carries(v[f]) /\ v[f].conn \in Conn /\ s[v[f].conn].st = "live" =>
    f \in Own(s, r, v[f].conn)

LEMMA Known ==
  ASSUME PInv
  PROVE  /\ IInv
         /\ sock \in [Conn -> Sockets]
         /\ cgi \in [Conn -> Seq(Scripts)]
         /\ events \in [AllFd -> Events]
         /\ interest \in [AllFd -> {"off", "in", "out"}]
         /\ Located(sock, cgi, events)
  <1>1. /\ IInv
        /\ sock \in [Conn -> Sockets]
        /\ cgi \in [Conn -> Seq(Scripts)]
        /\ events \in [AllFd -> Events]
        /\ interest \in [AllFd -> {"off", "in", "out"}]
    BY DEF PInv, IInv, TypeOK
  <1>2. ASSUME NEW f \in AllFd, Carries(events[f]), events[f].conn \in Conn,
               sock[events[f].conn].st = "live"
        PROVE  f \in Own(sock, cgi, events[f].conn)
    <2>1. Fits(f, events[f], sock) /\ Placed(f, events[f], sock, cgi)
      BY DEF PInv, IInv, AllFit, AllPlaced
    <2>2. CASE events[f].kind \in Replies \cup {"receive"}
      BY <1>2, <2>1, <2>2 DEF Fits, Own
    <2>3. CASE events[f].kind \in {"cgiwrite", "cgiread"}
      BY <1>2, <2>1, <2>3 DEF Placed, Serves, Own
    <2> QED BY <1>2, <2>2, <2>3 DEF Carries
  <1> QED BY <1>1, <1>2 DEF Located

\* The phase of a connection in any state.
PhaseOf(s, v, c) ==
  CASE s[c].st = "unborn" -> "unborn"
    [] s[c].st = "freed" -> "closed"
    [] OTHER -> LET ks == {v[f].kind : f \in Carrying(v, c)} IN
                CASE ks = {"receive"} -> "request"
                  [] ks \in {{"cgiwrite"}, {"cgiread"}} -> "script"
                  [] ks \in {{"response"}, {"cgiresponse"}} -> "reply"
                  [] OTHER -> "lost"

LEMMA PhaseOfCarried ==
  ASSUME NEW s, NEW v, NEW c, s[c].st = "live", NEW f, Carrying(v, c) = {f}
  PROVE  /\ v[f].kind = "receive" => PhaseOf(s, v, c) = "request"
         /\ v[f].kind \in {"cgiwrite", "cgiread"} => PhaseOf(s, v, c) = "script"
         /\ v[f].kind \in Replies => PhaseOf(s, v, c) = "reply"
  <1>1. {v[g].kind : g \in Carrying(v, c)} = {v[f].kind}
    OBVIOUS
  <1>2. v[f].kind = "receive" => PhaseOf(s, v, c) = "request"
    BY <1>1 DEF PhaseOf
  <1>3. v[f].kind \in {"cgiwrite", "cgiread"} => PhaseOf(s, v, c) = "script"
    BY <1>1 DEF PhaseOf
  <1>4. v[f].kind \in Replies => PhaseOf(s, v, c) = "reply"
    BY <1>1 DEF PhaseOf, Replies
  <1> QED BY <1>2, <1>3, <1>4

\* A step that works for the connection c, on the descriptors X, none of which
\* is another's: the others and their carriers stay as they are.
LEMMA StepOthers ==
  ASSUME Good(sock, cgi, events, interest), Located(sock, cgi, events),
         NEW c \in Conn, NEW d \in Conn, c # d, sock'[d] = sock[d], cgi'[d] = cgi[d],
         NEW X, X \cap Own(sock, cgi, d) = {},
         \A f \in AllFd : events'[f] = events[f] \/ (f \in X /\ events'[f].conn \in {c, NoConn}),
         \A f \in AllFd : f \notin X => interest'[f] = interest[f]
  PROVE  /\ Own(sock', cgi', d) = Own(sock, cgi, d)
         /\ sock[d].st = "live" =>
              /\ Mine(sock', cgi', events', interest', d)
              /\ Carrying(events', d) = Carrying(events, d)
              /\ \A f \in Carrying(events, d) : events'[f] = events[f]
              /\ events'[sock[d].fd] = events[sock[d].fd]
  <1>1. Own(sock', cgi', d) = Own(sock, cgi, d)
    BY DEF Own
  <1>2. ASSUME sock[d].st = "live"
        PROVE  /\ Mine(sock', cgi', events', interest', d)
               /\ Carrying(events', d) = Carrying(events, d)
               /\ \A f \in Carrying(events, d) : events'[f] = events[f]
               /\ events'[sock[d].fd] = events[sock[d].fd]
    <2>1. /\ sock[d].fd \in Own(sock, cgi, d)
          /\ sock[d].fd \in AllFd
          /\ Mine(sock, cgi, events, interest, d)
      BY <1>2 DEF Good, Own, AllFd
    <2>2. /\ events'[sock[d].fd] = events[sock[d].fd]
          /\ interest'[sock[d].fd] = interest[sock[d].fd]
      BY <2>1
    <2>3. \A f \in Carrying(events, d) : f \notin X
      BY <1>2 DEF Located, Carrying
    <2>4. d # NoConn
      BY ConstantAssumption
    <2>5. /\ Carrying(events', d) = Carrying(events, d)
          /\ \A f \in Carrying(events, d) : events'[f] = events[f]
      BY <2>3, <2>4 DEF Carrying
    <2>6. Mine(sock', cgi', events', interest', d)
      BY <2>1, <2>2, <2>5 DEF Mine
    <2> QED BY <2>2, <2>5, <2>6
  <1> QED BY <1>1, <1>2

LEMMA StepGood ==
  ASSUME Good(sock, cgi, events, interest), Located(sock, cgi, events),
         sock \in [Conn -> Sockets],
         NEW c \in Conn, NEW X,
         \A d \in Conn : d # c => /\ sock'[d] = sock[d]
                                  /\ cgi'[d] = cgi[d]
                                  /\ X \cap Own(sock, cgi, d) = {}
                                  /\ Own(sock', cgi', c) \cap Own(sock, cgi, d) = {},
         \A f \in AllFd : events'[f] = events[f] \/ (f \in X /\ events'[f].conn \in {c, NoConn}),
         \A f \in AllFd : f \notin X => interest'[f] = interest[f],
         Own(sock', cgi', c) \subseteq Fd,
         \A f \in Fd \cap (X \cup Own(sock, cgi, c)) :
           f \notin Own(sock', cgi', c) => interest'[f] = "off",
         sock'[c].st # "unborn",
         sock'[c].st = "live" => Mine(sock', cgi', events', interest', c),
         \A f \in AllFd : events'[f].conn = c \/ events'[f] # events[f] =>
           Tidy(sock', cgi', events', events'[f])
  PROVE  /\ Good(sock', cgi', events', interest')
         /\ \A d \in Conn : d # c => PhaseOf(sock', events', d) = PhaseOf(sock, events, d)
  <1>1. ASSUME NEW d \in Conn, d # c
        PROVE  /\ Own(sock', cgi', d) = Own(sock, cgi, d)
               /\ sock[d].st = "live" =>
                    /\ Mine(sock', cgi', events', interest', d)
                    /\ Carrying(events', d) = Carrying(events, d)
                    /\ \A f \in Carrying(events, d) : events'[f] = events[f]
                    /\ events'[sock[d].fd] = events[sock[d].fd]
    <2>1. sock'[d] = sock[d] /\ cgi'[d] = cgi[d] /\ X \cap Own(sock, cgi, d) = {}
      BY <1>1
    <2> QED BY <1>1, <2>1, StepOthers
  <1>2. \A d \in Conn : Own(sock', cgi', d) \subseteq Fd
    BY <1>1 DEF Good
  <1>3. \A d, e \in Conn : d # e => Own(sock', cgi', d) \cap Own(sock', cgi', e) = {}
    <2> SUFFICES ASSUME NEW d \in Conn, NEW e \in Conn, d # e
                 PROVE  Own(sock', cgi', d) \cap Own(sock', cgi', e) = {}
      OBVIOUS
    <2>1. CASE d = c
      BY <1>1, <2>1
    <2>2. CASE e = c
      BY <1>1, <2>2
    <2>3. CASE d # c /\ e # c
      BY <1>1, <2>3 DEF Good
    <2> QED BY <2>1, <2>2, <2>3
  <1>4. ASSUME NEW f \in Fd, \A d \in Conn : f \notin Own(sock', cgi', d)
        PROVE  interest'[f] = "off"
    <2>1. CASE f \in X \cup Own(sock, cgi, c)
      BY <1>4, <2>1
    <2>2. CASE f \notin X \cup Own(sock, cgi, c)
      <3>1. \A d \in Conn : f \notin Own(sock, cgi, d)
        BY <1>1, <1>4, <2>2
      <3> QED BY <2>2, <3>1 DEF Good, AllFd
    <2> QED BY <2>1, <2>2
  <1>5. \A d \in Conn : sock'[d].st = "unborn" => cgi'[d] = <<>>
    BY DEF Good
  <1>6. \A d \in Conn : sock'[d].st = "live" => Mine(sock', cgi', events', interest', d)
    BY <1>1
  <1>7. ASSUME NEW f \in AllFd PROVE Tidy(sock', cgi', events', events'[f])
    <2>1. CASE events'[f].conn = c \/ events'[f] # events[f]
      BY <2>1
    <2>2. CASE events'[f].conn # c /\ events'[f] = events[f]
      <3> DEFINE d == events[f].conn
      <3>1. Tidy(sock, cgi, events, events[f])
        BY DEF Good
      <3>2. ASSUME d \in Conn
            PROVE  /\ sock'[d] = sock[d]
                   /\ cgi'[d] = cgi[d]
                   /\ sock[d].st = "live" => events'[sock[d].fd] = events[sock[d].fd]
        <4>1. d # c
          BY <2>2
        <4> HIDE DEF d
        <4> QED BY <1>1, <3>2, <4>1
      <3>3. Tidy(sock', cgi', events', events[f])
        BY <3>1, <3>2, TidyFrame
      <3> QED BY <2>2, <3>3
    <2> QED BY <2>1, <2>2
  <1>8. Good(sock', cgi', events', interest')
    BY <1>2, <1>3, <1>4, <1>5, <1>6, <1>7 DEF Good
  <1>9. ASSUME NEW d \in Conn, d # c
        PROVE  PhaseOf(sock', events', d) = PhaseOf(sock, events, d)
    <2>1. CASE sock[d].st # "live"
      <3>1. sock[d].st \in {"unborn", "freed"} /\ sock'[d] = sock[d]
        BY <1>9, <2>1 DEF Sockets
      <3> QED BY <3>1 DEF PhaseOf
    <2>2. CASE sock[d].st = "live"
      <3>1. {events'[f].kind : f \in Carrying(events', d)}
              = {events[f].kind : f \in Carrying(events, d)}
        BY <1>1, <1>9, <2>2
      <3> QED BY <1>9, <3>1 DEF PhaseOf
    <2> QED BY <2>1, <2>2
  <1> QED BY <1>8, <1>9

LEMMA PhaseIs ==
  /\ [c \in Conn |-> Phase(c)] = [c \in Conn |-> PhaseOf(sock, events, c)]
  /\ [c \in Conn |-> Phase(c)]' = [c \in Conn |-> PhaseOf(sock', events', c)]
  BY DEF Phase, PhaseOf, Carriers, Carrying

\* The steps Lifecycle allows one connection.
Allowed ==
  {<<"unborn", "request">>, <<"request", "script">>, <<"request", "reply">>,
   <<"script", "reply">>, <<"request", "closed">>, <<"reply", "closed">>}

LEMMA MoveStep ==
  ASSUME NEW c \in Conn,
         \A d \in Conn : d # c => PhaseOf(sock', events', d) = PhaseOf(sock, events, d),
         \/ PhaseOf(sock', events', c) = PhaseOf(sock, events, c)
         \/ <<PhaseOf(sock, events, c), PhaseOf(sock', events', c)>> \in Allowed
  PROVE  [L!Next]_([d \in Conn |-> Phase(d)])
  <1> DEFINE p == [d \in Conn |-> PhaseOf(sock, events, d)]
             q == [d \in Conn |-> PhaseOf(sock', events', d)]
  <1>1. CASE q[c] = p[c]
    <2>1. q = p
      BY <1>1
    <2> QED BY <2>1, PhaseIs
  <1>2. CASE <<p[c], q[c]>> \in Allowed
    <2>1. q = [p EXCEPT ![c] = q[c]]
      OBVIOUS
    <2>2. /\ [d \in Conn |-> Phase(d)] = p
          /\ [d \in Conn |-> Phase(d)]' = q
      BY PhaseIs
    <2> HIDE DEF p, q
    <2>3. L!Accept(c) \/ L!RunScript(c) \/ L!Reply(c) \/ L!HangUp(c) \/ L!Close(c)
      BY <1>2, <2>1, <2>2
      DEF Allowed, L!Accept, L!RunScript, L!Reply, L!HangUp, L!Close, L!Move
    <2> QED BY <2>3 DEF L!Next
  <1> QED BY <1>1, <1>2

\* What is known when the event f of kind k that carries a connection c is
\* dispatched.
CarriedBy(f, c, k) ==
  /\ c \in Conn
  /\ sock[c].st = "live"
  /\ events[f].kind = k
  /\ Carrying(events, c) = {f}
  /\ f \in Own(sock, cgi, c)
  /\ Mine(sock, cgi, events, interest, c)
  /\ \A h \in AllFd : h # f /\ events[h].conn = c =>
       /\ events[h].kind = "cgiread"
       /\ events[h].published
       /\ events[h].pos \in DOMAIN cgi[c]
       /\ cgi[c][events[h].pos].fd = h
       /\ \/ cgi[c][events[h].pos].type = "localRedirect"
          \/ /\ k = "cgiresponse"
             /\ events[h].pos = events[f].pos
             /\ cgi[c][events[h].pos].size # "eof"
  /\ k \in {"cgiwrite", "cgiread"} => /\ events[sock[c].fd].kind = "none"
                                      /\ interest[sock[c].fd] = "off"
  /\ k \notin {"cgiwrite", "cgiread"} => sock[c].fd = f

LEMMA CarrierFacts ==
  ASSUME CInv, NEW f \in AllFd, NEW k, Dispatch(f, k), k \in Kinds \ {"listen"},
         k = "cgiread" => ~events[f].published
  PROVE  CarriedBy(f, events[f].conn, k)
  <1> DEFINE c == events[f].conn
  <1>0. /\ PInv /\ IInv
        /\ Located(sock, cgi, events)
        /\ events \in [AllFd -> Events]
        /\ Good(sock, cgi, events, interest)
    BY Known DEF CInv
  <1>1. /\ c \in Conn
        /\ sock[c].st = "live"
        /\ events[f].kind = k
        /\ k \in Replies \cup {"receive"} => sock[c].fd = f
    BY <1>0, DispatchFacts
  <1>2. Mine(sock, cgi, events, interest, c)
    BY <1>0, <1>1 DEF Good
  <1>3. Carries(events[f])
    BY <1>1 DEF Carries, Kinds, Replies
  <1>4. Carrying(events, c) = {f}
    BY <1>2, <1>3 DEF Carrying, Mine
  <1>5. f \in Own(sock, cgi, c)
    BY <1>0, <1>1, <1>3 DEF Located
  <1>6. sock[c].fd \in AllFd
    BY <1>0, <1>1 DEF Good, Own, AllFd
  <1>7. ASSUME NEW h \in AllFd, h # f, events[h].conn = c
        PROVE  /\ events[h].kind = "cgiread"
               /\ events[h].published
               /\ events[h].pos \in DOMAIN cgi[c]
               /\ cgi[c][events[h].pos].fd = h
               /\ \/ cgi[c][events[h].pos].type = "localRedirect"
                  \/ /\ k = "cgiresponse"
                     /\ events[h].pos = events[f].pos
                     /\ cgi[c][events[h].pos].size # "eof"
    <2>1. ~Carries(events[h])
      BY <1>4, <1>7 DEF Carrying
    <2>2. /\ events[h] \in Events
          /\ Tidy(sock, cgi, events, events[h])
          /\ Placed(h, events[h], sock, cgi)
      BY <1>0 DEF Good, PInv, AllPlaced
    <2>3. c # NoConn
      BY <1>1, ConstantAssumption
    <2>4. events[h].kind = "cgiread" /\ events[h].published
      BY <1>7, <2>1, <2>2, <2>3 DEF Tidy, Carries, Events, Kinds, Replies
    <2>5. Published(sock, cgi, events, events[h])
      BY <1>1, <1>7, <2>2, <2>4 DEF Tidy
    <2>6. events[h].pos \in DOMAIN cgi[c] /\ cgi[c][events[h].pos].fd = h
      BY <1>1, <1>7, <2>2, <2>4 DEF Placed, Serves
    <2>7. events[sock[c].fd].kind = "cgiresponse" /\ events[sock[c].fd].conn = c
            => sock[c].fd = f
      BY <1>4, <1>6 DEF Carrying, Carries, Replies
    <2> QED BY <1>1, <1>7, <2>4, <2>5, <2>6, <2>7 DEF Published
  <1>8. k \in {"cgiwrite", "cgiread"} => /\ events[sock[c].fd].kind = "none"
                                         /\ interest[sock[c].fd] = "off"
    <2>1. events[sock[c].fd].conn = c /\ events[sock[c].fd].kind \in Replies \cup {"receive"}
            => sock[c].fd = f
      BY <1>4, <1>6 DEF Carrying, Carries
    <2> QED BY <1>1, <1>2, <2>1 DEF Mine, Replies
  <1>9. k \notin {"cgiwrite", "cgiread"} => sock[c].fd = f
    BY <1>1 DEF Kinds, Replies
  <1> QED BY <1>1, <1>2, <1>4, <1>5, <1>7, <1>8, <1>9 DEF CarriedBy

-----------------------------------------------------------------------------
(* One lemma per group of handlers: the invariant holds after it, and it is  *)
(* a step of Lifecycle or none.                                              *)

Settled ==
  /\ Good(sock', cgi', events', interest')
  /\ [L!Next]_([c \in Conn |-> Phase(c)])

LEMMA QuietSettled ==
  ASSUME CInv, UNCHANGED <<sock, cgi, events, interest>>
  PROVE  Settled
  <1>1. [c \in Conn |-> Phase(c)]' = [c \in Conn |-> Phase(c)]
    BY PhaseIs
  <1> QED BY <1>1 DEF Settled, CInv

\* A descriptor given out is nobody's, and registering it succeeds.
LEMMA FreeFacts ==
  ASSUME CInv, ~AddMayFail, NEW g, IsLowestFree(g)
  PROVE  /\ g \in Fd
         /\ \A d \in Conn : g \notin Own(sock, cgi, d)
         /\ ~AddCanFail(g)
  <1>1. g \in Fd /\ \A d \in Conn : g \notin Own(sock, cgi, d)
    BY DEF IsLowestFree, Free, Owned, Own, Live
  <1>2. interest[g] = "off"
    BY <1>1 DEF CInv, Good
  <1> QED BY <1>1, <1>2 DEF AddCanFail, CanAdd

\* The connections of two descriptors.
LEMMA OwnApart ==
  ASSUME CInv, NEW c \in Conn, NEW d \in Conn, d # c
  PROVE  Own(sock, cgi, c) \cap Own(sock, cgi, d) = {}
  BY DEF CInv, Good

LEMMA AcceptSettled ==
  ASSUME CInv, ~AddMayFail, NEW f \in AllFd, Accept(f)
  PROVE  Settled
  <1>0. /\ Good(sock, cgi, events, interest)
        /\ Located(sock, cgi, events)
        /\ sock \in [Conn -> Sockets]
        /\ events \in [AllFd -> Events]
        /\ interest \in [AllFd -> {"off", "in", "out"}]
        /\ AllFit
    BY Known DEF CInv, IInv
  <1>1. PICK c \in Conn, g \in Fd :
          /\ sock[c].st = "unborn"
          /\ IsLowestFree(g)
          /\ sock' = [sock EXCEPT ![c].st = "live", ![c].fd = g]
          /\ \/ /\ CanAdd(g)
                /\ events' = [events EXCEPT ![g] = Event("receive", c, 0)]
                /\ interest' = [interest EXCEPT ![g] = "in"]
             \/ AddCanFail(g)
          /\ UNCHANGED cgi
    BY DEF Accept
  <1>2. /\ \A d \in Conn : g \notin Own(sock, cgi, d)
        /\ events' = [events EXCEPT ![g] = Event("receive", c, 0)]
        /\ interest' = [interest EXCEPT ![g] = "in"]
    BY <1>1, FreeFacts
  <1>3. /\ g \in AllFd
        /\ events'[g].kind = "receive"
        /\ events'[g].conn = c
        /\ \A h \in AllFd : h # g => events'[h] = events[h] /\ interest'[h] = interest[h]
    BY <1>0, <1>2 DEF Event, AllFd
  <1>4. /\ cgi'[c] = <<>>
        /\ sock'[c].st = "live"
        /\ sock'[c].fd = g
        /\ \A d \in Conn : d # c => sock'[d] = sock[d] /\ cgi'[d] = cgi[d]
    BY <1>0, <1>1 DEF Good, Sockets
  <1>5. \A h \in AllFd : events[h].conn # c
    BY <1>0, <1>1 DEF AllFit, Fits
  <1>6. Own(sock', cgi', c) = {g}
    BY <1>4 DEF Own
  <1>7. Carrying(events', c) = {g}
    BY <1>3, <1>5 DEF Carrying, Carries
  <1>8. Mine(sock', cgi', events', interest', c)
    BY <1>3, <1>4, <1>7 DEF Mine
  <1>9. Tidy(sock', cgi', events', events'[g])
    BY <1>3, <1>4 DEF Tidy
  <1>10. Own(sock, cgi, c) = {}
    BY <1>1 DEF Own
  <1>11. \A h \in AllFd : events'[h].conn = c \/ events'[h] # events[h] => h = g
    BY <1>3, <1>5
  <1>12. /\ Good(sock', cgi', events', interest')
         /\ \A d \in Conn : d # c => PhaseOf(sock', events', d) = PhaseOf(sock, events, d)
    <2> DEFINE X == {g}
    <2>1. \A d \in Conn : d # c => /\ sock'[d] = sock[d]
                                   /\ cgi'[d] = cgi[d]
                                   /\ X \cap Own(sock, cgi, d) = {}
                                   /\ Own(sock', cgi', c) \cap Own(sock, cgi, d) = {}
      BY <1>2, <1>4, <1>6
    <2>2. /\ \A h \in AllFd : \/ events'[h] = events[h]
                              \/ h \in X /\ events'[h].conn \in {c, NoConn}
          /\ \A h \in AllFd : h \notin X => interest'[h] = interest[h]
      BY <1>3
    <2>3. /\ Own(sock', cgi', c) \subseteq Fd
          /\ \A h \in Fd \cap (X \cup Own(sock, cgi, c)) :
               h \notin Own(sock', cgi', c) => interest'[h] = "off"
      BY <1>6, <1>10
    <2>4. \A h \in AllFd : events'[h].conn = c \/ events'[h] # events[h] =>
            Tidy(sock', cgi', events', events'[h])
      BY <1>9, <1>11
    <2>5. sock'[c].st # "unborn"
      BY <1>4
    <2> HIDE DEF X
    <2> QED BY <1>0, <1>8, <2>1, <2>2, <2>3, <2>4, <2>5, StepGood
  <1>13. /\ PhaseOf(sock, events, c) = "unborn"
         /\ PhaseOf(sock', events', c) = "request"
    <2>1. PhaseOf(sock, events, c) = "unborn"
      BY <1>1 DEF PhaseOf
    <2>2. PhaseOf(sock', events', c) = "request"
      BY <1>3, <1>4, <1>7, PhaseOfCarried
    <2> QED BY <2>1, <2>2
  <1>14. <<PhaseOf(sock, events, c), PhaseOf(sock', events', c)>> \in Allowed
    BY <1>13 DEF Allowed
  <1> QED BY <1>12, <1>14, MoveStep DEF Settled

\* The Socket is deleted together with the event that carried it.
LEMMA DeleteSettled ==
  ASSUME CInv, NEW f \in AllFd,
         ReceiveDisconnect(f) \/ ResponseDone(f) \/ CgiResponseDone(f)
  PROVE  Settled
  <1> DEFINE c == events[f].conn
             k == events[f].kind
  <1>0. /\ Good(sock, cgi, events, interest)
        /\ Located(sock, cgi, events)
        /\ sock \in [Conn -> Sockets]
        /\ events \in [AllFd -> Events]
        /\ interest \in [AllFd -> {"off", "in", "out"}]
    BY Known DEF CInv
  <1>1. /\ Dispatch(f, k)
        /\ k \in Replies \cup {"receive"}
        /\ k = "cgiresponse" => \/ cgi[c][events[f].pos].type = "clientRedirect"
                                \/ cgi[c][events[f].pos].size = "eof"
        /\ sock' = [sock EXCEPT ![c].st = "freed"]
        /\ events' = [events EXCEPT ![f] = NoEvent]
        /\ interest' = Closed(c, [interest EXCEPT ![f] = "off"])
        /\ UNCHANGED cgi
    BY DEF ReceiveDisconnect, ResponseDone, CgiResponseDone, ReplyDone, Freed,
       Replies, ScriptOf, Dispatch
  <1>2. /\ c \in Conn
        /\ sock[c].st = "live"
        /\ Carrying(events, c) = {f}
        /\ f \in Own(sock, cgi, c)
        /\ \A h \in AllFd : h # f /\ events[h].conn = c =>
              /\ events[h].kind = "cgiread"
              /\ events[h].published
              /\ \/ cgi[c][events[h].pos].type = "localRedirect"
                 \/ /\ k = "cgiresponse"
                    /\ events[h].pos = events[f].pos
                    /\ cgi[c][events[h].pos].size # "eof"
    <2>1. /\ Dispatch(f, k)
          /\ k \in Kinds \ {"listen"}
          /\ k = "cgiread" => ~events[f].published
      BY <1>1 DEF Replies, Kinds
    <2>2. CarriedBy(f, c, k)
      BY <2>1, CarrierFacts
    <2> QED BY <2>2 DEF CarriedBy
  <1> HIDE DEF c, k
  <1>3. /\ sock'[c].st = "freed"
        /\ \A d \in Conn : d # c => sock'[d] = sock[d] /\ cgi'[d] = cgi[d]
    BY <1>0, <1>1, <1>2 DEF Sockets
  <1>4. /\ events'[f] = NoEvent
        /\ \A h \in AllFd : h # f => events'[h] = events[h]
    BY <1>0, <1>1
  <1>5. Owned(c) = Own(sock, cgi, c)
    BY <1>2 DEF Owned, Own
  <1>6. \A h \in AllFd : interest'[h] = IF h \in Own(sock, cgi, c) THEN "off" ELSE interest[h]
    BY <1>0, <1>1, <1>2, <1>5 DEF Closed
  <1>7. Own(sock', cgi', c) = {}
    BY <1>3 DEF Own
  <1>8. NoEvent.kind = "none" /\ NoEvent.conn = NoConn
    BY DEF NoEvent, Event
  <1>9. ASSUME NEW h \in AllFd, events'[h].conn = c \/ events'[h] # events[h]
        PROVE  Tidy(sock', cgi', events', events'[h])
    <2>1. CASE h = f
      BY <1>4, <1>8, <2>1, ConstantAssumption DEF Tidy
    <2>2. CASE h # f
      <3>1. events'[h] = events[h] /\ events[h].conn = c
        BY <1>4, <1>9, <2>2
      <3>2. /\ events[h].kind = "cgiread"
            /\ events[h].published
            /\ cgi[c][events[h].pos].type \in {"clientRedirect", "localRedirect"}
        BY <1>1, <1>2, <2>2, <3>1
      <3> QED BY <1>1, <1>3, <3>1, <3>2 DEF Tidy
    <2> QED BY <2>1, <2>2
  <1>10. /\ Good(sock', cgi', events', interest')
         /\ \A d \in Conn : d # c => PhaseOf(sock', events', d) = PhaseOf(sock, events, d)
    <2> DEFINE X == Own(sock, cgi, c)
    <2>1. \A d \in Conn : d # c => /\ sock'[d] = sock[d]
                                   /\ cgi'[d] = cgi[d]
                                   /\ X \cap Own(sock, cgi, d) = {}
                                   /\ Own(sock', cgi', c) \cap Own(sock, cgi, d) = {}
      BY <1>2, <1>3, <1>7, OwnApart
    <2>2. /\ \A h \in AllFd : \/ events'[h] = events[h]
                              \/ h \in X /\ events'[h].conn \in {c, NoConn}
          /\ \A h \in AllFd : h \notin X => interest'[h] = interest[h]
      BY <1>2, <1>4, <1>6, <1>8
    <2>3. /\ Own(sock', cgi', c) \subseteq Fd
          /\ \A h \in Fd \cap (X \cup Own(sock, cgi, c)) :
               h \notin Own(sock', cgi', c) => interest'[h] = "off"
      BY <1>6, <1>7 DEF AllFd
    <2>4. sock'[c].st # "unborn" /\ sock'[c].st # "live"
      BY <1>3
    <2> HIDE DEF X
    <2> QED BY <1>0, <1>2, <1>9, <2>1, <2>2, <2>3, <2>4, StepGood
  <1>11. <<PhaseOf(sock, events, c), PhaseOf(sock', events', c)>> \in Allowed
    <2>1. PhaseOf(sock', events', c) = "closed"
      BY <1>3 DEF PhaseOf
    <2>2. PhaseOf(sock, events, c) \in {"request", "reply"}
      BY <1>1, <1>2, PhaseOfCarried DEF k
    <2> QED BY <2>1, <2>2 DEF Allowed
  <1> QED BY <1>2, <1>10, <1>11, MoveStep DEF Settled

\* A step that changes no descriptor of its connection.
LEMMA KeptStep ==
  ASSUME CInv, NEW c \in Conn, sock[c].st = "live", sock'[c].st = "live",
         sock'[c].fd = sock[c].fd, DOMAIN cgi'[c] = DOMAIN cgi[c],
         \A j \in DOMAIN cgi[c] : cgi'[c][j].fd = cgi[c][j].fd,
         \A d \in Conn : d # c => sock'[d] = sock[d] /\ cgi'[d] = cgi[d],
         NEW X, X \subseteq Own(sock, cgi, c),
         \A h \in AllFd : events'[h] = events[h] \/ (h \in X /\ events'[h].conn \in {c, NoConn}),
         \A h \in AllFd : h \notin X => interest'[h] = interest[h],
         \/ events'[sock[c].fd].conn = c /\ events'[sock[c].fd].kind \in Replies \cup {"receive"}
         \/ events'[sock[c].fd].kind = "none" /\ interest'[sock[c].fd] = "off",
         \E f \in AllFd : Carrying(events', c) = {f},
         \A h \in AllFd : events'[h].conn = c \/ events'[h] # events[h] =>
           Tidy(sock', cgi', events', events'[h])
  PROVE  /\ Good(sock', cgi', events', interest')
         /\ \A d \in Conn : d # c => PhaseOf(sock', events', d) = PhaseOf(sock, events, d)
  <1>1. /\ Good(sock, cgi, events, interest)
        /\ Located(sock, cgi, events)
        /\ sock \in [Conn -> Sockets]
    BY Known DEF CInv
  <1>2. Own(sock', cgi', c) = Own(sock, cgi, c)
    BY DEF Own
  <1>3. /\ Own(sock, cgi, c) \subseteq Fd
        /\ Mine(sock, cgi, events, interest, c)
    BY <1>1 DEF Good
  <1>4. Mine(sock', cgi', events', interest', c)
    BY <1>3 DEF Mine
  <1>5. \A d \in Conn : d # c => /\ sock'[d] = sock[d]
                                 /\ cgi'[d] = cgi[d]
                                 /\ X \cap Own(sock, cgi, d) = {}
                                 /\ Own(sock', cgi', c) \cap Own(sock, cgi, d) = {}
    BY <1>2, OwnApart
  <1>6. \A h \in Fd \cap (X \cup Own(sock, cgi, c)) :
          h \notin Own(sock', cgi', c) => interest'[h] = "off"
    BY <1>2
  <1>7. sock'[c].st # "unborn" /\ Own(sock', cgi', c) \subseteq Fd
    BY <1>2, <1>3
  <1> QED BY <1>1, <1>4, <1>5, <1>6, <1>7, StepGood

\* A step that starts the script at descriptor g, which carries on.
LEMMA StartedStep ==
  ASSUME CInv, ~AddMayFail, NEW c \in Conn, sock[c].st = "live", sock'[c].st = "live",
         sock'[c].fd = sock[c].fd, NEW g, IsLowestFree(g),
         Own(sock', cgi', c) = Own(sock, cgi, c) \cup {g},
         \A j \in DOMAIN cgi'[c] : cgi'[c][j].fd # sock[c].fd,
         \A d \in Conn : d # c => sock'[d] = sock[d] /\ cgi'[d] = cgi[d],
         NEW f \in Own(sock, cgi, c),
         \A h \in AllFd : \/ events'[h] = events[h]
                          \/ h \in {f, g} /\ events'[h].conn \in {c, NoConn},
         \A h \in AllFd : h \notin {f, g} => interest'[h] = interest[h],
         events'[sock[c].fd].kind = "none" /\ interest'[sock[c].fd] = "off",
         Carrying(events', c) = {g},
         \A h \in AllFd : events'[h].conn = c \/ events'[h] # events[h] =>
           Tidy(sock', cgi', events', events'[h])
  PROVE  /\ Good(sock', cgi', events', interest')
         /\ \A d \in Conn : d # c => PhaseOf(sock', events', d) = PhaseOf(sock, events, d)
  <1>1. /\ Good(sock, cgi, events, interest)
        /\ Located(sock, cgi, events)
        /\ sock \in [Conn -> Sockets]
    BY Known DEF CInv
  <1>2. /\ g \in Fd
        /\ \A d \in Conn : g \notin Own(sock, cgi, d)
    BY FreeFacts
  <1>3. Own(sock, cgi, c) \subseteq Fd
    BY <1>1 DEF Good
  <1>4. Mine(sock', cgi', events', interest', c)
    BY <1>2 DEF Mine, AllFd
  <1> DEFINE X == {f, g}
  <1>5. \A d \in Conn : d # c => /\ sock'[d] = sock[d]
                                 /\ cgi'[d] = cgi[d]
                                 /\ X \cap Own(sock, cgi, d) = {}
                                 /\ Own(sock', cgi', c) \cap Own(sock, cgi, d) = {}
    BY <1>2, OwnApart
  <1>6. \A h \in Fd \cap (X \cup Own(sock, cgi, c)) :
          h \notin Own(sock', cgi', c) => interest'[h] = "off"
    OBVIOUS
  <1>7. sock'[c].st # "unborn" /\ Own(sock', cgi', c) \subseteq Fd
    BY <1>2, <1>3
  <1>8. /\ \A h \in AllFd : \/ events'[h] = events[h]
                            \/ h \in X /\ events'[h].conn \in {c, NoConn}
        /\ \A h \in AllFd : h \notin X => interest'[h] = interest[h]
    OBVIOUS
  <1> HIDE DEF X
  <1> QED BY <1>1, <1>4, <1>5, <1>6, <1>7, <1>8, StepGood

LEMMA ReceiveRepliesSettled ==
  ASSUME CInv, NEW f \in AllFd, ReceiveReplies(f)
  PROVE  Settled
  <1> DEFINE c == events[f].conn
  <1>0. /\ sock \in [Conn -> Sockets]
        /\ events \in [AllFd -> Events]
        /\ interest \in [AllFd -> {"off", "in", "out"}]
    BY Known DEF CInv
  <1>1. /\ Dispatch(f, "receive")
        /\ sock' = [sock EXCEPT ![c].code = TRUE]
        /\ events' = [events EXCEPT ![f] = Event("response", c, 0)]
        /\ interest' = [interest EXCEPT ![f] = "out"]
        /\ UNCHANGED cgi
    BY DEF ReceiveReplies
  <1>2. /\ c \in Conn
        /\ sock[c].st = "live"
        /\ events[f].kind = "receive"
        /\ Carrying(events, c) = {f}
        /\ f \in Own(sock, cgi, c)
        /\ sock[c].fd = f
        /\ \A h \in AllFd : h # f /\ events[h].conn = c =>
             /\ events[h].kind = "cgiread"
             /\ events[h].published
             /\ cgi[c][events[h].pos].type = "localRedirect"
    <2>1. CarriedBy(f, c, "receive")
      BY <1>1, CarrierFacts DEF Kinds
    <2> QED BY <2>1 DEF CarriedBy
  <1> HIDE DEF c
  <1>3. /\ sock'[c].st = "live"
        /\ sock'[c].fd = f
        /\ \A d \in Conn : d # c => sock'[d] = sock[d] /\ cgi'[d] = cgi[d]
        /\ cgi'[c] = cgi[c]
    BY <1>0, <1>1, <1>2 DEF Sockets
  <1>4. /\ events'[f].kind = "response"
        /\ events'[f].conn = c
        /\ \A h \in AllFd : h # f => events'[h] = events[h] /\ interest'[h] = interest[h]
    BY <1>0, <1>1 DEF Event
  <1>5. Carrying(events', c) = {f}
    BY <1>2, <1>4 DEF Carrying, Carries, Replies
  <1>6. ASSUME NEW h \in AllFd, events'[h].conn = c \/ events'[h] # events[h]
        PROVE  Tidy(sock', cgi', events', events'[h])
    <2>1. CASE h = f
      BY <1>3, <1>4, <2>1 DEF Tidy
    <2>2. CASE h # f
      BY <1>2, <1>3, <1>4, <1>6, <2>2 DEF Tidy, Published
    <2> QED BY <2>1, <2>2
  <1>7. /\ Good(sock', cgi', events', interest')
        /\ \A d \in Conn : d # c => PhaseOf(sock', events', d) = PhaseOf(sock, events, d)
    <2> DEFINE X == {f}
    <2>1. /\ X \subseteq Own(sock, cgi, c)
          /\ \A h \in AllFd : \/ events'[h] = events[h]
                              \/ h \in X /\ events'[h].conn \in {c, NoConn}
          /\ \A h \in AllFd : h \notin X => interest'[h] = interest[h]
      BY <1>2, <1>4
    <2>2. events'[sock[c].fd].conn = c /\ events'[sock[c].fd].kind \in Replies \cup {"receive"}
      BY <1>2, <1>4 DEF Replies
    <2> HIDE DEF X
    <2>3. /\ sock[c].st = "live" /\ sock'[c].st = "live"
          /\ sock'[c].fd = sock[c].fd
          /\ DOMAIN cgi'[c] = DOMAIN cgi[c]
          /\ \A j \in DOMAIN cgi[c] : cgi'[c][j].fd = cgi[c][j].fd
          /\ \E h \in AllFd : Carrying(events', c) = {h}
      BY <1>2, <1>3, <1>5
    <2> QED BY <1>2, <1>3, <1>6, <2>1, <2>2, <2>3, KeptStep
  <1>8. <<PhaseOf(sock, events, c), PhaseOf(sock', events', c)>> \in Allowed
    <2>1. PhaseOf(sock, events, c) = "request"
      BY <1>2, PhaseOfCarried
    <2>2. PhaseOf(sock', events', c) = "reply"
      BY <1>3, <1>4, <1>5, PhaseOfCarried DEF Replies
    <2> QED BY <2>1, <2>2 DEF Allowed
  <1> QED BY <1>2, <1>7, <1>8, MoveStep DEF Settled

LEMMA ScriptEventCarries ==
  ASSUME NEW c, NEW body
  PROVE  /\ ScriptEvent(c, body).kind \in {"cgiwrite", "cgiread"}
         /\ ScriptEvent(c, body).conn = c
         /\ ~ScriptEvent(c, body).published
         /\ Carries(ScriptEvent(c, body))
  BY DEF ScriptEvent, Event, Carries

\* The descriptors of a vector, and of the vector a that q became with the
\* script g.
Fds(q) == {q[i].fd : i \in DOMAIN q}

LEMMA AppendedFds ==
  ASSUME NEW q \in Seq(Scripts), NEW g \in Fd, NEW a, a = Append(q, NewScript(g))
  PROVE  /\ Fds(a) = Fds(q) \cup {g}
         /\ \A i \in DOMAIN q : i \in DOMAIN a /\ a[i] = q[i]
  <1>1. NewScript(g).fd = g /\ NewScript(g) \in Scripts
    BY NewScriptIsTyped DEF NewScript
  <1>2. /\ DOMAIN a = DOMAIN q \cup {Len(q) + 1}
        /\ \A i \in DOMAIN q : a[i] = q[i]
        /\ a[Len(q) + 1] = NewScript(g)
    BY <1>1
  <1>3. Fds(a) = Fds(q) \cup {g}
    BY <1>1, <1>2 DEF Fds
  <1> QED BY <1>2, <1>3

LEMMA ReceiveStartsScriptSettled ==
  ASSUME CInv, ~AddMayFail, NEW f \in AllFd, ReceiveStartsScript(f)
  PROVE  Settled
  <1> DEFINE c == events[f].conn
  <1>0. /\ sock \in [Conn -> Sockets]
        /\ cgi \in [Conn -> Seq(Scripts)]
        /\ events \in [AllFd -> Events]
        /\ interest \in [AllFd -> {"off", "in", "out"}]
    BY Known DEF CInv
  <1>1. PICK g \in Fd, body \in BOOLEAN :
          /\ IsLowestFree(g)
          /\ sock' = [sock EXCEPT ![c].body = body]
          /\ cgi' = [cgi EXCEPT ![c] = Append(@, NewScript(g))]
          /\ \/ /\ CanAdd(g)
                /\ events' = [events EXCEPT ![g] = ScriptEvent(c, body),
                                            ![f] = NoEvent]
                /\ interest' = [interest EXCEPT ![g] = IF body THEN "out" ELSE "in",
                                                ![f] = "off"]
             \/ AddCanFail(g)
    BY DEF ReceiveStartsScript, StartScript
  <1>2. /\ \A d \in Conn : g \notin Own(sock, cgi, d)
        /\ events' = [events EXCEPT ![g] = ScriptEvent(c, body), ![f] = NoEvent]
        /\ interest' = [interest EXCEPT ![g] = IF body THEN "out" ELSE "in",
                                        ![f] = "off"]
    BY <1>1, FreeFacts
  <1>3. /\ c \in Conn
        /\ sock[c].st = "live"
        /\ events[f].kind = "receive"
        /\ Carrying(events, c) = {f}
        /\ f \in Own(sock, cgi, c)
        /\ Mine(sock, cgi, events, interest, c)
        /\ sock[c].fd = f
        /\ \A h \in AllFd : h # f /\ events[h].conn = c =>
             /\ events[h].kind = "cgiread"
             /\ events[h].published
             /\ events[h].pos \in DOMAIN cgi[c]
             /\ cgi[c][events[h].pos].type = "localRedirect"
    <2>1. Dispatch(f, "receive")
      BY DEF ReceiveStartsScript
    <2>2. CarriedBy(f, c, "receive")
      BY <2>1, CarrierFacts DEF Kinds
    <2> QED BY <2>2 DEF CarriedBy
  <1> HIDE DEF c
  <1>4. /\ sock'[c].st = "live"
        /\ sock'[c].fd = f
        /\ \A d \in Conn : d # c => sock'[d] = sock[d] /\ cgi'[d] = cgi[d]
        /\ cgi'[c] = Append(cgi[c], NewScript(g))
    BY <1>0, <1>1, <1>3 DEF Sockets
  <1>5. /\ f # g
        /\ g \in AllFd
    BY <1>2, <1>3 DEF AllFd
  <1>6. /\ events'[f].kind = "none" /\ events'[f].conn = NoConn
        /\ events'[g] = ScriptEvent(c, body)
        /\ interest'[f] = "off"
        /\ \A h \in AllFd : h \notin {f, g} => /\ events'[h] = events[h]
                                               /\ interest'[h] = interest[h]
    <2>1. NoEvent.kind = "none" /\ NoEvent.conn = NoConn
      BY DEF NoEvent, Event
    <2> QED BY <1>0, <1>2, <1>5, <2>1
  <1>7. /\ Fds(cgi'[c]) = Fds(cgi[c]) \cup {g}
        /\ \A j \in DOMAIN cgi[c] : cgi'[c][j] = cgi[c][j]
    <2>1. cgi[c] \in Seq(Scripts)
      BY <1>0, <1>3
    <2> QED BY <1>4, <2>1, AppendedFds
  <1>8. Own(sock', cgi', c) = Own(sock, cgi, c) \cup {g}
    BY <1>3, <1>4, <1>7 DEF Own, Fds
  <1>9. \A j \in DOMAIN cgi'[c] : cgi'[c][j].fd # sock[c].fd
    <2>1. sock[c].fd \notin Fds(cgi[c])
      BY <1>3 DEF Mine, Fds
    <2>2. sock[c].fd \notin Fds(cgi'[c])
      BY <1>3, <1>5, <1>7, <2>1
    <2> QED BY <2>2 DEF Fds
  <1>10. Carrying(events', c) = {g}
    <2>1. \A h \in AllFd : h \in Carrying(events', c) => h = g
      BY <1>3, <1>6, ConstantAssumption DEF Carrying
    <2>2. g \in Carrying(events', c)
      BY <1>5, <1>6, ScriptEventCarries DEF Carrying
    <2> QED BY <2>1, <2>2 DEF Carrying
  <1>11. ASSUME NEW h \in AllFd, events'[h].conn = c \/ events'[h] # events[h]
         PROVE  Tidy(sock', cgi', events', events'[h])
    <2>1. CASE h = f
      BY <1>6, <2>1, ConstantAssumption DEF Tidy
    <2>2. CASE h = g
      BY <1>4, <1>6, <2>2, ScriptEventCarries DEF Tidy
    <2>3. CASE h \notin {f, g}
      <3>1. events'[h] = events[h] /\ events[h].conn = c
        BY <1>6, <1>11, <2>3
      <3>2. /\ events[h].kind = "cgiread"
            /\ cgi'[c][events[h].pos].type = "localRedirect"
        BY <1>3, <1>7, <2>3, <3>1
      <3>3. sock'[c].st = "live"
        BY <1>3, <1>4
      <3> QED BY <1>3, <3>1, <3>2, <3>3 DEF Tidy, Published
    <2> QED BY <2>1, <2>2, <2>3
  <1>12. /\ Good(sock', cgi', events', interest')
         /\ \A d \in Conn : d # c => PhaseOf(sock', events', d) = PhaseOf(sock, events, d)
    <2>1. \A h \in AllFd : \/ events'[h] = events[h]
                           \/ h \in {f, g} /\ events'[h].conn \in {c, NoConn}
      BY <1>6, ScriptEventCarries
    <2>2. \A h \in AllFd : h \notin {f, g} => interest'[h] = interest[h]
      BY <1>6
    <2>3. events'[sock[c].fd].kind = "none" /\ interest'[sock[c].fd] = "off"
      BY <1>3, <1>6
    <2>4. sock'[c].fd = sock[c].fd
      BY <1>3, <1>4
    <2> QED BY <1>1, <1>3, <1>4, <1>8, <1>9, <1>10, <1>11, <2>1, <2>2, <2>3, <2>4,
               StartedStep
  <1>13. <<PhaseOf(sock, events, c), PhaseOf(sock', events', c)>> \in Allowed
    <2>1. PhaseOf(sock, events, c) = "request"
      BY <1>3, PhaseOfCarried
    <2>2. PhaseOf(sock', events', c) = "script"
      BY <1>4, <1>6, <1>10, PhaseOfCarried, ScriptEventCarries
    <2> QED BY <2>1, <2>2 DEF Allowed
  <1> QED BY <1>3, <1>12, <1>13, MoveStep DEF Settled

LEMMA CgiWriteDoneSettled ==
  ASSUME CInv, NEW f \in AllFd, CgiWriteDone(f)
  PROVE  Settled
  <1> DEFINE c == events[f].conn
  <1>0. /\ events \in [AllFd -> Events]
        /\ interest \in [AllFd -> {"off", "in", "out"}]
        /\ Good(sock, cgi, events, interest)
    BY Known DEF CInv
  <1>1. /\ Dispatch(f, "cgiwrite")
        /\ events' = [events EXCEPT ![f].kind = "cgiread"]
        /\ interest' = [interest EXCEPT ![f] = "in"]
        /\ UNCHANGED <<sock, cgi>>
    BY DEF CgiWriteDone
  <1>2. /\ c \in Conn
        /\ sock[c].st = "live"
        /\ events[f].kind = "cgiwrite"
        /\ Carrying(events, c) = {f}
        /\ f \in Own(sock, cgi, c)
        /\ Mine(sock, cgi, events, interest, c)
        /\ \A h \in AllFd : h # f /\ events[h].conn = c =>
             /\ events[h].kind = "cgiread"
             /\ events[h].published
             /\ cgi[c][events[h].pos].type = "localRedirect"
        /\ events[sock[c].fd].kind = "none"
        /\ interest[sock[c].fd] = "off"
    <2>1. CarriedBy(f, c, "cgiwrite")
      BY <1>1, CarrierFacts DEF Kinds
    <2> QED BY <2>1 DEF CarriedBy
  <1>3. /\ events'[f].kind = "cgiread"
        /\ events'[f].conn = c
        /\ ~events'[f].published
        /\ \A h \in AllFd : h # f => events'[h] = events[h] /\ interest'[h] = interest[h]
    <2>1. ~events[f].published
      BY <1>0, <1>2 DEF Good, Tidy
    <2> QED BY <1>0, <1>1, <2>1 DEF Events
  <1> HIDE DEF c
  <1>4. Carrying(events', c) = {f}
    BY <1>2, <1>3 DEF Carrying, Carries, Replies
  <1>5. ASSUME NEW h \in AllFd, events'[h].conn = c \/ events'[h] # events[h]
        PROVE  Tidy(sock', cgi', events', events'[h])
    <2>1. CASE h = f
      BY <1>1, <1>2, <1>3, <2>1 DEF Tidy
    <2>2. CASE h # f
      BY <1>1, <1>2, <1>3, <1>5, <2>2 DEF Tidy, Published
    <2> QED BY <2>1, <2>2
  <1>6. /\ Good(sock', cgi', events', interest')
        /\ \A d \in Conn : d # c => PhaseOf(sock', events', d) = PhaseOf(sock, events, d)
    <2> DEFINE X == {f}
    <2>1. /\ X \subseteq Own(sock, cgi, c)
          /\ \A h \in AllFd : \/ events'[h] = events[h]
                              \/ h \in X /\ events'[h].conn \in {c, NoConn}
          /\ \A h \in AllFd : h \notin X => interest'[h] = interest[h]
      BY <1>2, <1>3
    <2>2. events'[sock[c].fd].kind = "none" /\ interest'[sock[c].fd] = "off"
      <3>1. sock[c].fd # f /\ sock[c].fd \in AllFd
        BY <1>0, <1>2 DEF Good, Own, AllFd
      <3> QED BY <1>2, <1>3, <3>1
    <2> HIDE DEF X
    <2> QED BY <1>1, <1>2, <1>4, <1>5, <2>1, <2>2, KeptStep
  <1>7. PhaseOf(sock', events', c) = PhaseOf(sock, events, c)
    <2>1. PhaseOf(sock, events, c) = "script"
      BY <1>2, PhaseOfCarried
    <2>2. PhaseOf(sock', events', c) = "script"
      <3>1. sock'[c].st = "live"
        BY <1>1, <1>2
      <3> QED BY <1>3, <1>4, <3>1, PhaseOfCarried
    <2> QED BY <2>1, <2>2
  <1> QED BY <1>2, <1>6, <1>7, MoveStep DEF Settled

\* Descriptor f has the event of the i-th script of c, which has not published,
\* and s is the client's descriptor.
ReadBy(f, c, i, s) ==
  /\ c \in Conn
  /\ s = sock[c].fd
  /\ sock[c].st = "live"
  /\ events[f].kind = "cgiread"
  /\ Carrying(events, c) = {f}
  /\ f \in Own(sock, cgi, c)
  /\ Mine(sock, cgi, events, interest, c)
  /\ cgi[c] \in Seq(Scripts)
  /\ i \in DOMAIN cgi[c]
  /\ s # f
  /\ s \in AllFd
  /\ s \in Own(sock, cgi, c)
  /\ events[s].kind = "none"
  /\ events[s].conn = NoConn
  /\ interest[s] = "off"
  /\ \A h \in AllFd : h # f /\ events[h].conn = c =>
       /\ events[h].kind = "cgiread"
       /\ events[h].published
       /\ events[h].pos \in DOMAIN cgi[c]
       /\ events[h].pos # i
       /\ cgi[c][events[h].pos].type = "localRedirect"

LEMMA ReaderFacts ==
  ASSUME CInv, NEW f \in AllFd, Dispatch(f, "cgiread"), ~events[f].published
  PROVE  ReadBy(f, events[f].conn, events[f].pos, sock[events[f].conn].fd)
  <1> DEFINE c == events[f].conn
             i == events[f].pos
             s == sock[c].fd
  <1>1. PInv /\ Good(sock, cgi, events, interest)
    BY DEF CInv
  <1>2. /\ c \in Conn
        /\ sock[c].st = "live"
        /\ events[f].kind = "cgiread"
        /\ Carrying(events, c) = {f}
        /\ f \in Own(sock, cgi, c)
        /\ Mine(sock, cgi, events, interest, c)
        /\ events[s].kind = "none"
        /\ interest[s] = "off"
        /\ \A h \in AllFd : h # f /\ events[h].conn = c =>
              /\ events[h].kind = "cgiread"
              /\ events[h].published
              /\ events[h].pos \in DOMAIN cgi[c]
              /\ cgi[c][events[h].pos].fd = h
              /\ cgi[c][events[h].pos].type = "localRedirect"
    <2>1. CarriedBy(f, c, "cgiread")
      BY CarrierFacts DEF Kinds
    <2> QED BY <2>1 DEF CarriedBy
  <1>3. /\ cgi[c] \in Seq(Scripts)
        /\ i \in DOMAIN cgi[c]
        /\ cgi[c][i].fd = f
    BY <1>1, PlacedFacts
  <1> HIDE DEF c, i, s
  <1>4. s # f
    BY <1>2, <1>3 DEF Mine, s
  <1>5. s \in Own(sock, cgi, c) /\ s \in AllFd
    BY <1>1, <1>2 DEF Good, Own, AllFd, s
  <1>6. events[s].conn = NoConn
    BY <1>1, <1>2, <1>5 DEF Good, Tidy
  <1>7. \A h \in AllFd : h # f /\ events[h].conn = c => events[h].pos # i
    BY <1>2, <1>3
  <1>8. s = sock[c].fd
    BY DEF s
  <1>9. ReadBy(f, c, i, s)
    BY <1>2, <1>3, <1>4, <1>5, <1>6, <1>7, <1>8 DEF ReadBy
  <1> QED BY <1>9 DEF c, i, s

\* What storing a read size, or a size and a verdict, changes of a vector.
LEMMA StoredSize ==
  ASSUME NEW q \in Seq(Scripts), NEW i \in DOMAIN q, NEW size, NEW a,
         a = [q EXCEPT ![i].size = size]
  PROVE  /\ DOMAIN a = DOMAIN q
         /\ \A j \in DOMAIN q : a[j].fd = q[j].fd /\ a[j].type = q[j].type
         /\ \A j \in DOMAIN q : j # i => a[j] = q[j]
         /\ a[i].size = size
  <1>1. q[i] \in Scripts
    OBVIOUS
  <1>2. /\ [q[i] EXCEPT !.size = size].fd = q[i].fd
        /\ [q[i] EXCEPT !.size = size].type = q[i].type
        /\ [q[i] EXCEPT !.size = size].size = size
    BY <1>1 DEF Scripts
  <1>3. /\ DOMAIN a = DOMAIN q
        /\ \A j \in DOMAIN q : j # i => a[j] = q[j]
        /\ a[i] = [q[i] EXCEPT !.size = size]
    OBVIOUS
  <1> QED BY <1>2, <1>3

Stored(q, i, size, t) == [q EXCEPT ![i].size = size, ![i].type = t]

LEMMA StoredVerdict ==
  ASSUME NEW q \in Seq(Scripts), NEW i \in DOMAIN q, NEW size, NEW t, NEW a,
         a = Stored(q, i, size, t)
  PROVE  /\ DOMAIN a = DOMAIN q
         /\ \A j \in DOMAIN q : a[j].fd = q[j].fd
         /\ \A j \in DOMAIN q : j # i => a[j] = q[j]
         /\ a[i].size = size /\ a[i].type = t
  <1>1. q[i] \in Scripts
    OBVIOUS
  <1> DEFINE v == [q[i] EXCEPT !.size = size, !.type = t]
  <1>2. v.fd = q[i].fd /\ v.size = size /\ v.type = t
    BY <1>1 DEF Scripts
  <1>3. a = [q EXCEPT ![i] = v]
    BY DEF Stored
  <1> HIDE DEF v
  <1>4. /\ DOMAIN a = DOMAIN q
        /\ \A j \in DOMAIN q : j # i => a[j] = q[j]
        /\ a[i] = v
    BY <1>3
  <1> QED BY <1>2, <1>4

LEMMA CgiReadHeaderSettled ==
  ASSUME CInv, NEW f \in AllFd, CgiReadHeader(f)
  PROVE  Settled
  <1> DEFINE c == events[f].conn
             i == events[f].pos
  <1>0. cgi \in [Conn -> Seq(Scripts)]
    BY Known DEF CInv
  <1>1. /\ Dispatch(f, "cgiread")
        /\ ~events[f].published
        /\ cgi' = [cgi EXCEPT ![c][i].size = "data"]
        /\ UNCHANGED <<sock, events, interest>>
    BY DEF CgiReadHeader
  <1>2. /\ c \in Conn
        /\ sock[c].st = "live"
        /\ events[f].kind = "cgiread"
        /\ Carrying(events, c) = {f}
        /\ cgi[c] \in Seq(Scripts)
        /\ i \in DOMAIN cgi[c]
        /\ events[sock[c].fd].kind = "none"
        /\ interest[sock[c].fd] = "off"
        /\ \A h \in AllFd : h # f /\ events[h].conn = c =>
             /\ events[h].kind = "cgiread"
             /\ events[h].published
             /\ events[h].pos \in DOMAIN cgi[c]
             /\ cgi[c][events[h].pos].type = "localRedirect"
    <2>1. ReadBy(f, c, i, sock[c].fd)
      BY <1>1, ReaderFacts
    <2> QED BY <2>1 DEF ReadBy
  <1> HIDE DEF c, i
  <1>3. /\ cgi'[c] = [cgi[c] EXCEPT ![i].size = "data"]
        /\ \A d \in Conn : d # c => sock'[d] = sock[d] /\ cgi'[d] = cgi[d]
        /\ sock'[c] = sock[c]
    BY <1>0, <1>1, <1>2
  <1>4. /\ DOMAIN cgi'[c] = DOMAIN cgi[c]
        /\ \A j \in DOMAIN cgi[c] : cgi'[c][j].fd = cgi[c][j].fd
        /\ \A j \in DOMAIN cgi[c] : cgi'[c][j].type = cgi[c][j].type
    BY <1>2, <1>3, StoredSize
  <1>5. ASSUME NEW h \in AllFd, events'[h].conn = c \/ events'[h] # events[h]
        PROVE  Tidy(sock', cgi', events', events'[h])
    <2>1. events'[h] = events[h] /\ events[h].conn = c
      BY <1>1, <1>5
    <2>2. CASE h = f
      BY <1>1, <1>2, <1>3, <2>1, <2>2 DEF Tidy
    <2>3. CASE h # f
      <3>1. /\ events'[h].conn = c
            /\ events'[h].kind = "cgiread"
            /\ cgi'[c][events'[h].pos].type = "localRedirect"
        BY <1>2, <1>4, <2>1, <2>3
      <3>2. sock'[c].st = "live"
        BY <1>2, <1>3
      <3> QED BY <3>1, <3>2 DEF Tidy, Published
    <2> QED BY <2>2, <2>3
  <1>6. Carrying(events', c) = {f}
    BY <1>1, <1>2
  <1>7. /\ Good(sock', cgi', events', interest')
        /\ \A d \in Conn : d # c => PhaseOf(sock', events', d) = PhaseOf(sock, events, d)
    <2> DEFINE X == {}
    <2>1. /\ X \subseteq Own(sock, cgi, c)
          /\ \A h \in AllFd : \/ events'[h] = events[h]
                              \/ h \in X /\ events'[h].conn \in {c, NoConn}
          /\ \A h \in AllFd : h \notin X => interest'[h] = interest[h]
      BY <1>1
    <2>2. events'[sock[c].fd].kind = "none" /\ interest'[sock[c].fd] = "off"
      BY <1>1, <1>2
    <2>3. sock'[c].st = "live" /\ sock'[c].fd = sock[c].fd
      BY <1>2, <1>3
    <2> HIDE DEF X
    <2> QED BY <1>2, <1>3, <1>4, <1>5, <1>6, <2>1, <2>2, <2>3, KeptStep
  <1>8. PhaseOf(sock', events', c) = PhaseOf(sock, events, c)
    <2>1. sock' = sock /\ events' = events
      BY <1>1
    <2> QED BY <2>1
  <1> QED BY <1>2, <1>7, <1>8, MoveStep DEF Settled

\* The event of a script that has published goes on reading, or ends: what
\* carries the connection does not change.
LEMMA CgiReadTailSettled ==
  ASSUME CInv, NEW f \in AllFd, CgiReadTail(f)
  PROVE  Settled
  <1> DEFINE c == events[f].conn
             i == events[f].pos
  <1>0. /\ PInv /\ IInv
        /\ Good(sock, cgi, events, interest)
        /\ cgi \in [Conn -> Seq(Scripts)]
        /\ events \in [AllFd -> Events]
        /\ interest \in [AllFd -> {"off", "in", "out"}]
    BY Known DEF CInv
  <1>1. /\ Dispatch(f, "cgiread")
        /\ events[f].published
        /\ UNCHANGED sock
    BY DEF CgiReadTail
  <1>2. PICK size \in {"data", "eof", "error"} :
          /\ cgi' = [cgi EXCEPT ![c][i].size = size]
          /\ IF size = "eof" \/ sock[c].code
               THEN /\ events' = [events EXCEPT ![f] = NoEvent]
                    /\ interest' = [interest EXCEPT ![f] = "off"]
               ELSE UNCHANGED <<events, interest>>
    BY DEF CgiReadTail
  <1>3. /\ c \in Conn
        /\ sock[c].st = "live"
        /\ events[f].kind = "cgiread"
        /\ cgi[c] \in Seq(Scripts)
        /\ i \in DOMAIN cgi[c]
        /\ cgi[c][i].fd = f
    BY <1>0, <1>1, PlacedFacts
  <1>4. /\ Mine(sock, cgi, events, interest, c)
        /\ Published(sock, cgi, events, events[f])
    BY <1>0, <1>1, <1>3 DEF Good, Tidy
  <1>5. ASSUME NEW h \in AllFd, h # f, events[h].conn = c, events[h].kind = "cgiread",
               events[h].published
        PROVE  /\ events[h].pos \in DOMAIN cgi[c]
               /\ events[h].pos # i
               /\ Published(sock, cgi, events, events[h])
    <2>1. Tidy(sock, cgi, events, events[h]) /\ Placed(h, events[h], sock, cgi)
      BY <1>0 DEF Good, PInv, AllPlaced
    <2>2. events[h].pos \in DOMAIN cgi[c] /\ cgi[c][events[h].pos].fd = h
      BY <1>3, <1>5, <2>1 DEF Placed, Serves
    <2>3. events[h].pos # i
      BY <1>3, <1>5, <2>2
    <2>4. Published(sock, cgi, events, events[h])
      BY <1>3, <1>5, <2>1 DEF Tidy
    <2> QED BY <2>2, <2>3, <2>4
  <1> DEFINE s == sock[c].fd
  <1>6. /\ s # f
        /\ s \in AllFd
        /\ f \in Own(sock, cgi, c)
    BY <1>0, <1>3, <1>4 DEF Mine, Good, Own, AllFd
  <1>7. NoEvent.kind = "none" /\ NoEvent.conn = NoConn
    BY DEF NoEvent, Event
  <1>8. /\ \/ events'[f] = NoEvent
           \/ events'[f] = events[f] /\ size # "eof"
        /\ \A h \in AllFd : h # f => events'[h] = events[h] /\ interest'[h] = interest[h]
    BY <1>0, <1>2
  <1>9. c # NoConn
    BY <1>3, ConstantAssumption
  <1>10. Published(sock, cgi, events, events[f]) =
           (\/ cgi[c][i].type = "localRedirect"
            \/ /\ cgi[c][i].size # "eof"
               /\ events[s].kind = "cgiresponse"
               /\ events[s].conn = c
               /\ events[s].pos = i)
    BY DEF Published
  <1> HIDE DEF c, i, s
  <1>11. /\ cgi'[c] = [cgi[c] EXCEPT ![i].size = size]
         /\ \A d \in Conn : d # c => sock'[d] = sock[d] /\ cgi'[d] = cgi[d]
         /\ sock'[c] = sock[c]
    BY <1>0, <1>1, <1>2, <1>3
  <1>12. /\ DOMAIN cgi'[c] = DOMAIN cgi[c]
         /\ \A j \in DOMAIN cgi[c] : /\ cgi'[c][j].fd = cgi[c][j].fd
                                     /\ cgi'[c][j].type = cgi[c][j].type
         /\ \A j \in DOMAIN cgi[c] : j # i => cgi'[c][j] = cgi[c][j]
         /\ cgi'[c][i].size = size
    BY <1>3, <1>11, StoredSize
  <1>13. /\ ~Carries(events[f]) /\ (events'[f].conn = c => ~Carries(events'[f]))
         /\ Carrying(events', c) = Carrying(events, c)
         /\ \A h \in Carrying(events, c) : events'[h] = events[h]
    <2>1. ~Carries(events[f])
      BY <1>1, <1>3 DEF Carries, Replies
    <2>2. events'[f].conn = c => ~Carries(events'[f])
      BY <1>7, <1>8, <1>9, <2>1
    <2> QED BY <1>8, <2>1, <2>2 DEF Carrying
  <1>14. sock'[c].st = "live" /\ sock'[c].fd = s
    BY <1>3, <1>11 DEF s
  <1>15. ASSUME NEW h \in AllFd, events'[h].conn = c \/ events'[h] # events[h]
         PROVE  Tidy(sock', cgi', events', events'[h])
    <2>1. CASE events'[h] = NoEvent
      BY <1>7, <2>1, ConstantAssumption DEF Tidy
    <2>2. CASE h = f /\ events'[f] = events[f] /\ size # "eof"
      <3>1. /\ events'[h].kind = "cgiread"
            /\ events'[h].conn = c
            /\ events'[h].pos = i
        BY <1>3, <2>2 DEF c, i
      <3>2. \/ cgi'[c][i].type = "localRedirect"
            \/ /\ cgi'[c][i].size # "eof"
               /\ events'[s].kind = "cgiresponse"
               /\ events'[s].conn = c
               /\ events'[s].pos = i
        BY <1>3, <1>4, <1>6, <1>8, <1>10, <1>12, <2>2
      <3> QED BY <1>14, <3>1, <3>2 DEF Tidy, Published
    <2>3. CASE h # f /\ events'[h] # NoEvent
      <3>1. events'[h] = events[h] /\ events[h].conn = c
        BY <1>8, <1>15, <2>3
      <3>2. Tidy(sock, cgi, events, events[h])
        BY <1>0 DEF Good
      <3>3. events[h].kind = "cgiread" /\ events[h].published =>
              Published(sock', cgi', events', events[h])
        <4> SUFFICES ASSUME events[h].kind = "cgiread", events[h].published
                     PROVE  Published(sock', cgi', events', events[h])
          OBVIOUS
        <4>1. /\ events[h].pos \in DOMAIN cgi[c]
              /\ events[h].pos # i
              /\ Published(sock, cgi, events, events[h])
          BY <1>5, <2>3, <3>1
        <4>2. cgi'[c][events[h].pos] = cgi[c][events[h].pos] /\ events'[s] = events[s]
          BY <1>6, <1>8, <1>12, <4>1
        <4> QED BY <1>14, <3>1, <4>1, <4>2 DEF Published, s
      <3> QED BY <1>3, <1>9, <1>14, <3>1, <3>2, <3>3 DEF Tidy
    <2> QED BY <1>8, <2>1, <2>2, <2>3
  <1>16. /\ Good(sock', cgi', events', interest')
         /\ \A d \in Conn : d # c => PhaseOf(sock', events', d) = PhaseOf(sock, events, d)
    <2> DEFINE X == {f}
    <2>1. /\ X \subseteq Own(sock, cgi, c)
          /\ \A h \in AllFd : \/ events'[h] = events[h]
                              \/ h \in X /\ events'[h].conn \in {c, NoConn}
          /\ \A h \in AllFd : h \notin X => interest'[h] = interest[h]
      BY <1>6, <1>7, <1>8
    <2>2. \/ events'[s].conn = c /\ events'[s].kind \in Replies \cup {"receive"}
          \/ events'[s].kind = "none" /\ interest'[s] = "off"
      BY <1>4, <1>6, <1>8 DEF Mine, s
    <2>3. \E g \in AllFd : Carrying(events', c) = {g}
      BY <1>4, <1>13 DEF Mine
    <2> HIDE DEF X
    <2> QED BY <1>3, <1>11, <1>12, <1>14, <1>15, <2>1, <2>2, <2>3, KeptStep DEF s
  <1>17. PhaseOf(sock', events', c) = PhaseOf(sock, events, c)
    <2>1. {events'[h].kind : h \in Carrying(events', c)}
            = {events[h].kind : h \in Carrying(events, c)}
      BY <1>13
    <2> QED BY <1>11, <2>1 DEF PhaseOf
  <1> QED BY <1>3, <1>16, <1>17, MoveStep DEF Settled

\* The reply's event is registered: its client's descriptor waits unregistered.
LEMMA ReplyRegisters ==
  ASSUME CInv, ~AddMayFail, NEW f \in AllFd, Dispatch(f, "cgiread"), ~events[f].published
  PROVE  ~AddCanFail(sock[events[f].conn].fd)
  BY ReaderFacts DEF AddCanFail, CanAdd, ReadBy

\* A script's event hands over to a reply.
LEMMA HandedOver ==
  ASSUME CInv, NEW f \in AllFd, NEW c \in Conn, NEW i, NEW s, ReadBy(f, c, i, s),
         sock'[c].st = "live", sock'[c].fd = s,
         DOMAIN cgi'[c] = DOMAIN cgi[c],
         \A j \in DOMAIN cgi[c] : cgi'[c][j].fd = cgi[c][j].fd,
         \A j \in DOMAIN cgi[c] : j # i => cgi'[c][j] = cgi[c][j],
         cgi'[c][i].size # "eof" \/ events'[f].kind = "none",
         \A d \in Conn : d # c => sock'[d] = sock[d] /\ cgi'[d] = cgi[d],
         \A h \in AllFd : h \notin {f, s} => events'[h] = events[h] /\ interest'[h] = interest[h],
         events'[s].conn = c, events'[s].kind \in Replies,
         \/ events'[f].kind = "none" /\ events'[f].conn = NoConn
         \/ /\ events'[f].kind = "cgiread" /\ events'[f].conn = c /\ events'[f].published
            /\ events'[f].pos = i
            /\ events'[s].kind = "cgiresponse" /\ events'[s].pos = i
  PROVE  Settled
  <1>1. /\ sock[c].st = "live"
        /\ events[f].kind = "cgiread"
        /\ Carrying(events, c) = {f}
        /\ f \in Own(sock, cgi, c)
        /\ s \in Own(sock, cgi, c)
        /\ cgi[c] \in Seq(Scripts)
        /\ i \in DOMAIN cgi[c]
        /\ s # f
        /\ s \in AllFd
        /\ \A h \in AllFd : h # f /\ events[h].conn = c =>
             /\ events[h].kind = "cgiread"
             /\ events[h].published
             /\ events[h].pos \in DOMAIN cgi[c]
             /\ events[h].pos # i
             /\ cgi[c][events[h].pos].type = "localRedirect"
        /\ s = sock[c].fd
    BY DEF ReadBy
  <1>3. c # NoConn
    BY ConstantAssumption
  <1>4. Carrying(events', c) = {s}
    <2>1. s \in Carrying(events', c)
      BY <1>1 DEF Carrying, Carries
    <2>2. f \notin Carrying(events', c)
      BY <1>3 DEF Carrying, Carries, Replies
    <2>3. \A h \in AllFd : h \notin {f, s} => h \notin Carrying(events', c)
      BY <1>1 DEF Carrying
    <2> QED BY <2>1, <2>2, <2>3 DEF Carrying
  <1>5. ASSUME NEW h \in AllFd, events'[h].conn = c \/ events'[h] # events[h]
        PROVE  Tidy(sock', cgi', events', events'[h])
    <2>1. CASE h = s
      BY <2>1 DEF Tidy, Replies
    <2>2. CASE h = f
      <3>1. CASE events'[f].kind = "none" /\ events'[f].conn = NoConn
        BY <2>2, <3>1, ConstantAssumption DEF Tidy
      <3>2. CASE events'[f].kind # "none"
        <4>1. /\ events'[h].kind = "cgiread" /\ events'[h].conn = c
              /\ events'[h].pos = i
              /\ events'[s].kind = "cgiresponse" /\ events'[s].pos = i
          BY <2>2, <3>2
        <4>2. Published(sock', cgi', events', events'[h])
          BY <2>2, <3>2, <4>1 DEF Published
        <4> QED BY <4>1, <4>2 DEF Tidy
      <3> QED BY <3>1, <3>2
    <2>3. CASE h \notin {f, s}
      <3>1. /\ events'[h].conn = c
            /\ events'[h].kind = "cgiread"
            /\ cgi'[c][events'[h].pos].type = "localRedirect"
        BY <1>1, <1>5, <2>3
      <3> QED BY <3>1 DEF Tidy, Published
    <2> QED BY <2>1, <2>2, <2>3
  <1>6. /\ Good(sock', cgi', events', interest')
        /\ \A d \in Conn : d # c => PhaseOf(sock', events', d) = PhaseOf(sock, events, d)
    <2> DEFINE X == {f, s}
    <2>1. /\ X \subseteq Own(sock, cgi, c)
          /\ \A h \in AllFd : \/ events'[h] = events[h]
                              \/ h \in X /\ events'[h].conn \in {c, NoConn}
          /\ \A h \in AllFd : h \notin X => interest'[h] = interest[h]
      BY <1>1
    <2>2. \E g \in AllFd : Carrying(events', c) = {g}
      BY <1>1, <1>4
    <2>3. /\ sock'[c].fd = sock[c].fd
          /\ events'[sock[c].fd].conn = c
          /\ events'[sock[c].fd].kind \in Replies \cup {"receive"}
      BY <1>1
    <2> HIDE DEF X
    <2> QED BY <1>1, <1>5, <2>1, <2>2, <2>3, KeptStep
  <1>7. <<PhaseOf(sock, events, c), PhaseOf(sock', events', c)>> \in Allowed
    <2>1. PhaseOf(sock, events, c) = "script"
      BY <1>1, PhaseOfCarried
    <2>2. PhaseOf(sock', events', c) = "reply"
      BY <1>4, PhaseOfCarried
    <2> QED BY <2>1, <2>2 DEF Allowed
  <1> QED BY <1>6, <1>7, MoveStep DEF Settled

LEMMA CgiReadRepliesSettled ==
  ASSUME CInv, ~AddMayFail, NEW f \in AllFd, CgiReadError(f) \/ CgiReadLocalStatic(f)
  PROVE  Settled
  <1> DEFINE c == events[f].conn
             i == events[f].pos
             s == sock[c].fd
  <1>0. /\ sock \in [Conn -> Sockets]
        /\ cgi \in [Conn -> Seq(Scripts)]
        /\ events \in [AllFd -> Events]
        /\ interest \in [AllFd -> {"off", "in", "out"}]
    BY Known DEF CInv
  <1>1. Dispatch(f, "cgiread") /\ ~events[f].published
    BY DEF CgiReadError, CgiReadLocalStatic, CgiReadReplies
  <1>2. PICK t, size :
          /\ sock' = [sock EXCEPT ![c].code = TRUE]
          /\ cgi' = [cgi EXCEPT ![c] = [cgi[c] EXCEPT ![i].size = size, ![i].type = t]]
          /\ events' = [events EXCEPT ![s] = Event("response", c, 0), ![f] = NoEvent]
          /\ interest' = [interest EXCEPT ![s] = "out", ![f] = "off"]
    <2>1. ~AddCanFail(s)
      BY <1>1, ReplyRegisters
    <2> QED BY <2>1 DEF CgiReadError, CgiReadLocalStatic, CgiReadReplies, ReplyIsLost
  <1>3. /\ c \in Conn
        /\ sock[c].st = "live"
        /\ cgi[c] \in Seq(Scripts)
        /\ i \in DOMAIN cgi[c]
        /\ s # f
        /\ s \in AllFd
    BY <1>1, ReaderFacts DEF ReadBy
  <1>4. /\ sock'[c].st = "live" /\ sock'[c].fd = s
        /\ \A d \in Conn : d # c => sock'[d] = sock[d] /\ cgi'[d] = cgi[d]
    BY <1>0, <1>2, <1>3 DEF Sockets
  <1>7. /\ DOMAIN cgi'[c] = DOMAIN cgi[c]
        /\ \A j \in DOMAIN cgi[c] : cgi'[c][j].fd = cgi[c][j].fd
        /\ \A j \in DOMAIN cgi[c] : j # i => cgi'[c][j] = cgi[c][j]
    <2> HIDE DEF c, i, s
    <2>1. cgi'[c] = Stored(cgi[c], i, size, t)
      BY <1>0, <1>2, <1>3 DEF Stored
    <2> QED BY <1>3, <2>1, StoredVerdict
  <1>5. /\ events'[s].kind = "response" /\ events'[s].conn = c
        /\ events'[f].kind = "none" /\ events'[f].conn = NoConn
        /\ \A h \in AllFd : h \notin {f, s} => /\ events'[h] = events[h]
                                               /\ interest'[h] = interest[h]
    <2>1. /\ NoEvent.kind = "none" /\ NoEvent.conn = NoConn
          /\ Event("response", c, 0).kind = "response" /\ Event("response", c, 0).conn = c
      BY DEF NoEvent, Event
    <2> HIDE DEF c, s
    <2> QED BY <1>0, <1>2, <1>3, <2>1
  <1>6. events'[s].kind \in Replies
    BY <1>5 DEF Replies
  <1>8. ReadBy(f, c, i, s)
    BY <1>1, ReaderFacts
  <1> HIDE DEF c, i, s
  <1> QED BY <1>3, <1>4, <1>5, <1>6, <1>7, <1>8, HandedOver

LEMMA CgiReadDocumentSettled ==
  ASSUME CInv, ~AddMayFail, NEW f \in AllFd, CgiReadDocument(f)
  PROVE  Settled
  <1> DEFINE c == events[f].conn
             i == events[f].pos
             s == sock[c].fd
  <1>0. /\ cgi \in [Conn -> Seq(Scripts)]
        /\ events \in [AllFd -> Events]
        /\ interest \in [AllFd -> {"off", "in", "out"}]
    BY Known DEF CInv
  <1>1. Dispatch(f, "cgiread") /\ ~events[f].published
    BY DEF CgiReadDocument
  <1>2. PICK t :
          /\ cgi' = [cgi EXCEPT ![c] = [cgi[c] EXCEPT ![i].size = "data", ![i].type = t]]
          /\ events' = [events EXCEPT ![s] = Event("cgiresponse", c, i), ![f].published = TRUE]
          /\ interest' = [interest EXCEPT ![s] = "out"]
          /\ UNCHANGED sock
    <2>1. ~AddCanFail(s)
      BY <1>1, ReplyRegisters
    <2> QED BY <2>1 DEF CgiReadDocument, ReplyIsLost
  <1>3. /\ c \in Conn
        /\ sock[c].st = "live"
        /\ events[f].kind = "cgiread"
        /\ cgi[c] \in Seq(Scripts)
        /\ i \in DOMAIN cgi[c]
        /\ s # f
        /\ s \in AllFd
    BY <1>1, ReaderFacts DEF ReadBy
  <1>4. /\ sock'[c].st = "live" /\ sock'[c].fd = s
        /\ \A d \in Conn : d # c => sock'[d] = sock[d] /\ cgi'[d] = cgi[d]
    BY <1>0, <1>2, <1>3
  <1>7. /\ DOMAIN cgi'[c] = DOMAIN cgi[c]
        /\ \A j \in DOMAIN cgi[c] : cgi'[c][j].fd = cgi[c][j].fd
        /\ \A j \in DOMAIN cgi[c] : j # i => cgi'[c][j] = cgi[c][j]
        /\ cgi'[c][i].size # "eof"
    <2> HIDE DEF c, i, s
    <2>1. cgi'[c] = Stored(cgi[c], i, "data", t)
      BY <1>0, <1>2, <1>3 DEF Stored
    <2> QED BY <1>3, <2>1, StoredVerdict
  <1>5. /\ events'[s].kind = "cgiresponse" /\ events'[s].conn = c /\ events'[s].pos = i
        /\ events'[f].kind = "cgiread" /\ events'[f].conn = c
        /\ events'[f].published /\ events'[f].pos = i
        /\ \A h \in AllFd : h \notin {f, s} => /\ events'[h] = events[h]
                                               /\ interest'[h] = interest[h]
    <2>1. LET e == Event("cgiresponse", c, i) IN
          e.kind = "cgiresponse" /\ e.conn = c /\ e.pos = i
      BY DEF Event
    <2>2. LET e == [events[f] EXCEPT !.published = TRUE] IN
          e.kind = "cgiread" /\ e.conn = c /\ e.published /\ e.pos = i
      BY <1>0, <1>3 DEF Events
    <2>3. /\ events'[s] = Event("cgiresponse", c, i)
          /\ events'[f] = [events[f] EXCEPT !.published = TRUE]
          /\ \A h \in AllFd : h \notin {f, s} => /\ events'[h] = events[h]
                                                 /\ interest'[h] = interest[h]
      <3> HIDE DEF c, i, s
      <3> QED BY <1>0, <1>2, <1>3
    <2> QED BY <2>1, <2>2, <2>3
  <1>6. events'[s].kind \in Replies
    BY <1>5 DEF Replies
  <1>8. ReadBy(f, c, i, s)
    BY <1>1, ReaderFacts
  <1> HIDE DEF c, i, s
  <1> QED BY <1>3, <1>4, <1>5, <1>6, <1>7, <1>8, HandedOver

LEMMA CgiReadLocalScriptSettled ==
  ASSUME CInv, ~AddMayFail, NEW f \in AllFd, CgiReadLocalScript(f)
  PROVE  Settled
  <1> DEFINE c == events[f].conn
             i == events[f].pos
             s == sock[c].fd
             q == Stored(cgi[c], i, "data", "localRedirect")
  <1>0. /\ cgi \in [Conn -> Seq(Scripts)]
        /\ events \in [AllFd -> Events]
        /\ interest \in [AllFd -> {"off", "in", "out"}]
    BY Known DEF CInv
  <1>1. Dispatch(f, "cgiread") /\ ~events[f].published /\ UNCHANGED sock
    BY DEF CgiReadLocalScript
  <1>2. PICK g \in Fd :
          /\ IsLowestFree(g)
          /\ cgi' = [cgi EXCEPT ![c] = Append(q, NewScript(g))]
          /\ \/ /\ CanAdd(g)
                /\ events' = [events EXCEPT ![g] = ScriptEvent(c, sock[c].body),
                                            ![f].published = TRUE]
                /\ interest' = [interest EXCEPT ![g] = "in"]
             \/ AddCanFail(g)
    BY DEF CgiReadLocalScript, StartScript, Stored
  <1>3. /\ \A d \in Conn : g \notin Own(sock, cgi, d)
        /\ events' = [events EXCEPT ![g] = ScriptEvent(c, sock[c].body), ![f].published = TRUE]
        /\ interest' = [interest EXCEPT ![g] = "in"]
    BY <1>2, FreeFacts
  <1>4. ReadBy(f, c, i, s)
    BY <1>1, ReaderFacts
  <1>5. c = events[f].conn /\ i = events[f].pos
    OBVIOUS
  <1> HIDE DEF c, i, s
  <1>6. /\ c \in Conn
        /\ s = sock[c].fd
        /\ sock[c].st = "live"
        /\ events[f].kind = "cgiread"
        /\ Carrying(events, c) = {f}
        /\ f \in Own(sock, cgi, c)
        /\ s \in Own(sock, cgi, c)
        /\ Mine(sock, cgi, events, interest, c)
        /\ cgi[c] \in Seq(Scripts)
        /\ i \in DOMAIN cgi[c]
        /\ s # f
        /\ s \in AllFd
        /\ events[s].kind = "none"
        /\ interest[s] = "off"
        /\ \A h \in AllFd : h # f /\ events[h].conn = c =>
             /\ events[h].kind = "cgiread"
             /\ events[h].published
             /\ events[h].pos \in DOMAIN cgi[c]
             /\ events[h].pos # i
             /\ cgi[c][events[h].pos].type = "localRedirect"
    BY <1>4 DEF ReadBy
  <1>7. /\ f # g /\ s # g
        /\ g \in AllFd
    BY <1>3, <1>6 DEF AllFd
  <1>8. /\ q \in Seq(Scripts)
        /\ DOMAIN q = DOMAIN cgi[c]
        /\ \A j \in DOMAIN cgi[c] : q[j].fd = cgi[c][j].fd
        /\ \A j \in DOMAIN cgi[c] : j # i => q[j] = cgi[c][j]
        /\ q[i].type = "localRedirect"
    <2>1. q \in Seq(Scripts)
      BY <1>6, VerdictKeepsScripts DEF Stored, Types
    <2> QED BY <1>6, <2>1, StoredVerdict
  <1> HIDE DEF q
  <1>9. /\ cgi'[c] = Append(q, NewScript(g))
        /\ \A d \in Conn : d # c => sock'[d] = sock[d] /\ cgi'[d] = cgi[d]
        /\ sock'[c] = sock[c]
    BY <1>0, <1>1, <1>2, <1>6
  <1>10. /\ Fds(cgi'[c]) = Fds(cgi[c]) \cup {g}
         /\ \A j \in DOMAIN cgi[c] : cgi'[c][j] = q[j]
    <2>1. Fds(q) = Fds(cgi[c])
      BY <1>8 DEF Fds
    <2>2. /\ Fds(cgi'[c]) = Fds(q) \cup {g}
          /\ \A j \in DOMAIN q : cgi'[c][j] = q[j]
      <3>1. q \in Seq(Scripts) /\ g \in Fd
        BY <1>6, <1>8
      <3> QED BY <1>9, <3>1, AppendedFds
    <2> QED BY <1>8, <2>1, <2>2
  <1>11. Own(sock', cgi', c) = Own(sock, cgi, c) \cup {g}
    BY <1>6, <1>9, <1>10 DEF Own, Fds
  <1>12. \A j \in DOMAIN cgi'[c] : cgi'[c][j].fd # sock[c].fd
    <2>1. sock[c].fd \notin Fds(cgi[c])
      BY <1>6 DEF Mine, Fds
    <2>2. sock[c].fd \notin Fds(cgi'[c])
      BY <1>6, <1>7, <1>10, <2>1
    <2> QED BY <2>2 DEF Fds
  <1>13. /\ events'[f].kind = "cgiread" /\ events'[f].conn = c
         /\ events'[f].published /\ events'[f].pos = i
         /\ events'[g] = ScriptEvent(c, sock[c].body)
         /\ \A h \in AllFd : h \notin {f, g} => /\ events'[h] = events[h]
                                                /\ interest'[h] = interest[h]
    <2>1. /\ events'[f] = [events[f] EXCEPT !.published = TRUE]
          /\ events'[g] = ScriptEvent(c, sock[c].body)
          /\ \A h \in AllFd : h \notin {f, g} => /\ events'[h] = events[h]
                                                 /\ interest'[h] = interest[h]
      BY <1>0, <1>3, <1>7
    <2>2. events[f] \in Events
      BY <1>0
    <2>3. /\ [events[f] EXCEPT !.published = TRUE].kind = events[f].kind
          /\ [events[f] EXCEPT !.published = TRUE].conn = events[f].conn
          /\ [events[f] EXCEPT !.published = TRUE].pos = events[f].pos
          /\ [events[f] EXCEPT !.published = TRUE].published
      BY <2>2 DEF Events
    <2> QED BY <1>5, <1>6, <2>1, <2>3
  <1>14. Carrying(events', c) = {g}
    <2>1. g \in Carrying(events', c)
      BY <1>7, <1>13, ScriptEventCarries DEF Carrying
    <2>2. f \notin Carrying(events', c)
      BY <1>13 DEF Carrying, Carries, Replies
    <2>3. \A h \in AllFd : h \notin {f, g} => h \notin Carrying(events', c)
      BY <1>6, <1>13 DEF Carrying
    <2> QED BY <2>1, <2>2, <2>3 DEF Carrying
  <1>15. sock'[c].st = "live" /\ sock'[c].fd = sock[c].fd
    BY <1>6, <1>9
  <1>16. ASSUME NEW h \in AllFd, events'[h].conn = c \/ events'[h] # events[h]
         PROVE  Tidy(sock', cgi', events', events'[h])
    <2>1. CASE h = g
      BY <1>13, <1>15, <2>1, ScriptEventCarries DEF Tidy
    <2>2. CASE h # g
      <3>1. /\ events'[h].conn = c
            /\ events'[h].kind = "cgiread"
            /\ cgi'[c][events'[h].pos].type = "localRedirect"
        BY <1>6, <1>8, <1>10, <1>13, <1>16, <2>2
      <3> QED BY <1>15, <3>1 DEF Tidy, Published
    <2> QED BY <2>1, <2>2
  <1>17. /\ Good(sock', cgi', events', interest')
         /\ \A d \in Conn : d # c => PhaseOf(sock', events', d) = PhaseOf(sock, events, d)
    <2>1. \A h \in AllFd : \/ events'[h] = events[h]
                           \/ h \in {f, g} /\ events'[h].conn \in {c, NoConn}
      BY <1>13, ScriptEventCarries
    <2>2. \A h \in AllFd : h \notin {f, g} => interest'[h] = interest[h]
      BY <1>13
    <2>3. events'[sock[c].fd].kind = "none" /\ interest'[sock[c].fd] = "off"
      BY <1>6, <1>7, <1>13
    <2> QED BY <1>2, <1>6, <1>9, <1>11, <1>12, <1>14, <1>15, <1>16, <2>1, <2>2, <2>3,
               StartedStep
  <1>18. PhaseOf(sock', events', c) = PhaseOf(sock, events, c)
    <2>1. PhaseOf(sock, events, c) = "script"
      BY <1>6, PhaseOfCarried
    <2>2. PhaseOf(sock', events', c) = "script"
      BY <1>13, <1>14, <1>15, PhaseOfCarried, ScriptEventCarries
    <2> QED BY <2>1, <2>2
  <1> QED BY <1>6, <1>17, <1>18, MoveStep DEF Settled

-----------------------------------------------------------------------------
(* The theorems.                                                             *)

LEMMA InitCInv == Init => CInv
  <1> SUFFICES ASSUME Init PROVE CInv
    OBVIOUS
  <1>1. PInv
    BY InitPInv
  <1>2. /\ \A c \in Conn : sock[c].st = "unborn" /\ cgi[c] = <<>>
        /\ \A c \in Conn : Own(sock, cgi, c) = {}
    BY DEF Init, Own
  <1>3. \A f \in AllFd : /\ events[f].kind \in {"none", "listen"}
                         /\ events[f].conn = NoConn
    BY DEF Init, NoEvent, Event
  <1>4. \A f \in Fd : interest[f] = "off"
    BY ConstantAssumption DEF Init, AllFd
  <1>5. \A f \in AllFd : Tidy(sock, cgi, events, events[f])
    BY <1>3, ConstantAssumption DEF Tidy
  <1> QED BY <1>1, <1>2, <1>4, <1>5 DEF CInv, Good

\* Without failed registrations every step keeps the invariant and is one of
\* Lifecycle, or none.
LEMMA NextSettled ==
  ASSUME CInv, ~AddMayFail, [Next]_vars
  PROVE  Settled
  <1>1. CASE UNCHANGED vars
    BY <1>1, QuietSettled DEF vars
  <1>2. CASE Wait
    BY <1>2, QuietSettled DEF Wait
  <1>3. ASSUME NEW f \in AllFd, Handler(f) PROVE Settled
    <2>1. CASE \/ AcceptFails(f) \/ ReceiveAgain(f) \/ ReceiveAborts(f)
               \/ ResponseMore(f) \/ CgiResponseMore(f) \/ CgiWriteMore(f)
               \/ DispatchUndefined(f)
      BY <2>1, QuietSettled
      DEF AcceptFails, ReceiveAgain, ReceiveAborts, ResponseMore, CgiResponseMore,
          ReplyMore, CgiWriteMore, DispatchUndefined
    <2>2. CASE Accept(f)
      BY <2>2, AcceptSettled
    <2>3. CASE ReceiveDisconnect(f) \/ ResponseDone(f) \/ CgiResponseDone(f)
      BY <2>3, DeleteSettled
    <2>4. CASE ReceiveReplies(f)
      BY <2>4, ReceiveRepliesSettled
    <2>5. CASE ReceiveStartsScript(f)
      BY <2>5, ReceiveStartsScriptSettled
    <2>6. CASE CgiWriteDone(f)
      BY <2>6, CgiWriteDoneSettled
    <2>7. CASE CgiReadHeader(f)
      BY <2>7, CgiReadHeaderSettled
    <2>8. CASE CgiReadTail(f)
      BY <2>8, CgiReadTailSettled
    <2>9. CASE CgiReadError(f) \/ CgiReadLocalStatic(f)
      BY <2>9, CgiReadRepliesSettled
    <2>10. CASE CgiReadDocument(f)
      BY <2>10, CgiReadDocumentSettled
    <2>11. CASE CgiReadLocalScript(f)
      BY <2>11, CgiReadLocalScriptSettled
    <2> QED BY <1>3, <2>1, <2>2, <2>3, <2>4, <2>5, <2>6, <2>7, <2>8, <2>9, <2>10,
               <2>11 DEF Handler
  <1> QED BY <1>1, <1>2, <1>3 DEF Next

LEMMA NextCInv ==
  ASSUME CInv, ~AddMayFail, [Next]_vars
  PROVE  CInv' /\ [L!Next]_([c \in Conn |-> Phase(c)])
  <1>1. Settled
    BY NextSettled
  <1>2. PInv'
    BY NextPInv DEF CInv
  <1> QED BY <1>1, <1>2 DEF Settled, CInv

\* As long as no registration fails, every open connection is brought forward
\* by exactly one event object, so none is forgotten and none is worked on, and
\* deleted, twice.
THEOREM OneCarrierEach ==
  ASSUME ~AddMayFail
  PROVE  Spec => []OneCarrier
  <1>1. CInv => OneCarrier
    <2> SUFFICES ASSUME CInv, NEW c \in Conn, Live(c)
                 PROVE  Cardinality(Carriers(c)) = 1
      BY DEF OneCarrier
    <2>1. PICK f \in AllFd : Carrying(events, c) = {f}
      BY DEF CInv, Good, Mine, Live
    <2>2. Carriers(c) = {f}
      BY <2>1 DEF Carriers, Carrying
    <2> QED BY <2>2, FS_Singleton
  <1>2. CInv /\ [Next]_vars => CInv'
    BY NextCInv
  <1> QED BY <1>1, <1>2, InitCInv, PTL DEF Spec

\* As long as no registration fails, only a CgiRead of a redirect, which has
\* published, outlives the Socket it points to.
THEOREM DanglingOnlyRedirects ==
  ASSUME ~AddMayFail
  PROVE  Spec => []DanglingIsRedirect
  <1>1. CInv => DanglingIsRedirect
    <2> SUFFICES ASSUME CInv, NEW f \in AllFd, events[f].conn \in Conn,
                        ~Live(events[f].conn)
                 PROVE  /\ events[f].kind = "cgiread"
                        /\ events[f].published
                        /\ cgi[events[f].conn][events[f].pos].type
                             \in {"clientRedirect", "localRedirect"}
      BY DEF DanglingIsRedirect
    <2>1. Tidy(sock, cgi, events, events[f])
      BY DEF CInv, Good
    <2> QED BY <2>1 DEF Tidy, Live
  <1>2. CInv /\ [Next]_vars => CInv'
    BY NextCInv
  <1> QED BY <1>1, <1>2, InitCInv, PTL DEF Spec

\* Every connection is read, handed over to one reply and closed once, in the
\* order of Lifecycle: the initial states map to the initial state, and every
\* step maps to a step or to none.
THEOREM LoopImplementsLifecycle ==
  ASSUME ~AddMayFail
  PROVE  Spec => ImplementsLifecycle
  <1>1. Init => L!Init
    BY DEF Init, L!Init, Phase
  <1>2. CInv /\ [Next]_vars => CInv' /\ [L!Next]_([c \in Conn |-> Phase(c)])
    BY NextCInv
  <1> QED BY <1>1, <1>2, InitCInv, PTL DEF Spec, ImplementsLifecycle, L!Spec

-----------------------------------------------------------------------------
(* The epoll set and the event map, while every script answers with a        *)
(* document.                                                                 *)

DocumentsOnly == ResponseTypes \subseteq {"document"}

-----------------------------------------------------------------------------
(* The inductive invariant: CInv, and                                        *)
(*  - Wired;                                                                 *)
(*  - no client's or script's descriptor has a listen event, no receive      *)
(*    event has published, and every event's Socket is open;                 *)
(*  - no script was found to redirect;                                       *)
(*  - the reports not dispatched yet are of different descriptors, all of    *)
(*    them still registered.                                                 *)

Plain(f, e, s) ==
  /\ e.kind = "listen" => f \notin Fd
  /\ e.kind = "receive" => ~e.published
  /\ e.conn \in Conn => s[e.conn].st = "live"

Documents(r) ==
  \A c \in Conn : \A i \in DOMAIN r[c] : r[c][i].type \in {"undetermined", "document"}

Pending(b, w) ==
  /\ \A i \in DOMAIN b : b[i] \in AllFd /\ w[b[i]] # "off"
  /\ \A i, j \in DOMAIN b : b[i] = b[j] => i = j

WInv ==
  /\ CInv
  /\ Wired
  /\ \A f \in AllFd : Plain(f, events[f], sock)
  /\ Documents(cgi)
  /\ Pending(batch, interest)
  /\ status # "undefined"

LEMMA WaitsForNothing ==
  ASSUME NEW k \in Kinds \cup {"none"}
  PROVE  Direction(k) = "off" <=> k = "none"
  BY DEF Direction, Kinds

\* Where the events are: at a descriptor of their open connection.
LEMMA Homes ==
  ASSUME WInv, NEW f \in AllFd
  PROVE  /\ events[f].kind \in Kinds \cup {"none"}
         /\ interest[f] = Direction(events[f].kind)
         /\ interest[f] = "off" <=> events[f].kind = "none"
         /\ events[f].kind \in Kinds \ {"listen"} <=> events[f].conn \in Conn
         /\ events[f].conn \in Conn => /\ sock[events[f].conn].st = "live"
                                       /\ f \in Own(sock, cgi, events[f].conn)
  <1>1. /\ PInv /\ IInv
        /\ events \in [AllFd -> Events]
        /\ Good(sock, cgi, events, interest)
    BY Known DEF WInv, CInv
  <1>2. /\ events[f] \in Events
        /\ Fits(f, events[f], sock)
        /\ Placed(f, events[f], sock, cgi)
        /\ Tidy(sock, cgi, events, events[f])
    BY <1>1 DEF PInv, IInv, AllFit, AllPlaced, Good
  <1>3. /\ events[f].kind \in Kinds \cup {"none"}
        /\ interest[f] = Direction(events[f].kind)
    BY <1>2 DEF Events, WInv, Wired
  <1>4. events[f].kind \in Kinds \ {"listen"} <=> events[f].conn \in Conn
    BY <1>2, <1>3, ConstantAssumption DEF Fits, Tidy
  <1>5. ASSUME events[f].conn \in Conn
        PROVE  sock[events[f].conn].st = "live" /\ f \in Own(sock, cgi, events[f].conn)
    <2>1. sock[events[f].conn].st = "live"
      BY <1>5 DEF WInv, Plain
    <2>2. CASE events[f].kind \in {"cgiread", "cgiwrite"}
      BY <1>2, <1>5, <2>1, <2>2 DEF Placed, Serves, Own
    <2>3. CASE events[f].kind \in Replies \cup {"receive"}
      BY <1>2, <2>1, <2>3 DEF Fits, Own
    <2> QED BY <1>4, <1>5, <2>1, <2>2, <2>3 DEF Kinds, Replies
  <1> QED BY <1>3, <1>4, <1>5, WaitsForNothing

-----------------------------------------------------------------------------
(* What a dispatch of the report of f must leave true.                       *)

\* The event under another registered descriptor, and its Socket, stay.
Spares(f) ==
  \A h \in AllFd : h # f /\ interest[h] # "off" =>
    /\ events'[h] = events[h]
    /\ events[h].conn \in Conn => sock'[events[h].conn].st = sock[events[h].conn].st

Clean(f) ==
  /\ \A h \in AllFd : interest'[h] = Direction(events'[h].kind)
  /\ \A h \in AllFd : Plain(h, events'[h], sock')
  /\ Documents(cgi')
  /\ Spares(f)

\* A step that works on f and on a descriptor g nobody waits for, and deletes
\* no Socket.
LEMMA WorksOnTwo ==
  ASSUME WInv, NEW f \in AllFd, NEW g \in AllFd, g = f \/ interest[g] = "off",
         \A h \in AllFd : h \notin {f, g} => events'[h] = events[h] /\ interest'[h] = interest[h],
         interest'[f] = Direction(events'[f].kind), Plain(f, events'[f], sock'),
         interest'[g] = Direction(events'[g].kind), Plain(g, events'[g], sock'),
         \A c \in Conn : sock[c].st = "live" => sock'[c].st = "live",
         Documents(cgi')
  PROVE  Clean(f)
  <1>1. \A h \in AllFd : interest'[h] = Direction(events'[h].kind) /\ Plain(h, events'[h], sock')
    BY DEF WInv, Wired, Plain
  <1>2. Spares(f)
    BY Homes DEF Spares
  <1> QED BY <1>1, <1>2 DEF Clean

\* Nothing changes but perhaps the vectors and how a Socket is set.
LEMMA WorksOnNone ==
  ASSUME WInv, NEW f \in AllFd, UNCHANGED <<events, interest>>,
         \A c \in Conn : sock[c].st = "live" => sock'[c].st = "live",
         Documents(cgi')
  PROVE  Clean(f)
  <1>1. \A h \in AllFd : interest'[h] = Direction(events'[h].kind) /\ Plain(h, events'[h], sock')
    BY DEF WInv, Wired, Plain
  <1>2. Spares(f)
    BY Homes DEF Spares
  <1> QED BY <1>1, <1>2 DEF Clean

LEMMA NoEventPlain ==
  /\ NoEvent.kind = "none" /\ NoEvent.conn = NoConn
  /\ \A f, s : Plain(f, NoEvent, s)
  /\ Direction("none") = "off"
  BY ConstantAssumption DEF NoEvent, Event, Plain, Direction

LEMMA EventPlain ==
  ASSUME NEW f, NEW k \in Kinds \ {"listen"}, NEW c, NEW i, NEW s, s[c].st = "live"
  PROVE  /\ Plain(f, Event(k, c, i), s)
         /\ Event(k, c, i).kind = k
  BY DEF Event, Plain, Kinds

\* The vectors after a step on the vector of c.
LEMMA DocumentsKept ==
  ASSUME Documents(cgi), NEW c \in Conn,
         \A d \in Conn : d # c => cgi'[d] = cgi[d],
         \A i \in DOMAIN cgi'[c] : \/ cgi'[c][i].type \in {"undetermined", "document"}
                                   \/ i \in DOMAIN cgi[c] /\ cgi'[c][i].type = cgi[c][i].type
  PROVE  Documents(cgi')
  BY DEF Documents

LEMMA AcceptClean ==
  ASSUME WInv, ~AddMayFail, NEW f \in AllFd, Accept(f)
  PROVE  Clean(f)
  <1>0. /\ CInv
        /\ sock \in [Conn -> Sockets]
        /\ events \in [AllFd -> Events]
        /\ interest \in [AllFd -> {"off", "in", "out"}]
    BY Known DEF WInv, CInv
  <1>1. PICK c \in Conn, g \in Fd :
          /\ sock[c].st = "unborn"
          /\ IsLowestFree(g)
          /\ sock' = [sock EXCEPT ![c].st = "live", ![c].fd = g]
          /\ \/ /\ CanAdd(g)
                /\ events' = [events EXCEPT ![g] = Event("receive", c, 0)]
                /\ interest' = [interest EXCEPT ![g] = "in"]
             \/ AddCanFail(g)
          /\ UNCHANGED cgi
    BY DEF Accept
  <1>2. /\ interest[g] = "off"
        /\ events' = [events EXCEPT ![g] = Event("receive", c, 0)]
        /\ interest' = [interest EXCEPT ![g] = "in"]
    BY <1>0, <1>1, FreeFacts DEF AddCanFail, CanAdd
  <1>3. g \in AllFd /\ events[f].kind = "listen"
    BY DEF AllFd, Accept, Dispatch
  <1>4. g # f
    BY <1>2, <1>3, Homes DEF Kinds
  <1>5. /\ events'[g].kind = "receive" /\ interest'[g] = "in"
        /\ Plain(g, events'[g], sock')
        /\ \A h \in AllFd : h # g => events'[h] = events[h] /\ interest'[h] = interest[h]
    <2>1. sock'[c].st = "live"
      BY <1>0, <1>1 DEF Sockets
    <2> QED BY <1>0, <1>2, <1>3, <2>1, EventPlain DEF Kinds
  <1>6. \A d \in Conn : sock[d].st = "live" => sock'[d].st = "live"
    BY <1>0, <1>1 DEF Sockets
  <1>7. Documents(cgi')
    BY <1>1 DEF WInv, Documents
  <1>8. /\ interest'[f] = Direction(events'[f].kind)
        /\ Plain(f, events'[f], sock')
    BY <1>4, <1>5, <1>6 DEF WInv, Wired, Plain
  <1>9. interest'[g] = Direction(events'[g].kind)
    BY <1>5 DEF Direction
  <1> QED BY <1>2, <1>3, <1>5, <1>6, <1>7, <1>8, <1>9, WorksOnTwo

\* The Socket is deleted together with the only event that points to it: the
\* one of its script, if any, has seen the end of the output.
LEMMA DeleteClean ==
  ASSUME WInv, NEW f \in AllFd,
         ReceiveDisconnect(f) \/ ResponseDone(f) \/ CgiResponseDone(f)
  PROVE  Clean(f)
  <1> DEFINE c == events[f].conn
             k == events[f].kind
  <1>0. /\ CInv
        /\ Good(sock, cgi, events, interest)
        /\ sock \in [Conn -> Sockets]
        /\ events \in [AllFd -> Events]
        /\ interest \in [AllFd -> {"off", "in", "out"}]
    BY Known DEF WInv, CInv
  <1>1. /\ Dispatch(f, k)
        /\ k \in Replies \cup {"receive"}
        /\ k = "cgiresponse" => \/ cgi[c][events[f].pos].type = "clientRedirect"
                                \/ cgi[c][events[f].pos].size = "eof"
        /\ sock' = [sock EXCEPT ![c].st = "freed"]
        /\ events' = [events EXCEPT ![f] = NoEvent]
        /\ interest' = Closed(c, [interest EXCEPT ![f] = "off"])
        /\ UNCHANGED cgi
    BY DEF ReceiveDisconnect, ResponseDone, CgiResponseDone, ReplyDone, Freed,
       Replies, ScriptOf, Dispatch
  <1>2. /\ c \in Conn
        /\ sock[c].st = "live"
        /\ f \in Own(sock, cgi, c)
        /\ \A h \in AllFd : h # f /\ events[h].conn = c =>
              /\ events[h].kind = "cgiread"
              /\ events[h].pos \in DOMAIN cgi[c]
              /\ \/ cgi[c][events[h].pos].type = "localRedirect"
                 \/ /\ k = "cgiresponse"
                    /\ events[h].pos = events[f].pos
                    /\ cgi[c][events[h].pos].size # "eof"
    <2>1. /\ Dispatch(f, k)
          /\ k \in Kinds \ {"listen"}
          /\ k = "cgiread" => ~events[f].published
      BY <1>1 DEF Replies, Kinds
    <2>2. CarriedBy(f, c, k)
      BY <1>0, <2>1, CarrierFacts
    <2> QED BY <2>2 DEF CarriedBy
  <1>3. \A h \in AllFd : h # f => events[h].conn # c
    BY <1>1, <1>2 DEF WInv, Documents
  <1> HIDE DEF c, k
  <1>4. \A h \in AllFd \ {f} : h \in Own(sock, cgi, c) => events[h].kind = "none"
    <2> SUFFICES ASSUME NEW h \in AllFd \ {f}, h \in Own(sock, cgi, c)
                 PROVE  events[h].kind = "none"
      OBVIOUS
    <2>1. h \in Fd
      BY <1>0, <1>2 DEF Good
    <2>2. CASE events[h].conn \in Conn
      BY <1>0, <1>2, <1>3, <2>2, Homes, OwnApart
    <2>3. CASE events[h].conn \notin Conn
      <3>1. events[h].kind \in {"none", "listen"}
        BY <2>3, Homes
      <3> QED BY <2>1, <3>1 DEF WInv, Plain
    <2> QED BY <2>2, <2>3
  <1>5. /\ events'[f] = NoEvent
        /\ \A h \in AllFd : h # f => events'[h] = events[h]
    BY <1>0, <1>1
  <1>6. Owned(c) = Own(sock, cgi, c)
    BY <1>2 DEF Owned, Own
  <1>7. \A h \in AllFd : interest'[h] = IF h \in Own(sock, cgi, c) THEN "off" ELSE interest[h]
    BY <1>0, <1>1, <1>2, <1>6 DEF Closed
  <1>8. \A h \in AllFd : interest'[h] = Direction(events'[h].kind)
    BY <1>2, <1>4, <1>5, <1>7, NoEventPlain DEF WInv, Wired
  <1>9. \A d \in Conn : d # c => sock'[d] = sock[d]
    BY <1>0, <1>1
  <1>10. Documents(cgi')
    BY <1>1 DEF WInv, Documents
  <1>11. \A h \in AllFd : Plain(h, events'[h], sock')
    BY <1>3, <1>5, <1>9, NoEventPlain DEF WInv, Plain
  <1>12. Spares(f)
    BY <1>3, <1>5, <1>9 DEF Spares
  <1> QED BY <1>8, <1>10, <1>11, <1>12 DEF Clean

LEMMA ReceiveRepliesClean ==
  ASSUME WInv, NEW f \in AllFd, ReceiveReplies(f)
  PROVE  Clean(f)
  <1> DEFINE c == events[f].conn
  <1>0. /\ sock \in [Conn -> Sockets]
        /\ events \in [AllFd -> Events]
        /\ interest \in [AllFd -> {"off", "in", "out"}]
    BY Known DEF WInv, CInv
  <1>1. /\ events[f].kind = "receive"
        /\ sock' = [sock EXCEPT ![c].code = TRUE]
        /\ events' = [events EXCEPT ![f] = Event("response", c, 0)]
        /\ interest' = [interest EXCEPT ![f] = "out"]
        /\ UNCHANGED cgi
    BY DEF ReceiveReplies, Dispatch
  <1>2. c \in Conn /\ sock[c].st = "live"
    BY <1>1, Homes DEF Kinds
  <1> HIDE DEF c
  <1>3. \A d \in Conn : sock'[d].st = sock[d].st
    BY <1>0, <1>1 DEF Sockets
  <1>4. /\ events'[f] = Event("response", c, 0)
        /\ interest'[f] = "out"
        /\ \A h \in AllFd : h # f => events'[h] = events[h] /\ interest'[h] = interest[h]
    BY <1>0, <1>1
  <1>5. Plain(f, events'[f], sock') /\ interest'[f] = Direction(events'[f].kind)
    BY <1>2, <1>3, <1>4, EventPlain DEF Kinds, Direction
  <1>6. Documents(cgi')
    BY <1>1 DEF WInv, Documents
  <1> QED BY <1>3, <1>4, <1>5, <1>6, WorksOnTwo

LEMMA ReceiveStartsScriptClean ==
  ASSUME WInv, ~AddMayFail, NEW f \in AllFd, ReceiveStartsScript(f)
  PROVE  Clean(f)
  <1> DEFINE c == events[f].conn
  <1>0. /\ CInv
        /\ sock \in [Conn -> Sockets]
        /\ cgi \in [Conn -> Seq(Scripts)]
        /\ events \in [AllFd -> Events]
        /\ interest \in [AllFd -> {"off", "in", "out"}]
    BY Known DEF WInv, CInv
  <1>1. PICK g \in Fd, body \in BOOLEAN :
          /\ IsLowestFree(g)
          /\ sock' = [sock EXCEPT ![c].body = body]
          /\ cgi' = [cgi EXCEPT ![c] = Append(@, NewScript(g))]
          /\ \/ /\ CanAdd(g)
                /\ events' = [events EXCEPT ![g] = ScriptEvent(c, body),
                                            ![f] = NoEvent]
                /\ interest' = [interest EXCEPT ![g] = IF body THEN "out" ELSE "in",
                                                ![f] = "off"]
             \/ AddCanFail(g)
    BY DEF ReceiveStartsScript, StartScript
  <1>2. /\ interest[g] = "off"
        /\ events' = [events EXCEPT ![g] = ScriptEvent(c, body), ![f] = NoEvent]
        /\ interest' = [interest EXCEPT ![g] = IF body THEN "out" ELSE "in",
                                        ![f] = "off"]
    BY <1>0, <1>1, FreeFacts DEF AddCanFail, CanAdd
  <1>3. events[f].kind = "receive"
    BY DEF ReceiveStartsScript, Dispatch
  <1>4. c \in Conn /\ sock[c].st = "live"
    BY <1>3, Homes DEF Kinds
  <1> HIDE DEF c
  <1>5. g \in AllFd /\ g # f
    BY <1>2, <1>3, Homes DEF AllFd, Kinds
  <1>6. /\ events'[f] = NoEvent /\ interest'[f] = "off"
        /\ events'[g] = ScriptEvent(c, body)
        /\ interest'[g] = IF body THEN "out" ELSE "in"
        /\ \A h \in AllFd : h \notin {f, g} => /\ events'[h] = events[h]
                                               /\ interest'[h] = interest[h]
    BY <1>0, <1>2, <1>5
  <1>7. \A d \in Conn : sock'[d].st = sock[d].st
    BY <1>0, <1>1 DEF Sockets
  <1>8. Plain(f, events'[f], sock') /\ interest'[f] = Direction(events'[f].kind)
    BY <1>6, NoEventPlain
  <1>9. Plain(g, events'[g], sock') /\ interest'[g] = Direction(events'[g].kind)
    BY <1>4, <1>6, <1>7, EventPlain DEF ScriptEvent, Kinds, Direction
  <1>10. Documents(cgi')
    <2>1. cgi'[c] = Append(cgi[c], NewScript(g)) /\ cgi[c] \in Seq(Scripts)
      BY <1>0, <1>1, <1>4
    <2>2. \A i \in DOMAIN cgi'[c] : \/ cgi'[c][i].type = "undetermined"
                                    \/ i \in DOMAIN cgi[c] /\ cgi'[c][i] = cgi[c][i]
      BY <2>1 DEF NewScript
    <2>3. \A d \in Conn : d # c => cgi'[d] = cgi[d]
      BY <1>0, <1>1
    <2> QED BY <1>4, <2>2, <2>3, DocumentsKept DEF WInv
  <1> QED BY <1>2, <1>5, <1>6, <1>7, <1>8, <1>9, <1>10, WorksOnTwo

LEMMA CgiWriteDoneClean ==
  ASSUME WInv, NEW f \in AllFd, CgiWriteDone(f)
  PROVE  Clean(f)
  <1>0. /\ events \in [AllFd -> Events]
        /\ interest \in [AllFd -> {"off", "in", "out"}]
    BY Known DEF WInv, CInv
  <1>1. /\ events' = [events EXCEPT ![f].kind = "cgiread"]
        /\ interest' = [interest EXCEPT ![f] = "in"]
        /\ UNCHANGED <<sock, cgi>>
    BY DEF CgiWriteDone
  <1>2. /\ events'[f].kind = "cgiread"
        /\ events'[f].conn = events[f].conn
        /\ interest'[f] = "in"
        /\ \A h \in AllFd : h # f => events'[h] = events[h] /\ interest'[h] = interest[h]
    BY <1>0, <1>1 DEF Events
  <1>3. Plain(f, events'[f], sock') /\ interest'[f] = Direction(events'[f].kind)
    BY <1>1, <1>2 DEF Plain, Direction, WInv
  <1>4. Documents(cgi')
    BY <1>1 DEF WInv, Documents
  <1> QED BY <1>1, <1>2, <1>3, <1>4, WorksOnTwo

LEMMA CgiReadQuietClean ==
  ASSUME WInv, NEW f \in AllFd, CgiReadHeader(f) \/ CgiReadTail(f)
  PROVE  Clean(f)
  <1> DEFINE c == events[f].conn
             i == events[f].pos
  <1>0. /\ PInv /\ IInv
        /\ cgi \in [Conn -> Seq(Scripts)]
        /\ events \in [AllFd -> Events]
        /\ interest \in [AllFd -> {"off", "in", "out"}]
    BY Known DEF WInv, CInv
  <1>1. Dispatch(f, "cgiread") /\ UNCHANGED sock
    BY DEF CgiReadHeader, CgiReadTail
  <1>2. PICK size :
          /\ cgi' = [cgi EXCEPT ![c][i].size = size]
          /\ \/ UNCHANGED <<events, interest>>
             \/ /\ events' = [events EXCEPT ![f] = NoEvent]
                /\ interest' = [interest EXCEPT ![f] = "off"]
    BY DEF CgiReadHeader, CgiReadTail
  <1>3. /\ c \in Conn
        /\ cgi[c] \in Seq(Scripts)
        /\ i \in DOMAIN cgi[c]
    BY <1>0, <1>1, PlacedFacts
  <1> HIDE DEF c, i
  <1>4. Documents(cgi')
    <2>1. cgi'[c] = [cgi[c] EXCEPT ![i].size = size]
      BY <1>0, <1>2, <1>3
    <2>2. /\ DOMAIN cgi'[c] = DOMAIN cgi[c]
          /\ \A j \in DOMAIN cgi[c] : cgi'[c][j].type = cgi[c][j].type
      BY <1>3, <2>1, StoredSize
    <2>3. \A d \in Conn : d # c => cgi'[d] = cgi[d]
      BY <1>0, <1>2
    <2> QED BY <1>3, <2>2, <2>3, DocumentsKept DEF WInv
  <1>5. CASE UNCHANGED <<events, interest>>
    BY <1>1, <1>4, <1>5, WorksOnNone
  <1>6. CASE /\ events' = [events EXCEPT ![f] = NoEvent]
             /\ interest' = [interest EXCEPT ![f] = "off"]
    <2>1. /\ events'[f] = NoEvent /\ interest'[f] = "off"
          /\ \A h \in AllFd : h # f => events'[h] = events[h] /\ interest'[h] = interest[h]
      BY <1>0, <1>6
    <2>2. Plain(f, events'[f], sock') /\ interest'[f] = Direction(events'[f].kind)
      BY <2>1, NoEventPlain
    <2> QED BY <1>1, <1>4, <2>1, <2>2, WorksOnTwo
  <1> QED BY <1>2, <1>5, <1>6

\* Storing a verdict that is no redirect.
LEMMA DocumentsStored ==
  ASSUME Documents(cgi), cgi \in [Conn -> Seq(Scripts)], NEW c \in Conn,
         NEW i \in DOMAIN cgi[c], NEW size, NEW t \in {"undetermined", "document"},
         cgi' = [cgi EXCEPT ![c] = Stored(cgi[c], i, size, t)]
  PROVE  Documents(cgi')
  <1>1. cgi'[c] = Stored(cgi[c], i, size, t) /\ cgi[c] \in Seq(Scripts)
    OBVIOUS
  <1>2. /\ DOMAIN cgi'[c] = DOMAIN cgi[c]
        /\ \A j \in DOMAIN cgi[c] : j # i => cgi'[c][j] = cgi[c][j]
        /\ cgi'[c][i].type = t
    BY <1>1, StoredVerdict
  <1>3. \A d \in Conn : d # c => cgi'[d] = cgi[d]
    OBVIOUS
  <1> QED BY <1>2, <1>3, DocumentsKept

LEMMA CgiReadErrorClean ==
  ASSUME WInv, ~AddMayFail, NEW f \in AllFd, CgiReadError(f)
  PROVE  Clean(f)
  <1> DEFINE c == events[f].conn
             i == events[f].pos
             s == sock[c].fd
  <1>0. /\ CInv
        /\ sock \in [Conn -> Sockets]
        /\ cgi \in [Conn -> Seq(Scripts)]
        /\ events \in [AllFd -> Events]
        /\ interest \in [AllFd -> {"off", "in", "out"}]
    BY Known DEF WInv, CInv
  <1>1. Dispatch(f, "cgiread") /\ ~events[f].published
    BY DEF CgiReadError, CgiReadReplies
  <1>2. PICK size :
          /\ sock' = [sock EXCEPT ![c].code = TRUE]
          /\ cgi' = [cgi EXCEPT ![c] = Stored(cgi[c], i, size, "undetermined")]
          /\ events' = [events EXCEPT ![s] = Event("response", c, 0), ![f] = NoEvent]
          /\ interest' = [interest EXCEPT ![s] = "out", ![f] = "off"]
    <2>1. ~AddCanFail(s)
      BY <1>0, <1>1, ReplyRegisters
    <2> QED BY <2>1 DEF CgiReadError, CgiReadReplies, ReplyIsLost, Stored
  <1>3. /\ c \in Conn
        /\ sock[c].st = "live"
        /\ i \in DOMAIN cgi[c]
        /\ s # f
        /\ s \in AllFd
        /\ interest[s] = "off"
    BY <1>0, <1>1, ReaderFacts DEF ReadBy
  <1> HIDE DEF c, i, s
  <1>4. \A d \in Conn : sock'[d].st = sock[d].st
    BY <1>0, <1>2 DEF Sockets
  <1>5. Documents(cgi')
    BY <1>0, <1>2, <1>3, DocumentsStored DEF WInv
  <1>6. /\ events'[s] = Event("response", c, 0) /\ interest'[s] = "out"
        /\ events'[f] = NoEvent /\ interest'[f] = "off"
        /\ \A h \in AllFd : h \notin {f, s} => /\ events'[h] = events[h]
                                               /\ interest'[h] = interest[h]
    BY <1>0, <1>2, <1>3
  <1>7. Plain(f, events'[f], sock') /\ interest'[f] = Direction(events'[f].kind)
    BY <1>6, NoEventPlain
  <1>8. Plain(s, events'[s], sock') /\ interest'[s] = Direction(events'[s].kind)
    BY <1>3, <1>4, <1>6, EventPlain DEF Kinds, Direction
  <1> QED BY <1>3, <1>4, <1>5, <1>6, <1>7, <1>8, WorksOnTwo

LEMMA CgiReadDocumentClean ==
  ASSUME WInv, ~AddMayFail, DocumentsOnly, NEW f \in AllFd, CgiReadDocument(f)
  PROVE  Clean(f)
  <1> DEFINE c == events[f].conn
             i == events[f].pos
             s == sock[c].fd
  <1>0. /\ CInv
        /\ cgi \in [Conn -> Seq(Scripts)]
        /\ events \in [AllFd -> Events]
        /\ interest \in [AllFd -> {"off", "in", "out"}]
    BY Known DEF WInv, CInv
  <1>1. Dispatch(f, "cgiread") /\ ~events[f].published
    BY DEF CgiReadDocument
  <1>2. PICK t \in ResponseTypes :
          /\ cgi' = [cgi EXCEPT ![c] = Stored(cgi[c], i, "data", t)]
          /\ events' = [events EXCEPT ![s] = Event("cgiresponse", c, i), ![f].published = TRUE]
          /\ interest' = [interest EXCEPT ![s] = "out"]
          /\ UNCHANGED sock
    <2>1. ~AddCanFail(s)
      BY <1>0, <1>1, ReplyRegisters
    <2> QED BY <2>1 DEF CgiReadDocument, ReplyIsLost, Stored
  <1>3. /\ c \in Conn
        /\ sock[c].st = "live"
        /\ events[f].kind = "cgiread"
        /\ i \in DOMAIN cgi[c]
        /\ s # f
        /\ s \in AllFd
        /\ interest[s] = "off"
    BY <1>0, <1>1, ReaderFacts DEF ReadBy
  <1>4. /\ events'[f].kind = "cgiread"
        /\ events'[f].conn = c
    <2>1. LET e == [events[f] EXCEPT !.published = TRUE] IN e.kind = "cgiread" /\ e.conn = c
      BY <1>0, <1>3 DEF Events
    <2>2. events'[f] = [events[f] EXCEPT !.published = TRUE]
      <3> HIDE DEF c, i, s
      <3> QED BY <1>0, <1>2, <1>3
    <2> QED BY <2>1, <2>2
  <1> HIDE DEF c, i, s
  <1>5. Documents(cgi')
    <2>1. t \in {"undetermined", "document"}
      BY DEF DocumentsOnly
    <2> QED BY <1>0, <1>2, <1>3, <2>1, DocumentsStored DEF WInv
  <1>6. /\ events'[s] = Event("cgiresponse", c, i) /\ interest'[s] = "out"
        /\ interest'[f] = interest[f]
        /\ \A h \in AllFd : h \notin {f, s} => /\ events'[h] = events[h]
                                               /\ interest'[h] = interest[h]
    BY <1>0, <1>2, <1>3
  <1>7. Plain(f, events'[f], sock') /\ interest'[f] = Direction(events'[f].kind)
    BY <1>2, <1>3, <1>4, <1>6 DEF Plain, WInv, Wired
  <1>8. Plain(s, events'[s], sock') /\ interest'[s] = Direction(events'[s].kind)
    BY <1>2, <1>3, <1>6, EventPlain DEF Kinds, Direction
  <1> QED BY <1>2, <1>3, <1>5, <1>6, <1>7, <1>8, WorksOnTwo

-----------------------------------------------------------------------------
(* The theorems.                                                             *)

LEMMA InitWInv == Init => WInv
  <1> SUFFICES ASSUME Init PROVE WInv
    OBVIOUS
  <1>1. CInv
    BY InitCInv
  <1>2. \A f \in AllFd : /\ events[f] = IF f \in ListenFd
                                          THEN Event("listen", NoConn, 0) ELSE NoEvent
                         /\ interest[f] = IF f \in ListenFd THEN "in" ELSE "off"
    BY DEF Init
  <1>3. /\ Event("listen", NoConn, 0).kind = "listen"
        /\ Event("listen", NoConn, 0).conn = NoConn
    BY DEF Event
  <1>4. Wired
    BY <1>2, <1>3, NoEventPlain DEF Wired, Direction
  <1>5. \A f \in AllFd : Plain(f, events[f], sock)
    BY <1>2, <1>3, NoEventPlain, ConstantAssumption DEF Plain
  <1>6. Documents(cgi) /\ Pending(batch, interest) /\ status # "undefined"
    BY DEF Init, Documents, Pending
  <1> QED BY <1>1, <1>4, <1>5, <1>6 DEF WInv

\* Every handler is clean, and the undefined dispatch never comes about.
LEMMA HandlerClean ==
  ASSUME WInv, ~AddMayFail, DocumentsOnly, NEW f \in AllFd, Handler(f)
  PROVE  /\ Clean(f)
         /\ status' # "undefined"
         /\ batch # <<>> /\ f = Head(batch) /\ batch' = Tail(batch)
  <1>0. Documents(cgi) /\ batch \in Seq(AllFd)
    BY Known DEF WInv, CInv, IInv, TypeOK
  <1>1. ASSUME batch # <<>>, f = Head(batch) PROVE ~DispatchUndefined(f)
    <2>1. 1 \in DOMAIN batch /\ batch[1] = f
      BY <1>0, <1>1
    <2>2. interest[f] # "off"
      BY <2>1 DEF WInv, Pending
    <2>3. events[f].kind # "none"
      BY <2>2, Homes
    <2> QED BY <2>3 DEF DispatchUndefined, WInv, Plain, Live
  <1>2. ~CgiReadLocalStatic(f) /\ ~CgiReadLocalScript(f)
    BY DEF DocumentsOnly, CgiReadLocalStatic, CgiReadLocalScript
  <1>3. ~DispatchUndefined(f)
    BY <1>1 DEF DispatchUndefined
  <1>4. /\ batch # <<>> /\ f = Head(batch) /\ batch' = Tail(batch)
        /\ status' # "undefined"
    BY <1>2, <1>3
    DEF Handler, Dispatch, Accept, AcceptFails, ReceiveAgain, ReceiveDisconnect, ReceiveReplies,
        ReceiveStartsScript, ReceiveAborts, ResponseMore, ReplyMore, ResponseDone, ReplyDone,
        CgiResponseMore, CgiResponseDone, CgiWriteMore, CgiWriteDone, CgiReadHeader,
        CgiReadTail, CgiReadError, CgiReadReplies, CgiReadDocument, WInv
  <1>5. CASE \/ AcceptFails(f) \/ ReceiveAgain(f) \/ ReceiveAborts(f)
             \/ ResponseMore(f) \/ CgiResponseMore(f) \/ CgiWriteMore(f)
    <2>1. UNCHANGED <<sock, cgi, events, interest>>
      BY <1>5 DEF AcceptFails, ReceiveAgain, ReceiveAborts, ResponseMore, CgiResponseMore,
        ReplyMore, CgiWriteMore
    <2>2. Documents(cgi')
      BY <1>0, <2>1
    <2> QED BY <1>4, <2>1, <2>2, WorksOnNone
  <1>6. CASE Accept(f)
    BY <1>4, <1>6, AcceptClean
  <1>7. CASE ReceiveDisconnect(f) \/ ResponseDone(f) \/ CgiResponseDone(f)
    BY <1>4, <1>7, DeleteClean
  <1>8. CASE ReceiveReplies(f)
    BY <1>4, <1>8, ReceiveRepliesClean
  <1>9. CASE ReceiveStartsScript(f)
    BY <1>4, <1>9, ReceiveStartsScriptClean
  <1>10. CASE CgiWriteDone(f)
    BY <1>4, <1>10, CgiWriteDoneClean
  <1>11. CASE CgiReadHeader(f) \/ CgiReadTail(f)
    BY <1>4, <1>11, CgiReadQuietClean
  <1>12. CASE CgiReadError(f)
    BY <1>4, <1>12, CgiReadErrorClean
  <1>13. CASE CgiReadDocument(f)
    BY <1>4, <1>13, CgiReadDocumentClean
  <1> QED BY <1>2, <1>3, <1>5, <1>6, <1>7, <1>8, <1>9, <1>10, <1>11, <1>12, <1>13
          DEF Handler

\* What is left of the batch when its first report has been dispatched.
LEMMA TailOfBatch ==
  ASSUME NEW b \in Seq(AllFd), b # <<>>, Pending(b, interest)
  PROVE  /\ \A i \in DOMAIN Tail(b) : Tail(b)[i] \in AllFd /\ Tail(b)[i] # Head(b)
                                      /\ interest[Tail(b)[i]] # "off"
         /\ \A i, j \in DOMAIN Tail(b) : Tail(b)[i] = Tail(b)[j] => i = j
  <1>1. \A i \in DOMAIN Tail(b) : i \in Nat /\ i + 1 \in DOMAIN b /\ Tail(b)[i] = b[i + 1]
    OBVIOUS
  <1>2. 1 \in DOMAIN b /\ Head(b) = b[1]
    OBVIOUS
  <1>3. \A i \in DOMAIN Tail(b) : i + 1 # 1
    BY <1>1
  <1>4. \A i \in DOMAIN Tail(b) : Tail(b)[i] \in AllFd /\ Tail(b)[i] # Head(b)
                                  /\ interest[Tail(b)[i]] # "off"
    BY <1>1, <1>2, <1>3 DEF Pending
  <1>5. \A i, j \in DOMAIN Tail(b) : Tail(b)[i] = Tail(b)[j] => i = j
    <2> SUFFICES ASSUME NEW i \in DOMAIN Tail(b), NEW j \in DOMAIN Tail(b), Tail(b)[i] = Tail(b)[j]
                 PROVE  i = j
      OBVIOUS
    <2>1. i + 1 = j + 1
      BY <1>1 DEF Pending
    <2> QED BY <1>1, <2>1
  <1> QED BY <1>4, <1>5

\* What PendingUntouched says of the reports not dispatched yet.
Untouched ==
  batch # <<>> /\ batch' = Tail(batch) =>
    \A i \in DOMAIN batch' :
      LET e == events[batch'[i]] IN
      /\ events'[batch'[i]] = e
      /\ e.conn \in Conn => sock'[e.conn].st = sock[e.conn].st

LEMMA NextWInv ==
  ASSUME WInv, ~AddMayFail, DocumentsOnly, [Next]_vars
  PROVE  WInv' /\ (Untouched \/ UNCHANGED vars)
  <1>1. /\ batch \in Seq(AllFd)
        /\ CInv'
    BY NextCInv, Known DEF WInv, CInv, IInv, TypeOK
  <1>2. CASE UNCHANGED vars
    <2>1. WInv' = WInv
      BY <1>2 DEF WInv, CInv, PInv, IInv, TypeOK, AllFit, AllPlaced, Wired, vars
    <2> QED BY <1>2, <2>1
  <1>3. CASE Wait
    <2>1. /\ batch = <<>> /\ batch' \in Reports
          /\ UNCHANGED <<sock, cgi, events, interest, status>>
      BY <1>3 DEF Wait
    <2>2. Pending(batch', interest')
      BY <2>1 DEF Pending, Reports, Registered
    <2>3. Wired' /\ (\A f \in AllFd : Plain(f, events'[f], sock')) /\ Documents(cgi')
      BY <2>1 DEF WInv, Wired
    <2>4. Untouched
      BY <2>1 DEF Untouched
    <2> QED BY <1>1, <2>1, <2>2, <2>3, <2>4 DEF WInv
  <1>4. ASSUME NEW f \in AllFd, Handler(f) PROVE WInv' /\ Untouched
    <2>1. /\ Clean(f)
          /\ status' # "undefined"
          /\ batch # <<>> /\ f = Head(batch) /\ batch' = Tail(batch)
      BY <1>4, HandlerClean
    <2>2. /\ \A i \in DOMAIN batch' : batch'[i] \in AllFd /\ batch'[i] # f
                                      /\ interest[batch'[i]] # "off"
          /\ \A i, j \in DOMAIN batch' : batch'[i] = batch'[j] => i = j
      BY <1>1, <2>1, TailOfBatch DEF WInv
    <2>3. \A h \in AllFd : h # f /\ interest[h] # "off" =>
            /\ events'[h] = events[h]
            /\ events[h].conn \in Conn => sock'[events[h].conn].st = sock[events[h].conn].st
      BY <2>1 DEF Clean, Spares
    <2>4. \A h \in AllFd : interest'[h] = Direction(events'[h].kind)
      BY <2>1 DEF Clean
    <2>5. Pending(batch', interest')
      <3>1. \A i \in DOMAIN batch' : interest'[batch'[i]] = interest[batch'[i]]
        BY <2>2, <2>3, <2>4 DEF WInv, Wired
      <3> QED BY <2>2, <3>1 DEF Pending
    <2>6. Untouched
      BY <2>2, <2>3 DEF Untouched
    <2>7. Wired'
      BY <2>4 DEF Wired
    <2> QED BY <1>1, <2>1, <2>5, <2>6, <2>7 DEF WInv, Clean
  <1> QED BY <1>2, <1>3, <1>4 DEF Next

\* While every script answers with a document and no registration fails, a
\* descriptor is registered with epoll if and only if there is an event under
\* it, for what that event does.
THEOREM EpollAgrees ==
  ASSUME ~AddMayFail, DocumentsOnly
  PROVE  Spec => []Wired
  <1>1. WInv /\ [Next]_vars => WInv'
    BY NextWInv
  <1>2. WInv => Wired
    BY DEF WInv
  <1> QED BY <1>1, <1>2, InitWInv, PTL DEF Spec

\* Under the same conditions a dispatch leaves the event objects of the other
\* reports of the same epoll_wait, and the Sockets they use, as they were.
THEOREM ReportsStayValid ==
  ASSUME ~AddMayFail, DocumentsOnly
  PROVE  Spec => PendingUntouched
  <1>1. ASSUME WInv, [Next]_vars
        PROVE  /\ WInv'
               /\ [/\ status' # "undefined"
                   /\ batch # <<>> /\ batch' = Tail(batch) =>
                        \A i \in DOMAIN batch' :
                          LET e == events[batch'[i]] IN
                          /\ events'[batch'[i]] = e
                          /\ e.conn \in Conn => sock'[e.conn].st = sock[e.conn].st]_vars
    <2>1. WInv' /\ (Untouched \/ UNCHANGED vars)
      BY <1>1, NextWInv
    <2>2. ~(UNCHANGED vars) => status' # "undefined"
      BY <2>1 DEF WInv
    <2> QED BY <2>1, <2>2 DEF Untouched
  <1> QED BY <1>1, InitWInv, PTL DEF Spec, PendingUntouched

\* So Server::EventExec never looks up a descriptor without an event, never
\* runs an event whose Socket has been deleted and never publishes an event
\* twice.
THEOREM NothingUndefined ==
  ASSUME ~AddMayFail, DocumentsOnly
  PROVE  Spec => [](status # "undefined")
  <1>1. WInv /\ [Next]_vars => WInv'
    BY NextWInv
  <1>2. WInv => status # "undefined"
    BY DEF WInv
  <1> QED BY <1>1, <1>2, InitWInv, PTL DEF Spec
=============================================================================
