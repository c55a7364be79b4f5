----------------------------- MODULE EventLoop -----------------------------
(***************************************************************************)
(* The single-threaded event loop of the server: Server::Run, the epoll    *)
(* set, the map of event objects and the connection state (Socket) the     *)
(* event objects share through raw pointers.                               *)
(*                                                                         *)
(* One iteration of Server::EventExec is one step: Do, Handle,             *)
(* PublishNewEvent and NextEvent of the event found under the descriptor   *)
(* run without interruption.  What interleaves is everything around an     *)
(* iteration: which descriptors epoll reports and in which order, what a   *)
(* read or a write returns.                                                *)
(*                                                                         *)
(* Operators named Faulty... are the definition below them with a          *)
(* plausible bug; they are used by no specification and only serve to show *)
(* that the properties can fail.                                           *)
(*                                                                         *)
(* Abstracted: bytes.  What a read or a write achieved is a choice between *)
(* the outcomes the handlers tell apart; the byte accounting of a chunked  *)
(* reply is the subject of CgiRelay, that of a request of RequestReader.   *)
(***************************************************************************)
EXTENDS Naturals, Sequences, FiniteSets

CONSTANTS
  Fd,             \* descriptors the process may open for clients and scripts
  ListenFd,       \* the listening descriptors, open from the start
  Conn,           \* Socket objects: the connections ever accepted
  NoFd, NoConn,   \* "no descriptor" (-1) and "no Socket" (NULL)
  MaxScript,      \* bound: scripts started for one connection
  MaxEvent,       \* MAX_EVENT: reports fetched by one epoll_wait
  ResponseTypes,  \* kinds of header the scripts may answer with
  AddMayFail,     \* whether epoll_ctl(ADD) may run out of resources
  MayAbort        \* whether decoding a request may throw out_of_range

AllFd == Fd \cup ListenFd

\* kDocumentResponse and kClientRediredocResponse are told apart by no code
\* of the loop: both are "document" here.
Types == {"document", "clientRedirect", "localRedirect"}

ASSUME ConstantAssumption ==
  /\ Fd \subseteq Nat
  /\ ListenFd \subseteq Nat
  /\ Fd \cap ListenFd = {}
  /\ NoFd \notin Fd \cup ListenFd
  /\ NoConn \notin Conn
  /\ MaxScript \in Nat \ {0}
  /\ MaxEvent \in Nat \ {0}
  /\ ResponseTypes \subseteq Types
  /\ AddMayFail \in BOOLEAN
  /\ MayAbort \in BOOLEAN

VARIABLES
  sock,       \* sock[c] : the Socket object of connection c
  cgi,        \* cgi[c] : its cgi_res vector, one entry per script started
  events,     \* event_map_ : the event object under each descriptor
  interest,   \* the kernel's epoll set: what each descriptor waits for
  batch,      \* the reports of the last epoll_wait not dispatched yet
  status      \* of the process

vars == <<sock, cgi, events, interest, batch, status>>

-----------------------------------------------------------------------------
(* State *)

Sockets == [st : {"unborn", "live", "freed"},
            fd : AllFd \cup {NoFd},
            body : BOOLEAN,     \* the request came with a body
            code : BOOLEAN]     \* response_code != kKkNotSet

\* read_size as far as it is looked at: > 0, = 0, -1, or not read yet.
Scripts == [fd : AllFd,
            size : {"unset", "data", "eof", "error"},
            type : Types \cup {"undetermined"}]

Kinds == {"listen", "receive", "response", "cgiwrite", "cgiread",
          "cgiresponse"}

\* published: created_next_event_ of a CgiRead; cgi_ # NULL of a
\* ReceiveRequestFromClient that outlived its dispatch.
Events == [kind : Kinds \cup {"none"},
           conn : Conn \cup {NoConn},
           pos : Nat,
           published : BOOLEAN]

Event(k, c, i) == [kind |-> k, conn |-> c, pos |-> i, published |-> FALSE]
NoEvent == Event("none", NoConn, 0)

TypeOK ==
  /\ sock \in [Conn -> Sockets]
  /\ cgi \in [Conn -> Seq(Scripts)]
  /\ events \in [AllFd -> Events]
  /\ interest \in [AllFd -> {"off", "in", "out"}]
  /\ batch \in Seq(AllFd)
  /\ status \in {"running", "undefined", "aborted"}

\* InitListen: every listening descriptor is registered before Run.
Init ==
  /\ sock = [c \in Conn |->
               [st |-> "unborn", fd |-> NoFd, body |-> FALSE, code |-> FALSE]]
  /\ cgi = [c \in Conn |-> <<>>]
  /\ events = [f \in AllFd |-> IF f \in ListenFd
                                 THEN Event("listen", NoConn, 0)
                                 ELSE NoEvent]
  /\ interest = [f \in AllFd |-> IF f \in ListenFd THEN "in" ELSE "off"]
  /\ batch = <<>>
  /\ status = "running"

Live(c) == sock[c].st = "live"

\* The descriptors a Socket closes when it is deleted.
Owned(c) == {sock[c].fd} \cup {cgi[c][i].fd : i \in DOMAIN cgi[c]}

Free == Fd \ UNION {Owned(c) : c \in {d \in Conn : Live(d)}}

\* accept and socketpair return the lowest free descriptor.
IsLowestFree(g) == g \in Free /\ \A h \in Free : g <= h

\* epoll_ctl(ADD) fails on a descriptor already in the set (EEXIST).
CanAdd(f) == interest[f] = "off"
AddCanFail(f) == AddMayFail \/ ~CanAdd(f)

-----------------------------------------------------------------------------
(* delete Socket closes every descriptor of the connection, which takes it  *)
(* out of the epoll set s.  The waitpid and kill of its scripts touch no     *)
(* state of the loop.                                                        *)

Freed(c) == [sock EXCEPT ![c].st = "freed"]

\* Closing a descriptor takes it out of the epoll set, as long as no script
\* has inherited it.
Closed(c, s) == [f \in AllFd |-> IF f \in Owned(c) THEN "off" ELSE s[f]]

-----------------------------------------------------------------------------
(* Epoll::Wait: a nonempty selection of registered descriptors, in any      *)
(* order, at most MaxEvent of them.                                         *)

Registered == {f \in AllFd : interest[f] # "off"}

Reports == {b \in UNION {[1..n -> Registered] : n \in 1..MaxEvent} :
              \A i, j \in DOMAIN b : b[i] = b[j] => i = j}

Wait ==
  /\ status = "running"
  /\ batch = <<>>
  /\ batch' \in Reports
  /\ UNCHANGED <<sock, cgi, events, interest, status>>

(* The next report is dispatched to the event object now in the map; the    *)
(* object and the Socket it points to still exist.                          *)
Dispatch(f, k) ==
  /\ status = "running"
  /\ batch # <<>>
  /\ f = Head(batch)
  /\ events[f].kind = k
  /\ events[f].conn \in Conn => Live(events[f].conn)
  /\ batch' = Tail(batch)

-----------------------------------------------------------------------------
(* ListenToClient *)

Accept(f) ==
  /\ Dispatch(f, "listen")
  /\ \E c \in Conn, g \in Fd :
       /\ sock[c].st = "unborn"
       /\ IsLowestFree(g)
       /\ sock' = [sock EXCEPT ![c].st = "live", ![c].fd = g]
       /\ \/ /\ CanAdd(g)
             /\ events' = [events EXCEPT ![g] = Event("receive", c, 0)]
             /\ interest' = [interest EXCEPT ![g] = "in"]
          \* EpollErr: the new event is deleted, the Socket is not.
          \/ /\ AddCanFail(g)
             /\ events' = [events EXCEPT ![g] = NoEvent]
             /\ UNCHANGED interest
  /\ UNCHANGED <<cgi, status>>

\* accept failed: the client is gone, or no descriptor is left.
AcceptFails(f) ==
  /\ Dispatch(f, "listen")
  /\ UNCHANGED <<sock, cgi, events, interest, status>>

-----------------------------------------------------------------------------
(* ReceiveRequestFromClient *)

ReceiveAgain(f) ==
  /\ Dispatch(f, "receive")
  /\ ~events[f].published
  /\ UNCHANGED <<sock, cgi, events, interest, status>>

\* The client hung up: kReadDisconnect.
ReceiveDisconnect(f) ==
  LET c == events[f].conn IN
  /\ Dispatch(f, "receive")
  /\ ~events[f].published
  /\ sock' = Freed(c)
  /\ events' = [events EXCEPT ![f] = NoEvent]
  /\ interest' = Closed(c, [interest EXCEPT ![f] = "off"])
  /\ UNCHANGED <<cgi, status>>

\* ErrorResponse while reading, or a request that is answered without a
\* script (a method ran, or PrepareNextEventProcess failed): the reply takes
\* the place of this event under the same descriptor.
ReceiveReplies(f) ==
  LET c == events[f].conn IN
  /\ Dispatch(f, "receive")
  /\ sock' = [sock EXCEPT ![c].code = TRUE]
  /\ events' = [events EXCEPT ![f] = Event("response", c, 0)]
  /\ interest' = [interest EXCEPT ![f] = "out"]
  /\ UNCHANGED <<cgi, status>>

NewScript(g) ==
  [fd |-> g, size |-> "unset", type |-> "undetermined"]

\* Cgi::Run: socketpair needs two descriptors; the second one is closed again
\* after the fork.
StartScript(c, g) ==
  /\ Len(cgi[c]) < MaxScript
  /\ IsLowestFree(g)
  /\ Free \ {g} # {}

\* The event that feeds or reads the script just started: CgiWrite if the
\* request has a body.
ScriptEvent(c, body) ==
  Event(IF body THEN "cgiwrite" ELSE "cgiread", c, Len(cgi[c]) + 1)

\* State() says kReadFinished although a script was started.
FaultyReceiveStartsScript(f) ==
  LET c == events[f].conn IN
  /\ Dispatch(f, "receive")
  /\ \E g \in Fd, body \in BOOLEAN :
       /\ StartScript(c, g)
       /\ CanAdd(g)
       /\ sock' = [sock EXCEPT ![c].body = body]
       /\ cgi' = [cgi EXCEPT ![c] = Append(@, NewScript(g))]
       /\ events' = [events EXCEPT ![g] = ScriptEvent(c, body)]
       /\ interest' = [interest EXCEPT ![g] = IF body THEN "out" ELSE "in",
                                       ![f] = "out"]
  /\ UNCHANGED status

\* A script is started for the request.  Handle has switched the client's
\* descriptor to EPOLLOUT when Add is called for the script's.
ReceiveStartsScript(f) ==
  LET c == events[f].conn IN
  /\ Dispatch(f, "receive")
  /\ \E g \in Fd, body \in BOOLEAN :
       /\ StartScript(c, g)
       /\ sock' = [sock EXCEPT ![c].body = body]
       /\ cgi' = [cgi EXCEPT ![c] = Append(@, NewScript(g))]
       /\ \/ /\ CanAdd(g)
             /\ events' = [events EXCEPT ![g] = ScriptEvent(c, body),
                                         ![f] = NoEvent]
             /\ interest' = [interest EXCEPT ![g] = IF body THEN "out" ELSE "in",
                                             ![f] = "off"]
          \* EpollErr: the script's event is deleted, this one stays in the
          \* map with cgi_ pointing to it.
          \/ /\ AddCanFail(g)
             /\ events' = [events EXCEPT ![g] = NoEvent,
                                         ![f].published = TRUE]
             /\ interest' = [interest EXCEPT ![f] = "out"]
  /\ UNCHANGED status

\* std::out_of_range from the chunk decoder is caught by nobody.
ReceiveAborts(f) ==
  /\ MayAbort
  /\ Dispatch(f, "receive")
  /\ status' = "aborted"
  /\ UNCHANGED <<sock, cgi, events, interest>>

-----------------------------------------------------------------------------
(* ResponseToTheClient and CgiResponse: both own the Socket and delete it.  *)

ReplyMore(f, k) ==
  /\ Dispatch(f, k)
  /\ UNCHANGED <<sock, cgi, events, interest, status>>

ReplyDone(f, k) ==
  LET c == events[f].conn IN
  /\ Dispatch(f, k)
  /\ sock' = Freed(c)
  /\ events' = [events EXCEPT ![f] = NoEvent]
  /\ interest' = Closed(c, [interest EXCEPT ![f] = "off"])
  /\ UNCHANGED <<cgi, status>>

ResponseMore(f) == ReplyMore(f, "response")
ResponseDone(f) == ReplyDone(f, "response")

\* A client redirect is dropped after its first dispatch; any other reply
\* only once the end of the script's output has been read.
ScriptOf(f) == cgi[events[f].conn][events[f].pos]

CgiResponseMore(f) ==
  /\ events[f].kind = "cgiresponse" => ScriptOf(f).type # "clientRedirect"
  /\ ReplyMore(f, "cgiresponse")

\* The reply ends with the data at hand, the output's end unseen.
FaultyCgiResponseDone(f) == ReplyDone(f, "cgiresponse")

CgiResponseDone(f) ==
  /\ events[f].kind = "cgiresponse" => \/ ScriptOf(f).type = "clientRedirect"
                                       \/ ScriptOf(f).size = "eof"
  /\ ReplyDone(f, "cgiresponse")

-----------------------------------------------------------------------------
(* CgiWrite *)

CgiWriteMore(f) ==
  /\ Dispatch(f, "cgiwrite")
  /\ UNCHANGED <<sock, cgi, events, interest, status>>

\* Handle leaves the descriptor waiting for EPOLLOUT.
FaultyCgiWriteDone(f) ==
  /\ Dispatch(f, "cgiwrite")
  /\ events' = [events EXCEPT ![f].kind = "cgiread"]
  /\ UNCHANGED <<sock, cgi, interest, status>>

CgiWriteDone(f) ==
  /\ Dispatch(f, "cgiwrite")
  /\ events' = [events EXCEPT ![f].kind = "cgiread"]
  /\ interest' = [interest EXCEPT ![f] = "in"]
  /\ UNCHANGED <<sock, cgi, status>>

-----------------------------------------------------------------------------
(* CgiRead *)

\* A part of the header: nothing to publish yet.
CgiReadHeader(f) ==
  /\ Dispatch(f, "cgiread")
  /\ ~events[f].published
  /\ cgi' = [cgi EXCEPT ![events[f].conn][events[f].pos].size = "data"]
  /\ UNCHANGED <<sock, events, interest, status>>

\* The end of the output deletes the Socket, like the end of a request does.
FaultyCgiReadTail(f) ==
  LET c == events[f].conn IN
  /\ Dispatch(f, "cgiread")
  /\ events[f].published
  /\ cgi' = [cgi EXCEPT ![c][events[f].pos].size = "eof"]
  /\ sock' = Freed(c)
  /\ events' = [events EXCEPT ![f] = NoEvent]
  /\ interest' = Closed(c, interest)
  /\ UNCHANGED status

\* The successor was created earlier: this event goes on feeding it, until
\* the output ends or a reply code is set.
CgiReadTail(f) ==
  LET c == events[f].conn IN
  /\ Dispatch(f, "cgiread")
  /\ events[f].published
  /\ \E size \in {"data", "eof", "error"} :
       /\ cgi' = [cgi EXCEPT ![c][events[f].pos].size = size]
       /\ IF size = "eof" \/ sock[c].code
            THEN /\ events' = [events EXCEPT ![f] = NoEvent]
                 /\ interest' = [interest EXCEPT ![f] = "off"]
            ELSE UNCHANGED <<events, interest>>
  /\ UNCHANGED <<sock, status>>

\* Add failed for a reply event: deleting that event deletes the Socket, and
\* this event, which NextEvent never gets to, keeps pointing to it.
ReplyIsLost(f, c, r) ==
  /\ AddCanFail(sock[c].fd)
  /\ sock' = Freed(c)
  /\ cgi' = [cgi EXCEPT ![c] = r]
  /\ events' = [events EXCEPT ![sock[c].fd] = NoEvent, ![f].published = TRUE]
  /\ interest' = Closed(c, interest)

\* An invalid header, no header before the end of the output, or a read
\* error: an error page.  With t the local redirect to a request that needs
\* no script.  Either sets response_code, so this event ends here.
CgiReadReplies(f, t, sizes) ==
  LET c == events[f].conn
      i == events[f].pos
  IN
  /\ Dispatch(f, "cgiread")
  /\ ~events[f].published
  /\ \E size \in sizes :
       LET r == [cgi[c] EXCEPT ![i].size = size, ![i].type = t] IN
       \/ /\ CanAdd(sock[c].fd)
          /\ sock' = [sock EXCEPT ![c].code = TRUE]
          /\ cgi' = [cgi EXCEPT ![c] = r]
          /\ events' = [events EXCEPT ![sock[c].fd] = Event("response", c, 0),
                                      ![f] = NoEvent]
          /\ interest' = [interest EXCEPT ![sock[c].fd] = "out", ![f] = "off"]
       \/ ReplyIsLost(f, c, r)
  /\ UNCHANGED status

\* The error page is set but no event is published to send it.
FaultyCgiReadError(f) ==
  LET c == events[f].conn IN
  /\ Dispatch(f, "cgiread")
  /\ ~events[f].published
  /\ sock' = [sock EXCEPT ![c].code = TRUE]
  /\ events' = [events EXCEPT ![f] = NoEvent]
  /\ interest' = [interest EXCEPT ![f] = "off"]
  /\ UNCHANGED <<cgi, status>>

CgiReadError(f) == CgiReadReplies(f, "undetermined", {"data", "eof", "error"})

CgiReadLocalStatic(f) ==
  /\ "localRedirect" \in ResponseTypes
  /\ CgiReadReplies(f, "localRedirect", {"data"})

\* UpdateData does not pass the parser's verdict on to the Socket.
FaultyCgiReadDocument(f) ==
  LET c == events[f].conn
      i == events[f].pos
  IN
  /\ Dispatch(f, "cgiread")
  /\ ~events[f].published
  /\ CanAdd(sock[c].fd)
  /\ cgi' = [cgi EXCEPT ![c][i].size = "data"]
  /\ events' = [events EXCEPT ![sock[c].fd] = Event("cgiresponse", c, i),
                              ![f].published = TRUE]
  /\ interest' = [interest EXCEPT ![sock[c].fd] = "out"]
  /\ UNCHANGED <<sock, status>>

\* The header is complete: the reply is created and this event stays, to read
\* the rest of the output.
CgiReadDocument(f) ==
  LET c == events[f].conn
      i == events[f].pos
  IN
  /\ Dispatch(f, "cgiread")
  /\ ~events[f].published
  /\ \E t \in ResponseTypes \ {"localRedirect"} :
       LET r == [cgi[c] EXCEPT ![i].size = "data", ![i].type = t] IN
       \/ /\ CanAdd(sock[c].fd)
          /\ cgi' = [cgi EXCEPT ![c] = r]
          /\ events' = [events EXCEPT
                          ![sock[c].fd] = Event("cgiresponse", c, i),
                          ![f].published = TRUE]
          /\ interest' = [interest EXCEPT ![sock[c].fd] = "out"]
          /\ UNCHANGED sock
       \/ ReplyIsLost(f, c, r)
  /\ UNCHANGED status

\* A local redirect to another script: its event is registered for EPOLLIN,
\* even if it is a CgiWrite.
CgiReadLocalScript(f) ==
  LET c == events[f].conn
      i == events[f].pos
  IN
  /\ "localRedirect" \in ResponseTypes
  /\ Dispatch(f, "cgiread")
  /\ ~events[f].published
  /\ \E g \in Fd :
       /\ StartScript(c, g)
       /\ cgi' = [cgi EXCEPT ![c] =
                    Append([@ EXCEPT ![i].size = "data",
                                     ![i].type = "localRedirect"],
                           NewScript(g))]
       /\ \/ /\ CanAdd(g)
             /\ events' = [events EXCEPT ![g] = ScriptEvent(c, sock[c].body),
                                         ![f].published = TRUE]
             /\ interest' = [interest EXCEPT ![g] = "in"]
          \/ /\ AddCanFail(g)
             /\ events' = [events EXCEPT ![g] = NoEvent,
                                         ![f].published = TRUE]
             /\ UNCHANGED interest
  /\ UNCHANGED <<sock, status>>

-----------------------------------------------------------------------------
(* The dispatch the code has no answer to: no event under the descriptor    *)
(* (event_map_[fd] inserts NULL), an event whose Socket has been deleted,   *)
(* or a receive event about to publish a deleted one again.                 *)
DispatchUndefined(f) ==
  LET e == events[f] IN
  /\ status = "running"
  /\ batch # <<>>
  /\ f = Head(batch)
  /\ \/ e.kind = "none"
     \/ (e.conn \in Conn /\ ~Live(e.conn))
     \/ (e.kind = "receive" /\ e.published)
  /\ status' = "undefined"
  /\ batch' = Tail(batch)
  /\ UNCHANGED <<sock, cgi, events, interest>>

-----------------------------------------------------------------------------
Handler(f) ==
  \/ Accept(f) \/ AcceptFails(f)
  \/ ReceiveAgain(f) \/ ReceiveDisconnect(f) \/ ReceiveReplies(f)
  \/ ReceiveStartsScript(f) \/ ReceiveAborts(f)
  \/ ResponseMore(f) \/ ResponseDone(f)
  \/ CgiResponseMore(f) \/ CgiResponseDone(f)
  \/ CgiWriteMore(f) \/ CgiWriteDone(f)
  \/ CgiReadHeader(f) \/ CgiReadTail(f) \/ CgiReadError(f)
  \/ CgiReadLocalStatic(f) \/ CgiReadDocument(f) \/ CgiReadLocalScript(f)
  \/ DispatchUndefined(f)

Next ==
  \/ Wait
  \/ \E f \in AllFd : Handler(f)

Spec == Init /\ [][Next]_vars

\* The steps that bring the connection behind descriptor f forward.
Advance(f) ==
  \/ ReceiveDisconnect(f) \/ ReceiveReplies(f) \/ ReceiveStartsScript(f)
  \/ ResponseDone(f) \/ CgiResponseDone(f) \/ CgiWriteDone(f)
  \/ CgiReadError(f) \/ CgiReadLocalStatic(f) \/ CgiReadDocument(f)
  \/ CgiReadLocalScript(f)
  \/ (CgiReadTail(f) /\ events'[f].kind = "none")

\* The loop runs; epoll_wait reports a descriptor that is ready again and
\* again; and the environment keeps up its side: a client sends its request
\* and takes its reply, a script takes its input and ends its output.  The
\* server has no timeout that would stand in for the latter.
Fairness ==
  /\ WF_vars(Wait)
  /\ \A f \in AllFd : /\ WF_vars(Handler(f))
                      /\ SF_vars(Wait /\ \E i \in DOMAIN batch' : batch'[i] = f)
                      /\ SF_vars(Advance(f))

FairSpec == Spec /\ Fairness

-----------------------------------------------------------------------------
(* Properties *)

Replies == {"response", "cgiresponse"}

\* The event objects that bring a connection forward: all but a CgiRead that
\* has handed over to a reply or to another script.
Carries(e) == e.kind \in Replies \cup {"receive", "cgiwrite"}
              \/ (e.kind = "cgiread" /\ ~e.published)

Carriers(c) == {f \in AllFd : events[f].conn = c /\ Carries(events[f])}

\* Every open connection is brought forward by exactly one event object: none
\* is forgotten (its descriptors would stay open for ever), and no two events
\* work on the same Socket, of which each would delete it.
OneCarrier == \A c \in Conn : Live(c) => Cardinality(Carriers(c)) = 1

\* An event object that deletes the Socket when it is destroyed points to an
\* open connection and sits at its descriptor: no Socket is deleted twice,
\* whatever the scripts answer and even when registering an event fails.
OwnersLive ==
  \A f \in AllFd : events[f].kind \in Replies =>
    /\ events[f].conn \in Conn
    /\ Live(events[f].conn)
    /\ sock[events[f].conn].fd = f

\* What an event object of kind k waits for.
Direction(k) == CASE k = "none" -> "off"
                  [] k \in {"listen", "receive", "cgiread"} -> "in"
                  [] OTHER -> "out"

\* The epoll set agrees with the event map: a descriptor is registered if and
\* only if there is an event under it, for what that event does.
Wired == \A f \in AllFd : interest[f] = Direction(events[f].kind)

\* A dispatch leaves the event objects of the other reports of the same
\* epoll_wait as they were reported, Sockets included: the loop never
\* dereferences NULL or a deleted Socket.
PendingUntouched ==
  [][/\ status' # "undefined"
     /\ batch # <<>> /\ batch' = Tail(batch) =>
          \A i \in DOMAIN batch' :
            LET e == events[batch'[i]] IN
            /\ events'[batch'[i]] = e
            /\ e.conn \in Conn => sock'[e.conn].st = sock[e.conn].st]_vars

\* An event object outlives the Socket it points to in two ways only: it is a
\* CgiRead whose script answered with a client redirect, whose reply is dropped
\* before the output ended, or with a local redirect to another script.
DanglingIsRedirect ==
  \A f \in AllFd : LET e == events[f] IN
    e.conn \in Conn /\ ~Live(e.conn) =>
      /\ e.kind = "cgiread"
      /\ e.published
      /\ cgi[e.conn][e.pos].type \in {"clientRedirect", "localRedirect"}

\* A CgiResponse only ever looks at a verdict and a read size that have been
\* stored: the fields of a CgiRes have no initial value in the code.
ReplyKnowsScript ==
  \A f \in AllFd : events[f].kind = "cgiresponse" =>
    /\ ScriptOf(f).size # "unset"
    /\ ScriptOf(f).type # "undetermined"

\* Every open connection is closed in the end.
ConnectionsEnd == \A c \in Conn : Live(c) ~> ~Live(c) \/ status # "running"

\* Where a connection stands, for the abstract specification.
Phase(c) ==
  CASE sock[c].st = "unborn" -> "unborn"
    [] sock[c].st = "freed" -> "closed"
    [] OTHER -> LET ks == {events[f].kind : f \in Carriers(c)} IN
                CASE ks = {"receive"} -> "request"
                  [] ks \in {{"cgiwrite"}, {"cgiread"}} -> "script"
                  [] ks \in {{"response"}, {"cgiresponse"}} -> "reply"
                  [] OTHER -> "lost"

L == INSTANCE Lifecycle WITH phase <- [c \in Conn |-> Phase(c)]

\* Each connection is read, handed over to one reply and closed once, in the
\* order the abstract specification allows.
ImplementsLifecycle == L!Spec
=============================================================================
