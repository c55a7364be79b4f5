----------------------------- MODULE Lifecycle -----------------------------
(***************************************************************************)
(* What the event loop of the server promises about one client connection, *)
(* with no descriptor, event object or epoll set in sight.  A connection   *)
(* is accepted once, its request is read, possibly by way of CGI scripts,  *)
(* it is handed over to exactly one reply, and it is closed once.  Only a  *)
(* client that hung up before its request was complete gets no reply.      *)
(***************************************************************************)
CONSTANT Conn

VARIABLE phase      \* phase[c] : where connection c stands

Phase == {"unborn", "request", "script", "reply", "closed"}

Init == phase = [c \in Conn |-> "unborn"]

Move(c, from, to) == /\ phase[c] \in from
                     /\ phase' = [phase EXCEPT ![c] = to]

Accept(c) == Move(c, {"unborn"}, "request")
RunScript(c) == Move(c, {"request"}, "script")
Reply(c) == Move(c, {"request", "script"}, "reply")
HangUp(c) == Move(c, {"request"}, "closed")
Close(c) == Move(c, {"reply"}, "closed")

Next == \E c \in Conn : \/ Accept(c)
                        \/ RunScript(c)
                        \/ Reply(c)
                        \/ HangUp(c)
                        \/ Close(c)

Spec == Init /\ [][Next]_phase
=============================================================================
