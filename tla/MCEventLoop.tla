---------------------------- MODULE MCEventLoop ----------------------------
(* Instances of EventLoop for TLC. *)
EXTENDS EventLoop

MCListenFd == {0}
MCFd == 1..4
MCFd5 == 1..5
AllTypes == Types
=============================================================================
