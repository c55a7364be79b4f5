------------------------------- MODULE Relay -------------------------------
(***************************************************************************)
(* What relaying the output of a script to a client promises, without      *)
(* buffers, chunks or errors of single writes: the client is given a       *)
(* growing beginning of the output; the reply is finished only when the    *)
(* output has ended and the client has been given all of it; otherwise the *)
(* connection is broken off.                                               *)
(***************************************************************************)
EXTENDS Naturals

VARIABLES
  produced,     \* bytes of output so far
  ended,        \* whether there will be no more
  delivered,    \* bytes of it given to the client
  phase

vars == <<produced, ended, delivered, phase>>

Init == /\ produced \in Nat
        /\ ended = FALSE
        /\ delivered = 0
        /\ phase = "open"

Produce == /\ ~ended
           /\ produced' \in Nat
           /\ produced' > produced
           /\ UNCHANGED <<ended, delivered, phase>>

End == ended' = TRUE /\ UNCHANGED <<produced, delivered, phase>>

Deliver == /\ phase = "open"
           /\ delivered' \in Nat
           /\ delivered' > delivered
           /\ delivered' <= produced
           /\ UNCHANGED <<produced, ended, phase>>

Finish == /\ phase = "open"
          /\ ended
          /\ delivered = produced
          /\ phase' = "finished"
          /\ UNCHANGED <<produced, ended, delivered>>

Break == /\ phase = "open"
         /\ phase' = "broken"
         /\ UNCHANGED <<produced, ended, delivered>>

Next == Produce \/ End \/ Deliver \/ Finish \/ Break

Spec == Init /\ [][Next]_vars
=============================================================================
