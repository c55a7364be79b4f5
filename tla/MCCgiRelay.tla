----------------------------- MODULE MCCgiRelay -----------------------------
(***************************************************************************)
(* Values for TLC: sizes of two digits from 3 on, so that chunks of        *)
(* different framing occur.                                                *)
(***************************************************************************)
EXTENDS CgiRelay

MCHexLen == [n \in 0..MaxOut |-> IF n < 3 THEN 1 ELSE 2]

=============================================================================
