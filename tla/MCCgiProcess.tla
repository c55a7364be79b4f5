---------------------------- MODULE MCCgiProcess ----------------------------
(***************************************************************************)
(* Scripts for TLC: every program of up to three operations for a body of  *)
(* two bytes, and some for other bodies, redirects and bad headers.        *)
(***************************************************************************)
EXTENDS CgiProcess, SequencesExt

Request(n, r, b, p) == [body |-> n, redirected |-> r, bad |-> b, program |-> p]

Reads(p) == Cardinality({i \in DOMAIN p : p[i] = "read"})

\* A script reads no more than its request brings, and nothing after the end
\* of its input.
Sensible(p, n) ==
  /\ Reads(p) <= n
  /\ \A i, j \in DOMAIN p : i < j /\ p[i] = "readToEnd" => p[j] = "write"

MCRequests ==
  {Request(2, FALSE, FALSE, p) : p \in {q \in BoundedSeq(Ops, 3) : Sensible(q, 2)}}
    \cup {Request(2, FALSE, FALSE, <<"write", "write", "read", "read">>),
          Request(3, FALSE, FALSE, <<"read", "write", "write", "read">>),
          Request(3, FALSE, FALSE, <<"read", "read", "write", "write">>),
          Request(2, TRUE, FALSE, <<"read", "read", "write">>),
          Request(2, TRUE, FALSE, <<"write", "read", "write">>),
          Request(0, FALSE, FALSE, <<"write", "write">>),
          Request(0, FALSE, TRUE, <<"write", "write">>)}
=============================================================================
