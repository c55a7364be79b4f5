---------------------------- MODULE MCCgiParser ----------------------------
(***************************************************************************)
(* Scripts for TLC.                                                        *)
(***************************************************************************)
EXTENDS CgiParser

Script(l, n, b) == [lines |-> l, newLine |-> n, body |-> b]

\* Every header of at most two lines, of three where three matter, with
\* either line end; then bodies of up to five characters, so that a body may
\* hold a blank line of either kind, after short headers.
MCScripts ==
  {Script(l, n, b) : l \in BoundedSeq(HeaderLines, 2), n \in LineEnds,
                     b \in {<<>>, <<"x">>}}
    \cup {Script(<<a, b, c>>, n, <<"x">>) :
            a, b, c \in {"type", "found", "status", "badStatus", "uri", "other"},
            n \in LineEnds}
    \cup {Script(<<h>>, n, b) : h \in {"type", "path"}, n \in LineEnds,
            b \in BoundedSeq({"x", "cr", "lf"}, 5)}
    \cup {Script(<<"type">>, n, b) : n \in LineEnds,
            b \in BoundedSeq({"x", "lf", "nul"}, 3)}
=============================================================================
