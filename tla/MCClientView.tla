---------------------------- MODULE MCClientView ----------------------------
(***************************************************************************)
(* Replies for TLC: every kind of reply for one connection, and the other  *)
(* one there to have a script that inherits, or is inherited by, its.      *)
(***************************************************************************)
EXTENDS ClientView

CONSTANTS c1, c2

NoHeaders == [k \in {} |-> 0]
EmptyPage == [code |-> 404, body |-> <<>>, headers |-> NoHeaders]
Page == [code |-> 301, body |-> Out(0, 2), headers |-> [k \in {"Location"} |-> 0]]

MCConn == {c1, c2}

MCPages == [c \in MCConn |-> IF c = c1 THEN {EmptyPage, Page} ELSE {}]

ScriptHead(type, fields) == [type |-> type, fields |-> fields]
Document == ScriptHead("document", <<Line("CONTENT-TYPE", 0), Line("STATUS", 404)>>)
ClientRedirect == ScriptHead("redirect", <<Line("LOCATION", 0)>>)

MCHeads == [c \in MCConn |->
              IF c = c1 THEN {Document, ClientRedirect} ELSE {ClientRedirect}]

MCMaxOut == [c \in MCConn |-> IF c = c1 THEN 2 ELSE 0]
=============================================================================
