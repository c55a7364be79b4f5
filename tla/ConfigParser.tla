---------------------------- MODULE ConfigParser ----------------------------
(***************************************************************************)
(* From the tokens of a configuration to the contexts of its servers:      *)
(* classes Parser and TokenManager, with one action per directive.         *)
(*                                                                         *)
(* Exceptions differ in their message only: main ends after any of them,   *)
(* the state "exit".  A directive is taken with all its arguments, up to   *)
(* the next semicolon, because a loop over arguments can only end there or *)
(* in an exception.  Operators that throw return the empty set.  Operators *)
(* named Faulty... are the definition below them with a plausible bug; no  *)
(* specification uses them.                                                *)
(***************************************************************************)
EXTENDS ConfigWords

VARIABLES
  tokens,     \* tkns_.tokens_
  itr,        \* tkns_.tkn_itr_, counted from 1: one past the end is End()
  state,      \* which function is running
  contexts,   \* contexts_
  sc,         \* the ServerContext being filled
  place,      \* the path of the location being filled
  lc          \* its LocationContext

parserVars == <<tokens, itr, state, contexts, sc, place, lc>>

-----------------------------------------------------------------------------
(* Directives: what each makes of the context and its arguments.            *)

ParseHost(w) ==
  IF w \in DOMAIN Hosted THEN If(Hosted[w][1] \in DOMAIN InetAton, Hosted[w][1]) ELSE {""}

ParseListen(w) ==
  LET port == IF w \in DOMAIN Hosted THEN Hosted[w][2] ELSE w
  IN  If(StrToLong(port) \in 1..65535, port)

StoreListen(s, args) ==
  IF Len(args) = 1 /\ s.listen = NoListen
    THEN {[s EXCEPT !.listen = <<h, p>>] : h \in ParseHost(args[1]), p \in ParseListen(args[1])}
    ELSE {}

StoreClientBodySize(s, args) ==
  If(Len(args) = 1 /\ ~s.bodySize.set /\ StrToLong(args[1]) >= 0,
     [s EXCEPT !.bodySize = [set |-> TRUE, size |-> StrToLong(args[1])]])

\* Fault: a second name is taken as well.
FaultyStoreServerName(s, args) ==
  If(Len(args) = 1 /\ args[1] \notin Separators, [s EXCEPT !.serverName = args[1]])

StoreServerName(s, args) ==
  If(Len(args) = 1 /\ args[1] \notin Separators /\ s.serverName = "",
     [s EXCEPT !.serverName = args[1]])

\* The page is given to all the codes there are, those of earlier directives
\* of the server as well.
StoreErrorPage(s, args) ==
  LET codes == {StrToLong(w) : w \in {args[i] : i \in 1..Len(args) - 1}}
  IN  If(/\ Len(args) >= 2
         /\ codes \subseteq 300..599
         /\ Last(args) \notin Separators,
         [s EXCEPT !.errorPage = [c \in DOMAIN @ \cup codes |-> Last(args)]])

StoreLimitExcept(l, args) ==
  If(/\ args # <<>>
     /\ \A i \in DOMAIN args : /\ args[i] \in {"GET", "POST", "DELETE"} \ l.limitExcept
                               /\ \A j \in 1..i - 1 : args[j] # args[i],
     [l EXCEPT !.limitExcept = @ \cup {args[i] : i \in DOMAIN args}])

StoreRedirect(l, args) ==
  If(/\ l.redirect[1] = -1
     /\ Len(args) \in 1..2
     /\ StrToLong(args[1]) \in 0..999
     /\ Last(args) \notin Separators,
     [l EXCEPT !.redirect = <<StrToLong(args[1]), IF Len(args) = 2 THEN args[2] ELSE "">>])

\* IsFullPath, IsValidPath and Normalize.
StoreRoot(l, args) ==
  IF /\ Len(args) = 1
     /\ l.root = <<>>
     /\ args[1] \in DOMAIN Characters
     /\ Characters[args[1]][1] = "/"
    THEN {[l EXCEPT !.root = path] : path \in Normalized[args[1]]}
    ELSE {}

StoreAutoIndex(l, args) ==
  If(Len(args) = 1 /\ args[1] \in {"on", "off"} /\ l.autoIndex = "",
     [l EXCEPT !.autoIndex = args[1]])

StoreIndex(l, args) ==
  If(Len(args) = 1 /\ args[1] \notin Separators /\ l.index = "", [l EXCEPT !.index = args[1]])

StoreCgiExtension(l, args) ==
  If(args # <<>> /\ \A i \in DOMAIN args : args[i] \in Extensions,
     [l EXCEPT !.cgiExtension = @ \o args])

-----------------------------------------------------------------------------
(* Actions                                                                  *)

Throw ==
  /\ state' = "exit"
  /\ UNCHANGED <<tokens, itr, contexts, sc, place, lc>>

\* Next(), which throws at the end, and what it would return.
NextIs(words) == itr < Len(tokens) /\ tokens[itr + 1] \in words

\* The end of the statement whose name is the next token: a set of one
\* position, or of none if no semicolon follows.
StatementEnds ==
  {e \in itr + 2 .. Len(tokens) :
     tokens[e] = Semicolon /\ \A i \in itr + 2 .. e - 1 : tokens[i] # Semicolon}

Arguments(e) == SubSeq(tokens, itr + 2, e - 1)

\* Parse, at the top of its loop.
BeginServer ==
  /\ state = "top"
  /\ itr < Len(tokens) /\ tokens[itr] = "server" /\ NextIs({Opening})
  /\ state' = "server"
  /\ itr' = itr + 1
  /\ sc' = NewServer
  /\ UNCHANGED <<tokens, contexts, place, lc>>

NoServer ==
  /\ state = "top"
  /\ \/ tokens = <<>>
     \/ itr <= Len(tokens) /\ ~(tokens[itr] = "server" /\ NextIs({Opening}))
  /\ Throw

\* Fault: the iterator was moved past the brace before.
FaultyIncrement(i) == i + 2

Increment(i) == i + 1

EndServer ==
  /\ state = "server"
  /\ NextIs({Closing})
  /\ state' = "top"
  /\ itr' = Increment(itr + 1)
  /\ contexts' = Append(contexts, sc)
  /\ UNCHANGED <<tokens, sc, place, lc>>

ServerDirective(name, Store(_, _)) ==
  /\ state = "server"
  /\ NextIs({name})
  /\ \/ \E e \in StatementEnds : \E s \in Store(sc, Arguments(e)) :
          /\ sc' = s
          /\ itr' = e
          /\ UNCHANGED <<tokens, state, contexts, place, lc>>
     \/ (\A e \in StatementEnds : Store(sc, Arguments(e)) = {}) /\ Throw

LocationOpens ==
  /\ itr + 3 <= Len(tokens)
  /\ tokens[itr + 2] \notin Separators \cup DOMAIN sc.locations
  /\ tokens[itr + 3] = Opening

BeginLocation ==
  /\ state = "server"
  /\ NextIs({"location"})
  /\ \/ /\ LocationOpens
        /\ state' = "location"
        /\ itr' = itr + 3
        /\ place' = tokens[itr + 2]
        /\ lc' = NewLocation
        /\ UNCHANGED <<tokens, contexts, sc>>
     \/ ~LocationOpens /\ Throw

EndLocation ==
  /\ state = "location"
  /\ NextIs({Closing})
  /\ state' = "server"
  /\ itr' = itr + 1
  /\ sc' = [sc EXCEPT !.locations = Insert(@, place, lc)]
  /\ UNCHANGED <<tokens, contexts, place, lc>>

LocationDirective(name, Store(_, _)) ==
  /\ state = "location"
  /\ NextIs({name})
  /\ \/ \E e \in StatementEnds : \E l \in Store(lc, Arguments(e)) :
          /\ lc' = l
          /\ itr' = e
          /\ UNCHANGED <<tokens, state, contexts, sc, place>>
     \/ (\A e \in StatementEnds : Store(lc, Arguments(e)) = {}) /\ Throw

ServerDirectives ==
  {"listen", "client_max_body_size", "server_name", "error_page", "location"}

LocationDirectives ==
  {"limit_except", "return", "root", "autoindex", "index", "cgi_extension"}

\* A block ends with the tokens, or goes on with what is no directive in it.
UnknownDirective ==
  /\ \/ state = "server" /\ ~NextIs({Closing} \cup ServerDirectives)
     \/ state = "location" /\ ~NextIs({Closing} \cup LocationDirectives)
  /\ Throw

ParserNext ==
  \/ BeginServer
  \/ NoServer
  \/ EndServer
  \/ ServerDirective("listen", StoreListen)
  \/ ServerDirective("client_max_body_size", StoreClientBodySize)
  \/ ServerDirective("server_name", StoreServerName)
  \/ ServerDirective("error_page", StoreErrorPage)
  \/ BeginLocation
  \/ EndLocation
  \/ LocationDirective("limit_except", StoreLimitExcept)
  \/ LocationDirective("return", StoreRedirect)
  \/ LocationDirective("root", StoreRoot)
  \/ LocationDirective("autoindex", StoreAutoIndex)
  \/ LocationDirective("index", StoreIndex)
  \/ LocationDirective("cgi_extension", StoreCgiExtension)
  \/ UnknownDirective

\* The parser by itself, for any tokens.
ParserInit ==
  /\ tokens \in Seq(STRING)
  /\ itr = 1
  /\ state = "top"
  /\ contexts = <<>>
  /\ sc = NewServer /\ place = "" /\ lc = NewLocation

ParserSpec == ParserInit /\ [][ParserNext]_parserVars

\* The iterator is never where it may not be dereferenced: in a block it is at
\* a token, between two servers at a token or at the end (TokenManager).
CursorInBounds ==
  /\ state = "top" => itr \in 1..Len(tokens) + 1
  /\ state \in {"server", "location"} => itr \in 1..Len(tokens)
=============================================================================
