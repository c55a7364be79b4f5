------------------------------ MODULE Startup ------------------------------
(***************************************************************************)
(* From the file of a configuration to a running server: main, the Lexer,  *)
(* ServerContext::ToMap, Server::InitListen with the sockets of Listen,    *)
(* and the choice of a server by the header Host.                          *)
(*                                                                         *)
(* The parser is ConfigParser.  A file is its kind, whether its owner may  *)
(* read it, which is all the server tests, whether the server can open it, *)
(* and its lines.  A context is named by its place in the file.  bind is    *)
(* external: it fails for an address that is not the host's and for one    *)
(* that overlaps an address bound before.  The servers are bound in any    *)
(* order; the code's is that of the map.  Operators named Faulty... are    *)
(* the definition below them with a plausible bug; no specification uses   *)
(* them.                                                                   *)
(***************************************************************************)
EXTENDS ConfigParser, ConfigGrammar

CONSTANTS
  Files,      \* the files a server may be started with
  Hosts       \* values of the header Host

ASSUME HostsAssumption ==
  \A h \in Hosts : /\ h \in Seq(STRING \ {""})
                   /\ \A i \in 1..Len(h) - 1 : ":" \in {h[i], h[i + 1]}

VARIABLES
  file,       \* the file
  lineNum,    \* line_num of Tokenize
  next,       \* the index i of ToMap
  cmap,       \* ContextMap: listen |-> places of its contexts
  bound       \* the listens that have a socket

vars == <<parserVars, file, lineNum, next, cmap, bound>>

Init ==
  /\ file \in Files
  /\ state = "file"
  /\ tokens = <<>> /\ itr = 1
  /\ contexts = <<>>
  /\ sc = NewServer /\ place = "" /\ lc = NewLocation
  /\ lineNum = 1
  /\ next = 1
  /\ cmap = <<>>
  /\ bound = {}

-----------------------------------------------------------------------------
\* Fault: what kind of file it is is not asked.
FaultyCanRead(f) == f.kind # "none" /\ f.ownerMayRead

CanRead(f) == f.kind = "regular" /\ f.ownerMayRead

StoreFileLinesInVec ==
  /\ state = "file"
  /\ CanRead(file) /\ file.opens
  /\ state' = "lex"
  /\ UNCHANGED <<tokens, itr, contexts, sc, place, lc, file, lineNum, next, cmap, bound>>

\* The loop over lines ends at an end of file only.
NeverEnds ==
  /\ state = "file"
  /\ CanRead(file) /\ ~file.opens
  /\ state' = "spin"
  /\ UNCHANGED <<tokens, itr, contexts, sc, place, lc, file, lineNum, next, cmap, bound>>

CannotRead ==
  /\ state = "file"
  /\ ~CanRead(file)
  /\ Throw
  /\ UNCHANGED <<file, lineNum, next, cmap, bound>>

Tokenize ==
  /\ state = "lex"
  /\ lineNum \in DOMAIN file.lines
  /\ tokens' = tokens \o TokensOf(file.lines[lineNum])
  /\ lineNum' = lineNum + 1
  /\ UNCHANGED <<itr, state, contexts, sc, place, lc, file, next, cmap, bound>>

Tokenized ==
  /\ state = "lex"
  /\ lineNum \notin DOMAIN file.lines
  /\ state' = "top"
  /\ UNCHANGED <<tokens, itr, contexts, sc, place, lc, file, lineNum, next, cmap, bound>>

Parsing == ParserNext /\ UNCHANGED <<file, lineNum, next, cmap, bound>>

Parsed ==
  /\ state = "top"
  /\ tokens # <<>> /\ itr = Len(tokens) + 1
  /\ state' = "map"
  /\ UNCHANGED <<tokens, itr, contexts, sc, place, lc, file, lineNum, next, cmap, bound>>

\* Fault: a second context of a listen takes the place of the first.
FaultyEnter(map, listen, i) ==
  IF listen \in DOMAIN map THEN {[map EXCEPT ![listen] = <<i>>]}
  ELSE If(listen[2] # "", Insert(map, listen, <<i>>))

\* One turn of the loop of ToMap, which throws without a port.
Enter(map, listen, i) ==
  IF listen \in DOMAIN map THEN {[map EXCEPT ![listen] = Append(@, i)]}
  ELSE If(listen[2] # "", Insert(map, listen, <<i>>))

ToMap ==
  /\ state = "map"
  /\ next \in DOMAIN contexts
  /\ \/ /\ cmap' \in Enter(cmap, contexts[next].listen, next)
        /\ next' = next + 1
        /\ UNCHANGED <<parserVars, file, lineNum, bound>>
     \/ /\ Enter(cmap, contexts[next].listen, next) = {}
        /\ Throw
        /\ UNCHANGED <<file, lineNum, next, cmap, bound>>

Mapped ==
  /\ state = "map"
  /\ next \notin DOMAIN contexts
  /\ state' = "listen"
  /\ UNCHANGED <<tokens, itr, contexts, sc, place, lc, file, lineNum, next, cmap, bound>>

\* InitSockAddr, with the width of a port.
Address(listen) ==
  [ip |-> IF listen[1] = "" THEN "any" ELSE InetAton[listen[1]],
   port |-> Atoi(listen[2]) % 65536]

Overlap(a, b) == a.port = b.port /\ (a.ip = b.ip \/ "any" \in {a.ip, b.ip})

Binds(listen) ==
  /\ Address(listen).ip # "elsewhere"
  /\ \A other \in bound : ~Overlap(Address(listen), Address(other))

InitListen ==
  /\ state = "listen"
  /\ \E listen \in DOMAIN cmap \ bound :
       \/ /\ Binds(listen)
          /\ bound' = bound \cup {listen}
          /\ UNCHANGED <<parserVars, file, lineNum, next, cmap>>
       \/ /\ ~Binds(listen)
          /\ Throw
          /\ UNCHANGED <<file, lineNum, next, cmap, bound>>

\* Fault: one socket is enough.
FaultyRun ==
  /\ state = "listen"
  /\ bound # {}
  /\ state' = "run"
  /\ UNCHANGED <<tokens, itr, contexts, sc, place, lc, file, lineNum, next, cmap, bound>>

Run ==
  /\ state = "listen"
  /\ DOMAIN cmap \subseteq bound
  /\ state' = "run"
  /\ UNCHANGED <<tokens, itr, contexts, sc, place, lc, file, lineNum, next, cmap, bound>>

Next ==
  \/ StoreFileLinesInVec
  \/ Tokenize
  \/ Tokenized
  \/ NeverEnds
  \/ CannotRead
  \/ Parsing
  \/ Parsed
  \/ ToMap
  \/ Mapped
  \/ InitListen
  \/ Run

Spec == Init /\ [][Next]_vars /\ WF_vars(Next)

-----------------------------------------------------------------------------
(* The choice of a server for a request.                                    *)

NoHost == <<"no such header">>

\* ParseHostHeader: name and port; empty unless there are one or two pieces.
ParseHostHeader(host) ==
  LET pieces == Split(host, {":"})
  IN  CASE Len(pieces) = 1 -> <<pieces[1][1], "">>
        [] Len(pieces) = 2 -> <<pieces[1][1], pieces[2][1]>>
        [] OTHER -> <<"", "">>

\* Fault: the last context that fits is taken.
FaultySelectServerContext(list, host) ==
  LET Fits(i) == /\ contexts[i].serverName = ParseHostHeader(host)[1]
                 /\ ParseHostHeader(host)[2] \in {"", contexts[i].listen[2]}
      fitting == {n \in DOMAIN list : Fits(list[n])}
  IN  list[IF Len(list) = 1 \/ host = NoHost \/ fitting = {} THEN 1 ELSE Max(fitting)]

SelectServerContext(list, host) ==
  LET Fits(i) == /\ contexts[i].serverName = ParseHostHeader(host)[1]
                 /\ ParseHostHeader(host)[2] \in {"", contexts[i].listen[2]}
      fitting == {n \in DOMAIN list : Fits(list[n])}
  IN  list[IF Len(list) = 1 \/ host = NoHost \/ fitting = {} THEN 1 ELSE Min(fitting)]

-----------------------------------------------------------------------------
(* Properties                                                               *)

\* The types of the variables that control the start.
TypeOK ==
  /\ state \in {"file", "lex", "top", "server", "location", "map", "listen", "run", "exit", "spin"}
  /\ itr \in Nat
  /\ next \in 1..Len(contexts) + 1
  /\ bound \subseteq DOMAIN cmap

Accepted == state \in {"map", "listen", "run"}

\* What Lexer and Parser make of a text they accept is what the grammar says it
\* means: every directive in the block it is written in, once, with its value.
ParsedIsRight == Accepted => contexts = Meaning(Words(file.lines))

\* A configuration a server can be started with: it follows the grammar, and
\* its servers listen at addresses of the host of which no two overlap.
Startable ==
  LET t == Words(file.lines)
      listens == {c.listen : c \in Range(Meaning(t))}
  IN  /\ CanRead(file)
      /\ WellFormed(t)
      /\ NoListen \notin listens
      /\ \A l \in listens : /\ Address(l).ip # "elsewhere"
                            /\ \A m \in listens \ {l} : ~Overlap(Address(l), Address(m))

\* main gets to Run with these configurations, and ends with an error with any
\* other, no matter which step of lexer, parser, ToMap or InitListen finds out.
StartsIfRight ==
  /\ state = "run" => Startable
  /\ state = "exit" => ~Startable

\* ToMap and InitListen: while a map is filled, each listen has the servers that
\* name it, in their order in the file; when the server runs, all of them have
\* a socket.
EveryServerListened ==
  /\ \A listen \in DOMAIN cmap :
       /\ \A i, j \in DOMAIN cmap[listen] : i < j => cmap[listen][i] < cmap[listen][j]
       /\ Range(cmap[listen]) = {i \in 1..next - 1 : contexts[i].listen = listen}
  /\ state = "run" => \A i \in DOMAIN contexts : contexts[i].listen \in bound

\* Whether a host means a server: its words are the server's name alone, or
\* the name and then the server's port as the file spells it; one word or two
\* are what names a server, anything else means the servers without a name.
Means(host, c) ==
  LET words == {i \in DOMAIN host : host[i] # ":"}
  IN  IF c.serverName = ""
        THEN Cardinality(words) \notin 1..2
        ELSE /\ Cardinality(words) <= 2
             /\ \E i \in words : /\ host[i] = c.serverName
                                 /\ \A j \in words \ {i} : j > i /\ host[j] = c.listen[2]

\* A request gets the first server of the file that listens where it came in
\* and is meant by its Host, and if there is none the first that listens there;
\* where one server listens the Host does not matter (SelectServerContext).
SelectedIsRight ==
  state = "run" =>
    \A listen \in bound, host \in Hosts :
      LET here == {i \in DOMAIN contexts : contexts[i].listen = listen}
          meant == {i \in here : host # NoHost /\ Means(host, contexts[i])}
      IN  SelectServerContext(cmap[listen], host) = Min(IF meant = {} THEN here ELSE meant)

\* With a file that can be opened if it can be tested the start comes to an
\* end: main runs the server or returns.
StartEnds == (file.kind = "regular" => file.opens) ~> state \in {"run", "exit"}
=============================================================================
