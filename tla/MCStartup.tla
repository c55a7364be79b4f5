----------------------------- MODULE MCStartup -----------------------------
(* Startup for TLC: whole configurations with every single mistake in them, *)
(* and configurations of up to three servers.                               *)
EXTENDS Startup

Regular(lines) == [kind |-> "regular", ownerMayRead |-> TRUE, opens |-> TRUE, lines |-> lines]

\* A file from its tokens: a line for every statement or for every token, with
\* blanks only where words would touch or around every token.
Statement(t, i) == SubSeq(t, Max({0} \cup {j \in 1..i - 1 : t[j] \in Separators}) + 1, i)
Tight(t) ==
  FlattenSeq([i \in DOMAIN t |->
    IF i < Len(t) /\ t[i] \notin Separators /\ t[i + 1] \notin Separators
      THEN <<t[i], " ">> ELSE <<t[i]>>])
Lines(t) ==
  LET ends == InOrder(t, {i \in DOMAIN t : t[i] \in Separators \/ i = Len(t)})
  IN  [n \in DOMAIN ends |-> Tight(Statement(t, ends[n]))]
Tokens(t) == [i \in DOMAIN t |-> <<"\t", t[i], " ">>]

Directive(name, args) == <<name>> \o args \o <<Semicolon>>
Server(statements) == <<"server", Opening>> \o FlattenSeq(statements) \o <<Closing>>
LocationOf(path, statements) == <<"location", path, Opening>> \o FlattenSeq(statements) \o <<Closing>>

\* All directives of a server, and all of a location.
OfServer ==
  Server(<<Directive("listen", <<"127.0.0.1:80">>),
           Directive("client_max_body_size", <<"10">>),
           Directive("error_page", <<"404", "405", "/w">>),
           Directive("error_page", <<"300", "w">>),
           Directive("server_name", <<"a">>)>>)
OfLocation ==
  Server(<<Directive("listen", <<"81">>),
           LocationOf("/", <<Directive("root", <<"/w/../v/">>),
                             Directive("limit_except", <<"GET", "POST">>),
                             Directive("cgi_extension", <<".py", ".cgi">>),
                             Directive("index", <<"w">>),
                             Directive("autoindex", <<"on">>),
                             Directive("return", <<"404", "w">>)>>)>>)
\* Blocks in blocks, and directives given twice where they may be.
Nested ==
  Server(<<LocationOf("/", <<Directive("limit_except", <<"DELETE">>),
                             Directive("limit_except", <<"GET">>),
                             Directive("return", <<"0">>)>>),
           Directive("listen", <<"80">>),
           LocationOf("/w", <<>>)>>)

Mistakes ==
  Separators \cup LocationDirectives
    \cup {"server", "listen", "server_name", "error_page", "location", "client_max_body_size",
          "a", "80", "-1", "299", "300", "599", "600", "1000", "65535", "65536", "x:80", ":80",
          "0.0.0.0:", "/w", "/..", "w/", "GET", "off", ".py"}

Edits(t) ==
  {SubSeq(t, 1, i - 1) \o w \o SubSeq(t, i + skip, Len(t)) :
     i \in DOMAIN t, skip \in 0..1, w \in {<<m>> : m \in Mistakes} \cup {<<>>}}
    \cup {SubSeq(t, 1, i) : i \in 0..Len(t)}

Servers(listens) ==
  {Server(<<IF l = "" THEN <<>> ELSE Directive("listen", <<l>>),
            IF n = "" THEN <<>> ELSE Directive("server_name", <<n>>)>>) :
     l \in listens, n \in {"", "a", "b"}}

Pairs ==
  {x \o y : x, y \in Servers({"", "80", "080", "+80", "81", "0.0.0.0:80", "127.0.0.1:80",
                              "127.0.0.1:81", "192.0.2.1:80"})}
Triples ==
  {x \o y \o z : x, y, z \in Servers({"80", "127.0.0.1:81"})}

MCFiles ==
  {Regular(lines) : lines \in
     {Lines(t) : t \in {OfServer \o OfLocation} \cup Edits(OfServer) \cup Edits(OfLocation)
                        \cup Edits(Nested) \cup Pairs \cup Triples}
     \cup {<<Tight(OfServer)>>, Tokens(OfLocation) \o <<<<>>>>}}
    \cup {[kind |-> k, ownerMayRead |-> r, opens |-> k = "regular" /\ o, lines |-> Lines(Nested)] :
            k \in {"regular", "directory", "none"}, r, o \in BOOLEAN}

MCHosts ==
  {NoHost, <<>>, <<":">>, <<"a">>, <<"b">>, <<"c">>, <<"a", ":">>, <<"a", ":", "80">>,
   <<"b", ":", "80">>, <<"b", ":", "81">>, <<"a", ":", "80", ":", "80">>}
=============================================================================
