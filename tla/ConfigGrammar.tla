--------------------------- MODULE ConfigGrammar ---------------------------
(***************************************************************************)
(* What a configuration means, said without a parser: a file is a sequence *)
(* of statements, each ended by a semicolon or a brace, and a block is     *)
(* what lies between the braces of one depth.  No definition of this       *)
(* module stands for code.                                                 *)
(***************************************************************************)
EXTENDS ConfigWords

\* The members of a set of positions of a sequence, in their order.
InOrder(text, positions) == SelectSeq([i \in DOMAIN text |-> i], LAMBDA i : i \in positions)

Words(lines) == SelectSeq(FlattenSeq(lines), LAMBDA w : w \notin Blanks)

Statements(t) ==
  LET cut == InOrder(t, {i \in DOMAIN t : t[i] \in Separators})
      Count(n, brace) == Cardinality({m \in 1..n - 1 : t[cut[m]] = brace})
  IN  [n \in DOMAIN cut |->
         [words |-> SubSeq(t, IF n = 1 THEN 1 ELSE cut[n - 1] + 1, cut[n] - 1),
          end   |-> t[cut[n]],
          depth |-> Count(n, Opening) - Count(n, Closing)]]

Name(statement) == IF statement.words = <<>> THEN "" ELSE statement.words[1]

\* The statement that opened the block the n-th is in.
Opener(s, n) == Max({0} \cup {m \in 1..n - 1 : s[m].end = Opening /\ s[m].depth = s[n].depth - 1})

-----------------------------------------------------------------------------
HostPart(w) == IF w \in DOMAIN Hosted THEN Hosted[w][1] ELSE ""
PortPart(w) == IF w \in DOMAIN Hosted THEN Hosted[w][2] ELSE w

Listenable(w) ==
  /\ StrToLong(PortPart(w)) \in 1..65535
  /\ w \in DOMAIN Hosted => HostPart(w) \in DOMAIN InetAton

\* A path from the root that does not climb above it.
Rooted(w) == w \in DOMAIN Characters /\ Characters[w][1] = "/" /\ Normalized[w] # {}

IsServerStatement(name, a) ==
  CASE name = "listen" -> Len(a) = 1 /\ Listenable(a[1])
    [] name = "client_max_body_size" -> Len(a) = 1 /\ StrToLong(a[1]) >= 0
    [] name = "server_name" -> Len(a) = 1
    [] name = "error_page" -> /\ Len(a) >= 2
                              /\ \A i \in 1..Len(a) - 1 : StrToLong(a[i]) \in 300..599
    [] OTHER -> FALSE

IsLocationStatement(name, a) ==
  CASE name = "limit_except" -> /\ a # <<>>
                                /\ Range(a) \subseteq {"GET", "POST", "DELETE"}
                                /\ IsInjective(a)
    [] name = "return" -> Len(a) \in 1..2 /\ StrToLong(a[1]) \in 0..999
    [] name = "root" -> Len(a) = 1 /\ Rooted(a[1])
    [] name = "autoindex" -> Len(a) = 1 /\ a[1] \in {"on", "off"}
    [] name = "index" -> Len(a) = 1
    [] name = "cgi_extension" -> a # <<>> /\ Range(a) \subseteq Extensions
    [] OTHER -> FALSE

IsStatement(s) ==
  \/ s.end = Closing /\ s.depth \in 1..2 /\ s.words = <<>>
  \/ s.end = Opening /\ s.depth = 0 /\ s.words = <<"server">>
  \/ s.end = Opening /\ s.depth = 1 /\ Len(s.words) = 2 /\ s.words[1] = "location"
  \/ /\ s.end = Semicolon /\ s.words # <<>>
     /\ \/ s.depth = 1 /\ IsServerStatement(Name(s), Tail(s.words))
        \/ s.depth = 2 /\ IsLocationStatement(Name(s), Tail(s.words))

Once == {"listen", "client_max_body_size", "server_name",
         "return", "root", "autoindex", "index"}

\* Two statements that may not be in the same block.
Exclude(s, r) ==
  \/ Name(s) = Name(r) /\ Name(s) \in Once
  \/ s.end = Opening /\ s.words = r.words
  \/ /\ Name(s) = "limit_except" /\ Name(r) = "limit_except"
     /\ Range(Tail(s.words)) \cap Range(Tail(r.words)) # {}

WellFormed(t) ==
  LET s == Statements(t)
  IN  /\ s # <<>> /\ Last(t) = Closing /\ Last(s).depth = 1
      /\ \A n \in DOMAIN s : IsStatement(s[n])
      /\ \A m, n \in DOMAIN s :
           m < n /\ s[n].depth > 0 /\ s[m].depth = s[n].depth /\ Opener(s, m) = Opener(s, n)
             => ~Exclude(s[m], s[n])

-----------------------------------------------------------------------------
\* The arguments of the directives of one name in a block, in their order.
Directives(s, opener, name) ==
  LET own == {n \in DOMAIN s : /\ s[n].end = Semicolon /\ Name(s[n]) = name
                               /\ Opener(s, n) = opener}
      at == InOrder(s, own)
  IN  [i \in DOMAIN at |-> Tail(s[at[i]].words)]

\* What a directive that may be given once says.
Said(s, opener, name, Meant(_), default) ==
  LET given == Directives(s, opener, name)
  IN  IF given = <<>> THEN default ELSE Meant(given[1])

First(a) == a[1]

LocationMeaning(s, o) ==
  [limitExcept |-> Range(FlattenSeq(Directives(s, o, "limit_except"))),
   redirect |-> Said(s, o, "return",
                     LAMBDA a : <<StrToLong(a[1]), IF Len(a) = 2 THEN a[2] ELSE "">>, <<-1, "">>),
   root |-> Said(s, o, "root",
                 LAMBDA a : CHOOSE path \in Normalized[a[1]] : TRUE, <<>>),
   autoIndex |-> Said(s, o, "autoindex", First, ""),
   index |-> Said(s, o, "index", First, ""),
   cgiExtension |-> FlattenSeq(Directives(s, o, "cgi_extension"))]

\* All error pages are the one of the last directive.
ErrorPages(given) ==
  [code \in {StrToLong(w) : w \in UNION {Range(Front(given[i])) : i \in DOMAIN given}} |->
     Last(Last(given))]

ServerMeaning(s, o) ==
  LET opened == {n \in DOMAIN s : s[n].end = Opening /\ s[n].depth = 1 /\ Opener(s, n) = o}
  IN  [listen |-> Said(s, o, "listen", LAMBDA a : <<HostPart(a[1]), PortPart(a[1])>>, NoListen),
       bodySize |-> Said(s, o, "client_max_body_size",
                         LAMBDA a : [set |-> TRUE, size |-> StrToLong(a[1])],
                         NewServer.bodySize),
       serverName |-> Said(s, o, "server_name", First, ""),
       errorPage |-> ErrorPages(Directives(s, o, "error_page")),
       locations |-> [path \in {s[n].words[2] : n \in opened} |->
          LocationMeaning(s, CHOOSE n \in opened : s[n].words[2] = path)]]

Meaning(t) ==
  LET s == Statements(t)
      openers == InOrder(s, {n \in DOMAIN s : s[n].end = Opening /\ s[n].depth = 0})
  IN  [i \in DOMAIN openers |-> ServerMeaning(s, openers[i])]
=============================================================================
