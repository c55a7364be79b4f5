---------------------------- MODULE ConfigWords ----------------------------
(***************************************************************************)
(* The words of a configuration and what conversions make of them, and the *)
(* contexts they are stored in.                                            *)
(*                                                                         *)
(* A word is a string.  What a conversion makes of it is given for the     *)
(* words in Spelling, Hosted and Characters; any other word is no number,  *)
(* no address and no path.                                                 *)
(***************************************************************************)
EXTENDS Routing, Lexer, Integers

Digit(c) == CASE c = "0" -> 0 [] c = "1" -> 1 [] c = "2" -> 2 [] c = "3" -> 3
              [] c = "4" -> 4 [] c = "5" -> 5 [] c = "6" -> 6 [] c = "8" -> 8
              [] c = "9" -> 9 [] c = "+" -> 43 - 48 [] c = "-" -> 45 - 48

\* The characters of the words that strtol takes for a number.
Spelling ==
  "0" :> <<"0">> @@ "10" :> <<"1", "0">> @@ "80" :> <<"8", "0">>
    @@ "81" :> <<"8", "1">> @@ "080" :> <<"0", "8", "0">>
    @@ "+80" :> <<"+", "8", "0">> @@ "-1" :> <<"-", "1">>
    @@ "299" :> <<"2", "9", "9">> @@ "300" :> <<"3", "0", "0">>
    @@ "404" :> <<"4", "0", "4">> @@ "405" :> <<"4", "0", "5">>
    @@ "599" :> <<"5", "9", "9">> @@ "600" :> <<"6", "0", "0">>
    @@ "1000" :> <<"1", "0", "0", "0">>
    @@ "65535" :> <<"6", "5", "5", "3", "5">>
    @@ "65536" :> <<"6", "5", "5", "3", "6">>

Value(digits) == FoldLeft(LAMBDA n, c : 10 * n + Digit(c), 0, digits)

\* Atoi knows no signs: the difference of any character to "0" counts.
Atoi(w) == Value(Spelling[w])

\* -1 for what is no number or out of range; a sign is read.
StrToLong(w) ==
  IF w \notin DOMAIN Spelling THEN -1
  ELSE LET s == Spelling[w]
       IN  CASE s[1] = "-" -> -Value(Tail(s))
             [] s[1] = "+" -> Value(Tail(s))
             [] OTHER -> Value(s)

\* The words with a colon: what is before and after it.
Hosted ==
  "0.0.0.0:80" :> <<"0.0.0.0", "80">> @@ "127.0.0.1:80" :> <<"127.0.0.1", "80">>
    @@ "127.0.0.1:81" :> <<"127.0.0.1", "81">> @@ "192.0.2.1:80" :> <<"192.0.2.1", "80">>
    @@ "x:80" :> <<"x", "80">> @@ ":80" :> <<"", "80">>
    @@ "0.0.0.0:" :> <<"0.0.0.0", "">>

\* inet_aton: the address of the interface an IPv4 address names.
InetAton ==
  "0.0.0.0" :> "any" @@ "127.0.0.1" :> "loopback" @@ "192.0.2.1" :> "elsewhere"

\* The characters of the words that have a slash.
Characters ==
  "/" :> <<"/">> @@ "/w" :> <<"/", "w">> @@ "/w/../v/" :> <<"/", "w", "/", ".", ".", "/", "v", "/">>
    @@ "/.." :> <<"/", ".", ".">> @@ "w/" :> <<"w", "/">>

\* What Normalize makes of each of them.
Normalized == [w \in DOMAIN Characters |-> Normalize(Characters[w])]

\* An extension is a dot at the beginning, no other one, and something more.
Extensions == {".py", ".cgi"}

-----------------------------------------------------------------------------
NoListen == <<"", "">>

NewServer == [listen |-> NoListen, bodySize |-> [set |-> FALSE, size |-> 100000],
              serverName |-> "", errorPage |-> <<>>, locations |-> <<>>]

NewLocation == [limitExcept |-> {}, redirect |-> <<-1, "">>, root |-> <<>>,
                autoIndex |-> "", index |-> "", cgiExtension |-> <<>>]

\* What a function returns that throws if the condition does not hold.
If(condition, value) == IF condition THEN {value} ELSE {}
=============================================================================
