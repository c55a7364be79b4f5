---------------------------- MODULE MCFileService ----------------------------
(* A small site: one location with a script and an index, one that lists    *)
(* its directory and takes GET only, one that redirects; the page for 404   *)
(* is a file that a script may remove, the page for 403 is a directory.     *)
EXTENDS FileService

CONSTANTS c1, c2

Top == <<"/", "w", "/">>
Listed == <<"/", "w", "/", "d", "/">>
F == Top \o <<"f">>
I == Top \o <<"i">>
S == Top \o <<"s", ".", "c">>
ListedIndex == Listed \o <<"h">>
Page404 == <<"/", "e">>
Page403 == <<"/", "p">>

MCIndexHtml == <<"h">>

Context0 == [root |-> Top, limitExcept |-> {}, index |-> <<"i">>, autoIndex |-> FALSE,
             redirect |-> FALSE, cgiExtension |-> {<<".", "c">>}]
MCLocations ==
  <<"/">> :> Context0
  @@ <<"/", "g", "/">> :> [Context0 EXCEPT !.root = Listed, !.limitExcept = {"GET"},
                                           !.index = <<>>, !.autoIndex = TRUE]
  @@ <<"/", "r">> :> [Context0 EXCEPT !.redirect = TRUE]

MCErrorPages == "404" :> Page404 @@ "403" :> Page403

Plain(content) == [kind |-> "file", readable |-> TRUE, opens |-> TRUE, holds |-> content]
Directory == [Nothing EXCEPT !.kind = "dir"]

Site == F :> Plain("old") @@ I :> Plain("part") @@ S :> Plain("old") @@ Top :> Directory
        @@ Listed :> Directory @@ ListedIndex :> Nothing @@ Page404 :> Plain("page")
        @@ Page403 :> Directory

MCFiles ==
  {[Site EXCEPT ![F] = e] :
     e \in {Plain("old"), [Plain("old") EXCEPT !.readable = FALSE],
            [Plain("old") EXCEPT !.opens = FALSE]}}
  \cup {[Site EXCEPT ![F] = [Nothing EXCEPT !.kind = "other"], ![I] = Nothing]}

\* What a script writes anew its owner may not read, though the server can.
Hidden == [Plain("script") EXCEPT !.readable = FALSE]
MCChanges == {<<F, Nothing>>, <<F, Hidden>>, <<Page404, Nothing>>}

MCRequests ==
  [method : Methods, path : {<<"/", "f">>}]
  \cup [method : {"GET"}, path : {<<"/">>, <<"/", "g", "/">>, <<"/", "r">>,
                                  <<"/", ".", ".", "/", ".", ".", "/", "f">>}]
  \cup [method : {"POST"}, path : {<<"/", "s", ".", "c">>, <<"/", "g", "/">>, <<"/">>}]
=============================================================================
