------------------------------ MODULE Routing ------------------------------
(***************************************************************************)
(* From the path of a request to a location of the configuration and the   *)
(* name of a file (Path.cpp, LocationContext.cpp).  Paths are sequences of *)
(* characters; a lookup that throws is the empty set.                      *)
(***************************************************************************)
EXTENDS Utils

\* The locations whose path begins the request's; the longest one is taken.
FindBestLocation(locations, uri) ==
  LET found == {l \in DOMAIN locations : l # <<>> /\ IsPrefix(l, uri)}
  IN  {l \in found : \A m \in found : Len(m) <= Len(l)}

GetAliasPath(locations, location, uri) ==
  locations[location].root \o SubSeq(uri, Len(location) + 1, Len(uri))

\* One component of a path: "." stays, ".." goes back, which fails at the top.
Descend(walk, name) ==
  CASE name = <<".">> -> walk
    [] name = <<".", ".">> /\ walk.names # <<>> -> [walk EXCEPT !.names = Front(@)]
    [] name = <<".", ".">> /\ walk.names = <<>> -> [walk EXCEPT !.failed = TRUE]
    [] OTHER -> [walk EXCEPT !.names = Append(@, name)]

Normalize(path) ==
  LET walk == FoldLeft(Descend, [names |-> <<>>, failed |-> FALSE], Split(path, {"/"}))
      names == walk.names
      slash == path # <<>> /\ Last(path) = "/"
      After(i) == IF i < Len(names) \/ slash THEN <<"/">> ELSE <<>>
  IN  IF walk.failed THEN {}
      ELSE {<<"/">> \o FlattenSeq([i \in DOMAIN names |-> names[i] \o After(i)])}

\* The constructor of PrepareNextEventFromRequestAndConfig: the file a request
\* is about.
FullPath(locations, uri) ==
  UNION {Normalize(GetAliasPath(locations, l, uri)) : l \in FindBestLocation(locations, uri)}

IsAllowMethod(context, method) ==
  context.limitExcept = {} \/ method \in context.limitExcept

IsAllowExtensionCgi(context, name) ==
  LET dot == SelectLastInSeq(name, LAMBDA c : c = ".")
  IN  dot # 0 /\ SubSeq(name, dot, Len(name)) \in context.cgiExtension
=============================================================================
