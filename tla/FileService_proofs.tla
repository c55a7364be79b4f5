------------------------- MODULE FileService_proofs -------------------------
(***************************************************************************)
(* Proofs about the answers from files, for any number of connections and  *)
(* descriptors, any configuration and files, and whatever scripts make of  *)
(* the files between two tests of the thread.                              *)
(***************************************************************************)
EXTENDS FileService, FiniteSetTheorems, SequenceTheorems, TLAPS

-----------------------------------------------------------------------------
(* What the thread has seen of a file since it took up the request.          *)

SawMissing(S, name) == \E fs \in S : ~IsExist(At(fs, name))
SawExist(S, name) == \E fs \in S : IsExist(At(fs, name))
SawFile(S, name) == \E fs \in S : IsFile(At(fs, name))
SawNoFile(S, name) == \E fs \in S : ~IsFile(At(fs, name))
SawDir(S, name) == \E fs \in S : IsDir(At(fs, name))
SawReadable(S, name) == \E fs \in S : CanRead(At(fs, name))
SawUnreadable(S, name) == \E fs \in S : ~CanRead(At(fs, name))

(* The context of a routed request, and the index of a directory in it.      *)
Cx(r) == CHOOSE context \in r.context : TRUE
IndexOf(r, p) == p \o (IF Cx(r).index = <<>> THEN IndexHtml ELSE Cx(r).index)

ScriptMaybe(S, r, p) ==
  \E name \in {p, p \o Cx(r).index} :
    IsAllowExtensionCgi(Cx(r), name) /\ SawFile(S, name)

(* Why the request r may be refused with the code, after S was seen.         *)
Due(S, r, code) ==
  /\ r.file = {} => code = "404"
  /\ \A p \in r.file :
       \/ /\ code = "403"
          /\ \/ r.method \in {"POST", "DELETE"}
             \/ SawFile(S, p) /\ SawUnreadable(S, p)
             \/ SawDir(S, p) /\ SawUnreadable(S, IndexOf(r, p))
             \/ ScriptMaybe(S, r, p)
       \/ code = "404" /\ SawMissing(S, p)
       \/ code = "405" /\ ~IsAllowMethod(Cx(r), r.method)
       \/ code = "500" /\ ScriptMaybe(S, r, p)

LEMMA SawLater ==
  ASSUME NEW S, NEW T, S \subseteq T, NEW name
  PROVE  /\ SawMissing(S, name) => SawMissing(T, name)
         /\ SawExist(S, name) => SawExist(T, name)
         /\ SawFile(S, name) => SawFile(T, name)
         /\ SawNoFile(S, name) => SawNoFile(T, name)
         /\ SawDir(S, name) => SawDir(T, name)
         /\ SawReadable(S, name) => SawReadable(T, name)
         /\ SawUnreadable(S, name) => SawUnreadable(T, name)
  BY DEF SawMissing, SawExist, SawFile, SawNoFile, SawDir, SawReadable, SawUnreadable

LEMMA DueLater ==
  ASSUME NEW S, NEW T, S \subseteq T, NEW r, NEW code, Due(S, r, code)
  PROVE  Due(T, r, code)
  <1>1. \A p : ScriptMaybe(S, r, p) => ScriptMaybe(T, r, p)
    BY SawLater DEF ScriptMaybe
  <1> QED BY <1>1, SawLater DEF Due

-----------------------------------------------------------------------------
(* What is known of the request r when the thread s, which saw S, is about   *)
(* to take its next step.                                                    *)

\* The page of an error code that is due is looked at.
Page(s, r, S) ==
  /\ s.code \in DOMAIN ErrorPages
  /\ s.file = ErrorPages[s.code]
  /\ s.code \in {"403", "404", "405", "500"}
  /\ Due(S, r, s.code)

\* The file, or the index of the directory, that Get found.
Found(s, r, S) ==
  /\ r.method = "GET"
  /\ s.code = "200"
  /\ s.keeps
  /\ \E p \in r.file : \/ s.file = p /\ SawFile(S, p)
                       \/ s.file = IndexOf(r, p) /\ SawDir(S, p)

Getting(s, r) == r.method = "GET" /\ s.code = "200" /\ s.keeps /\ s.file \in r.file
Posting(s, r) == r.method = "POST" /\ s.code = "201" /\ s.file \in r.file
Deleting(s, r) == r.method = "DELETE" /\ s.code = "204" /\ s.file \in r.file

PageStages == {"pageExist", "pageIsFile", "pageCanRead"}
Stages == {"loop", "route", "isCgi", "isScript", "cgi", "run", "exist", "isFile", "isDir",
           "index", "canRead", "readFileLines", "open", "spin", "notDir", "replace",
           "delFile"} \cup PageStages

Knows(s, r, S) ==
  /\ s.stage \in {"route", "isCgi", "isScript", "cgi", "run"} => s.keeps
  /\ s.stage \in {"isCgi", "run"} => s.file \in r.file
  /\ s.stage \in {"isScript", "cgi"} =>
       \E p \in r.file : s.file \in {p, p \o Cx(r).index}
  /\ s.stage = "cgi" => IsAllowExtensionCgi(Cx(r), s.file) /\ SawFile(S, s.file)
  /\ s.stage = "exist" => Getting(s, r) \/ Deleting(s, r)
  /\ s.stage \in {"isFile", "isDir"} => Getting(s, r) /\ SawExist(S, s.file)
  /\ s.stage = "isDir" => SawNoFile(S, s.file)
  /\ s.stage = "index" => /\ r.method = "GET"
                          /\ s.keeps
                          /\ \E p \in r.file : s.file = IndexOf(r, p) /\ SawDir(S, p)
  /\ s.stage = "canRead" => Found(s, r, S)
  /\ s.stage \in {"readFileLines", "open"} => Found(s, r, S) \/ Page(s, r, S)
  /\ s.stage \in {"readFileLines", "open"} => SawReadable(S, s.file)
  /\ s.stage = "notDir" => Posting(s, r) \/ Deleting(s, r)
  /\ s.stage = "replace" => Posting(s, r)
  /\ s.stage = "delFile" => Deleting(s, r)
  /\ s.stage \in PageStages => Page(s, r, S)

LEMMA KnowsLater ==
  ASSUME NEW S, NEW T, S \subseteq T, NEW r, NEW s, Knows(s, r, S)
  PROVE  Knows(s, r, T)
  <1>1. Page(s, r, S) => Page(s, r, T)
    BY DueLater DEF Page
  <1>2. Found(s, r, S) => Found(s, r, T)
    BY SawLater DEF Found
  <1> QED BY <1>1, <1>2, SawLater DEF Knows

-----------------------------------------------------------------------------
(* The inductive invariant.                                                  *)

Typed(fs) == \A name \in DOMAIN fs : fs[name] \in Entries

Busy == {c \in Conn : phase[c] \in {"connected", "script", "reply"}}
Scripted == {c \in Conn : phase[c] = "script"}

Known ==
  /\ TypeOK
  /\ DOMAIN answer = Conn
  /\ IsFiniteSet(Busy) /\ IsFiniteSet(Scripted)
  /\ IsFiniteSet(seen)
  /\ \A fs \in seen : Typed(fs)
  /\ server = [stage |-> server.stage, conn |-> server.conn, file |-> server.file,
               code |-> server.code, keeps |-> server.keeps]
  /\ server.stage \in Stages
  /\ server.code \in Codes

FInv ==
  /\ Known
  /\ server.stage # "loop" => /\ phase[server.conn] = "connected"
                              /\ files \in seen
                              /\ Knows(server, request[server.conn], seen)
  /\ SpinsOnly

LEMMA Counts ==
  Used = Cardinality(Busy) + Cardinality(Scripted) + leaked
  BY DEF Used, Busy, Scripted

\* A request has at most one file.
LEMMA OneFile ==
  ASSUME NEW r \in RoutedRequests, NEW p \in r.file, NEW q \in r.file
  PROVE  p = q
  <1>1. PICK raw \in Requests : r = Routed(raw)
    BY DEF RoutedRequests
  <1> DEFINE uri == raw.path
             best == FindBestLocation(Locations, uri)
  <1>2. \A l, m \in best : l = m
    <2> SUFFICES ASSUME NEW l \in best, NEW m \in best
                 PROVE  l = m
      OBVIOUS
    <2>1. /\ l \in Seq(STRING) /\ m \in Seq(STRING)
          /\ IsPrefix(l, uri) /\ IsPrefix(m, uri)
          /\ Len(m) <= Len(l) /\ Len(l) <= Len(m)
      BY FileServiceAssumption DEF FindBestLocation
    <2>2. Len(l) = Len(m)
      BY <2>1
    <2>3. /\ SubSeq(l, 1, Len(l)) = SubSeq(uri, 1, Len(l))
          /\ SubSeq(m, 1, Len(m)) = SubSeq(uri, 1, Len(m))
      BY <2>1 DEF IsPrefix
    <2>4. SubSeq(l, 1, Len(l)) = l /\ SubSeq(m, 1, Len(m)) = m
      BY <2>1
    <2> QED BY <2>2, <2>3, <2>4
  <1>3. r.file = UNION {Normalize(GetAliasPath(Locations, l, uri)) : l \in best}
    BY <1>1 DEF Routed, FullPath
  <1> HIDE DEF best
  <1>4. PICK l \in best, m \in best : /\ p \in Normalize(GetAliasPath(Locations, l, uri))
                                      /\ q \in Normalize(GetAliasPath(Locations, m, uri))
    BY <1>3
  <1>5. \A path : \A a, b \in Normalize(path) : a = b
    BY DEF Normalize
  <1> QED BY <1>2, <1>4, <1>5

-----------------------------------------------------------------------------
(* The steps of the thread come in three forms: it goes on to its next step, *)
(* it replies, or it fails with a code.                                      *)

\* Whether the answer to the request the thread works on is true.
RightNow(code, body) ==
  IF Path = {} THEN code \in {"404", "403"} /\ (code = "403" => PageFails("403"))
  ELSE \A path \in Path : Reason(code, body, path)

AnswerStep ==
  \A c \in Conn : phase[c] = "connected" /\ phase'[c] = "reply" =>
    LET code == answer'[c].code
        body == answer'[c].body
    IN  IF Path = {} THEN code \in {"404", "403"} /\ (code = "403" => PageFails("403"))
        ELSE \A path \in Path : Reason(code, body, path)

\* What the step did to everything but the thread and the connections.
World ==
  /\ request' = request
  /\ leaked' \in Nat
  /\ Cardinality(Busy) + Cardinality(Scripted) + leaked' <= MaxFd
  /\ IsFiniteSet(seen')
  /\ seen \subseteq seen'
  /\ files' \in seen'
  /\ \A fs \in seen' : Typed(fs)

LEMMA StillWorld ==
  ASSUME FInv, server.stage # "loop", UNCHANGED <<files, request, leaked, seen>>
  PROVE  World
  BY Counts DEF World, FInv, Known, TypeOK, Typed

LEMMA GoStep ==
  ASSUME FInv, server.stage # "loop", World, UNCHANGED <<phase, answer>>,
         NEW st \in Stages \ {"loop"}, NEW file, NEW code \in Codes, NEW keeps,
         server' = [stage |-> st, conn |-> server.conn, file |-> file, code |-> code,
                    keeps |-> keeps],
         Knows(server', Request, seen'),
         st = "spin" => SpinsOnly'
  PROVE  FInv' /\ AnswerStep
  <1>1. Used' <= MaxFd
    BY DEF Used, World, Busy, Scripted
  <1>2. TypeOK'
    BY <1>1 DEF World, FInv, Known, TypeOK, Typed
  <1>3. Known'
    BY <1>2 DEF World, FInv, Known, Busy, Scripted
  <1>4. SpinsOnly'
    BY DEF SpinsOnly
  <1>5. AnswerStep
    BY DEF AnswerStep
  <1> QED BY <1>3, <1>4, <1>5 DEF FInv, World, Request

LEMMA ReplyStep ==
  ASSUME FInv, server.stage # "loop", World, NEW code \in Codes, NEW body, Reply(code, body),
         RightNow(code, IF server.keeps THEN body ELSE "none")
  PROVE  FInv' /\ AnswerStep
  <1>1. server.conn \in Conn /\ phase[server.conn] = "connected"
    BY DEF FInv, Known, TypeOK
  <1>2. /\ Busy' = Busy
        /\ Scripted' = Scripted
        /\ phase' \in [Conn -> {"waiting", "connected", "script", "reply", "closed"}]
    BY <1>1 DEF Reply, Busy, Scripted, FInv, Known, TypeOK
  <1>3. Used' <= MaxFd
    BY <1>2 DEF Used, World, Busy, Scripted
  <1>4. /\ DOMAIN answer' = Conn
        /\ \A c \in Conn : answer'[c].code \in Codes
    BY <1>1 DEF Reply, FInv, Known, TypeOK
  <1>5. TypeOK'
    BY <1>2, <1>3, <1>4 DEF World, FInv, Known, TypeOK, Typed, Reply, Idle
  <1>6. Known'
    BY <1>2, <1>4, <1>5 DEF World, FInv, Known, Reply, Idle, Stages, Codes
  <1>7. FInv'
    BY <1>6 DEF FInv, SpinsOnly, Reply, Idle
  <1>8. answer'[server.conn] = [code |-> code,
                                body |-> IF server.keeps THEN body ELSE "none"]
    BY <1>1 DEF Reply, FInv, Known
  <1>9. \A c \in Conn : phase[c] = "connected" /\ phase'[c] = "reply" => c = server.conn
    BY DEF Reply, FInv, Known, TypeOK
  <1>10. AnswerStep
    BY <1>8, <1>9 DEF AnswerStep, RightNow
  <1> QED BY <1>7, <1>10

\* A refusal that is due has its reason, whatever its body.
LEMMA DueIsReason ==
  ASSUME NEW code, NEW body, Due(seen', Request, code)
  PROVE  RightNow(code, body)
  <1>1. Context = Cx(Request)
    BY DEF Context, Cx
  <1>2. CASE Path = {}
    BY <1>2 DEF RightNow, Due, Path
  <1>3. CASE Path # {}
    <2> SUFFICES ASSUME NEW p \in Path
                 PROVE  Reason(code, body, p)
      BY <1>3 DEF RightNow
    <2>1. ScriptMaybe(seen', Request, p) => MayBeScript(p)
      BY <1>1 DEF ScriptMaybe, MayBeScript, Once, SawFile
    <2>2. IndexOf(Request, p) = Index(p)
      BY <1>1 DEF IndexOf, Index
    <2>3. CASE code = "403"
      <3>1. \/ Request.method \in {"POST", "DELETE"}
            \/ SawFile(seen', p) /\ SawUnreadable(seen', p)
            \/ SawDir(seen', p) /\ SawUnreadable(seen', Index(p))
            \/ MayBeScript(p)
        BY <2>1, <2>2, <2>3 DEF Due, Path
      <3> QED BY <2>3, <3>1 DEF Reason, Once, SawFile, SawUnreadable, SawDir
    <2>4. CASE code = "404"
      <3>1. SawMissing(seen', p)
        BY <2>4 DEF Due, Path
      <3> QED BY <2>4, <3>1 DEF Reason, Once, SawMissing
    <2>5. CASE code = "405"
      <3>1. ~IsAllowMethod(Context, Request.method)
        BY <1>1, <2>5 DEF Due, Path
      <3> QED BY <2>5, <3>1 DEF Reason
    <2>6. CASE code = "500"
      <3>1. MayBeScript(p)
        BY <2>1, <2>6 DEF Due, Path
      <3> QED BY <2>6, <3>1 DEF Reason
    <2> QED BY <2>3, <2>4, <2>5, <2>6 DEF Due, Path
  <1> QED BY <1>2, <1>3

LEMMA FailStep ==
  ASSUME FInv, server.stage # "loop", World, NEW code \in {"403", "404", "405", "500"},
         Fail(code), Due(seen', Request, code)
  PROVE  FInv' /\ AnswerStep
  <1>1. CASE code \in DOMAIN ErrorPages /\ Go("pageExist", ErrorPages[code], code)
    <2>1. server' = [stage |-> "pageExist", conn |-> server.conn, file |-> ErrorPages[code],
                     code |-> code, keeps |-> server.keeps]
      BY <1>1 DEF Go, FInv, Known
    <2>2. Knows(server', Request, seen')
      BY <1>1, <2>1 DEF Knows, Page, PageStages
    <2>3. UNCHANGED <<phase, answer>> /\ code \in Codes
      BY <1>1 DEF Go, Codes
    <2> QED BY <2>1, <2>2, <2>3, GoStep DEF Stages, PageStages
  <1>2. CASE Reply(code, "default")
    <2>1. code \in Codes
      BY DEF Codes
    <2> QED BY <1>2, <2>1, ReplyStep, DueIsReason
  <1> QED BY <1>1, <1>2 DEF Fail

\* What holds whenever the thread works on a request.
LEMMA Working ==
  ASSUME FInv, server.stage # "loop"
  PROVE  /\ server.conn \in Conn
         /\ Request \in RoutedRequests
         /\ Path = Request.file
         /\ Context = Cx(Request)
         /\ files \in seen
         /\ Typed(files)
         /\ server.code \in Codes
         /\ Knows(server, Request, seen)
         /\ server = [stage |-> server.stage, conn |-> server.conn, file |-> server.file,
                      code |-> server.code, keeps |-> server.keeps]
  BY DEF FInv, Known, TypeOK, Request, Path, Context, Cx

\* Go, as the record it leaves.
LEMMA GoRecord ==
  ASSUME FInv, server.stage # "loop", NEW st, NEW file, NEW code, Go(st, file, code)
  PROVE  /\ server' = [stage |-> st, conn |-> server.conn, file |-> file, code |-> code,
                       keeps |-> server.keeps]
         /\ server'.stage = st /\ server'.file = file /\ server'.code = code
         /\ server'.keeps = server.keeps
         /\ UNCHANGED <<phase, answer>>
  <1>1. server' = [stage |-> st, conn |-> server.conn, file |-> file, code |-> code,
                   keeps |-> server.keeps]
    BY Working DEF Go
  <1> QED BY <1>1 DEF Go

-----------------------------------------------------------------------------
(* A request is taken up, routed, and given to a script or a method.         *)

LEMMA FStart ==
  ASSUME FInv, NEW c \in Conn, Start(c)
  PROVE  FInv' /\ AnswerStep
  <1>1. server' = [stage |-> "route", conn |-> c, file |-> <<>>, code |-> "200",
                   keeps |-> TRUE]
    BY DEF Start, Idle
  <1>2. seen' = {files} /\ files' = files /\ IsFiniteSet({files})
    BY FS_Singleton DEF Start
  <1>3. Used' = Used
    BY DEF Used, Start
  <1>4. TypeOK'
    BY <1>1, <1>3, FileServiceAssumption DEF FInv, Known, TypeOK, Start
  <1>5. Known'
    <2>1. IsFiniteSet(Busy') /\ IsFiniteSet(Scripted')
      <3>1. phase' = phase
        BY DEF Start
      <3> QED BY <3>1 DEF FInv, Known, Busy, Scripted
    <2>2. IsFiniteSet(seen') /\ \A fs \in seen' : Typed(fs)
      BY <1>2 DEF FInv, Known, TypeOK, Typed
    <2>3. /\ DOMAIN answer' = Conn
          /\ server'.stage \in Stages /\ server'.code \in Codes
      <3>1. answer' = answer /\ DOMAIN answer = Conn
        BY DEF FInv, Known, Start
      <3> QED BY <1>1, <3>1 DEF Stages, Codes
    <2>4. server' = [stage |-> server'.stage, conn |-> server'.conn, file |-> server'.file,
                     code |-> server'.code, keeps |-> server'.keeps]
      BY <1>1
    <2> QED BY <1>4, <2>1, <2>2, <2>3, <2>4 DEF Known
  <1>6. Knows(server', request[c], seen')
    BY <1>1 DEF Knows, PageStages
  <1>7. FInv'
    BY <1>1, <1>2, <1>5, <1>6 DEF FInv, Start, SpinsOnly
  <1> QED BY <1>7 DEF AnswerStep, Start

LEMMA FRoute ==
  ASSUME FInv, Route
  PROVE  FInv' /\ AnswerStep
  <1>1. server.stage = "route" /\ World /\ seen' = seen
    BY StillWorld DEF Route, Turn
  <1>2. CASE Path = {} /\ Fail("404")
    <2>1. Due(seen', Request, "404")
      BY <1>2 DEF Due, Path
    <2> QED BY <1>1, <1>2, <2>1, FailStep
  <1>3. CASE Path # {} /\ ~IsAllowMethod(Context, Request.method) /\ Fail("405")
    <2>1. Due(seen', Request, "405")
      BY <1>1, <1>3, Working DEF Due
    <2> QED BY <1>1, <1>3, <2>1, FailStep
  <1>4. CASE \E p \in Path : Go("isCgi", p, "200")
    <2>1. PICK p \in Path : Go("isCgi", p, "200")
      BY <1>4
    <2>2. Knows(server', Request, seen')
      BY <1>1, <2>1, GoRecord, Working DEF Knows, PageStages
    <2> QED BY <1>1, <2>1, <2>2, GoRecord, GoStep DEF Stages, Codes
  <1> QED BY <1>2, <1>3, <1>4 DEF Route

LEMMA FIsRequestCgi ==
  ASSUME FInv, IsRequestCgi
  PROVE  FInv' /\ AnswerStep
  <1> DEFINE name == IF IsDir(File) THEN server.file \o Context.index ELSE server.file
  <1>1. server.stage = "isCgi" /\ World /\ seen' = seen
    BY StillWorld DEF IsRequestCgi, Turn
  <1>2. Go("isScript", name, "200")
    BY DEF IsRequestCgi
  <1>3. name \in {server.file, server.file \o Cx(Request).index}
    BY <1>1, Working
  <1> HIDE DEF name
  <1>4. Knows(server', Request, seen')
    <2>1. server.file \in Request.file
      BY <1>1, Working DEF Knows
    <2>2. /\ server'.stage = "isScript"
          /\ server'.file \in {server.file, server.file \o Cx(Request).index}
          /\ server'.keeps = server.keeps /\ server.keeps
      BY <1>1, <1>2, <1>3, GoRecord, Working DEF Knows
    <2> QED BY <2>1, <2>2 DEF Knows, PageStages
  <1> QED BY <1>1, <1>2, <1>4, GoRecord, GoStep DEF Stages, Codes

LEMMA FIsScript ==
  ASSUME FInv, IsScript
  PROVE  FInv' /\ AnswerStep
  <1>1. server.stage = "isScript" /\ World /\ seen' = seen
    BY StillWorld DEF IsScript, Turn
  <1>2. CASE /\ IsAllowExtensionCgi(Context, server.file)
             /\ IsFile(File)
             /\ Go("cgi", server.file, "200")
    <2>1. SawFile(seen, server.file)
      BY <1>1, <1>2, Working DEF SawFile, File
    <2>2. /\ server'.stage = "cgi" /\ server'.file = server.file /\ server'.keeps
          /\ \E p \in Request.file : server.file \in {p, p \o Cx(Request).index}
          /\ IsAllowExtensionCgi(Cx(Request), server.file)
      BY <1>1, <1>2, GoRecord, Working DEF Knows
    <2>3. Knows(server', Request, seen')
      BY <1>1, <2>1, <2>2 DEF Knows, PageStages
    <2> QED BY <1>1, <1>2, <2>3, GoRecord, GoStep DEF Stages, Codes
  <1>3. CASE \E p \in Path : Go("run", p, "200")
    <2>1. PICK p \in Path : Go("run", p, "200")
      BY <1>3
    <2>2. Knows(server', Request, seen')
      BY <1>1, <2>1, GoRecord, Working DEF Knows, PageStages
    <2> QED BY <1>1, <2>1, <2>2, GoRecord, GoStep DEF Stages, Codes
  <1> QED BY <1>2, <1>3 DEF IsScript

LEMMA FRunCgi ==
  ASSUME FInv, RunCgi
  PROVE  FInv' /\ AnswerStep
  <1>1. server.stage = "cgi" /\ World /\ seen' = seen
    BY StillWorld DEF RunCgi, Turn
  <1>2. \A p \in Request.file : ScriptMaybe(seen, Request, p)
    <2>1. PICK p \in Request.file : server.file \in {p, p \o Cx(Request).index}
      BY <1>1, Working DEF Knows
    <2>2. IsAllowExtensionCgi(Cx(Request), server.file) /\ SawFile(seen, server.file)
      BY <1>1, Working DEF Knows
    <2>3. ScriptMaybe(seen, Request, p)
      BY <2>1, <2>2 DEF ScriptMaybe
    <2> QED BY <1>1, <2>1, <2>3, Working, OneFile
  <1>3. Request.file # {}
    BY <1>1, Working DEF Knows
  <1>4. Due(seen', Request, "403") /\ Due(seen', Request, "500")
    BY <1>1, <1>2, <1>3 DEF Due
  <1>5. CASE Fail("403") \/ Fail("500")
    BY <1>1, <1>4, <1>5, FailStep
  <1>6. CASE /\ Free >= 2
             /\ phase' = [phase EXCEPT ![server.conn] = "script"]
             /\ server' = Idle
             /\ UNCHANGED answer
    <2>1. server.conn \in Conn /\ phase[server.conn] = "connected"
      BY <1>1, Working DEF FInv
    <2>2. /\ Busy' = Busy
          /\ Scripted' = Scripted \cup {server.conn}
          /\ phase' \in [Conn -> {"waiting", "connected", "script", "reply", "closed"}]
          /\ \A c \in Conn : phase'[c] # "reply" \/ phase[c] = "reply"
      BY <1>6, <2>1 DEF Busy, Scripted, FInv, Known, TypeOK
    <2>3. /\ IsFiniteSet(Scripted')
          /\ Cardinality(Scripted') <= Cardinality(Scripted) + 1
          /\ Cardinality(Scripted) \in Nat /\ Cardinality(Busy) \in Nat
          /\ Cardinality(Scripted') \in Nat
      <3>1. IsFiniteSet(Busy) /\ IsFiniteSet(Scripted)
        BY DEF FInv, Known
      <3> DEFINE scripts == Scripted
      <3> HIDE DEF scripts
      <3>2. /\ IsFiniteSet(scripts \cup {server.conn})
            /\ Cardinality(scripts \cup {server.conn}) <= Cardinality(scripts) + 1
            /\ Cardinality(scripts) \in Nat
            /\ Cardinality(scripts \cup {server.conn}) \in Nat
        <4>1. IsFiniteSet(scripts)
          BY <3>1 DEF scripts
        <4>2. /\ IsFiniteSet(scripts \cup {server.conn})
              /\ Cardinality(scripts \cup {server.conn}) =
                   IF server.conn \in scripts THEN Cardinality(scripts)
                   ELSE Cardinality(scripts) + 1
          BY <4>1, FS_AddElement
        <4>3. Cardinality(scripts) \in Nat
          BY <4>1, FS_CardinalityType
        <4> QED BY <4>2, <4>3
      <3>3. Cardinality(Busy) \in Nat
        BY <3>1, FS_CardinalityType
      <3>4. Scripted' = scripts \cup {server.conn}
        BY <2>2 DEF scripts
      <3> QED BY <3>2, <3>3, <3>4 DEF scripts
    <2>4. Used' = Cardinality(Busy') + Cardinality(Scripted') + leaked'
      BY DEF Used, Busy, Scripted
    <2>5. Used' <= MaxFd
      <3>1. leaked' = leaked /\ leaked \in Nat /\ MaxFd \in Nat
        BY FileServiceAssumption DEF RunCgi, FInv, Known, TypeOK
      <3>2. MaxFd - Used >= 2
        BY <1>6 DEF Free
      <3> QED BY <2>2, <2>3, <2>4, <3>1, <3>2, Counts
    <2>6. TypeOK'
      BY <1>6, <2>2, <2>5 DEF RunCgi, FInv, Known, TypeOK, Idle
    <2>7. Known'
      BY <1>1, <1>6, <2>2, <2>3, <2>6 DEF RunCgi, FInv, Known, Idle, Stages, Codes, World
    <2>8. FInv'
      BY <1>6, <2>7 DEF FInv, SpinsOnly, Idle
    <2> QED BY <2>2, <2>8 DEF AnswerStep
  <1> QED BY <1>5, <1>6 DEF RunCgi

LEMMA FRunMethod ==
  ASSUME FInv, RunMethod
  PROVE  FInv' /\ AnswerStep
  <1>1. server.stage = "run" /\ World /\ seen' = seen
    BY StillWorld DEF RunMethod, Turn
  <1>2. server.keeps /\ server.file \in Request.file
    BY <1>1, Working DEF Knows
  <1>3. CASE Request.method = "GET" /\ Context.redirect /\ Reply("302", "redirect")
    <2>1. \A p \in Path : Reason("302", "redirect", p)
      BY <1>3 DEF Reason
    <2>2. Path # {}
      BY <1>2, Working, <1>1
    <2>3. RightNow("302", IF server.keeps THEN "redirect" ELSE "none")
      BY <1>2, <2>1, <2>2 DEF RightNow
    <2> QED BY <1>1, <1>3, <2>3, ReplyStep DEF Codes
  <1>4. CASE Request.method = "GET" /\ Go("exist", server.file, "200")
    <2>1. Knows(server', Request, seen')
      <3>1. /\ server'.stage = "exist" /\ server'.file = server.file
            /\ server'.code = "200" /\ server'.keeps = server.keeps
        BY <1>1, <1>4, GoRecord
      <3> QED BY <1>2, <1>4, <3>1 DEF Knows, PageStages, Getting
    <2> QED BY <1>1, <1>4, <2>1, GoRecord, GoStep DEF Stages, Codes
  <1>5. CASE Request.method = "POST" /\ Go("notDir", server.file, "201")
    <2>1. Knows(server', Request, seen')
      BY <1>1, <1>2, <1>5, GoRecord DEF Knows, PageStages, Posting
    <2> QED BY <1>1, <1>5, <2>1, GoRecord, GoStep DEF Stages, Codes
  <1>6. CASE /\ Request.method = "DELETE"
             /\ server' = [server EXCEPT !.stage = "exist", !.code = "204", !.keeps = FALSE]
             /\ UNCHANGED <<phase, answer>>
    <2>1. server' = [stage |-> "exist", conn |-> server.conn, file |-> server.file,
                     code |-> "204", keeps |-> FALSE]
      BY <1>1, <1>6, Working
    <2>2. Knows(server', Request, seen')
      BY <1>2, <1>6, <2>1 DEF Knows, PageStages, Deleting
    <2> QED BY <1>1, <1>6, <2>1, <2>2, GoStep DEF Stages, Codes
  <1> QED BY <1>3, <1>4, <1>5, <1>6 DEF RunMethod

-----------------------------------------------------------------------------
(* The tests of the methods.                                                 *)

LEMMA FExist ==
  ASSUME FInv, Exist
  PROVE  FInv' /\ AnswerStep
  <1>1. server.stage = "exist" /\ World /\ seen' = seen
    BY StillWorld DEF Exist, Turn
  <1>2. Getting(server, Request) \/ Deleting(server, Request)
    BY <1>1, Working DEF Knows
  <1>3. CASE ~IsExist(File) /\ Fail("404")
    <2>1. SawMissing(seen, server.file)
      BY <1>1, <1>3, Working DEF SawMissing, File
    <2>2. server.file \in Request.file
      BY <1>2 DEF Getting, Deleting
    <2>3. \A p \in Request.file : SawMissing(seen, p)
      BY <1>1, <2>1, <2>2, Working, OneFile
    <2>4. Due(seen', Request, "404")
      BY <1>1, <2>3 DEF Due
    <2> QED BY <1>1, <1>3, <2>4, FailStep
  <1>4. CASE Request.method = "GET" /\ IsExist(File) /\ Go("isFile", server.file, server.code)
    <2>1. SawExist(seen, server.file)
      BY <1>1, <1>4, Working DEF SawExist, File
    <2>2. /\ server'.stage = "isFile" /\ server'.file = server.file
          /\ server'.code = server.code /\ server'.keeps = server.keeps
      BY <1>1, <1>4, GoRecord
    <2>3. Getting(server', Request)
      BY <1>2, <1>4, <2>2 DEF Getting, Deleting
    <2>4. Knows(server', Request, seen')
      BY <1>1, <2>1, <2>2, <2>3 DEF Knows, PageStages
    <2> QED BY <1>1, <1>4, <2>4, GoRecord, GoStep, Working DEF Stages
  <1>5. CASE Request.method # "GET" /\ Go("notDir", server.file, server.code)
    <2>1. /\ server'.stage = "notDir" /\ server'.file = server.file
          /\ server'.code = server.code
      BY <1>1, <1>5, GoRecord
    <2>2. Deleting(server', Request)
      BY <1>2, <1>5, <2>1 DEF Getting, Deleting
    <2>3. Knows(server', Request, seen')
      BY <2>1, <2>2 DEF Knows, PageStages
    <2> QED BY <1>1, <1>5, <2>3, GoRecord, GoStep, Working DEF Stages
  <1> QED BY <1>3, <1>4, <1>5 DEF Exist

LEMMA FIsFileTest ==
  ASSUME FInv, IsFileTest
  PROVE  FInv' /\ AnswerStep
  <1>1. server.stage = "isFile" /\ World /\ seen' = seen
    BY StillWorld DEF IsFileTest, Turn
  <1>2. Getting(server, Request) /\ SawExist(seen, server.file)
    BY <1>1, Working DEF Knows
  <1>3. CASE IsFile(File) /\ Go("canRead", server.file, "200")
    <2>1. SawFile(seen, server.file)
      BY <1>1, <1>3, Working DEF SawFile, File
    <2>2. /\ server'.stage = "canRead" /\ server'.file = server.file
          /\ server'.code = "200" /\ server'.keeps = server.keeps
      BY <1>1, <1>3, GoRecord
    <2>3. Found(server', Request, seen')
      BY <1>1, <1>2, <2>1, <2>2 DEF Getting, Found
    <2>4. Knows(server', Request, seen')
      BY <2>2, <2>3 DEF Knows, PageStages
    <2> QED BY <1>1, <1>3, <2>4, GoRecord, GoStep DEF Stages, Codes
  <1>4. CASE ~IsFile(File) /\ Go("isDir", server.file, "200")
    <2>1. SawNoFile(seen, server.file)
      BY <1>1, <1>4, Working DEF SawNoFile, File
    <2>2. /\ server'.stage = "isDir" /\ server'.file = server.file
          /\ server'.code = "200" /\ server'.keeps = server.keeps
      BY <1>1, <1>4, GoRecord
    <2>3. Getting(server', Request)
      BY <1>2, <2>2 DEF Getting
    <2>4. Knows(server', Request, seen')
      BY <1>1, <1>2, <2>1, <2>2, <2>3 DEF Knows, PageStages
    <2> QED BY <1>1, <1>4, <2>4, GoRecord, GoStep DEF Stages, Codes
  <1> QED BY <1>3, <1>4 DEF IsFileTest

LEMMA TwoMembers ==
  ASSUME NEW S, IsFiniteSet(S), NEW a \in S, NEW b \in S, a # b
  PROVE  Cardinality(S) > 1
  <1>1. {a} \cup {b} \subseteq S
    OBVIOUS
  <1>2. IsFiniteSet({a}) /\ Cardinality({a}) = 1
    BY FS_Singleton
  <1>3. Cardinality({a} \cup {b}) = 2
    BY <1>2, FS_AddElement
  <1>4. Cardinality({a} \cup {b}) <= Cardinality(S) /\ Cardinality(S) \in Nat
    BY <1>1, FS_Subset, FS_CardinalityType
  <1> QED BY <1>3, <1>4

LEMMA EntryOf ==
  ASSUME NEW fs, Typed(fs), NEW name
  PROVE  At(fs, name) \in Entries
  BY DEF Typed, At, Entries, Nothing, Contents

LEMMA FIsDirTest ==
  ASSUME FInv, IsDirTest
  PROVE  FInv' /\ AnswerStep
  <1>1. server.stage = "isDir" /\ World /\ seen' = seen
    BY StillWorld DEF IsDirTest, Turn
  <1>2. /\ Getting(server, Request)
        /\ SawExist(seen, server.file) /\ SawNoFile(seen, server.file)
    BY <1>1, Working DEF Knows
  <1>3. CASE IsDir(File) /\ Go("index", Index(server.file), "200")
    <2>1. SawDir(seen, server.file)
      BY <1>1, <1>3, Working DEF SawDir, File
    <2>2. /\ server'.stage = "index" /\ server'.file = IndexOf(Request, server.file)
          /\ server'.code = "200" /\ server'.keeps = server.keeps
      BY <1>1, <1>3, GoRecord, Working DEF Index, IndexOf
    <2>3. Knows(server', Request, seen')
      BY <1>1, <1>2, <2>1, <2>2 DEF Knows, PageStages, Getting
    <2> QED BY <1>1, <1>3, <2>3, GoRecord, GoStep DEF Stages, Codes
  <1>4. CASE ~IsDir(File) /\ Reply("undefined", "none")
    <2> SUFFICES \A path \in Path : Reason("undefined", "none", path)
      <3>1. Path # {}
        BY <1>1, <1>2, Working DEF Getting
      <3>2. SUFFICES RightNow("undefined", IF server.keeps THEN "none" ELSE "none")
        BY <1>1, <1>4, ReplyStep DEF Codes
      <3> QED BY <3>1 DEF RightNow
    <2> SUFFICES ASSUME NEW path \in Path
                 PROVE  \/ Once(path, LAMBDA e : e.kind = "other")
                        \/ Once(path, IsExist) /\ Cardinality(seen') > 1
      BY DEF Reason
    <2>1. path = server.file
      BY <1>1, <1>2, Working, OneFile DEF Getting
    <2>2. PICK fs \in seen : IsExist(At(fs, path))
      BY <1>2, <2>1 DEF SawExist
    <2>3. PICK gs \in seen : ~IsFile(At(gs, path))
      BY <1>2, <2>1 DEF SawNoFile
    <2>4. files \in seen /\ ~IsDir(At(files, path)) /\ IsFiniteSet(seen)
      BY <1>1, <1>4, <2>1, Working DEF File, FInv, Known
    <2>5. CASE fs = files /\ gs = files
      <3>1. At(files, path) \in Entries
        BY <1>1, Working, EntryOf
      <3>2. At(files, path).kind = "other"
        BY <2>2, <2>3, <2>4, <2>5, <3>1 DEF IsExist, IsFile, IsDir, Entries
      <3> QED BY <1>1, <2>4, <3>2 DEF Once
    <2>6. CASE fs # files \/ gs # files
      <3>1. Cardinality(seen) > 1
        BY <2>4, <2>6, TwoMembers
      <3> QED BY <1>1, <2>2, <3>1 DEF Once
    <2> QED BY <2>5, <2>6
  <1> QED BY <1>3, <1>4 DEF IsDirTest

LEMMA FIndexExist ==
  ASSUME FInv, IndexExist
  PROVE  FInv' /\ AnswerStep
  <1>1. server.stage = "index" /\ World /\ seen' = seen
    BY StillWorld DEF IndexExist, Turn
  <1>2. Request.method = "GET" /\ server.keeps
    BY <1>1, Working DEF Knows
  <1>3. PICK p \in Request.file : server.file = IndexOf(Request, p) /\ SawDir(seen, p)
    BY <1>1, Working DEF Knows
  <1>4. \A q \in Path : q = p
    BY <1>1, Working, OneFile
  <1>5. CASE IsExist(File) /\ Go("canRead", server.file, "200")
    <2>1. /\ server'.stage = "canRead" /\ server'.file = server.file
          /\ server'.code = "200" /\ server'.keeps = server.keeps
      BY <1>1, <1>5, GoRecord
    <2>2. Found(server', Request, seen')
      BY <1>1, <1>2, <1>3, <2>1 DEF Found
    <2>3. Knows(server', Request, seen')
      BY <2>1, <2>2 DEF Knows, PageStages
    <2> QED BY <1>1, <1>5, <2>3, GoRecord, GoStep DEF Stages, Codes
  <1>6. CASE Context.autoIndex /\ Reply("200", "list")
    <2>1. Once(p, IsDir)
      BY <1>1, <1>3 DEF SawDir, Once
    <2>2. \A path \in Path : Reason("200", "list", path)
      BY <1>4, <1>6, <2>1 DEF Reason
    <2>3. Path # {}
      BY <1>1, Working
    <2>4. RightNow("200", IF server.keeps THEN "list" ELSE "none")
      BY <1>2, <2>2, <2>3 DEF RightNow
    <2> QED BY <1>1, <1>6, <2>4, ReplyStep DEF Codes
  <1>7. CASE ~IsExist(File) /\ Fail("403")
    <2>1. SawUnreadable(seen, IndexOf(Request, p))
      BY <1>1, <1>3, <1>7, Working DEF SawUnreadable, File, IsExist, CanRead, IsFile
    <2>2. Due(seen', Request, "403")
      BY <1>1, <1>3, <1>4, <2>1, Working DEF Due
    <2> QED BY <1>1, <1>7, <2>2, FailStep
  <1> QED BY <1>5, <1>6, <1>7 DEF IndexExist

LEMMA FCanReadTest ==
  ASSUME FInv, CanReadTest
  PROVE  FInv' /\ AnswerStep
  <1>1. server.stage = "canRead" /\ World /\ seen' = seen
    BY StillWorld DEF CanReadTest, Turn
  <1>2. Found(server, Request, seen)
    BY <1>1, Working DEF Knows
  <1>3. CASE CanRead(File) /\ Go("readFileLines", server.file, server.code)
    <2>1. /\ server'.stage = "readFileLines" /\ server'.file = server.file
          /\ server'.code = server.code /\ server'.keeps = server.keeps
          /\ SawReadable(seen, server.file)
      BY <1>1, <1>3, GoRecord, Working DEF SawReadable, File
    <2>2. Found(server', Request, seen')
      BY <1>1, <1>2, <2>1 DEF Found
    <2>3. Knows(server', Request, seen')
      BY <1>1, <2>1, <2>2 DEF Knows, PageStages
    <2> QED BY <1>1, <1>3, <2>3, GoRecord, GoStep, Working DEF Stages
  <1>4. CASE ~CanRead(File) /\ Fail("403")
    <2>1. SawUnreadable(seen, server.file)
      BY <1>1, <1>4, Working DEF SawUnreadable, File
    <2>2. PICK p \in Request.file : \/ server.file = p /\ SawFile(seen, p)
                                    \/ server.file = IndexOf(Request, p) /\ SawDir(seen, p)
      BY <1>2 DEF Found
    <2>3. \A q \in Request.file : q = p
      BY <1>1, Working, OneFile
    <2>4. Due(seen', Request, "403")
      BY <1>1, <2>1, <2>2, <2>3 DEF Due
    <2> QED BY <1>1, <1>4, <2>4, FailStep
  <1> QED BY <1>3, <1>4 DEF CanReadTest

-----------------------------------------------------------------------------
(* The lines are read, of the file that was asked for or of an error page.   *)

LEMMA ReadIsTrue ==
  ASSUME FInv, server.stage # "loop", seen' = seen, NEW body,
         Found(server, Request, seen) \/ Page(server, Request, seen),
         SawReadable(seen, server.file),
         \/ body = "none" /\ SawUnreadable(seen, server.file)
         \/ \E fs \in seen : /\ IsFile(At(fs, server.file))
                             /\ At(fs, server.file).opens
                             /\ At(fs, server.file).holds = body
  PROVE  RightNow(server.code, IF server.keeps THEN body ELSE "none")
  <1>1. CASE Page(server, Request, seen)
    <2>1. Due(seen', Request, server.code)
      BY <1>1 DEF Page
    <2> QED BY <2>1, DueIsReason
  <1>2. CASE Found(server, Request, seen)
    <2>1. server.keeps /\ server.code = "200"
      BY <1>2 DEF Found
    <2>2. PICK p \in Request.file : server.file \in {p, IndexOf(Request, p)}
      BY <1>2 DEF Found
    <2>3. server.file \in {p, Index(p)}
      BY <2>2, Working DEF Index, IndexOf
    <2>4. Once(server.file, CanRead)
      BY DEF SawReadable, Once
    <2>5. \/ Once(server.file, LAMBDA e : IsFile(e) /\ e.opens /\ e.holds = body)
          \/ body = "none" /\ Once(server.file, LAMBDA e : ~CanRead(e))
      BY DEF SawUnreadable, Once
    <2>6. Reason("200", body, p)
      BY <2>3, <2>4, <2>5 DEF Reason
    <2>7. \A q \in Path : q = p
      BY Working, OneFile
    <2> QED BY <2>1, <2>2, <2>6, <2>7, Working DEF RightNow
  <1> QED BY <1>1, <1>2

LEMMA FReadFileLinesTest ==
  ASSUME FInv, ReadFileLinesTest
  PROVE  FInv' /\ AnswerStep
  <1>1. server.stage = "readFileLines" /\ World /\ seen' = seen
    BY StillWorld DEF ReadFileLinesTest, Turn
  <1>2. /\ Found(server, Request, seen) \/ Page(server, Request, seen)
        /\ SawReadable(seen, server.file)
    BY <1>1, Working DEF Knows
  <1>3. CASE Go("open", server.file, server.code)
    <2>1. /\ server'.stage = "open" /\ server'.file = server.file
          /\ server'.code = server.code /\ server'.keeps = server.keeps
      BY <1>1, <1>3, GoRecord
    <2>2. Found(server', Request, seen') \/ Page(server', Request, seen')
      BY <1>1, <1>2, <2>1 DEF Found, Page
    <2>3. Knows(server', Request, seen')
      BY <1>1, <1>2, <2>1, <2>2 DEF Knows, PageStages
    <2> QED BY <1>1, <1>3, <2>3, GoRecord, GoStep, Working DEF Stages
  <1>4. CASE ~CanRead(File) /\ Reply(server.code, "none")
    <2>1. SawUnreadable(seen, server.file)
      BY <1>1, <1>4, Working DEF SawUnreadable, File
    <2>2. RightNow(server.code, IF server.keeps THEN "none" ELSE "none")
      BY <1>1, <1>2, <2>1, ReadIsTrue
    <2> QED BY <1>1, <1>4, <2>2, ReplyStep, Working
  <1> QED BY <1>3, <1>4 DEF ReadFileLinesTest

LEMMA FreeIsCount ==
  ASSUME FInv
  PROVE  Used \in Nat /\ Free \in Nat
  <1>1. Cardinality(Busy) \in Nat /\ Cardinality(Scripted) \in Nat
    BY FS_CardinalityType DEF FInv, Known
  <1> QED BY <1>1, Counts, FileServiceAssumption DEF FInv, Known, TypeOK, Free

LEMMA FReadFileLines ==
  ASSUME FInv, ReadFileLines
  PROVE  FInv' /\ AnswerStep
  <1>1. server.stage = "open" /\ World /\ seen' = seen
    BY StillWorld DEF ReadFileLines, Turn
  <1>2. /\ Found(server, Request, seen) \/ Page(server, Request, seen)
        /\ SawReadable(seen, server.file)
    BY <1>1, Working DEF Knows
  <1>3. CASE Opens /\ Reply(server.code, File.holds)
    <2>1. \E fs \in seen : /\ IsFile(At(fs, server.file))
                           /\ At(fs, server.file).opens
                           /\ At(fs, server.file).holds = File.holds
      BY <1>1, <1>3, Working DEF Opens, File
    <2>2. RightNow(server.code, IF server.keeps THEN File.holds ELSE "none")
      BY <1>1, <1>2, <2>1, ReadIsTrue
    <2> QED BY <1>1, <1>3, <2>2, ReplyStep, Working
  <1>4. CASE ~Opens /\ Go("spin", server.file, server.code)
    <2>1. server'.stage = "spin" /\ server'.file = server.file
      BY <1>1, <1>4, GoRecord
    <2>2. Knows(server', Request, seen')
      BY <2>1 DEF Knows, PageStages
    <2>3. Free' = Free
      BY <1>1, <1>4, GoRecord DEF Free, Used, ReadFileLines
    <2>4. PICK fs \in seen : CanRead(At(fs, server.file))
      BY <1>2 DEF SawReadable
    <2>5. SpinsOnly'
      <3>1. CASE Free > 0 /\ fs = files
        <4>1. ~At(fs, server.file).opens
          BY <1>4, <2>4, <3>1 DEF Opens, File, CanRead
        <4> QED BY <1>1, <2>1, <2>4, <4>1 DEF SpinsOnly
      <3>2. CASE Free > 0 /\ fs # files
        <4>1. Cardinality(seen) > 1
          BY <1>1, <3>2, Working, TwoMembers DEF FInv, Known
        <4> QED BY <1>1, <4>1 DEF SpinsOnly
      <3>3. CASE ~(Free > 0)
        <4>1. Free = 0
          BY <3>3, FreeIsCount
        <4> QED BY <2>3, <4>1 DEF SpinsOnly
      <3> QED BY <3>1, <3>2, <3>3
    <2> QED BY <1>1, <1>4, <2>2, <2>5, GoRecord, GoStep, Working DEF Stages
  <1> QED BY <1>3, <1>4 DEF ReadFileLines

-----------------------------------------------------------------------------
(* Files are stored and deleted.                                             *)

LEMMA NewWorld ==
  ASSUME FInv, server.stage # "loop", UNCHANGED request, Typed(files'),
         seen' = seen \cup {files'},
         \/ leaked' = leaked
         \/ leaked' = leaked + 1 /\ Free > 0
  PROVE  World
  <1>1. Used \in Nat /\ Free \in Nat /\ leaked \in Nat
    BY FreeIsCount DEF FInv, Known, TypeOK
  <1>2. leaked' \in Nat /\ Used - leaked + leaked' <= MaxFd
    BY <1>1, FileServiceAssumption DEF Free
  <1>3. Cardinality(Busy) \in Nat /\ Cardinality(Scripted) \in Nat
    BY FS_CardinalityType DEF FInv, Known
  <1>4. Cardinality(Busy) + Cardinality(Scripted) + leaked' <= MaxFd
    BY <1>1, <1>2, <1>3, Counts
  <1>5. IsFiniteSet(seen')
    <2>1. IsFiniteSet(seen)
      BY DEF FInv, Known
    <2> QED BY <2>1, FS_AddElement
  <1> QED BY <1>2, <1>4, <1>5 DEF World, FInv, Known

LEMMA StoreTyped ==
  ASSUME FInv, server.stage # "loop", server.file \in DOMAIN files,
         NEW content \in Contents, Store(content)
  PROVE  /\ Typed(files')
         /\ files'[server.file].holds = content
  <1> DEFINE old == files[server.file]
             made == IF IsFile(old) THEN old
                     ELSE [old EXCEPT !.kind = "file", !.readable = TRUE, !.opens = TRUE]
             new == [made EXCEPT !.holds = content]
  <1>1. old \in Entries
    BY Working DEF Typed
  <1>2. made \in Entries
    <2>1. old = [kind |-> old.kind, readable |-> old.readable, opens |-> old.opens,
                 holds |-> old.holds]
      BY <1>1 DEF Entries
    <2>2. CASE IsFile(old)
      BY <1>1, <2>2
    <2>3. CASE ~IsFile(old)
      <3> HIDE DEF old
      <3>1. made = [kind |-> "file", readable |-> TRUE, opens |-> TRUE, holds |-> old.holds]
        BY <2>1, <2>3
      <3> QED BY <1>1, <3>1 DEF Entries
    <2> QED BY <2>2, <2>3
  <1>3. files' = [files EXCEPT ![server.file] = new]
    BY DEF Store
  <1> HIDE DEF made
  <1>4. new \in Entries /\ new.holds = content
    BY <1>2 DEF Entries
  <1> HIDE DEF new
  <1> QED BY <1>3, <1>4, Working DEF Typed

LEMMA FNotDir ==
  ASSUME FInv, NotDir
  PROVE  FInv' /\ AnswerStep
  <1>1. server.stage = "notDir" /\ World /\ seen' = seen
    BY StillWorld DEF NotDir, Turn
  <1>2. Posting(server, Request) \/ Deleting(server, Request)
    BY <1>1, Working DEF Knows
  <1>3. CASE Fail("403")
    <2>1. Due(seen', Request, "403")
      BY <1>2 DEF Due, Posting, Deleting
    <2> QED BY <1>1, <1>3, <2>1, FailStep
  <1>4. CASE Request.method = "POST" /\ Go("replace", server.file, server.code)
    <2>1. /\ server'.stage = "replace" /\ server'.file = server.file
          /\ server'.code = server.code
      BY <1>1, <1>4, GoRecord
    <2>2. Posting(server', Request)
      BY <1>2, <1>4, <2>1 DEF Posting, Deleting
    <2>3. Knows(server', Request, seen')
      BY <2>1, <2>2 DEF Knows, PageStages
    <2> QED BY <1>1, <1>4, <2>3, GoRecord, GoStep, Working DEF Stages
  <1>5. CASE Request.method # "POST" /\ Go("delFile", server.file, server.code)
    <2>1. /\ server'.stage = "delFile" /\ server'.file = server.file
          /\ server'.code = server.code
      BY <1>1, <1>5, GoRecord
    <2>2. Deleting(server', Request)
      BY <1>2, <1>5, <2>1 DEF Posting, Deleting
    <2>3. Knows(server', Request, seen')
      BY <2>1, <2>2 DEF Knows, PageStages
    <2> QED BY <1>1, <1>5, <2>3, GoRecord, GoStep, Working DEF Stages
  <1> QED BY <1>3, <1>4, <1>5 DEF NotDir

LEMMA FReplace ==
  ASSUME FInv, Replace
  PROVE  FInv' /\ AnswerStep
  <1>1. server.stage = "replace" /\ request' = request /\ seen' = seen \cup {files'}
    BY DEF Replace, Turn
  <1>2. Posting(server, Request)
    BY <1>1, Working DEF Knows
  <1>3. Due(seen', Request, "403")
    BY <1>2 DEF Due, Posting
  <1>4. CASE Fail("403") /\ UNCHANGED <<files, leaked>>
    <2>1. World
      BY <1>1, <1>4, Working, NewWorld
    <2> QED BY <1>1, <1>3, <1>4, <2>1, FailStep
  <1>5. CASE CanOpen /\ leaked' = leaked + 1 /\ Store(server.conn) /\ Reply("201", "none")
    <2>1. server.file \in DOMAIN files /\ Free > 0 /\ server.conn \in Contents
      BY <1>1, <1>5, Working DEF CanOpen, Contents
    <2>2. Typed(files') /\ files'[server.file].holds = server.conn
      BY <1>1, <1>5, <2>1, StoreTyped
    <2>3. World
      BY <1>1, <1>5, <2>1, <2>2, NewWorld
    <2>4. \A p \in Path : p = server.file
      BY <1>1, <1>2, Working, OneFile DEF Posting
    <2>5. \A p \in Path : Reason("201", "none", p)
      BY <2>2, <2>4 DEF Reason
    <2>6. Path # {}
      BY <1>1, <1>2, Working DEF Posting
    <2>7. RightNow("201", IF server.keeps THEN "none" ELSE "none")
      BY <2>5, <2>6 DEF RightNow
    <2> QED BY <1>1, <1>5, <2>3, <2>7, ReplyStep DEF Codes
  <1>6. CASE CanOpen /\ leaked' = leaked + 1 /\ Store("part") /\ Fail("403")
    <2>1. server.file \in DOMAIN files /\ Free > 0 /\ "part" \in Contents
      BY <1>6 DEF CanOpen, Contents
    <2>2. Typed(files')
      BY <1>1, <1>6, <2>1, StoreTyped
    <2>3. World
      BY <1>1, <1>6, <2>1, <2>2, NewWorld
    <2> QED BY <1>1, <1>3, <1>6, <2>3, FailStep
  <1> QED BY <1>4, <1>5, <1>6 DEF Replace

LEMMA FDelFile ==
  ASSUME FInv, DelFile
  PROVE  FInv' /\ AnswerStep
  <1>1. /\ server.stage = "delFile" /\ request' = request /\ leaked' = leaked
        /\ seen' = seen \cup {files'}
    BY DEF DelFile, Turn
  <1>2. Deleting(server, Request)
    BY <1>1, Working DEF Knows
  <1>3. CASE Fail("403") /\ UNCHANGED files
    <2>1. World
      BY <1>1, <1>3, Working, NewWorld
    <2>2. Due(seen', Request, "403")
      BY <1>2 DEF Due, Deleting
    <2> QED BY <1>1, <1>3, <2>1, <2>2, FailStep
  <1>4. CASE /\ IsExist(File) /\ ~IsDir(File)
             /\ files' = [files EXCEPT ![server.file] = Nothing]
             /\ Reply("204", "none")
    <2>1. server.file \in DOMAIN files
      BY <1>4 DEF File, At, IsExist, Nothing
    <2>2. Nothing \in Entries /\ ~IsExist(Nothing)
      BY DEF Nothing, Entries, Contents, IsExist
    <2>3. Typed(files') /\ ~IsExist(files'[server.file])
      BY <1>1, <1>4, <2>1, <2>2, Working DEF Typed
    <2>4. World
      BY <1>1, <2>3, NewWorld
    <2>5. \A p \in Path : p = server.file
      BY <1>1, <1>2, Working, OneFile DEF Deleting
    <2>6. Once(server.file, LAMBDA e : IsExist(e) /\ ~IsDir(e))
      BY <1>1, <1>4, Working DEF Once, File
    <2>7. \A p \in Path : Reason("204", "none", p)
      BY <2>3, <2>5, <2>6 DEF Reason
    <2>8. Path # {}
      BY <1>1, <1>2, Working DEF Deleting
    <2>9. RightNow("204", IF server.keeps THEN "none" ELSE "none")
      BY <2>7, <2>8 DEF RightNow
    <2> QED BY <1>1, <1>4, <2>4, <2>9, ReplyStep DEF Codes
  <1> QED BY <1>3, <1>4 DEF DelFile

-----------------------------------------------------------------------------
(* The page of an error code.                                                *)

\* The page is looked at once more, for the same code.
LEMMA PageGoesOn ==
  ASSUME FInv, server.stage # "loop", World, seen' = seen, Page(server, Request, seen),
         NEW st \in {"pageIsFile", "pageCanRead", "readFileLines"},
         st = "readFileLines" => SawReadable(seen, server.file),
         Go(st, server.file, server.code)
  PROVE  FInv' /\ AnswerStep
  <1>1. /\ server'.stage = st /\ server'.file = server.file /\ server'.code = server.code
    BY GoRecord
  <1>2. Page(server', Request, seen')
    BY <1>1 DEF Page
  <1>3. Knows(server', Request, seen')
    BY <1>1, <1>2 DEF Knows, PageStages
  <1> QED BY <1>3, GoRecord, GoStep, Working DEF Stages, PageStages

\* The page fails, and the code becomes another.
LEMMA PageFailed ==
  ASSUME FInv, server.stage # "loop", World, seen' = seen, Page(server, Request, seen),
         NEW code \in {"403", "404"}, Reply(code, "default"),
         IF code = "404" THEN ~IsExist(File) ELSE ~CanRead(File)
  PROVE  FInv' /\ AnswerStep
  <1>1. Once(ErrorPages[server.code],
             LAMBDA e : IF code = "404" THEN ~IsExist(e) ELSE ~CanRead(e))
    BY Working DEF Once, File, Page
  <1>2. PageFails(code)
    BY <1>1 DEF PageFails, Page
  <1>3. \A body : \A p \in Path : Reason(code, body, p)
    <2> TAKE body
    <2> TAKE p \in Path
    <2>1. CASE code = "403"
      BY <1>2, <2>1 DEF Reason
    <2>2. CASE code = "404"
      BY <1>2, <2>2 DEF Reason
    <2> QED BY <2>1, <2>2
  <1>4. RightNow(code, IF server.keeps THEN "default" ELSE "none")
    BY <1>2, <1>3 DEF RightNow
  <1> QED BY <1>4, ReplyStep DEF Codes

LEMMA FPageExist ==
  ASSUME FInv, PageExist
  PROVE  FInv' /\ AnswerStep
  <1>1. server.stage = "pageExist" /\ World /\ seen' = seen
    BY StillWorld DEF PageExist, Turn
  <1>2. Page(server, Request, seen)
    BY <1>1, Working DEF Knows, PageStages
  <1>3. CASE Go("pageIsFile", server.file, server.code)
    BY <1>1, <1>2, <1>3, PageGoesOn
  <1>4. CASE ~IsExist(File) /\ Reply("404", "default")
    BY <1>1, <1>2, <1>4, PageFailed
  <1> QED BY <1>3, <1>4 DEF PageExist

LEMMA FPageIsFile ==
  ASSUME FInv, PageIsFile
  PROVE  FInv' /\ AnswerStep
  <1>1. server.stage = "pageIsFile" /\ World /\ seen' = seen
    BY StillWorld DEF PageIsFile, Turn
  <1>2. Page(server, Request, seen)
    BY <1>1, Working DEF Knows, PageStages
  <1>3. CASE Go("pageCanRead", server.file, server.code)
    BY <1>1, <1>2, <1>3, PageGoesOn
  <1>4. CASE ~IsFile(File) /\ Reply("403", "default")
    BY <1>1, <1>2, <1>4, PageFailed DEF CanRead
  <1> QED BY <1>3, <1>4 DEF PageIsFile

LEMMA FPageCanRead ==
  ASSUME FInv, PageCanRead
  PROVE  FInv' /\ AnswerStep
  <1>1. server.stage = "pageCanRead" /\ World /\ seen' = seen
    BY StillWorld DEF PageCanRead, Turn
  <1>2. Page(server, Request, seen)
    BY <1>1, Working DEF Knows, PageStages
  <1>3. CASE CanRead(File) /\ Go("readFileLines", server.file, server.code)
    <2>1. SawReadable(seen, server.file)
      BY <1>1, <1>3, Working DEF SawReadable, File
    <2> QED BY <1>1, <1>2, <1>3, <2>1, PageGoesOn
  <1>4. CASE ~CanRead(File) /\ Reply("403", "default")
    BY <1>1, <1>2, <1>4, PageFailed
  <1> QED BY <1>3, <1>4 DEF PageCanRead

-----------------------------------------------------------------------------
(* Connections come and go while the thread is in its loop.                  *)

\* A connection changes its phase and nothing else changes but the history.
LEMMA LoopStep ==
  ASSUME FInv, server.stage = "loop", UNCHANGED <<files, request, answer, server, leaked>>,
         NEW c \in Conn, NEW to \in {"connected", "closed"},
         phase' = [phase EXCEPT ![c] = to],
         to = "connected" => Free > 0,
         seen' = seen \/ seen' = {}
  PROVE  FInv' /\ AnswerStep
  <1>1. /\ phase' \in [Conn -> {"waiting", "connected", "script", "reply", "closed"}]
        /\ Busy' \subseteq Busy \cup (IF to = "connected" THEN {c} ELSE {})
        /\ Scripted' \subseteq Scripted
        /\ \A d \in Conn : phase'[d] # "reply" \/ phase[d] = "reply"
    BY DEF FInv, Known, TypeOK, Busy, Scripted
  <1>2. IsFiniteSet(Busy) /\ IsFiniteSet(Scripted)
    BY DEF FInv, Known
  <1>3. /\ IsFiniteSet(Scripted') /\ Cardinality(Scripted') \in Nat
        /\ Cardinality(Scripted) \in Nat /\ Cardinality(Scripted') <= Cardinality(Scripted)
    BY <1>1, <1>2, FS_Subset, FS_CardinalityType
  <1>4. Cardinality(Busy) \in Nat
    BY <1>2, FS_CardinalityType
  <1>5. /\ IsFiniteSet(Busy') /\ Cardinality(Busy') \in Nat
        /\ \/ Cardinality(Busy') <= Cardinality(Busy)
           \/ Cardinality(Busy') <= Cardinality(Busy) + 1 /\ Free > 0
    <2>1. CASE to = "connected"
      <3>1. /\ IsFiniteSet(Busy \cup {c})
            /\ Cardinality(Busy \cup {c}) <= Cardinality(Busy) + 1
        BY <1>2, <1>4, FS_AddElement
      <3>2. Busy' \subseteq Busy \cup {c}
        BY <1>1, <2>1
      <3>3. IsFiniteSet(Busy') /\ Cardinality(Busy') <= Cardinality(Busy \cup {c})
        BY <3>1, <3>2, FS_Subset
      <3>4. Cardinality(Busy \cup {c}) \in Nat /\ Cardinality(Busy') \in Nat
        BY <3>1, <3>3, FS_CardinalityType
      <3> QED BY <1>4, <2>1, <3>1, <3>3, <3>4
    <2>2. CASE to # "connected"
      <3>1. Busy' \subseteq Busy
        BY <1>1, <2>2
      <3> QED BY <1>2, <3>1, FS_Subset, FS_CardinalityType
    <2> QED BY <2>1, <2>2
  <1>6. Used' = Cardinality(Busy') + Cardinality(Scripted') + leaked'
    BY DEF Used, Busy, Scripted
  <1>7. Used' <= MaxFd
    <2>1. leaked \in Nat /\ Used <= MaxFd
      BY DEF FInv, Known, TypeOK
    <2>2. Free > 0 => Used + 1 <= MaxFd
      BY FreeIsCount, FileServiceAssumption DEF Free
    <2> QED BY <1>3, <1>4, <1>5, <1>6, <2>1, <2>2, Counts, FileServiceAssumption
  <1>8. TypeOK'
    BY <1>1, <1>7 DEF FInv, Known, TypeOK
  <1>9. IsFiniteSet(seen') /\ \A fs \in seen' : Typed(fs)
    BY FS_EmptySet DEF FInv, Known
  <1>10. Known'
    BY <1>3, <1>5, <1>8, <1>9 DEF FInv, Known
  <1>11. FInv'
    BY <1>10 DEF FInv, SpinsOnly
  <1> QED BY <1>1, <1>11 DEF AnswerStep

LEMMA FChange ==
  ASSUME FInv, Change
  PROVE  FInv' /\ AnswerStep
  <1>1. UNCHANGED <<request, phase, answer, server, leaked>>
    BY DEF Change
  <1>2. Typed(files')
    <2>1. PICK change \in Changes : files' = [files EXCEPT ![change[1]] = change[2]]
      BY DEF Change
    <2>2. change[2] \in Entries
      BY FileServiceAssumption
    <2> QED BY <2>1, <2>2 DEF FInv, Known, TypeOK, Typed
  <1>3. /\ seen \subseteq seen'
        /\ IsFiniteSet(seen')
        /\ \A fs \in seen' : Typed(fs)
        /\ server.stage # "loop" => files' \in seen'
        /\ Cardinality(seen) > 1 => Cardinality(seen') > 1
    <2>1. IsFiniteSet(seen) /\ \A fs \in seen : Typed(fs)
      BY DEF FInv, Known
    <2>2. CASE seen' = seen /\ server.stage = "loop"
      BY <2>1, <2>2
    <2>3. CASE seen' = seen \cup {files'}
      <3>1. IsFiniteSet(seen') /\ Cardinality(seen) <= Cardinality(seen')
        BY <2>1, <2>3, FS_AddElement, FS_Subset
      <3>2. Cardinality(seen) \in Nat /\ Cardinality(seen') \in Nat
        BY <2>1, <3>1, FS_CardinalityType
      <3> QED BY <1>2, <2>1, <2>3, <3>1, <3>2
    <2> QED BY <2>2, <2>3 DEF Change, Turn
  <1>4. Used' = Used
    BY <1>1 DEF Used
  <1>5. TypeOK'
    BY <1>1, <1>2, <1>4 DEF FInv, Known, TypeOK, Typed
  <1>6. Known'
    BY <1>1, <1>3, <1>5 DEF FInv, Known, Busy, Scripted
  <1>7. server.stage # "loop" => Knows(server', request'[server'.conn], seen')
    BY <1>1, <1>3, KnowsLater DEF FInv
  <1>8. SpinsOnly'
    BY <1>1, <1>3, <1>4 DEF FInv, SpinsOnly, Free
  <1>9. FInv'
    BY <1>1, <1>3, <1>6, <1>7, <1>8 DEF FInv
  <1> QED BY <1>1, <1>9 DEF AnswerStep

-----------------------------------------------------------------------------
(* The invariant and what follows.                                           *)

LEMMA FInit ==
  ASSUME Init
  PROVE  FInv
  <1>1. Busy = {} /\ Scripted = {} /\ leaked = 0
    BY DEF Init, Busy, Scripted
  <1>2. Used = 0
    BY <1>1, Counts, FS_EmptySet
  <1>3. IsFiniteSet(Busy) /\ IsFiniteSet(Scripted) /\ IsFiniteSet(seen)
    BY <1>1, FS_EmptySet DEF Init
  <1>4. server = [stage |-> "loop", conn |-> NoConn, file |-> <<>>, code |-> "200",
                  keeps |-> TRUE]
    BY DEF Init, Idle
  <1>5. TypeOK
    BY <1>1, <1>2, <1>4, FileServiceAssumption DEF Init, TypeOK, Codes
  <1>6. Known
    BY <1>3, <1>4, <1>5 DEF Known, Init, Stages, Codes
  <1> QED BY <1>4, <1>6 DEF FInv, SpinsOnly

LEMMA FStep ==
  ASSUME FInv, Next
  PROVE  FInv' /\ AnswerStep
  <1>1. CASE \E c \in Conn : Accept(c) \/ Start(c) \/ Send(c) \/ ScriptReplies(c)
    <2> PICK c \in Conn : Accept(c) \/ Start(c) \/ Send(c) \/ ScriptReplies(c)
      BY <1>1
    <2>1. CASE Accept(c)
      BY <2>1, LoopStep DEF Accept, Turn
    <2>2. CASE Start(c)
      BY <2>2, FStart
    <2>3. CASE Send(c)
      BY <2>3, LoopStep DEF Send, Turn
    <2>4. CASE ScriptReplies(c)
      BY <2>4, LoopStep DEF ScriptReplies, Turn
    <2> QED BY <2>1, <2>2, <2>3, <2>4
  <1>2. CASE Route \/ IsRequestCgi \/ IsScript \/ RunCgi \/ RunMethod
    BY <1>2, FRoute, FIsRequestCgi, FIsScript, FRunCgi, FRunMethod
  <1>3. CASE Exist \/ IsFileTest \/ IsDirTest \/ IndexExist \/ CanReadTest
    BY <1>3, FExist, FIsFileTest, FIsDirTest, FIndexExist, FCanReadTest
  <1>4. CASE ReadFileLinesTest \/ ReadFileLines \/ NotDir \/ Replace \/ DelFile
    BY <1>4, FReadFileLinesTest, FReadFileLines, FNotDir, FReplace, FDelFile
  <1>5. CASE PageExist \/ PageIsFile \/ PageCanRead
    BY <1>5, FPageExist, FPageIsFile, FPageCanRead
  <1>6. CASE Change
    BY <1>6, FChange
  <1> QED BY <1>1, <1>2, <1>3, <1>4, <1>5, <1>6 DEF Next, Serve

LEMMA FStutter ==
  ASSUME FInv, UNCHANGED vars
  PROVE  FInv' /\ AnswerStep
  <1>1. FInv'
    BY DEF vars, FInv, Known, TypeOK, Used, Busy, Scripted, SpinsOnly, Free
  <1> QED BY <1>1 DEF AnswerStep, vars

(* The files are what files can be, each connection is in one of its phases, *)
(* and what accept4, socketpair and open take, open for good in the case of  *)
(* File::Replace, never exceeds the descriptors there are.                   *)
THEOREM FilesTypeCorrect == Spec => []TypeOK
  <1>1. FInv /\ [Next]_vars => FInv'
    BY FStep, FStutter
  <1>2. FInv => TypeOK
    BY DEF FInv, Known
  <1> QED BY FInit, <1>1, <1>2, PTL DEF Spec

(* The endless loop of File::ReadFileLines has no other cause than the three *)
(* of SpinsOnly, whatever the configuration and however the files change.    *)
THEOREM SpinsOnlyThen == Spec => []SpinsOnly
  <1>1. FInv /\ [Next]_vars => FInv'
    BY FStep, FStutter
  <1>2. FInv => SpinsOnly
    BY DEF FInv
  <1> QED BY FInit, <1>1, <1>2, PTL DEF Spec

(* Every answer of Get, Post, Delete and of the error pages was true at some *)
(* moment while the request was worked on.                                   *)
THEOREM AnswersAreTrue == Spec => AnswerIsTrue
  <1>1. FInv /\ [Next]_vars => FInv'
    BY FStep, FStutter
  <1>2. FInv /\ [Next]_vars =>
          [\A c \in Conn : phase[c] = "connected" /\ phase'[c] = "reply" =>
             LET code == answer'[c].code
                 body == answer'[c].body
             IN  IF Path = {} THEN code \in {"404", "403"} /\ (code = "403" => PageFails("403"))
                 ELSE \A path \in Path : Reason(code, body, path)]_vars
    BY FStep DEF AnswerStep
  <1> QED BY FInit, <1>1, <1>2, PTL DEF Spec, AnswerIsTrue
=============================================================================
