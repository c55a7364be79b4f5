---------------------------- MODULE FileService ----------------------------
(***************************************************************************)
(* How requests are answered from files: the decision between a script, a  *)
(* method and an error (Socket::PrepareNextEventProcess), the methods Get, *)
(* Post and Delete, the error pages, and the descriptors all of it uses.   *)
(*                                                                         *)
(* The server is one thread, but each test of a file is a system call of   *)
(* its own, and scripts change files in between.  A file is abstracted to  *)
(* its kind, whether its owner may read it, which is all the server tests, *)
(* whether the server may open it, and what it holds.  Operators named     *)
(* Faulty... are the definition below them with a plausible bug; no        *)
(* specification uses them.                                                *)
(***************************************************************************)
EXTENDS Routing

CONSTANTS
  Conn,        \* connections, one request each
  NoConn,
  Requests,    \* what they may ask for
  Locations,   \* the configured locations and their contexts
  ErrorPages,  \* error_page: the file of some response codes
  Files,       \* what the files may be at the start
  Changes,     \* what scripts may make of a file: sets of <<name, entry>>
  IndexHtml,   \* the index of Get where a location names none
  MaxFd,       \* bound: descriptors for connections, scripts and files
  MaxSeen      \* bound: states the files pass through during one request

Methods == {"GET", "POST", "DELETE"}
Codes == {"200", "201", "204", "302", "403", "404", "405", "500", "undefined"}
Contents == {"old", "page", "script", "part"} \cup Conn

Entries == [kind : {"none", "file", "dir", "other"}, readable : BOOLEAN,
            opens : BOOLEAN, holds : Contents]
Nothing == [kind |-> "none", readable |-> FALSE, opens |-> FALSE, holds |-> "part"]

ASSUME FileServiceAssumption ==
  /\ NoConn \notin Conn
  /\ MaxFd \in Nat
  /\ MaxSeen \in Nat
  /\ \A r \in Requests : r.method \in Methods
  /\ \A l \in DOMAIN Locations : l \in Seq(STRING)
  /\ \A fs \in Files : \A name \in DOMAIN fs : fs[name] \in Entries
  /\ \A change \in Changes : change[2] \in Entries

\* A request with its file and its location's context, if it has them: no
\* file changes what PrepareNextEventFromRequestAndConfig makes of it.
Routed(r) ==
  [method |-> r.method, file |-> FullPath(Locations, r.path),
   context |-> {Locations[l] : l \in FindBestLocation(Locations, r.path)}]
RoutedRequests == {Routed(r) : r \in Requests}

VARIABLES
  files,      \* the files, by name
  request,    \* request[c], routed
  phase,      \* phase[c]
  answer,     \* answer[c] : response_code and response_body
  server,     \* what the thread is about to do, and for whom
  leaked,     \* descriptors opened and never closed
  seen        \* history: the files as they were since the request was taken up

vars == <<files, request, phase, answer, server, leaked, seen>>

Idle == [stage |-> "loop", conn |-> NoConn, file |-> <<>>, code |-> "200", keeps |-> TRUE]

Init ==
  /\ files \in Files
  /\ request \in [Conn -> RoutedRequests]
  /\ phase = [c \in Conn |-> "waiting"]
  /\ answer = [c \in Conn |-> [code |-> "200", body |-> "none"]]
  /\ server = Idle
  /\ leaked = 0
  /\ seen = {}

-----------------------------------------------------------------------------
(* Files and descriptors                                                    *)

At(fs, name) == IF name \in DOMAIN fs THEN fs[name] ELSE Nothing
File == At(files, server.file)

IsExist(e) == e.kind # "none"
IsDir(e) == e.kind = "dir"
IsFile(e) == e.kind = "file"
CanRead(e) == IsFile(e) /\ e.readable

\* A script holds the server's end of its pair besides its client.
Used == Cardinality({c \in Conn : phase[c] \in {"connected", "script", "reply"}})
        + Cardinality({c \in Conn : phase[c] = "script"}) + leaked
Free == MaxFd - Used

TypeOK ==
  /\ \A name \in DOMAIN files : files[name] \in Entries
  /\ request \in [Conn -> RoutedRequests]
  /\ phase \in [Conn -> {"waiting", "connected", "script", "reply", "closed"}]
  /\ \A c \in Conn : answer[c].code \in Codes
  /\ server.conn \in Conn \cup {NoConn}
  /\ server.stage = "loop" <=> server.conn = NoConn
  /\ leaked \in Nat
  /\ Used <= MaxFd

-----------------------------------------------------------------------------
(* Steps of the thread.                                                     *)

Turn(stage) == server.stage = stage

Request == request[server.conn]
Path == Request.file
Context == CHOOSE context \in Request.context : TRUE
Index(path) == path \o (IF Context.index = <<>> THEN IndexHtml ELSE Context.index)

Go(stage, file, code) ==
  /\ server' = [server EXCEPT !.stage = stage, !.file = file, !.code = code]
  /\ UNCHANGED <<phase, answer>>

\* UpdateSocketData, which for Delete does not take over the body.
Reply(code, body) ==
  /\ phase' = [phase EXCEPT ![server.conn] = "reply"]
  /\ answer' = [answer EXCEPT ![server.conn] =
       [code |-> code, body |-> IF server.keeps THEN body ELSE "none"]]
  /\ server' = Idle

\* GetErrorPage
Fail(code) ==
  \/ code \in DOMAIN ErrorPages /\ Go("pageExist", ErrorPages[code], code)
  \/ code \notin DOMAIN ErrorPages /\ Reply(code, "default")

Accept(c) ==
  /\ Turn("loop")
  /\ phase[c] = "waiting"
  /\ Free > 0
  /\ phase' = [phase EXCEPT ![c] = "connected"]
  /\ UNCHANGED <<files, request, answer, server, leaked, seen>>

\* The request is complete: PrepareNextEventProcess.
Start(c) ==
  /\ Turn("loop")
  /\ phase[c] = "connected"
  /\ server' = [Idle EXCEPT !.stage = "route", !.conn = c]
  /\ seen' = {files}
  /\ UNCHANGED <<files, request, phase, answer, leaked>>

Route ==
  /\ Turn("route")
  /\ \/ Path = {} /\ Fail("404")
     \/ Path # {} /\ ~IsAllowMethod(Context, Request.method) /\ Fail("405")
     \/ Path # {} /\ IsAllowMethod(Context, Request.method)
          /\ \E p \in Path : Go("isCgi", p, "200")
  /\ UNCHANGED <<files, request, leaked, seen>>

\* IsRequestCgi, in the order of its two tests.
IsRequestCgi ==
  /\ Turn("isCgi")
  /\ Go("isScript", IF IsDir(File) THEN server.file \o Context.index ELSE server.file, "200")
  /\ UNCHANGED <<files, request, leaked, seen>>

IsScript ==
  /\ Turn("isScript")
  /\ \/ /\ IsAllowExtensionCgi(Context, server.file)
        /\ IsFile(File)
        /\ Go("cgi", server.file, "200")
     \/ /\ ~(IsAllowExtensionCgi(Context, server.file) /\ IsFile(File))
        /\ \E p \in Path : Go("run", p, "200")
  /\ UNCHANGED <<files, request, leaked, seen>>

\* The script may not be executable; its pair takes two descriptors at first.
RunCgi ==
  /\ Turn("cgi")
  /\ \/ Fail("403")
     \/ Fail("500")
     \/ /\ Free >= 2
        /\ phase' = [phase EXCEPT ![server.conn] = "script"]
        /\ server' = Idle
        /\ UNCHANGED answer
  /\ UNCHANGED <<files, request, leaked, seen>>

\* HttpMethod::Build; Get::Run begins with the redirect.
RunMethod ==
  /\ Turn("run")
  /\ \/ Request.method = "GET" /\ Context.redirect /\ Reply("302", "redirect")
     \/ Request.method = "GET" /\ ~Context.redirect /\ Go("exist", server.file, "200")
     \/ Request.method = "POST" /\ Go("notDir", server.file, "201")
     \/ /\ Request.method = "DELETE"
        /\ server' = [server EXCEPT !.stage = "exist", !.code = "204", !.keeps = FALSE]
        /\ UNCHANGED <<phase, answer>>
  /\ UNCHANGED <<files, request, leaked, seen>>

-----------------------------------------------------------------------------
(* The tests of the methods, each a step.                                   *)

Exist ==
  /\ Turn("exist")
  /\ \/ ~IsExist(File) /\ Fail("404")
     \/ IsExist(File)
          /\ Go(IF Request.method = "GET" THEN "isFile" ELSE "notDir", server.file, server.code)
  /\ UNCHANGED <<files, request, leaked, seen>>

IsFileTest ==
  /\ Turn("isFile")
  /\ Go(IF IsFile(File) THEN "canRead" ELSE "isDir", server.file, "200")
  /\ UNCHANGED <<files, request, leaked, seen>>

\* Neither a file nor a directory, or gone meanwhile: rescode_ has no value.
IsDirTest ==
  /\ Turn("isDir")
  /\ \/ IsDir(File) /\ Go("index", Index(server.file), "200")
     \/ ~IsDir(File) /\ Reply("undefined", "none")
  /\ UNCHANGED <<files, request, leaked, seen>>

IndexExist ==
  /\ Turn("index")
  /\ \/ IsExist(File) /\ Go("canRead", server.file, "200")
     \/ ~IsExist(File) /\ Context.autoIndex /\ Reply("200", "list")
     \/ ~IsExist(File) /\ ~Context.autoIndex /\ Fail("403")
  /\ UNCHANGED <<files, request, leaked, seen>>

CanReadTest ==
  /\ Turn("canRead")
  /\ \/ CanRead(File) /\ Go("readFileLines", server.file, server.code)
     \/ ~CanRead(File) /\ Fail("403")
  /\ UNCHANGED <<files, request, leaked, seen>>

Opens == File.opens /\ IsFile(File) /\ Free > 0

\* Fault: reading goes on until an end of file is found after a whole line.
FaultyReadFileLines ==
  /\ Turn("open")
  /\ \/ Opens /\ File.holds # "part" /\ Reply(server.code, File.holds)
     \/ ~(Opens /\ File.holds # "part") /\ Go("spin", server.file, server.code)
  /\ UNCHANGED <<files, request, leaked, seen>>

\* ReadFileLines tests again before it opens the file.
ReadFileLinesTest ==
  /\ Turn("readFileLines")
  /\ \/ CanRead(File) /\ Go("open", server.file, server.code)
     \/ ~CanRead(File) /\ Reply(server.code, "none")
  /\ UNCHANGED <<files, request, leaked, seen>>

\* If the file cannot be opened, or is no file any more, the loop over its
\* lines never ends: a stream that fails is not at its end.
ReadFileLines ==
  /\ Turn("open")
  /\ \/ Opens /\ Reply(server.code, File.holds)
     \/ ~Opens /\ Go("spin", server.file, server.code)
  /\ UNCHANGED <<files, request, leaked, seen>>

NotDir ==
  /\ Turn("notDir")
  /\ \/ IsDir(File) /\ Fail("403")
     \/ ~IsDir(File)
          /\ Go(IF Request.method = "POST" THEN "replace" ELSE "delFile",
                server.file, server.code)
  /\ UNCHANGED <<files, request, leaked, seen>>

Store(content) ==
  files' = [files EXCEPT ![server.file] =
              [(IF IsFile(@) THEN @ ELSE [@ EXCEPT !.kind = "file", !.readable = TRUE,
                                                   !.opens = TRUE])
                 EXCEPT !.holds = content]]

CanOpen == server.file \in DOMAIN files /\ Free > 0
             /\ (File.kind = "none" \/ (IsFile(File) /\ File.opens))

\* Fault: a write that fails after some bytes is taken for the whole.
FaultyReplace ==
  /\ Turn("replace")
  /\ \/ Fail("403") /\ UNCHANGED <<files, leaked>>
     \/ CanOpen /\ leaked' = leaked + 1 /\ Store(server.conn) /\ Reply("201", "none")
     \/ CanOpen /\ leaked' = leaked + 1 /\ Store("part") /\ Reply("201", "none")
  /\ seen' = seen \cup {files'}
  /\ UNCHANGED request

\* Replace opens, truncates and writes, and never closes; the system may
\* refuse the opening or any write.
Replace ==
  /\ Turn("replace")
  /\ \/ Fail("403") /\ UNCHANGED <<files, leaked>>
     \/ CanOpen /\ leaked' = leaked + 1 /\ Store(server.conn) /\ Reply("201", "none")
     \/ CanOpen /\ leaked' = leaked + 1 /\ Store("part") /\ Fail("403")
  /\ seen' = seen \cup {files'}
  /\ UNCHANGED request

DelFile ==
  /\ Turn("delFile")
  /\ \/ Fail("403") /\ UNCHANGED files
     \/ /\ IsExist(File) /\ ~IsDir(File)
        /\ files' = [files EXCEPT ![server.file] = Nothing]
        /\ Reply("204", "none")
  /\ seen' = seen \cup {files'}
  /\ UNCHANGED <<request, leaked>>

-----------------------------------------------------------------------------
(* CustomErrorPage: a page that is missing or unreadable changes the code.  *)

PageExist ==
  /\ Turn("pageExist")
  /\ \/ IsExist(File) /\ Go("pageIsFile", server.file, server.code)
     \/ ~IsExist(File) /\ Reply("404", "default")
  /\ UNCHANGED <<files, request, leaked, seen>>

\* Fault: the page for the new code is looked up again.
FaultyPageIsFile ==
  /\ Turn("pageIsFile")
  /\ \/ IsFile(File) /\ Go("pageCanRead", server.file, server.code)
     \/ ~IsFile(File) /\ Fail("403")
  /\ UNCHANGED <<files, request, leaked, seen>>

PageIsFile ==
  /\ Turn("pageIsFile")
  /\ \/ IsFile(File) /\ Go("pageCanRead", server.file, server.code)
     \/ ~IsFile(File) /\ Reply("403", "default")
  /\ UNCHANGED <<files, request, leaked, seen>>

PageCanRead ==
  /\ Turn("pageCanRead")
  /\ \/ CanRead(File) /\ Go("readFileLines", server.file, server.code)
     \/ ~CanRead(File) /\ Reply("403", "default")
  /\ UNCHANGED <<files, request, leaked, seen>>

-----------------------------------------------------------------------------
\* The reply is sent, and the Socket deleted with its descriptors.
Send(c) ==
  /\ Turn("loop")
  /\ phase[c] = "reply"
  /\ phase' = [phase EXCEPT ![c] = "closed"]
  /\ seen' = {}
  /\ UNCHANGED <<files, request, answer, server, leaked>>

\* A script ends and its reply is sent.
ScriptReplies(c) ==
  /\ Turn("loop")
  /\ phase[c] = "script"
  /\ phase' = [phase EXCEPT ![c] = "closed"]
  /\ UNCHANGED <<files, request, answer, server, leaked, seen>>

\* A script changes a file.
Change ==
  /\ \E change \in Changes :
       files' = [files EXCEPT ![change[1]] = change[2]]
  /\ files' # files
  /\ Turn("loop") \/ Cardinality(seen) < MaxSeen
  /\ seen' = IF Turn("loop") THEN seen ELSE seen \cup {files'}
  /\ UNCHANGED <<request, phase, answer, server, leaked>>

Serve ==
  \/ \E c \in Conn : Accept(c) \/ Start(c) \/ Send(c) \/ ScriptReplies(c)
  \/ Route \/ IsRequestCgi \/ IsScript \/ RunCgi \/ RunMethod
  \/ Exist \/ IsFileTest \/ IsDirTest \/ IndexExist \/ CanReadTest
  \/ ReadFileLinesTest \/ ReadFileLines \/ NotDir \/ Replace \/ DelFile
  \/ PageExist \/ PageIsFile \/ PageCanRead

Next == Serve \/ Change

Spec == Init /\ [][Next]_vars

(* The thread goes on, clients take their replies and scripts end.          *)
FairSpec == Spec /\ WF_vars(Serve)

-----------------------------------------------------------------------------
(* Properties *)

\* At some moment since the request was taken up.
Once(name, P(_)) == \E fs \in seen' : P(At(fs, name))

MayBeScript(path) ==
  \E name \in {path, path \o Context.index} :
    IsAllowExtensionCgi(Context, name) /\ Once(name, IsFile)

\* The page of an error code was missing, or could not be read.
PageFails(code) ==
  \E from \in DOMAIN ErrorPages :
    Once(ErrorPages[from], LAMBDA e : IF code = "404" THEN ~IsExist(e) ELSE ~CanRead(e))

\* What has to be true for a code to be the answer to a request about path.
Reason(code, body, path) ==
  CASE code = "200" ->
         \/ \E name \in {path, Index(path)} :
              /\ Once(name, CanRead)
              /\ \/ Once(name, LAMBDA e : IsFile(e) /\ e.opens /\ e.holds = body)
                 \/ body = "none" /\ Once(name, LAMBDA e : ~CanRead(e))
         \/ body = "list" /\ Context.autoIndex /\ Once(path, IsDir)
    [] code = "201" -> files'[path].holds = server.conn
    [] code = "204" -> Once(path, LAMBDA e : IsExist(e) /\ ~IsDir(e)) /\ ~IsExist(files'[path])
    [] code = "302" -> Context.redirect
    [] code = "403" ->
         \/ Request.method \in {"POST", "DELETE"}
         \/ Once(path, IsFile) /\ Once(path, LAMBDA e : ~CanRead(e))
         \/ Once(path, IsDir) /\ Once(Index(path), LAMBDA e : ~CanRead(e))
         \/ MayBeScript(path)
         \/ PageFails("403")
    [] code = "404" -> Once(path, LAMBDA e : ~IsExist(e)) \/ PageFails("404")
    [] code = "405" -> ~IsAllowMethod(Context, Request.method)
    [] code = "500" -> MayBeScript(path)
    [] code = "undefined" ->
         \/ Once(path, LAMBDA e : e.kind = "other")
         \/ Once(path, IsExist) /\ Cardinality(seen') > 1

(* Every answer was true at some moment while the request was worked on,    *)
(* however scripts change the files between the tests: a body was in a file *)
(* that had been found readable, which it need not be any more when it is   *)
(* opened, 201 and 204 tell what has been done, a refusal had its reason,   *)
(* or the reason is the error page itself; only a file that is no regular   *)
(* one or that changed leads to the code that was never set (Get::Run,      *)
(* Post::Run, Delete::Run, ErrorPage::CustomErrorPage).                     *)
AnswerIsTrue ==
  [][\A c \in Conn : phase[c] = "connected" /\ phase'[c] = "reply" =>
       LET code == answer'[c].code
           body == answer'[c].body
       IN  IF Path = {} THEN code \in {"404", "403"} /\ (code = "403" => PageFails("403"))
           ELSE \A path \in Path : Reason(code, body, path)]_vars

(* The thread reads on for ever only in a file that it may test but not     *)
(* open, that changed after it was tested, or when no descriptor is left    *)
(* (File::ReadFileLines, File.cpp:54).                                      *)
SpinsOnly ==
  server.stage = "spin" =>
    \/ Free = 0
    \/ \E fs \in seen : CanRead(At(fs, server.file)) /\ ~At(fs, server.file).opens
    \/ Cardinality(seen) > 1

(* Every client is served to the end unless the thread spins: descriptors   *)
(* that Post never closes make later openings fail, but the last one is     *)
(* never lost, so clients are still accepted (File::Replace, File.cpp:86).  *)
Served ==
  \A c \in Conn : <>(phase[c] = "closed") \/ <>[](server.stage = "spin")
=============================================================================
