# A verification project for the web server

TLA+ modules about the HTTP server under `srcs/`, the TLC runs that check them
on small instances, and TLAPS proofs for every size. The reference for all of it is the
C++ code; every definition that models code is listed with its lines under `map` in
`PROJECT.json`.

## 1. The system

One process, one thread. `main` parses a configuration, opens a listening
descriptor per `listen` directive and enters `Server::Run`, which never returns:
it waits with `epoll_wait`, and for each reported descriptor looks up an event
object and lets it work. CGI scripts are child processes at the other end of a
socket pair. Nothing is persisted and there is no second thread, so what interleaves
is everything outside the process: the order of epoll's reports, how
much a read or a write achieves, clients that hang up, scripts that answer
anything. Configuration and start run once, before any of it: what is hard there is that a
mistake of any kind has to be found, at whichever of five stages it shows.

| Component | State it keeps | Operations | Talks to |
|---|---|---|---|
| Event loop (`Server`, `Epoll`) | `event_map_`: descriptor -> event object; the kernel's epoll set and its shadow `epoll_map_`; the batch of the last `epoll_wait` | `InitListen`, `Run`, `EventExec`, `RegisterNewEvent`, `NextEvent`, `Add`/`Mod`/`Del` | calls `Do`, `Handle`, `PublishNewEvent`, `NextEvent`, `State` of the event objects |
| Event objects (`ListenToClient`, `ReceiveRequestFromClient`, `ResponseToTheClient`, `CgiWrite`, `CgiRead`, `CgiResponse`) | a raw pointer to the connection's `Socket`, the index of a script, progress flags | the five virtual functions above | share one `Socket`; replace, publish and delete each other; two kinds delete the `Socket` |
| Connection (`Socket`) | client descriptor, parsed request, reply, `response_code`, the vector `cgi_res` of scripts | `PrepareNextEventProcess`, `CgiReadAndStoreToBuf`, destructor (kills scripts, closes descriptors) | routing, methods, `Cgi` |
| Request reader (`ReceiveHttpRequest`) | unread text, phase, parsed head, declared length | `ReadHttpRequest`, once per readiness report | `ChunkedBody`, configuration |
| Chunked body decoder (`ChunkedBody`) | text, position, phase, decoded body | `DecodeChunkedBody` | - |
| Senders (`Sender`, `SendChunked`) | what is left to write, counters of bytes sent and of framing | `Send`, `SendLastChunk`, `SentByte` | `write` |
| CGI processes (`Cgi`) | socket pair, child | `Run` (fork, exec) | `Socket` |
| CGI response parser (`CgiParser`) | header and body so far, verdict | `Parse`, `UpdateData` | writes the reply into the `Socket` |
| Routing (`PrepareNextEventFromRequestAndConfig`, `Path`), methods (`Get`, `Post`, `Delete`), `ErrorPage`, `HttpResponse` | none across calls | pure decisions, file system | configuration, files |
| Configuration (`Lexer`, `TokenManager`, `Parser`, contexts) | tokens and the position in them, the contexts filled so far | recursive descent, once at the start; `ToMap` | files |
| Start (`main`, `InitListen`, `Listen`) | `ContextMap`, the sockets bound so far | `socket`, `bind`, `listen` for each address | configuration, event loop |

### What is hard about it

* *Ownership without owners.* Event objects share a `Socket` through raw
  pointers. Whoever replies deletes it. The protocol by which one event hands a
  connection on to the next is spread over `NextEvent`, `PublishNewEvent`,
  `State` and the error paths of `EventExec`.
* *Batches.* Up to `MAX_EVENT` reports are fetched at once; handling the first
  may close descriptors and delete objects the later ones mean.
* *Partial progress.* Reads and writes stop anywhere; the reader must not depend
  on where, the chunked reply must neither lose nor repeat a byte, and its end
  must not overtake its data.
* *Failure of one step of several*: a registration, a fork, a write fails after
  earlier steps took effect.
* *Nothing times out*: the check for timeouts is commented out.

### What makes each component correct

* Event loop: an open connection is brought forward by exactly one event object;
  no event object outlives its `Socket`; no `Socket` is deleted twice; epoll set
  and event map agree; every connection is closed.
* Request reader: what it makes of a request does not depend on how the request
  was cut; it refuses only what is wrong; it does not wait for what has arrived.
* Chunked body decoder: a body seen whole is decoded completely, framing never
  gets into a body, the size limit holds.
* Senders: the chunks tile the output, the last chunk follows all of it.
* CGI processes: every script is waited for; no cycle of blocked parties.
* CGI response parser, routing, methods: the decision agrees with a declarative
  definition on all bounded inputs.
* Configuration and start: a text means what its grammar says, block by block; the server
  runs with exactly the configurations it can serve, listens for every server of the
  file, and gives a request to the server it is meant for.
* Replies: wherever writes are cut, a client receives the beginning of one
  well-formed reply, and can tell its end.

The hazards, each at its line, are in `PROJECT.json`.

## 2. The plan

Order of work, most important behaviour first. Each line is finished unless marked *next*.

1. `Lifecycle`, `EventLoop`: who owns a connection, and the loop that shows it.
2. `ChunkedBody`, `RequestReader`: from bytes to a request.
3. `Relay`, `CgiRelay`: from a script's output to chunks.
4. `CgiParser`, `LocalRedirect`: from a script's output to a reply.
5. `CgiProcess`: scripts as processes, blocking and waiting.
6. `Utils`, `Routing`, `FileService`: routing, the methods, error pages, descriptors.
7. `Lexer`, `ConfigWords`, `ConfigParser`, `ConfigGrammar`, `Startup`: the configuration,
   against a declarative grammar, up to the listening sockets and the choice of a server.
8. `ClientView`: replies as their clients see them, with the descriptors that scripts
   inherit; chunk sizes with a sign in `ChunkedBody`.
9. *Next*: a local redirect to a file or a method joined with `LocalRedirect`; opening and
   writing the file of a POST as two steps; the reports epoll still makes for a
   descriptor that was closed but is inherited by a script, in `EventLoop`.

What composes what:

```
Routing -> FileService          answers from files
Utils   -> Routing, CgiParser   splitting of strings
ChunkedBody -> RequestReader    bytes to a request
Utils -> Lexer -> ConfigWords -> ConfigParser -> Startup      text to a running server
ConfigWords -> ConfigGrammar -> Startup                       what the text means
EventLoop  => Lifecycle         implements, run loop_redirect
CgiRelay   => Relay             implements, run relay and a theorem
CgiParser  -- AsTheLoopAssumes: what EventLoop lets CgiRead do is what the parser does
CgiRelay   -- Accounting: the position in ClientView is what the two counters amount to
```

`EventLoop` lets every event take any of its outcomes; the modules below it say which
data lead to which outcome. Where this matters the assumption is itself a property:
`AsTheLoopAssumes` of `CgiParser`.

Theorems are in section 6. Worth proving next: that the parser of configurations agrees
with the grammar (`ParsedIsRight`), and types and control of `ClientView`.

## 3. Modules and the code

Every module says at its head what it stands for. Operators named `Faulty...` stand before
the definition they disturb: they are that definition with a plausible bug, and are used
only to show that a property can fail (`mutants` in `PROJECT.json`).

**`EventLoop`** (Server, Epoll, Event, the six kinds of event, Socket). Variables:
`sock` the `Socket` objects with their descriptor and the scripts in `cgi_res`, `events`
the event map, `interest` the epoll set, `batch` what `epoll_wait` returned and is not
yet handled, `status` whether the process runs. One action per kind of event and outcome
of a dispatch: `Do`, `Handle`, `PublishNewEvent` and `NextEvent` together, as
`EventExec` calls them, with its two `catch` paths. Dispatching an event object
whose `Socket` is deleted is undefined; the model has the step `DispatchUndefined` that stops
the run. The shadow `epoll_map_` always agrees with `interest` and is not a variable
of its own. A dispatch that changes nothing is a stutter. `waitpid` and `kill` are in
`CgiProcess`.

**`Lifecycle`** is the promise: a connection is opened, its request is read, possibly
several scripts are started, it is answered, it is closed, in this order, once.

**`ChunkedBody`, `RequestReader`** (DecodeChunkedBody, ReceiveHttpRequest). A request line
or header line is one symbol, named for what the reader tells apart, followed by
its line end as characters; bodies are characters. A read takes any number of symbols
up to the buffer's size. The byte 0 occurs in bodies only. `"400"` stands for 505 as
well; which server is chosen matters through its limit `MaxBody` only. A call of
`ReadHttpRequest` is a read and then its parts, one step each, as `call` says: the request
line, each header line, the body, each turn of the decoder's loop. Chunk sizes are
signed, because `strtol` takes a sign: a negative one wraps around as a `size_t`, takes the
whole rest of the buffer for data and moves the position back, below zero, or to its
own size line: then the decoder turns in a circle without an end (`Circles`). The limit on a
body is part of `OutcomeIsRight`.

**`CgiRelay`, `Relay`** (CgiRead, CgiResponse, Sender, SendChunked). Bytes are counted,
not spelled: `sentByte`, `sizeOther` and `pending` are the code's, with subtraction
modulo `Modulus`. `frame` is a history variable with the place of the last chunk in
the body. A write sends any part, or fails once the client is gone. Descriptors are
blocking (`Cgi::SetSockopt` is never called), yet a short write is possible on a
blocking descriptor too (a signal, a client that resets), and the code is written for them, so they are allowed. How
much of the last chunk itself is sent is not represented.

**`CgiParser`** (CgiParser, CgiRead, `Socket::CgiReadAndStoreToBuf`). A script writes
lines, each a symbol, ending in LF or CR LF, a blank line and a body of characters; a
read takes any part of it, fails, or finds the end. What the script *means* is defined
without the parser from the list of its lines, and compared. The verdict can depend on
the cut only where the parser looks at the body it has so far (a redirect with a
document) and where the header's size is checked; the properties name these exceptions.

**`LocalRedirect`** After a local redirect to another script the old `CgiRead` is left
behind and stores into the same `Socket`. Two scripts, one body. Chunks are
written whole; the new script answers with a document or an error, not with a further
redirect.

**`CgiProcess`** (Cgi, CgiWrite, CgiRead, `Socket::~Socket`). Scripts are programs of
reads and writes of one byte, buffers hold `Capacity` bytes, the server is one thread
that can be inside a write. Partial writes and a reset of the pair are one outcome, and
clients are assumed to take their replies.

**`Routing`, `FileService`** (Path, LocationContext, PrepareNextEvent..., HttpMethod, Get,
Post, Delete, ErrorPage, File). Paths are sequences of characters. A file is its kind,
whether its owner may read it (all that the server tests), whether the server may open
it, and what it holds. Each `stat`, `open` or `unlink` is a step and scripts may change files between
two of them. Reading a file whole, and opening and writing one, are a step each. The
file and location of a request are computed when it is made, because nothing changes
them. `seen` is a history variable: the states of the files since the request was
taken up. The time a file is replaced by one that blocks on opening counts as `"spin"`.

**`Lexer`, `ConfigWords`, `ConfigParser`, `ConfigGrammar`, `Startup`** (Lexer,
TokenManager, Parser, ServerContext, Listen, `Server::InitListen`, main,
`SelectServerContext`). A word is one symbol; `ConfigWords` lists what the code makes of
each when it has to look into it: its number, its host and port, its characters, its
address. Separators are cut off lines as `Lexer` does it. `ConfigParser` has an action per
directive and the states of the two loops; every exception is the state `"exit"`, because
`main` only prints them. `ConfigGrammar` stands for no code: it cuts a text into
statements, gives each its depth, and defines from that what the text means. `Startup` adds
the file before and the sockets after: `ToMap`, one `bind` at a time, with the
kernel's rule for overlapping addresses as an external definition.

**`ClientView`** (HttpResponse, ResponseToTheClient, CgiResponse, Sender, SendChunked,
`Cgi::Fork`). A reply is spelled out, as far as a client can tell its parts apart: lines of
the head, bytes, sizes and line ends of chunks. A write takes any beginning of what it is given, or
fails if the client has left. `holders` is who has the descriptor of a connection: nothing
is closed on exec, so a script holds those of all connections open when it was started,
and a client sees the end of its connection only when all of them are gone.
`Understood` is what a client makes of the bytes by the rules of HTTP/1.1.

## 4. The runs

All runs have `CHECK_DEADLOCK FALSE`, because connections are finite in number and all of
them end; that nothing ends too early is a liveness property where it is claimed.

| Run | What it shows | Bounds, and why they are enough |
|---|---|---|
| `loop_document` | epoll set and event map agree; a report waiting in the batch is not made meaningless by an earlier one; connections end | 2 connections, 4 descriptors (1 listening descriptor besides): with a script each they need all 4, so one may have to wait and a closed one is given out again; batches of 2: the first can hurt the second |
| `loop_redirect` | implements `Lifecycle`; exactly one event brings a connection forward; the only event objects that outlive their Socket are `CgiRead`s of redirects | 5 descriptors, two scripts per connection, all kinds of answer |
| `loop_addfail` | no double delete when any registration may fail | 4 descriptors: exhaustion as well |
| `request` | what is made of a request is independent of its cut, right, and never awaited in vain; whole chunked bodies are decoded; no framing in a body; the limit holds | all heads of two headers, three where valid; two chunks of up to 3 bytes and sixteen malformed bodies, seven of them with a signed size, one of which makes the decoder turn in a circle; limit 4, below the longest body. A read takes any number of symbols, so the size of the buffer is no restriction |
| `request_chunk_split` | section 7 | the chunked requests of `request` |
| `relay` | counters, tiling, the end, refinement, termination | 5 bytes of output and framing of two lengths: every relation of a write to framing, data and the next chunk occurs; the theorems hold for all sizes |
| `script_output` | the verdict is right for every cut; the body is the output; the events `EventLoop` assumes | all headers of two lines, three where three matter; bodies that contain blank lines |
| `redirect` | when a redirected reply is right, and how it can be stuck | outputs of 3 bytes: the old body can be shorter, equal or longer than what was sent |
| `process` | which scripts block the server; replies are whole; zombies; the three circular waits | 2 connections, one more than can be in a write; buffers of 1, programs of 3, some of 4, operations, bodies of up to 3: every buffer can be full or empty at each operation |
| `files` | every answer was true at some moment; the one way to hang; no other way not to be served | 2 connections, 3 descriptors: one leaked and two in use exhaust them; up to 3 states of the files in a request, so two changes between tests, one of which leaves a file its owner may not read |
| `startup` | parsed as the grammar says; runs with exactly the configurations that can be served; every server has its socket; the server chosen by a host is the one meant; the start ends | three configurations with every directive, each with every token left out, replaced by or followed by one of 36 words, and cut off after every token; all pairs of servers over 9 listens and 3 names, which overlap, repeat and differ in spelling only, and triples over 2; every kind of file; 11 values of Host |
| `replies` | a client gets the beginning of one reply, without gap or repetition; can tell its end but for two exceptions; in any case learns of it | one connection with every kind of reply and 2 bytes of body, so one chunk or two, cut anywhere; a second one whose script inherits the first's descriptor, or the other way round |

The runs check no type invariant of their own: `TypeOK` documents the types, and for
`EventLoop`, `CgiProcess`, `CgiParser`, `LocalRedirect`, `FileService` and `RequestReader` it is proved (section 6).

## 5. Fairness

No timer exists in the code, so nothing ends because time passes: each assumption is
about the kernel, a client or a script.

- `EventLoop`: the thread goes on (WF of `Wait` and of each handler); a ready descriptor is
  reported again and again, and even with full batches not for ever left out (SF: epoll
  rotates its ready list); a client or script sooner or later lets a repeated
  dispatch succeed (SF of `Advance`): clients send or hang up, take or leave, scripts end.
- `CgiRelay`: the client's descriptor is reported while it is writable or hung up (WF
  of `Respond`), the script ends its output (WF of `ReadEnd`). Reads between are not fair.
- `LocalRedirect`: the same, and the new script answers.
- `CgiProcess`: the server serves what is reported, the kernel runs every process. Here the
  scripts' progress is *not* assumed; whether they progress is the question.
- `FileService`: the thread goes on. Changes of files are not fair.
- `Startup`: the thread goes on. That a file that can be tested can be opened is a
  premise of the property, not of the specification.
- `ClientView`: a client sends its request and takes its reply or leaves, a script answers,
  closes its output and exits. Clients need not leave.

Without the fairness of clients and scripts none of this holds, which is what the commented-out check for
timeouts (Server.cpp:86) would change.

## 6. What is proved

The modules `..._proofs` hold for every value of the constants that satisfies the named assumption
of the module they are about.

- **`EventLoop`**: `TypeCorrect`, and `NoDoubleDelete == Spec => []OwnersLive` for any
  number of connections and descriptors, any answer and any failing registration. The
  inductive invariant is `TypeOK` and, for each descriptor, `Fits`: a replying event
  points to a live Socket at its own descriptor, a reading one does if its Socket is
  live, no event points to a Socket not yet made. `OwnersLive` alone is not inductive:
  a receive event becomes a reply. One lemma per handler. `ReplyKnows == Spec =>
  []ReplyKnowsScript`, for any failure too, adds `Placed`: a `CgiWrite` or `CgiRead` of an open
  connection sits at the descriptor of its entry in `cgi_res`, and the entry's verdict
  is open until the event has published. So no two of them share an entry, and what one stores
  never takes back what a reply was told.
- **Who works for a connection** (`EventLoop` too): `OneCarrierEach`,
  `DanglingOnlyRedirects` and `LoopImplementsLifecycle`, the refinement, all three under
  `~AddMayFail`: a failed registration does leave a connection without an event, or one without
  its Socket. The invariant `CInv` adds to the one above: connections own disjoint
  descriptors and what nobody owns is not registered, which is why registering a new descriptor succeeds; an
  open connection has one carrier, and while a script is it, nothing is
  registered for the client, which is why registering the reply succeeds; a `CgiRead` that
  has published is that of a local redirect, or its output has not ended and its reply is there
  (`Published`), which is why only redirects leave one behind. Every handler is shown to keep it and to be a step
  of `Lifecycle` for one connection and none for the others (`StepGood`, `MoveStep`).
- **Epoll set and event map** (`EventLoop` too): `EpollAgrees`, `ReportsStayValid` and
  `NothingUndefined`, if besides scripts answer with documents only (`DocumentsOnly`), as in run
  `loop_document`: a redirect leaves its `CgiRead` behind, whose descriptor is closed under it and given out
  again. `WInv` adds to `CInv` that every event but a listening one sits at a
  descriptor of its own open connection (`Plain`), which makes `Wired` inductive: closing a
  connection empties exactly the places of its events. Reports waiting in a batch are of
  different, registered descriptors (`Pending`), and one dispatch takes away only events of its own
  connection, of which no other is registered at that moment.
- **`CgiRelay`**: `CountersAreRight`, `EndsRight`, `NothingLostOrTwice`, `RelayRefines`.
  The invariant states what the two counters of `SendChunked` mean: their difference is
  the end of the last chunk up to what is pending, *or* the first write of a chunk failed and
  nothing of it was counted, which only happens when the client is gone. `HexLen` is
  any function to positive numbers, so nothing depends on how sizes are printed.
  The subtraction of two `size_t` may wrap around; the proofs cover both cases.
- **`CgiProcess`**: `TypeCorrect`, `OnlyGreedyBlocks`, `RepliesTakenWhole`,
  `KilledAtTheEnd`. The invariant is the balance of both buffers (while a body is
  written, what a script has read, what is in its buffer and what is left make up the
  body, and all it wrote is in its output buffer) and the fate of the process. It rests on
  lemmas about counting the operations of a prefix of a program.
- **`Startup`**: `CursorStaysInBounds` for the parser on any tokens: in a block the iterator
  is at a token, between two servers at a token or the end, although `Increment` never looks.
  The invariant is `CursorInBounds` with the type of the tokens; what it takes is
  that each directive ends at its semicolon and each block at its brace. `NoServerIsLost`:
  the map of listens is, at any moment of `ToMap`, the partition of the contexts seen so far, in
  order, and `InitListen` gets to `Run` only with a socket for each. `AddressesApart`: it also gets
  there only if the listens can be bound together, in whatever order. `SelectionIsRight`: because
  the lists are increasing and complete, the first place that fits is the first server
  meant; and that a host is one word, two or neither for `ParseHostHeader` exactly when it is for
  `Means` takes a lemma on what `Split` makes of a text without neighbouring words
  (`HostPieces`), which is what `HostsAssumption` says of hosts. Nothing about the words of `ConfigWords`
  is used, so all this holds whatever that table says of them.

- **`CgiParser`**: all its invariants and `AsTheLoopAssumes`, for any output, limit, size of a read and
  cut (`Invariance`, `PublishedRight`, `BodyWhole`, `AsTheLoopTakesIt`). The invariant `Inv` says for
  each stage what the parser holds: before the blank line was found, all that was read
  and no blank line in it (`StagesFit`); after it, the meaning of the lines before it, whatever
  was read of the body (`HeaderFits`); and a body that is what was read after it (`BodyFits`). Its
  core is where the blank line is found in any beginning of an output (`BlankIsFound`), since CR LF
  and LF are looked for apart, and that splitting and merging the lines found gives what
  `Meaning` gives of all of them at once (`HeadParsed`, `MeaningIs`).

- **`LocalRedirect`**: `RedirectTypeCorrect`, `RightIfUndisturbed`, `EarlyEndHarmless`. The invariant `RInv`
  adds that the body stored last is all its owner has put out so far (`BodyKnown`), that before
  there is a reply nothing is sent, closed or disturbed (`ReplyKnown`), and that who has read the end
  of an output reads no more of it (`EndsKnown`), which keeps a reply that was right right.
- **`FileService`**: `FilesTypeCorrect`, `SpinsOnlyThen`, `AnswersAreTrue`, for any site, any
  locations and any change of a file at any time. The invariant `FInv` says what the thread knows at
  each stage (`Knows`): which file it looks at, and that some state of the files since the
  request was taken up answered the tests already made. So a test is never relied on for
  the present, only for a moment that was; that is the form `AnswerIsTrue` has, and why it is not inductive
  without the stages. The current files are always one of those states (`files \in seen`).

- **`RequestReader` and `ChunkedBody`**: all its invariants, for any requests, limit, size of a read
  and cut: `TextIsKept`, `NeverWaitsInVain`, `CutsDoNotMatter`, `FramingStaysOut`, `WholeIsDecoded`
  and the types. The invariant `IInv` gives a reader a place in the text of its request
  (`Pos`): the lines before it are parsed and are those of the request (`LinesFit`), and what is
  in the buffer goes on there (`BufFits`), up to a nul. So a line is found exactly when it has
  arrived, whatever the cut (`LineIs`, `EndIs`). In the body of a well-formed chunked request
  the decoder stands after some number of whole chunks and has their data (`Placed`);
  a turn takes it to the next chunk, to the end, or stops it with a beginning of the data
  (`NextChunkTurn`, `LastSizeTurn`). What `FlattenSeq` and `Magnitude`, functions by recursion, are at each place is
  shown with sets of numbers instead of induction over data (`FlattenSteps`, `MagnitudeIs`). The data are any bytes but nul in
  any number of chunks whose size has one digit (`RequestReaderAssumption`); of a
  malformed body it is proved that what the decoder does stays within its types and the limit.

Only model-checked: liveness (fairness and `ENABLED` are out of the prover's reach);
`WireIsReply` and `EndIsKnown` of `ClientView`, whose client reads chunks by recursion over
what it received; and `ParsedIsRight` and `StartsIfRight` of `Startup`, which compare with the grammar.

## 7. A disagreement

`ReceiveHttpRequest.cpp:302` stores what the chunked decoder returns in `ds_` and
reports the request complete whatever it is. `tests/unit_test/ReceiveHttpRequest_test.cc:296`
expects a completely read chunked request to have been decoded,
`EXPECT_EQ(kDecodeComplete, rhr.GetDecodeStat());`, and gives the reader the whole
request in one read. Run `request_chunk_split` finds the request cut inside its body:
it is complete with part of the body, and the rest is never read. `request`
shows what does hold: `ChunkedIsPrefix`.

Other things the models have as the code has them, and the properties name as exceptions:

- a `CgiRead` outlives its Socket after a client redirect (`DanglingIsRedirect`);
- the script of a local redirect with a body is written to only after it has written
  (`AwaitsDispatch` of `CgiProcess`), and its reply can be stuck (`Stuck` of `LocalRedirect`);
- a large body to a script that writes first blocks the whole server (`Blocked`);
- `File::ReadFileLines` does not end when the file cannot be opened (`SpinsOnly`);
- `File::Replace` leaks a descriptor per POST; the last one is never lost (`Served`);
- a negative chunk size that leads back to its own line keeps the decoder turning (`WaitsOnlyForMore`);
- after `error_page` every code of the server's earlier directives has the new page (`ParsedIsRight`);
- a configuration that can be tested but not opened is read for ever (`StartEnds`);
- the head of a client redirect has no blank line, and a last chunk may be cut: the client then
  learns of the end from its connection only, which scripts of others keep open (`EndIsKnown`, `KnowsEnd`);
- `Get::Run` can leave its response code without a value (`AnswerIsTrue`, `"undefined"`).

## 8. What is not modelled

- Spelling of words: which words a configuration is written with is `ConfigWords`, a finite
  table; messages of exceptions and numbers of lines.
- Reason phrases, the text of error pages and directory listings, MIME types and dates.
- Arguments and environment of a script; the failure of `socket`, `listen`, `epoll_create1`
  and `fork`, which end the program or are answered with an error page.
- What a `CgiRead` whose Socket was deleted does if a script still holds its descriptor and epoll reports
  it: `EventLoop` takes the descriptor out of the epoll set when it is closed.
- `Timer`: nothing uses it. Vendored test code and the sites under `www`.
