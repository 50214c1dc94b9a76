# A TLA+ model of Nutil

Nutil is an asynchronous network library in Swift: TCP, TLS and UDP sockets on
Grand Central Dispatch, and HTTP/1.1, HTTP/2 and WebSocket, client and server, on
top of them. Everything below is relative to `src/Sources/`.

## Inventory

| Component | State it keeps | Operations | What makes it correct |
|---|---|---|---|
| `Socket`, `TcpSocket` | descriptor, two dispatch sources, `writeSuspended`, `state` | connect, attachFd, read, write, writev, close; read and write events | the write source runs whenever somebody waits for it; nothing fires after close |
| `SslSocket`, `SslHandler` | handshake state, a TcpSocket | the same, through OpenSSL | handshake once; a write that is retried gives the same bytes again (no write resumes the source, see below) |
| `TcpConnection` | `buffer`, `initBuffer` | four `send`s, `appendBufferedData`, `sendBufferedData`, `onRead`, `onWrite`, `onClose` | bytes leave in order, none lost or repeated; end reported once |
| `FrameParser`, `H2Frame` | a partial header and payload | parseInputData, decode, encode | the frames do not depend on where the input is cut |
| `H2Connection` | streams, promised streams, counters, expected CONTINUATION, windows, state | one handler per frame type, createStream, close, handshake | RFC 7540 states; counters match the streams |
| `H2Stream` | state, eight flags, window | send and receive headers, data, reset | the state is explained by the frames; callbacks tell what happened |
| `FlowControl` | two windows | bytesSent, bytesReceived, updates | no overrun; no deadlock |
| `HPacker`, `HPackTable` | dynamic table | encode, decode | both ends' tables stay equal |
| `Http2Request`, `Http2Response` | own state, stream | sendRequest, sendData, close | every request ends in onComplete or onError |
| `H2ConnectionMgr` | map from address to connection | get, add, remove under a lock | no request joins a dead connection |
| `HttpParser`, `Http1xRequest/Response`, `HttpMessage` | parse state, body counters | parse, send, close | the message does not depend on where the input is cut |
| `WSHandler`, `WebSocket` | decode state, handshake state | decodeFrame, send, close | the same, and one close |
| `UdpSocket`, `Acceptor`, utilities | descriptor | I/O | (not modelled) |

How they interact: a source fires on the socket's own serial queue and calls
`TcpSocket`, which calls `TcpConnection`, which calls `H2Connection`,
`HttpParser` or `WSHandler` through overridden methods, which calls the
application through closures; each may call back down (send, close) from inside.
HTTP/2 requests live on any thread and enter their connection's queue with
`sync` and `async`. `H2ConnectionMgr` is shared by all threads under a lock.

What is hard in it: the peer chooses the order of frames and where the input is
cut, the kernel chooses how much of a write it takes, and the application may
send and close from inside any callback. `PROJECT.json` lists each such place
under `hazards`, with the properties that watch it.

## Modules

| Module | Models | Kind |
|---|---|---|
| `H2Connection` | `H2Connection.swift`, `H2Stream.swift`: one open connection | state machine |
| `MCH2Connection` | | TLC instances |
| `H2ConnectionProofs` | | theorems |
| `ByteStream` | what `TcpConnection.send` promises | abstract specification |
| `TcpSocket` | `Socket.swift`, `TcpSocket.swift`, the kernel and the peer | state and helpers |
| `TcpConnection` | `TcpConnection.swift` over `TcpSocket` | state machine, implements `ByteStream` |
| `MCTcpConnection` | | TLC instances |
| `TcpConnectionProofs` | | theorems |
| `FrameStream` | what `FrameParser` promises | abstract specification |
| `FrameParser` | `FrameParser.swift` | state machine, implements `FrameStream` |
| `MCFrameParser` | | TLC instance |
| `H2FlowControl` | `FlowControl.swift` and the flow control of `H2Stream.swift` and `H2Connection.swift`: a sender, a receiver, the connection | state machine |
| `MCH2FlowControl` | | TLC instances |
| `H2FlowControlProofs` | | theorems |
| `HPack` | `HPackTable.swift`, `HPacker.swift`: the encoder of one end, the decoder of the other | state machine |
| `MCHPack` | | TLC instance |
| `HPackProofs` | | theorems |
| `H2Handshake` | `H2Connection.swift` up to the state open, both ends, in clear | state machine |
| `H2HandshakeProofs` | | theorems |
| `H2Requests` | `Http2Request.swift`, `H2ConnectionMgr.swift` and the ends of `H2Connection.swift` | state machine |
| `HttpParser` | `HttpParser.swift`, with what it uses of `HttpHeader.swift` | operators |
| `Http1` | `Http1xRequest.swift`, `Http1xResponse.swift`, `HttpMessage.swift`: one exchange | state machine over two `HttpParser`s |
| `RequestProofs` | | theorems about `H2Requests` and `Http1` |
| `WebSocket` | `WebSocket.swift`, `WSHandler.swift`: both ends | state machine |
| `FramingProofs` | | theorems about `WebSocket` and `FrameParser` |
| `SslSocket` | `SslSocket.swift`, `SslHandler.swift` under a `TcpConnection`, OpenSSL external | state machine |
| `SslSocketProofs` | | theorems |
| `MCH2Handshake`, `MCH2Requests`, `MCHttp1`, `MCWebSocket`, `MCSslSocket` | | TLC instances |

### H2Connection

State: `connState`, `streams` (both dictionaries, the parity of the id says
which), `nextStreamId`, `lastStreamId`, `openedStreamCount`, and
`expectedContinuation` for the pair `expectContinuationFrame`,
`streamIdOfExpectedContinuation`. A stream is its `state` and the set of its
flags that are true. One action per handler (`RecvData` is `handleDataFrame` of
both classes, and so on), one per call of the application (`SendRequest`,
`SendResponse`, `FinishBody`, `CloseStream`, `CloseConnection`), one for a socket
error. `FrameRefused` and `InterruptedHeaderBlock` are `onFrameError` and the
test at the head of `onFrame`.

`reading` stands for FrameParser's loop: once the connection is closed the frames
left in the chunk at hand may still arrive, as many as the model cares to choose.
`told`, `leaked` and `app` are not in the code. The first is what the callbacks
of a stream object were told; the second counts the open stream objects that
PUSH_PROMISE and GOAWAY threw away; the third is what the application has left to
do, the way `Http2Request` and `Http2Response` do it.

Abstractions: a header block is "part", "last" or "corrupt"; a window increment
is "zero", "tooLarge" or "usable"; payloads are gone. A stream blocked by flow
control is an input of `FinishBody`. Every handler's callback is its last
statement, so the application acts between frames. PUSH_PROMISE and CONTINUATION
frames carry a fragment, possibly empty for CONTINUATION. An even id whose stream
object a server's application holds is not promised again: a server that
receives PUSH_PROMISE treats it like a client, and the two owners of one object
are outside the model. `MaxLeaked` bounds `leaked` alone; it appears in the
guards of `RecvPushPromise` and `RecvGoaway`. Code that nothing reaches is left
out: `sendPushPromise`, `onHeaderCompleted`, `reservedL`, and the rest of
`H2Stream.handleContinuationFrame` after its always-true test.

### TcpSocket and TcpConnection

The n-th byte given to a socket is the number n, so the order of bytes is a
property of sequences of numbers. `snd` is the sending half of the socket:
`suspended` (`writeSuspended`), `early` (a history: suspended by a write event that came
before `attachFd` had set the state), `room` (what the kernel still takes) and `wire`
(what it took). `WriteTo` is one call of `write` or `writev`, with the resume
of the source inside it. `Send` is all four `send` functions: they differ in the
lengths of their iovecs and in what they do with data of which nothing could be
written (`gather`). `ReadEvent`, `ReadInit` and `ReadChunk` are `onRead` callback
by callback, because `close` may be called from inside one; `WriteEvent` is
`onWrite` with the suspension `TcpSocket.onWrite` does before it. `late`, `owed`,
`errors`, `connectTold`, `handed` and `accepted` are histories.

`AttachFd` and `AttachFdReturns` are the two halves of `attachFd`: it runs on its caller's
thread, and from the moment the sources are resumed (`Socket.swift:89`) to the moment the state is set
(`TcpSocket.swift:192`) events come to a socket that is not open (`attaching`). Both
sources are resumed in one step, and no clean-up falls between their resumption. `Connect` is one step: until
the kernel was asked to connect nothing is ready on the socket. The modules above
this one (`Http1`, `WebSocket`, `SslSocket`) take an `attachFd` for one step; `H2Handshake`
splits it again, for a state of its own.

The application acts between two events and while the read loop is between two
chunks (inside `handleInputData`); one life of a connection is modelled, without
`reset()`. The peer may shut down its side ("fin") or reset; the kernel empties
its buffer one byte at a time.

### FrameParser

A byte is its position in the input. `ParseInputData` is a call with the next
piece; every branch of the loop is an action: `KeepHeader` and `KeepPayload` end
the call with an unfinished frame, `Header`, `PayloadAtOnce` and `PayloadComplete`
go on. `at = "payload"` is the place below the header in the same round, where a
frame without payload is parsed even if the input is used up. What a frame decodes
to is an input: it is accepted, or ends the loop ("failed"), after which the
connection gives the parser nothing more. `FrameStream` has one variable, the
frames parsed, each cut off where the one before it ended.

### H2FlowControl

One end sends DATA and the other answers with WINDOW_UPDATE, each over a FIFO
queue (`data`, `control`); the other direction is the same with the roles
exchanged. The sender is a server just upgraded from HTTP/1: the streams of `Early`
exist before the receiver's SETTINGS arrive, all others after. Its variables are
those of the code; `remote` and `local` are functions on the streams and window
0, the connection's. `NoWindow`, `Refused`, `SendData` and `SendEnd` are the ways
`sendData` ends; `NotifyNext` and `NotifyEnd` are the rounds of the loop of
`notifyBlockedStreams`, one action each because the callback inside may send
(`bstreams` is the loop's own list, and while it is not empty no other handler
runs). `Takes` is what `handleInputData` and `onFrame` let in: in the state handshake nothing but
SETTINGS. `RefuseUpdate` is a WINDOW_UPDATE that comes then: it ends the connection (`closed`),
after which the sender reads nothing more. `unsent` counts the frames at the end of `data` that are still in the
send buffer: the socket takes as many as it likes, and frames cut in the middle are
`TcpConnection`'s subject. `sent`, `granted`, the field `total` of what is under
way and `excess` are histories.

A stream whose window is shorter than the data still sends all of it and is
charged for what fitted; `excess` counts the rest, by which the ends differ for
good (`QuietAgreement` says by exactly that). Three assumptions on the constants
come from the sizes in the code: the minimum is below the step (`FlowBounds`), no
send is longer than 65536 bytes, what a peer parses (`FramesFit`), and the windows
are far below the limit of 2 GB (`WindowsFit`). Streams are not reset here, and
both ends are Nutil: SETTINGS come once, at the head of the connection.

### HPack

The encoder is `enc` (its table), `indexSequence`, `indexMap` and
`updateTableSize`; the decoder is `dec`. Table operations (`AddHeader`,
`UpdateLimitSize`, `Evict`) are operators on tables that both ends use, `IndexAfter`
is what they do to the encoder's map. Headers are encoded one at a time onto
`wire`, of which the last `pending` fields are the block `sendHeadersFrame` is
building; `SendBlock` sends it, `EncodeFails` is its early return when the block did
not fit. The decoder takes fields one at a time too, which nothing can tell
from a block at once. `DropField` is a block that `handleHeadersFrame` never
decodes because it refuses the stream or has none: a block is dropped whole. After
either loss, `lost`, the tables differ and nothing is promised; `failed` is then
the connection error. A field carries, as history, the header it stands for and
the encoder's table before it; the octets, with the coding of integers, strings and
Huffman codes, are left out, so a field's text is the header's text where the index
does not give it. A name is a sequence of letters, because the map is searched by name
and value run together and the sizes are lengths. `indexMap` has an entry for
every key that may be asked for; a missing entry is (-1, -1), which is what
`getIndex` returns for it.

`setMaxSize` is left out: Nutil never sends SETTINGS_HEADER_TABLE_SIZE, so between
two ends of it the size stays 4096 and the size update that opens the first
block says so.

### H2Handshake

Two ends, a client that connects and a server that is handed the accepted
descriptor. What travels is a sequence of units that the parsers complete before
they act: the upgrade request, the response, the two halves of the preface, frames.
Each end has `buffer`, `suspended` and a kernel that takes `Cap` units at a time
(`pipe`). `SendPreface` is reached from the four places it has in the code:
`handleOnSend` (`WriteEvent`), `handleUpgradeRequest`, `handleUpgradeResponse`
and, over TLS only, `handleOnConnect` and `attachFd`. `AttachSocket` and `AttachState` are the
two halves of `attachFd`, because the sources run on the socket's queue while
the caller's thread goes on to set the state. `ReadGarbage` is what a parser of HTTP
makes of frames that come too early: it keeps them as a line or finds an error.
States closed and error are one. `AttachState` sets the state only if no event has set it to closed
before; the code sets it in any case, on a socket that is gone by then. `missed` records that the server dropped input it
had no state for. Over TLS there are no two ends of Nutil (see `SslSocket`), and the
branches for it are left out.

### H2Requests

Requests for one host over the connections the manager makes, so that its map is
one entry. `SendRequest`, `Post` and `Close` run on the application's thread, the
rest on the queue of the connection. Between `SendRequest` and `Post` the request
has its connection but no block on its queue; `Post` is `async`, which drops the
block if the socket was cleaned up; `RunBlock` is `sendRequest_i`. What the connection
goes through is input: `Opens`, `ConnectFails`, `PeerLeaves` (`onError`),
`ConnectionError`, `Goaway`, and the end of a stream: `Ends` with a callback, `EndsUntold` without one
(headers with a bad status, trailers or headers in CONTINUATION that carry END_STREAM, a stream error
found here). Which frames lead there is `H2Connection`'s subject, as is a stream that HEADERS reopen.
`lost` records the requests whose connection or stream went in a way that tells them
nothing.

### HttpParser and Http1

A message is a sequence of tokens; a line is its first byte, which stands for what
the line says, "rest", CR and LF, and the size of a chunk is a line of one token.
`Parse` maps a parser and the bytes of one read to the parser after it; `events` are its
callbacks. `Round` is one line of the head, one state of `parseChunk`'s loop or the plain body, and
each round that does not end the call takes a byte, so that as many rounds as bytes are
enough. They are a function of their number, not a recursive operator, so that they can be
proved about. `Data` is what bodies are made of: a byte that looks like the end of a line is
among them, because the code must not look for one there. `Http1` runs one parser at each
end, behind `TcpConnection`'s promise that bytes arrive in order: `link` holds the bytes
on their way, `buffer` what the socket did not take, `armed` a write event to come.
A send or a read takes all there is or as many bytes as `Cuts` allows. Applications send on
`onSend` (`cue`), as those of the samples do. `split` records a read that ended
between CR and LF, after which `getLine` takes a byte too many.

### WebSocket

Bytes are pairs: which byte of a frame it is and what it says. The upgrade request
and the response are a byte each (their lines are `HttpParser`'s subject), keys and
extended lengths two, so that each can be cut in the middle. `Encode` is
`encodeFrameHeader` with the mask, `Decode` is `decodeFrame`: `Round` is one round of its loop, with an
operator for each state it switches on (`ReadHdr1` to `ReadPayload`), and a read of n bytes takes
at most 3n + 3 rounds. The loop is a function of the number of the round, not a recursive operator, so that
it can be proved about. `said` (all frames an end sent) and `got` (all it was given) are
histories. `ReadEvent` is the whole of a read:
handshake, all frames decoded, the answers to ping and close, and a close by the
application from inside a callback (`quits`). `early` records that the server sent
frames before its upgrade response. What the client's parser makes of such bytes depends on which
they are, so `Handshake` is a set: they are dropped or kept for the line that the next LF ends, they
end a line that is no start line (the connection fails), or they pass for a request together with
the response behind them, which `onWsHandshake` finds invalid: the state is then error, the
application is told, and the socket stays. Frames in the same read behind an upgrade message that was understood are
decoded from where its bytes end. There the model is wrong in one respect: `getLine` and the
count of its bytes (`HttpParser.swift:466-480`) go by the characters of all that was read, turned from ASCII, and a
byte of 0x80 or more, as the first of every frame is, may make that conversion fail or give another count. It
is taken for exact: what `Prompt` and `FramesIntact` show of a frame that shares a read with the
upgrade message is shown under that assumption only.

### SslSocket

OpenSSL is external and modelled by what the code relies on: `Advance` is
`SSL_connect` over four flights (`Flight`, one at a time), and `Verdict` what it comes
to; `SSL_write` encrypts a record, holds it back if the
kernel does not take it, and wants the same bytes again; a record that was read is decrypted
whole and read in pieces (`plain`). Everything above that is the code:
`SendRecords` is what the loop of `SslHandler.send` does with `SSL_write`: the records
that go, the one that is held back, and what is returned (the outcome of the whole
loop, as no other step can come in between). A retry that gets rid of the record held back and blocks on
the next one returns nothing for either: the library remembers how far it is (`ahead`) and looks for
the next retry behind that. `Write` and `Writev` clean up on an error,
`DoSslHandshake`, `CheckSslState`, `ConnectEvent` with `startSslHandshake`, and
`TcpConnection`'s send buffer and read loop on top. `WriteEvent` suspends the
source for good, since no write over TLS resumes it. An application that was answered 0
is taken to offer the same bytes again. `mayEnd` is what `errno` holds when `SSL_read`
meets the end of the input.

## Runs

`CHECK_DEADLOCK FALSE` everywhere: a connection may be closed, after which
nothing happens any more.

| Run | Instance | Question |
|---|---|---|
| `h2_server` | ids 1, 3; limit 1 | do count, states, flags, callbacks and ids agree after any frames and calls? |
| `h2_client` | ids 1 (own), 2 (pushed); limit 1 | the same, and nothing after the end |
| `h2_concurrency_limit` | as `h2_server` | is the limit kept? (no) |
| `tcp` | connects or is attached with a byte of initial data; room 2, 4 bytes out, 2 in | order of bytes both ways, wake-ups, one end; is everybody told? |
| `frame_parser` | header 3, frames of 0, 1, 3 and 4 (too long) bytes, 14 bytes of input | are the frames those of the uncut input, and as early as possible? |
| `h2_flow` | streams 1 (early) and 3; sends of 1 and 3 bytes; windows 2, 4 and 5; 8 bytes | do both ends agree, is nothing overrun, is every blocked stream called back? |
| `hpack` | six headers, three static entries, tables of size 8, two fields under way, 5 entries added | are headers decoded right, and both tables equal? |
| `h2_handshake` | two units of room, two requests | do both ends agree before they are open, and does the handshake end? |
| `h2_requests` | two requests, each sent up to twice, two connections | is every request somewhere from where an answer can come, and does one come? |
| `http1` | a body of two bytes, one like an LF, of known length, in chunks or none; `Cuts` {1} | is the message what was sent however it is cut, and does the request end, once? |
| `websocket` | two frames from each application, lengths 2 (extended) | are frames whole, given at once, and is the end heard by both? |
| `tls` | room for one record of two bytes, 4 bytes out, 2 records in | are bytes kept in order through retries, read to the last, and is the owner told? |

Why the bounds are enough. Two stream ids let one stream affect another through
the count, `lastStreamId` and the expected CONTINUATION, the only state that
streams share; with a limit of 1 the second stream meets it. On a client the two
ids are of both kinds. Two bytes of room against sends of up to three bytes in one,
two and three iovecs give every way a write can end inside, between and after
iovecs; four bytes let a second send meet what the first left. Reads of one
byte make the loop go round. Fourteen bytes hold two frames of the greatest size
and the beginning of a third, cut at every place. `h2_server` runs with
`MaxLeaked` 0: a stream object thrown away by PUSH_PROMISE or GOAWAY is met by
`h2_client`, whose ids are of both kinds.

The flow control's windows keep the order of the real ones (65535 < stream
step < connection step, minimum half of the step or less); eight bytes are more than
the connection's first window, so it is used up and refilled while SETTINGS, both
kinds of update and DATA are under way, and a send of three bytes, the longest that
`FramesFit` allows, meets every smaller window. `MaxSent` bounds `sent` in the guard of
`SendData`, and `MaxWindow` is 12, the least value that `WindowsFit` allows, to make `UpdatesFit` sharp.

The headers of `hpack` collide: `a`+`bb` and `ab`+`b` are one key and fit the table
together, which then evicts the older of the two; `ab` is a name and the key of
`a`+`b`; one header fills the table beyond its limit; another is looked up and
never indexed. Five entries fill a table of two or three and go round once. `MaxAdded`
bounds `indexSequence` in the guard of `EncodeLiteral`, `MaxFields` the wire in
the guards of the encoder.

Two units of room are less than a preface with what goes before or behind it, so that every send of
the handshake is cut at some moment, and two requests can be on both sides of the
connection's opening. Two connections and two calls per request let a request meet the
dead connection of the one before; `MaxConns` bounds `GetConnection`, `MaxTries`
`SendRequest`. In `http1` and `websocket` a read or a send of one byte or of all there is gives
every cutting of every message, one byte after the other. Two bytes of a body or two frames
let one be confused with the next. Length 2 takes the longest path through `decodeFrame`; the
properties hold for `{0, 1}`, `{3}` and `{0, 2}` too, at the price of minutes. `MaxFrames` bounds `SendData` and `SendPing`. In `tls` a
record of two bytes is read in two reads, and four bytes of output make two records, of which the
second is held back; `MaxOut` bounds `Send`, `MaxIn` `Data`.

One run ends in a violation, a disagreement between the code and the comment
beside it, which `findings` in `PROJECT.json` quotes: `ConcurrencyLimit`.

Fairness. In `tcp` a dispatch source that stays ready is served
(`WriteEvent`, `ReadEvent`, `Connecting`), a handler that runs goes on
(`Reading`), `attachFd` returns (`AttachFdReturns`), and the peer reads what it is sent (`Drain`). Nothing is assumed of
the application, of the peer's sending, or of when it leaves. In `h2_flow`
the queues of both ends serve what is ready (`WriteEvent`, `RecvControl`,
`RecvData`) and the notify loop goes on (`Notifying`). `h2_handshake` assumes the
same of both queues, that a connect is answered, and that the server accepts and
`attachFd` returns. `h2_requests` assumes that `sendRequest` returns and queues
run their blocks, and that a connection that is being made, or a stream that is open,
does not stay so for ever (the first is what `h2_handshake` shows). In `http1` the
server's application answers and closes when it is done; a socket that fills up has
room again when its write event says so (strong fairness of `SendsSome`, because
`SendData(end, 0)` and the event alternate). `http1` and `websocket` state weak
fairness of reads by hand, "infinitely often no input, or infinitely often a read".
`tls` assumes queues that serve, a peer that reads, and one that answers in the handshake.

Exceptions. Some liveness properties name the cases in which the code does leave
somebody waiting, each recorded by a history variable so that nothing else hides behind it:
`missed` in `HandshakeEnds`, `lost` in `Heard` and `Answered`, `split` in
`RequestIntact`, `ResponseIntact` and `RequestEnds`, `early` in `FramesIntact` and
`Prompt`, `silent` in `OutcomeTold`, `early` of the write source in `NoLostWakeup` and
`WriterIsTold`, `closed` in `BlockedHasWaker` and `BlockedIsWoken`. `EndIsHeard` speaks of an end
whose socket is gone, which one with an invalid handshake is not. `QuietAgreement` is about queues that are
empty, which they never are again once an update was refused. The section on divergences says what each is.

## Proofs

`H2ConnectionProofs` holds for every finite set of ids, both roles and every
limit. `Inv` is `TypeOK` with `OpenedCountExact`, `NextIdFresh`, soundness of
each stream (`Sound`: its state explained by its flags, its callbacks matching
them) and `HeldByServer`. The count is not inductive alone: `SendRequest` adds
one without looking, which is right because its id is fresh. `EndIsLast` is
proved for clients only; for servers it is false: a reset stream that becomes half closed again takes
DATA. `StreamsAreSound` joins the five properties of one stream and the count, as
the runs check them; the theorems before it state its parts.

`TcpConnectionProofs` holds for every size of the kernel's buffer and of the read
buffer, and every set of iovec lengths. The lemmas cut and join byte sequences
(`Cut`, `PiecesJoin`), `UnsentIsRest` says that what `send` keeps of three iovecs
is the data from the first unsent byte on, and `WriteIsPartial` and
`FlushKeepsBytes` lift that to a call. `Inv` adds `Lifecycle` (what the state of
the socket says of its sources, and that a reader in its loop has handed the
initial data over) and `NotReported` (a live socket has not reported its end).
Input is a second, smaller invariant: what was handed over, what came with `attachFd`
and what can be read are together the peer's bytes from the first on (`InputSplit`), of
which `InputInOrder` looks at the first part. `ImplementsByteStream` is the
refinement: the wire only grows (`WireGrows`), what is accepted grows by what one call
of `send` was given (`AcceptedGrows`), and with `NoByteLost` before and after a step it
is a step of `ByteStream` or none (`StepIsTransfer`).

`FramingProofs` holds the theorems of both parsers that cut a stream into frames.

For `WebSocket` they hold for every set of payload lengths and any number of frames (`WsBounds`). `FramesIntact` and `Prompt` look at what came out of a decoder; nothing of that is inductive.
`WsInv` is: unless the server was open too soon (`early`), each direction is `InStep`. There is a
stream S, the upgrade message of x and the encoding of every frame it said one behind the other
(`Stream`, with the place where each frame begins); of S, R bytes were read, and the rest is on
the wire and, as long as x has its socket, in its send buffer (`Carries`); the frames given to the
peer are the first ones said, and its decoder stands R bytes into S, inside the next frame
(`Standing`, by `Stands` for each state of `decodeFrame`). Before the upgrade `Quiet` says that
there is nothing to misread: what an end put on the wire holds no upgrade message (`Wordless`), so
that whichever outcome `Handshake` has for it (`Firsts`), no end opens by it. The argument has two halves. The reader: a round of `decodeFrame`
on the bytes of a frame takes some of them or completes the frame, and what it completes is
the frame meant, unmasked (`RoundGoesOn`, `WorkStep`); each round lessens
three times the bytes left plus the `Rank` of the state, so that 3n + 3 rounds are enough (`DecodeRight`). The
writer: whatever an end does, send, answer, flush or clean up, lengthens S at its end or cuts what
was not read yet, so its peer stays in step (`Onward`; `StreamGrows`, `SaysKeeps`, `FlushKeeps`, `CutWire`). A
read does both at once: `ReadInStep` for the one direction, `FramesKeep` for the answers in
the other. Induction over rounds and over the frames of a read goes by `Upward`, a fact about sets of
numbers. `Prompt` then needs that a decoder at the end of the stream stands in no frame with a payload
(`AllYielded`).

For `FrameParser` the theorems hold for every size of header and frame and every cutting.
`FrameInv` says where in the input the parser stands: what it keeps is the
beginning of the frame that starts where the last one ended (`Position`), so each
frame it appends is the next of `FrameStream`.

`H2FlowControlProofs` holds for every set of streams and every size of windows
within the three assumptions. `Inv` orders what is under way: the increments of
window 0 lie one behind the other between what the sender has applied and what the
receiver has granted (`Grants`), the frames likewise between received and
sent (`Flight`). `SentWithinGrant` is then one end of `Grants`, and `UpdatesFit`
follows from both with the range of the receiver's windows (`Locals`). For
`BlockedHasWaker` one needs to know why a stream that SETTINGS give new room
before it was ever listed is no exception: until they arrive the connection's
window is the least of all, so that every stream that blocks is listed
(`Preface`); and a connection window too small for a frame is, by `FramesFit`,
one for which an update is due.

`QuietAgreement` speaks of empty queues only, and is proved as the last line of a ledger
that balances always: for each window, what the sender may still send, the bytes under way
and the increments under way add up to what the receiver has left open, less what
SETTINGS have not brought yet, and but for bytes never charged (`Even`). The sum over a queue is given by its running
totals, a function that exists (`Sums`) and still does after a change at either end
(`SumGrows`, `SumLoses`), so that no recursion is needed; `Balanced` is what a step has to show, and
there is one lemma for each kind of step (`LedgerSends` to `LedgerData`). The ledger is
what shows that bytes, updates and SETTINGS that cross one another never count
twice.

`HPackProofs` holds for every set of headers, every static table and every table
size. The size of a table is a recursive function of its entries, and what is
proved of it (`SizesExist`, `SizeAfterPrefix`, `SizeAfterNew`, `KeptProperties`) goes by
`Downward`, induction over an interval stated as a fact about sets. From these follow
the operations on tables: eviction leaves a prefix of the entries, frees enough or
everything, and keeps the size exact. `IndexStep` is what one insertion does to the
map. `Inv` joins them with `FieldsRight` (each field under way means its header in
the table it was encoded with) and `Chain` (the tables of the fields lead from the
decoder's to the encoder's, one decoding each); the last is why equal tables, equal
only when nothing is under way, are maintained. The size update changes nothing,
for which `Chain` needs that the size is within the limit.

`H2HandshakeProofs` holds for every capacity of the network and every finite set of
requests. `PutFacts` says what one send leaves in the buffer and puts under way,
whatever the network takes: if the first part of it fits, nothing but the second is
left, and if not all fits, the write source runs. `Inv` adds `Sourced` (nothing is in
a buffer or under way that its end did not send, so that an end that reads SETTINGS
knows that the peer sent them) and `EndSound`, what the state of an end says of both
SETTINGS, its buffer and its socket. `HandshakeGoesOn` and `OpenMeansExchanged`
follow: an open end has only requests in its buffer. `Stepped` leaves of every
action the end that takes it. `WireInOrder` needs more: an end writes a script, each unit
of which has its place (`Scripted`), and its state tells how far it is (`SaidBy`).
That nothing is acknowledged twice needs that SETTINGS that were read are not still
under way (`Delivered`).

`RequestProofs` holds the theorems of both kinds of requests.

For `H2Requests` they hold for any number of requests, connections and calls. `Inv` adds
to `Heard` what the references between the map, the connections and the requests
keep to (`Sound`): a connection that is being made has its socket, an open stream is
in the map that GOAWAY and close go through, a request holds no connection that was never made.
Without the first a listener could be added to a connection that will never call it.

For `Http1` they hold for every body of any bytes (`Http1Bounds`) and every set of cuts. `EndsOnce` needs that
a parser says at most one end, since it has stopped then (`Parsed`), and that the client knows
of an end that it was told of: it is over, and after an error its connection is gone or its
parser reads no more (`OverWhenTold`). `RequestIntact` and `ResponseIntact` look at what a parser said,
which is not inductive. `IntactInv` is: for each direction `Flow` says that there is a k such that the
parser stands k bytes into the message (`Stands`), that what is on its way is what the message has
there, and that the send buffer, as long as the sender has its socket, is the rest up to what was
handed over (`Handed`, from the counters of `HttpMessage`). A message is given by its bytes
(`ByteAt`): the head, the chunks of six bytes, the last one of five, or the body itself. `Stands` lists the states of the
parser: before, between and after the lines of the head (`InHead`), in the body (`InPlain`), in each of
the five states of a chunk (`InChunk`), or done, each with what is saved of the line at hand and what was said. The reader:
a round from such a place ends at such a place further on (`RoundForward`, one lemma for each of its
branches; `LineRead` is what `getLine` and the saved string make of a line in pieces), and so does a whole
read (`ParseForward`), unless it ends between CR and LF. The writer: headers, pieces and chunks are
what the message has next (`HeadersCarry`, `DueCarries`), so sending them lengthens the flow at its
end (`FlowHeaders`, `FlowSent`), whatever of it the socket takes. The rest of the invariant says what
`Handed` relies on: an end sends a body only if its headers announced one (`EndSound`), nothing
happens before there is a connection (`Before`), and the server answers only a request whose end it has
seen (`Answering`). For the response, `Framing` matters: it goes out plain whatever its headers say, and its parser
takes all that comes as its body.

`SslSocketProofs` holds for records and rooms of every size. The hazard is the record
that OpenSSL holds back: send counts nothing for it, `TcpConnection` keeps the bytes and
gives them again. `Booked` says that the wire, without the bytes `ahead` that
nothing was counted for, and the buffer are the bytes accepted, and that the record held back begins
where the wire ends and, with those bytes, is no longer than the buffer, if that holds something, so that a retry from the buffer is never a bad one, and none puts a byte on
the wire twice. (An application that was answered 0 may come back with less, a bad write
retry: that ends the connection.) `RecordsGoOut` is the loop of `SslHandler.send`;
`WriteResult` and `WritevResult` show what one write does, `FlushResult` what it leaves of
the buffer.

The theorems rest on the assumptions that the modules state on their constants and on nothing else.

Every invariant that a run checks is stated by a theorem, except the one of `h2_concurrency_limit`, which is false.
All liveness properties (`BlockedIsWoken`, `WriterIsTold`, `PeerLossReported`,
`HandshakeEnds`, `Answered`, `RequestEnds`, `EndIsHeard`, `InputHandedOver`,
`OutcomeTold`) rest on fairness, which the prover does not handle, and stay with TLC.

## Divergences observed

Besides the finding, the models follow the code in these places, where it does
something its authors can hardly mean. No run checks against them, because no document of
the repository promises otherwise, or because the properties except them by name.

* `H2Stream.swift:183`: a stream that was reset becomes half closed when its other
  side ends, and `verifyFrame` (line 385) then lets frames through.
* `H2Connection.swift:265`: HEADERS with the id equal to `lastStreamId` opens a
  second stream once the first is gone.
* `H2Stream.swift:352`: headers completed by CONTINUATION are never handed over; the
  test is true of every state.
* `H2Connection.swift:600`: an end that has the peer's SETTINGS but whose
  acknowledgement is still in its buffer is in the state handshake and takes the next frame for a
  violation. `HandshakeEnds` counts this as an end of the handshake.
  An end with a stream to answer (the upgraded request) may by then have one that is blocked: nobody
  calls it back, only `cbError` is called (`closed` in `H2FlowControl`).
* `TcpSocket.swift:192`: a write event between the start of the sources and `state = .open`
  suspends the write source, and a send from its callback is answered 0 without resuming it
  (`TcpSocket.swift:221-264`): its caller waits until somebody writes again (`early` in `TcpSocket`).
* `H2Connection.swift:128`: the server drops input that comes between the start
  of its sources and `setState` (`missed`).
* `H2Connection.swift:871` and `978`: neither a connection error nor the loss of the peer
  tells any request, and after the former the manager goes on handing out the connection
  (`lost`); `Socket.swift:159` drops a block for a dead socket without a word.
* `Http2Request.swift:317`, `H2Stream.swift:233`, `289` and `352`: a stream ends without a word to
  its request on headers with a bad status and END_STREAM, on a stream error found here, on trailers with
  END_STREAM and on headers completed by CONTINUATION (`EndsUntold`, `lost`).
* `HttpParser.swift:479`: `getLine` takes a byte too many if a read ends between CR and
  LF (`split`).
* `HttpHeader.swift:53`: a response never learns its own length or framing, so that
  `HttpMessage.sendData` never completes it and `onResponseComplete` is not called
  after a body; `src/Xcode/NutilSampleOSX/HttpServer.swift:36` waits for it.
* `HttpMessage.swift:43`: `sendData(nil, 0)` returns 0 both for success and for a socket that
  takes nothing.
* `Http1xRequest.swift:184`: a connect that fails is told to nobody.
* `WebSocket.swift:165`: the first write event of an accepted socket opens the server
  before any request (`early`). What it sends then may make the client drop the bytes, fail, or
  take the response for a request (`WebSocket.swift:239`: state error, socket open).
  `WebSocket.swift:227`: continuation frames are
  dropped. `WebSocket.swift:251`: the mask is applied to the caller's own buffer.
  `WSHandler.swift:261`: a frame without payload waits for the next byte.
* `SslSocket.swift:64`: `attachFd` begins no handshake, so a server over TLS has no
  `SSL` object: the first read or write fails and closes it, although
  `src/README.md` describes certificates for servers.
* `SslSocket.swift:137`: no write over TLS resumes the write source, so what is
  buffered leaves only with the next send. A flush that fails in a write
  event closes the socket and tells nobody (`silent`). A failed handshake leaves the
  socket open, and its end is told a second time later.

## Plan

1. Done: `H2Connection` and `TcpConnection`, with proofs.
2. Done: `FrameParser`, with proofs. To come: decoding and encoding of payloads.
3. Done: flow control as two parties, with proofs.
4. Done: HPACK tables of both ends, with proofs. To come: integer coding against its
   definition.
5. Done: the HTTP/2 handshake of both ends, with proofs.
6. Done: requests and `H2ConnectionMgr`. To come: bodies of requests
   (`dataList`), `Http2Response`.
7. Done: WebSocket frames and handshake.
8. Done: HTTP/1 parser and one exchange.
9. Done: TLS below a `TcpConnection`. To come: two `H2Connection`s over FIFO
   channels.

## Not modelled

Address lookup, UDP, accepting, tracing, the Huffman table and set-up of OpenSSL
are I/O or data; `AutoScoket` forwards every call to one of two sockets. Of the parts
that are modelled: `HttpParser`'s `pause` and `resume`, which nothing calls, and
lines that are not ASCII; the reuse of a connection by a second HTTP/1 exchange, and
`reset` of `TcpConnection`; the coding of HTTP/2 payloads; WebSocket lengths of
eight bytes, upgrades that are refused and frames that no end of Nutil sends;
`sslAccept`, `attachSsl` and `detachSsl`, which nothing reaches; `sync` and the
queue key that all sockets share (`Socket.swift:123`). The note of each component in
`PROJECT.json` says the same where it applies.
