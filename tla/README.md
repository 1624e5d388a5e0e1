# Verification of zn-tunnel

zn-tunnel is a VPN in C++ (boost.asio, macOS): a client sends the packets of its tun
device over UDP to a server, which translates addresses and ports and puts them on the
wire through a BPF device. This directory models it in TLA+, checks the models with
TLC and proves theorems about them with TLAPS.

## The system

| part | code | state it keeps | operations |
| --- | --- | --- | --- |
| Rpc | `transmission/Rpc.h` | `_id`, `_requesting` (id -> block), `_replying` (endpoint and id -> block), per block: `remain`, timer, buffer, callback | `send`, `feed`, two timers, two send completions |
| RpcProtocol | `transmission/RpcProtocol.h` | none of its own; buffers of the pool | `connect`, `ping`, `disconnect`, `sendJson`, `_requestHandler` |
| Buffer | `BufferPool.h:17-129` | a window (`_data`, `_size`) over an array | size, shift, boundary moves, framed reads and writes |
| BufferPool | `BufferPool.h:132-184` | chunks, stack of available buffers, a mutex | `alloc`, `free`, counts |
| NAPT | `napt.h` | `_serverMap`, `_clientMap`, port range | two `find`s, `createIfNotExist`, `removeClient` |
| TunnelServer | `server/` | `sessions`, two NAPTs, `_receiveEp` | receive dispatch, packet path out, packet path in, connect, ping, disconnect |
| RawSocket | `RawSocket.h`, `impl/RawSocket` | `_reading`, descriptor, read buffer, `_readableLen`, mutex, condition variable | `start`, `stop`, reader loop, `consume`, `write` |
| packet views | `protocol/*.h` | none (views of a packet) | field access, checksums |
| ParseConfig | `impl/parser` | `settings_`: section -> key -> value | `ReadConfig`, `ReadString`, `ReadInt`, `ReadFloat` |
| Cryptor | `transmission/Cryptor.h` | key and iv; a stream that begins anew with every packet | `encrypt`, `decrypt` |
| Tunnel, logger, mains | | a descriptor; none | I/O and wrappers |

How they interact. One thread runs the `io_context` of a program: every handler of Rpc,
RpcProtocol and TunnelServer is a step of that thread, so nothing interleaves inside a
handler, and everything interleaves between two of them: a send and its completion, a
timer and a datagram. RawSocket has a thread of its own, which shares the read buffer
with the io thread under a mutex. Rpc calls back into RpcProtocol (`onRequest`,
`onComplete`), RpcProtocol into TunnelServer (`onConnect`, ...), and both take and return
buffers of one BufferPool. TunnelServer uses one NAPT for TCP and one for UDP.

What is hard. Datagrams are lost, repeated, delayed and reordered; a process may die and
start again with its ids at 1; a reply races the timer and the retransmission in flight;
ids and counters wrap (`uint16_t` ids, `int8_t remain`, `uint16_t` port scan); the NAPT
runs out of ports; the order of its client keys is not an order; two threads share the
raw socket's buffer; the same buffer can be freed twice. `hazards` in `PROJECT.json`
lists these at their lines, with the properties that cover them or the reason none does.

What makes each part correct:

- Rpc: a call ends, with its own answer or an error; never both an answer and a timeout;
  no freed block is reachable; the number of transmissions is bounded; a request in
  progress is not executed again.
- RpcProtocol, BufferPool: every buffer has one owner at a time and comes back once; a
  callback hears success only if a handler gave it.
- Buffer: the window stays inside the array; frames come out as they went in.
- NAPT: both maps agree; a connection has a way back and belongs to its client.
- TunnelServer: a packet reaches the session whose client caused it; only connected
  sessions send and receive; rewritten packets verify; an RPC packet arrives at `feed` as
  `send` made it.
- ParseConfig: what is kept of a file is what the file says.
- RawSocket: batches are delivered once, in order, never while being overwritten.

## The modules

### `Rpc.tla`: the request/reply layer

One action per handler of `Rpc.h`. A node of the model is a process with one Rpc object;
all nodes are both caller and callee, as the class is.

| model | code |
| --- | --- |
| `Send`, `SendRefused` | `send` (102-132) with the first `_onRequestTimer` it calls by hand, and its `no_buffer_space` return |
| `RequestSent`, `RequestSendFailed` | the completion of `async_send_to` in `_onRequestTimer` (206-217) |
| `RequestTimer` | the timer's call of `_onRequestTimer` (194-218) |
| `FeedRequest` | the REQUEST branch of `feed` (64-92) with `onRequest` and the first `_onReplyTimer`; the handler may decline |
| `FeedReply` | the REPLY branch of `feed` (93-99) |
| `ReplySent`, `ReplySendFailed`, `ReplyTimer` | the same three of `_onReplyTimer` (172-192) |
| `Restart` | the process dies and a new Rpc object starts |

`OnRequestTimer` and `OnReplyTimer` are the timer functions, called, as in the code, by
`send`/`feed`, by a failed send and by the timer. `Int8` is the conversion of the
`uint16_t` retry count to the `int8_t remain`.

The network is the set of all datagrams that ever left a socket; a datagram is never
removed. Delivering it late, again, before an earlier one or never are thereby all
behaviours. The content of a request is the number of the call that sent it, and the
answer to content k is k; that is all a caller could tell apart. `answers`, `errors`,
`completions` and `executed` are history: they record what the callbacks heard.

Abstractions: encryption gives back what was encrypted; a datagram leaves when its send
completes; a callback that calls `send` is a `Send` of its own after the handler.

### `RpcTimed.tla`: the timers' clock

`RpcTimed` extends `Rpc`, whose timers may expire at any time, with a clock: `Timed...` is
the action of Rpc with what it means for time. A timer runs for `Period` ticks (one
second); a copy of a datagram may arrive, any number of times, from one tick after it was
sent until `delay` ticks after; a handler runs at most `lag` ticks after its timer has
expired. `delay` and `lag` are chosen once, from `Delays` and `Lags`, so one run has fast
and slow networks, punctual and late programs, and the properties say which of them they
need. A send takes no time, as on a UDP socket. `due`, `replyDue`, `flight` are state;
`started`, `runs`, `cut`, `repeated` are history.

### `RpcService.tla`, `RpcRefinement.tla`: what Rpc promises

`RpcService` is the service a caller sees, without ids, timers and datagrams: the handler
runs only for calls made; a call hears its own answer only, after its handler ran; a
timeout excludes an answer; an error is final. `RpcRefinement` maps the state of Rpc to
it (the calls of callers that never restart) and states that Rpc implements it.

### `RpcCalls.tla`: what callbacks are told

The payloads of RpcProtocol, known by the kind of call and the error code. `SendCall`
is `connect`, `ping` or `disconnect` (85-117); `HandleCall` is `_requestHandler`
(122-163), which asks the program and puts the code into the reply block; `AnswerGoesOn`
sends it; `HearAnswer` and `CallGoesOn` run the callback of `sendJson` (64-82) and of the
call: `Heard` and `Failure` are what it makes of a reply and of an error. `connect` takes
any payload without key and iv for INVALID_INPUT, also that of its own NETWORK_ISSUE.
`given` and `told` are history.

### `Napt.tla`: the translation table

`serverMap` and `clientMap` are the two maps; `last` records the last call of
`createIfNotExist` and its result. A connection is never changed after it was filled, so
a pointer is modelled by the record it points to. `Less` is `ClientKey::operator<` as
written, and `Same`, `FindClient`, `Places`, `Removed` say what `std::map` does with it:
keys of two clients are equivalent, `find` returns the first equivalent key, and
`operator[]` any equivalent one (libstdc++ takes the first, libc++ the one nearest the
root). `Reuse`, `NoPort`, `Create` are the three ways through `createIfNotExist`
(101-142), `RemoveClient` is `removeClient` (144-161) with its `uint8_t` parameter. The
range of local ports is chosen once, from `Ranges`, by the constructor's arguments.

### `BufferPool.tla`, `RpcProtocol.tla`: buffers of requests and replies

`BufferPool` has the pool as operators on a record: the stack and the number of chunks.
`RpcProtocol` extends `Rpc` with one pool for every node and says, for every action of
Rpc, which buffer it takes or gives back: `SendJson` takes one, `HandleRequest` takes one
for the reply unless the handler declines, the callback of `sendJson` gives the request's
back (`HearReply`, and `RequestGoesOn` when it ends in an error), `ReplyGoesOn` the
reply's. alloc and free hold the pool's mutex, so each is part of its caller's step. The
buffers datagrams are received in are the caller's and are left out.

### `Buffer.tla`: the window and the frames

The window is `prefix` and `size` over `data`, an array of bytes. `SetSize`, `Shift`,
`MoveFrontBoundary`, `MoveBackBoundary`, `WriteToBack` and `ReadFromFront` are the
methods, with distances of both signs and lengths beyond the end. Bytes are modelled one
by one because a length byte and a content byte can be taken for each other. `frames` and
`header` are history: the frames written and not yet read, as long as no call has cut
into them, and the bytes put in front of them.

### `RawSocket.tla`: two threads and one buffer

The program counters `reader` and `io` stand between two statements that another thread
can tell apart: `_startRead` is `ReaderTests`, `ReaderLocks`, `ReadBegins`, `ReadFills`,
`ReadEnds`/`ReadFails`, `ReaderChecks`, `ReaderPosts`, `ReaderWaits`; a posted task is
`TaskTaken`, `TaskLocks`, `Consumes` for each packet, `TaskEnds`; `stop` is `StopReading`,
`StopClose`, `StopFree` and, from `TunnelServer::stop`, `StopContext`, on the io thread or
on any other. A task that was taken runs to its end, also when it waits for the mutex while
the context is stopped. A packet is its batch and its place; BPF headers are left out. The
deleted buffer holds `gone` at every place: `consume` delivers that, a read writes nothing
that counts, and `touched` records which thread has used it.

### `TunnelServer.tla`: sessions and translations

`sessions` is the vector, `tcpNapt` and `udpNapt` are two instances of `Napt`. A handler is
one step: `RpcConnectHandler`, `RpcDisconnectHandler`, `TransmitTcp`/`TransmitUdp`
(`_processTransmit` with `createIfNotExist`), `RawSocketPacketHandler`, `ReceiveFails`.
`start()` does not bind the handlers of RpcProtocol yet; the module has them bound to the
callbacks they are declared for, since without them there is never a session. `Rewritten`
(73-86) is the packet as it leaves: the client's own port, the server's address, and the
checksums summed up at the point where the code does. `wire` is the last such packet,
`forwarded` the packet the last step sent back to a client.

### `Checksum.tla`: the sums of `ip4.h` and `tcp.h`

Pure operators over 16-bit words, used by `TunnelServer`: `Ip4Words` and `TcpWords` are
what the loops sum up, `Sum` their total, `Folded` the folding of the carries,
`Complement` the result as a `uint16_t`. `Pairs` joins the last byte of an odd segment
with the byte of the buffer behind it, as `tcp.h:96` does. `Verifies` is the reference,
what RFC 1071 has a receiver compute. Header fields that are never rewritten are left
out of both sides.

### `ServerDispatch.tla`: the bytes of an RPC packet

`Packet` (`Rpc.h:113-118`), `OnSocketReceive` (`TunnelServer.cc:30-47`) and `Feed`
(`Rpc.h:55-59`), byte by byte. `Encrypt` and `Decrypt` are Cryptor within one block: the
byte at a place is combined with the byte of the key stream at that place, which is the
same for every packet because `Cryptor.h:46, 55` start the stream again.

### `ParseConfig.tla`: sections and settings

The operators up to `IsSetting` are `AnalyseLine` (55-92), character by character, with
the positions and lengths as the code computes them, a negative length taking the rest of
the string; `Open`, `ReadSection`, `ReadSetting`, `ReadNothing` are the steps of
`ReadConfig` (94-125), whose local `k_v` outlives a section; `ReadString` is the lookup.
`Meaning` says what a line should mean, of what it says before a comment or a carriage
return (`Said`), and is written without the code's positions;
`written` is what the file says by it so far.

## What the runs check

| run | bounds | shows |
| --- | --- | --- |
| `rpc_safety` | 2 nodes, 2 calls, 2 ids, retry 3, one restart of one node | answers, timeouts, budgets and the request map while no id is used twice; Rpc implements RpcService |
| `rpc_double_completion` | 2 nodes, 1 call | (violation) a callback runs twice |
| `rpc_timed` | 2 nodes, 1 call, retry 4, one restart of one node, a period of 5 ticks, delays up to 2 or 4, lateness up to 0 or 1 | when a request runs once and its call hears once of its end; no run after a timeout; when a call has ended |
| `rpcprotocol_pool` | 2 nodes, 2 calls on one id, retry 2, one restart, chunks of one buffer, replies heard while at most 3 buffers are available, `ProtocolFairSpec` | one owner per buffer as long as no callback runs twice; none lost; no freed block reachable when ids wrap; every call and every reply block ends |
| `rpc_calls` | 2 nodes, 2 calls on one id, retry 2, one restart, connect and ping, success and an error | success is heard only where it was given |
| `napt_safety` | 2 clients, 2 client ports, 2 servers, ports 1..2 and 2..3 of 0..3 | the maps' invariants, also when the range is full or ends at the last port |
| `napt_created` | as `napt_safety` | (violation) a client is handed another's connection |
| `server_safety` | 2 clients, 2 servers, at most 2 sessions, one port per server, 6 packets | connections name sessions, no null connection, checksums verify |
| `server_dispatch` | 2 ids, contents of 1 and 2 bytes | (violation) feed misreads what the server hands it |
| `rawsocket_safety` | 4 batches of at most 2 packets | delivery once, in order and of whole batches, nothing stranded, stop from a handler |
| `buffer_safety` | all arrays of 7 bytes of three values, frames of 0, 1 and 2 bytes, at most 3 at a time | window inside the array, frames first in first out |
| `parse_config` | all lines of up to 5 of 7 characters; files of 7 lines, two sections, two keys | regular lines are read as meant; files are kept section by section |

Why these bounds are enough. Two calls are what it takes for one answer to reach the
wrong call, and for one call's end to remove another's entry; with retry 3 a request and
a reply are each sent twice, so a retransmission can meet an answer, an error and a
timeout; one restart suffices for an id to come back. With one id (`rpcprotocol_pool`,
`rpc_calls`) the second call always overwrites the first one's entry. The properties do
not count calls, and the ones proved below hold for every number of them. In `rpc_timed`
retry 4 leaves three transmissions of a request and of a reply; a delay of 2 is less than
half a period and one of 4 less than a whole one, which are the two conditions of the
properties, and lateness 1 breaks each of them. Period, delay and lateness only matter by
such comparisons. For Napt, two ports fill up after two connections, two servers separate
the ranges, and the ids 1 and 257 are the same `uint8_t`. The server's tables each fill up
with one connection, so a third packet meets a full range; its packets have addresses
whose sums carry once and twice, even and odd contents, and a byte behind an odd one.
With chunks of one buffer every allocation beyond the first decides whether to make a
chunk; a callback that runs twice puts a buffer on the stack twice, and `MaxAvailable`
bounds how often. Two packets make a batch that can be torn; the third and fourth batch
come after tasks that found nothing. Seven bytes hold two frames and a header, or three
empty frames. Five characters are a section with a comment, or a key, the sign, a value
and what may surround them.

The runs of Rpc, RpcProtocol, RpcCalls and RpcTimed do not check for deadlock: when all
calls are made and settled and no datagram is delivered again, the system is idle, which
is no error. Nor do those of RawSocket and TunnelServer: a reader that waits, a stopped
context, a server that has crashed or receives no more take no further step in the program
either.

Fairness (`rpcprotocol_pool` only). `WF` of `RequestGoesOn(k)` and `ReplyGoesOn(n, s)`: an
asynchronous send completes, a timer of one second expires, and `io_context::run` calls
the handler. Each of these is what asio does unless the program stops. Nothing is assumed
of the network: `HandleRequest` and `HearReply` are not fair, so the properties hold when
every datagram is lost.

Conditions. What the callee remembers of a request is its reply block, which lives for a
few periods, so three properties of `rpc_timed` hold only of networks faster than the
timer: `AtMostOnce` and `NoRunAfterTimeout` need `(Budget - 1) * lag + delay < Period`,
`HeardOnce` `2 * delay < Period`, no lateness, no repetition by the network, and ids the
caller has not used before. `HeardOnce` also leaves out the callers that may restart,
which use their ids again, and the calls whose reply was given up early (`cut`): after a
handler that declined, a reply whose send failed or a restart of the callee, the next copy
of the request is answered anew. Without these TLC finds a second run or a second
callback. An answer and an error of one call count as two. `MappedUntilFreed` needs ids
that have not wrapped; `DeliveredInOrder` and `NewestDelivered` end where the deleted
buffer is used or deleted.
`WireVerifies` excludes odd segments with a byte behind
them that is not zero: for those `tcp.h:96` sums up a byte that is not part of the packet.
`LinesRead` is about `Regular` lines, and the definitions of `RegularSection`,
`RegularOther` and `RegularEnd` are the list of lines that are misread: `[` not in front,
text behind `]`, a sign in a comment, a key and its sign alone (`a=`, whose length
comes out as zero), a carriage return behind a blank. `SettingsAsWritten` is about files in
which no header comes twice and no setting comes before a header: a section that is begun
again is given the pairs of the one before it, and a setting in front of every header is
lost.

Violations. `rpc_double_completion`: `feed` leaves an answered request in `_requesting`
until its timer fires, and the callee repeats its reply every second, so a caller may hear
of an answer twice; the buffer of the request is then freed twice. `napt_created`: the
second client to send a packet is handed the first one's connection. `server_dispatch`:
the server moves the window behind the command byte and then calls `feed`, which expects
the command in front: no RPC packet is understood by it.

Three more defects are proved as what they come to, and are no properties of a run:
`OneClientCorrect` (the comparison of client keys, which `napt_created` shows),
`ParkedCorrect` (the inverted predicate of `RawSocket.h:67`: a reader that waits never
reads again) and `AnswersLost` (`TunnelServer.cc:76, 83` give a packet its client's port,
lines 150 and 158 look the answer up by the local port).

## What is proved

Every theorem holds for all values of the constants that satisfy the named assumption of
its module: there is no bound on nodes, calls, ids, restarts, ports or packets in it. The
bounds `MaxCalls`, `MaxRestarts`, `MaxBatches`, `SessionLimit` are constants of the models
and may be any number.

`RpcProofs.tla`, from `RpcAssumption`:

- `TypeCorrect`: `Spec => []TypeOK`. `TypeOK` is inductive as it stands; `Int8Range` is
  the arithmetic it rests on, and the lemmas `OnRequestTimerCases`, `OnReplyTimerCases`
  split a timer function into its outcomes once, for all proofs.
- `NoDanglingCorrect` and `AnswerIdCorrect`, from the inductive invariant `IdInv`. That
  feed looks up by id alone is safe only because every datagram, every reply block and
  every answer carries the caller and id of the call it belongs to: `NetIds`, `ReplyIds`
  and `AnswerIds` say so, and `NoneAhead` that `send` never reuses a call. A restart or a
  wrap keeps all of them, which is why these two theorems need no bound on ids.

`RpcServiceProofs.tla`, from `RpcAssumption`:

- `TransmissionCorrect`, `TimeoutCorrect`, `BudgetSpentCorrect`, from `BudgetInv`: what
  remains of a block and what it has sent add up to the budget while its datagram is on
  its way, to one more once its timer is armed; an answer sets the rest to zero, and a
  block with nothing left ends without a word at its next timer. The retry arguments that
  wrap to a negative `remain` are included: then nothing is ever sent.
- `AnswerCorrect`, `MappedCorrect`, from `UniqueInv`: while a process that stays up has
  not wrapped, its counter is ahead of the ids of its calls (`CounterAhead`), so these
  differ (`Distinct`), and the end of one call cannot remove the entry of another.
- `ServiceCorrect`: `Spec => RefinesService` when ids do not wrap (`NoWrap`, a hypothesis
  of the theorem). `ExecutedInv` says that whatever answers a call comes from a handler
  that ran; each step of Rpc is then shown to be one named action of RpcService for the
  call it is about (`CallMade`, `CallTimer`, `CallExecuted`, `CallAnswered`) or a stutter.
- `EndedToldCorrect`, from `ToldInv`: no call of a caller that stays up ends without a
  word, which is the safety side of `EventuallyCompletes`. A call still under way has a
  remainder above zero or was told of an answer already, since only an answer sets the
  remainder to zero; so the timer that finds nothing left has told the callback (`Told`).
  It needs `Budget >= 0`; for the retry arguments that leave less, `SilentCorrect` says
  what the code does: no datagram leaves, no handler runs, and no callback of a call that
  `send` took on is ever called. Its invariant is `Silent`.

`RpcExtensionProofs.tla`, the modules that extend Rpc. Each of their steps is first shown
to be one of Rpc (`CallsImplement`, `ProtocolImplement`, `TimedImplements`), so that the
invariants of Rpc hold in them as well.

- `SuccessCorrect`, from `CallsInv`: a code of success is in a reply block or a datagram
  only if a handler gave it for that call, and a callback told of success was handed the
  answer of such a call.
- `NoneLostCorrect` and `OneOwnerCorrect`, from `PoolInv`. The two need each other: a
  freed buffer is not available twice because it was owned, and owned by one; and it is
  given back to its own pool because an outstanding call's buffer stays one of its
  process's (`LiveKnown`). `AllocFacts` and `FreeFacts` are what `alloc` and `free` do.
- `EndsInTimeCorrect` and `NoRunCorrect`, from `ClockInv`: every datagram of a request
  buys a period and a lateness (`Deadline`), and a copy of a request in flight has left
  before the last of them (`RequestCopy`), a period before any timeout. With `ToldInv`
  the former gives `ToldInTimeCorrect`: after those `Budget` periods the caller has been
  told, whatever the network loses.
- `WindowEndsCorrect`, from `BlocksOnTime`: the last copy of a request arrives a delay
  after the last datagram its budget allows (`LastArrival`), and the reply block it may
  open is freed `Budget` periods later, so the callee is deaf to that endpoint and id for
  at most `(2 * Budget - 1) * (Period + lag) + delay` ticks from the call on. The bound
  is tight: within the bounds of `rpc_timed` it is reached.
- `AtMostOnceCorrect`, from `CallsRecalled`: a call that has run is remembered by a reply
  block that has been there for a period per reply sent, or it had the time to send them
  all (`Kept`, `Gone`), and then no copy of the request is left (`GoneIsLate`).
- `HeardOnceCorrect`, from `PaceInv`, each part of which assumes what it needs of the
  condition of `HeardOnce`. With no lateness a caller's datagrams leave at beats, a whole
  number of periods after `send` (`CallsPaced`, `RequestBeats`), and a callee's at a beat
  plus 1 to `delay` (`RepliesPunctual`). A reply arrives or is lost before the next
  datagram of its callee leaves, so one copy at most is in flight, and the block that
  sent it waits (`ReplyCopies`). A caller that was told of its answer waits for its next
  timer, which frees its block; that timer comes before the callee's next one
  (`CallsHearing`), because a beat of the caller lies between any two of the callee
  (`BetweenBeats`). Nor does an error follow: the answer comes while the caller's timer
  runs, with no send of its own that could fail, and leaves nothing to retry.
- `ExtensionsServe`: RpcCalls, RpcProtocol and RpcTimed implement `RpcService` as well,
  when ids do not wrap.

`BufferProofs.tla`, from `BufferAssumption`:

- `WindowCorrect` and `BufferTypeCorrect` (no run repeats the latter, nor `TypeCorrect`),
  from `WindowInv`: types, window and header support each other, since a write keeps the
  array's domain because it stays inside, and a frame's length is a number because it is
  read inside.
- `FramesCorrect` and the action property `ReadsCorrect`. `FramesIntact` compares the
  window with the encoding of all frames, a recursive function; `EncodingExists` shows by
  a least counterexample (`HasLeast`) that the function is what its equation says,
  `EncodeAppend` and `EncodeHeadTail` what a write at the back and a read at the front do
  to it, and the rest is arithmetic on the window.

`NaptProofs.tla`, from `NaptAssumption`: `NaptTypeCorrect`, `OneClientCorrect`,
`ServerMapCorrect`, `WayBackCorrect` and the action property `DisplacedCorrect`, all
from the invariant `NaptInv`. `OneClientCorrect` says what the comparison comes to: the
keys of the client map are always of one client. The parts of `NaptInv` need each other:
only because all keys are of one client does the order have a first among the keys it
takes for one (`SameHasFirst`, from `HasLeast`, the well-foundedness of the numbers), so
that `find` returns a connection at all; `removeClient` keeps the ways back because it
removes all keys or none (`RemoveClientKeeps`); and `ScanFindsFree` says when a scan may
end on a port in use, which decides whether a way back is the connection's own.

`TunnelServerProofs.tla`, from `TunnelServerAssumption` (the range of ports begins at 1
or later and ends at `MaxPort` or before, as the server's does): `ServerTypeCorrect`,
`SessionsNamed`, `CrashFree`, `AnswersLost`, `ChecksumsCorrect`, from `ServerInv`. That
no connection is null rests on what the two tables keep (`Tidy`) and on a scan always
returning a port; that connections name sessions, on sessions never being removed.
`AnswersLost` says of the source port what it comes to: as no client's port is in the
range, no answer is found. For the checksums, `FoldedIsRemainder` shows that folding the
carries keeps the remainder by 0xffff whatever the sum, and `SumType` that the loop's
sum is a number, so that adding the complement gives 0xffff for packets of any words and
length (`ComplementVerifies`).

`RawSocketProofs.tla`, from `RawSocketAssumption`: `RawTypeCorrect`, `OrderCorrect`,
`StrandedCorrect`, `NewestCorrect`, `HandlerCorrect` and the action property
`ParkedCorrect`, from `IInv`. The mutex says which thread is in the buffer (`Locks`); so
what is readable is one whole batch until `stop` deletes it (`Batch`), which a task
passes packet by packet (`Passed`), and what was delivered last is that packet or one of
an earlier batch (`Order`); before a thread uses the deleted buffer, nothing `gone` is
delivered (`Known`). `ParkedCorrect` says what the predicate of the wait comes to: a
reader waits only for a batch that only it could read (`Parked`). `stop` orders its own
steps (`Stopping`).

`ParseConfigProofs.tla`, from `ParseConfigAssumption` (lines are sequences, without the
newline `getline` takes away):

- `LinesCorrect`: AnalyseLine reads every regular line as it is meant, of any characters
  and length. `Trim` is what lies between the first and the last character that is no
  blank, so two parts of a line that hold the same such characters are trimmed to the same
  (`TrimSame`), and the code's pieces, cut by positions and lengths, are parts of the line
  themselves (`PartOfPart`). `KeyAndValue` has both sides of the first equals sign;
  `ReturnIs` and `ValueFound` say where the carriage return of a DOS file can be and that
  it does not reach the value. `SectionRead`, `SettingRead` and `OtherRead` are the three
  kinds of lines.
- `SettingsCorrect` and the action property `SettingCorrect`, for all files of regular
  lines (`LinesRegular`, their hypothesis; `MCLinesRegular` has TLC find it true of the
  run's lines). The invariant `SettingsInv` adds to the property what the loop relies on:
  that `k_v` holds the pairs of the section the file is in. It fails when a header comes
  twice, which is why the property excludes that.

Only model-checked:

- Liveness, which is out of TLAPS's reach here: `EventuallyCompletes`, `EventuallyFreed`
  and `ReplyWindowCloses` under `ProtocolFairSpec`. Of the clock of `RpcTimed` each has a
  bounded counterpart that is proved (`ToldInTimeCorrect`, `EndsInTimeCorrect`,
  `WindowEndsCorrect`): time does not pass the bound before the thing has happened. That
  time goes on is what fairness stands for.
- The three violations, which need one behaviour each.

## Plan

Two statements need a change of the models first: that a frame cut by a call is the only
one lost needs frames that are known by themselves, not as a sequence that ends with the
first cut; and a service with the codes of RpcCalls needs an abstract module of its own.

## Not modelled

- Tunnel and the tun and BPF system calls: I/O on one descriptor, with no state the
  program reads again. In `RawSocket_darwin.h` the ioctls that open the device are joined
  by `&&` although they return 0 on success, so the first success ends the chain; what
  the kernel does then is outside the code.
- The cipher, the making of keys, and the iv across blocks: Crypto++'s.
- Getters and setters of the packet views. The destination port that
  `_rawSocketPacketHandler` rewrites (`TunnelServer.cc:155, 163`) is not followed by a new
  checksum; as no answer gets there (`AnswersLost`), no property is about it.
- `_rpcPingHandler`, which changes a time stamp nothing reads, and `_removeSession`,
  which nothing calls.
- `ReadInt`, `ReadFloat`: `ReadString` followed by `atoi` and `atof`.
- The logger, Exception and the main functions: output, a class of data, and start-up.
