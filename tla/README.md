# Verification project for msvcore2

msvcore2 is a C++ library (strings, lists, locks, threads, network, a script
interpreter, a GUI) with two servers built on it. What is concurrent in it, and
hard to test, is the storm server (`server/storm`), the light server
(`server/light`), and what they stand on: locks, threads, buffers, lists,
allocators. This project models those.

The modules state what the code does, TLC checks small instances of them, and
TLAPS proves the most important properties for every value of the constants.
`PROJECT.json` maps each definition to the lines it models and lists the runs,
the mutants (one plausible bug per property, which the run must find), the
hazards, the findings and the theorems.

## Inventory

| component | state | operations | what is hard | modules |
|---|---|---|---|---|
| locks (`crossplatform/lock.*`) | `lock`, `threadid`, the mutex; the condition | `TLock::Lock`, `UnLock`; `CLock::Wait`, `Signal` | the recursion test reads without the mutex; `Signal` holds no lock | TLock, RecursiveLock; CLock in StormRing |
| threads (`crossplatform/threads.*`) | `cottid` of each object | `StartThread`, `COTS`, `StopCot`, `RunCot` | the starter stores the id after the thread may have ended | StormStart |
| storm core (`server/storm/storm-core.*`) | slots of connections, free list, select list, `work_ring`, `select_ring_e`, epoll, counters | `StormAddSock`, poller, workers with `WorkDo`, `StormSendData`, `StormCloseSocket`, `StormEnableRead` | three kinds of threads pass a slot around, a fourth acts on it through handles | StormCore, StormWork, StormSlots |
| worker wake-up (`storm_work_ring`, `PollWait`) | `wid`, `rid`, `data`, `cond_lock`, `socket_work_lock` | write, read, is, freesz, wait, signal | unlocked single-writer ring, lost wake-ups | StormRing, WorkQueue |
| acceptor (`storm-server.h`) | ports, place in the turn | `OpenPort`, select loop, `Accept`, `NewProtoEl` | turns of 32 sockets, protocols found by name | Acceptor; StormStart, StormCore |
| send buffers (`crossplatform/send.*`) | block list with its sums; a ring with `pread`, `pwrite` | `Set`, `Get`, `Del`, `Clean`; `Write`, `Read`, `Readed`, `IsFree` | sums in three places, blocks used again, a ring filled to its last byte | SendData, ByteQueue, SendDataRing |
| receive buffer (`RecvData`, same file) | the saved rest | `Read`, `readed`, `Del`, `End` | a rest that lives through any number of passes | RecvData |
| bytes of a connection (`WorkDoSend`, `storm_work_el::send`, `StormSendData`) | `sd` and the socket | a worker and other threads send on one socket | no common lock; who may send past what waits in `sd` | StormStream |
| HTTP connection (`listen-http.h`) | phase of the request, the reply | `storm_recv`, `storm_send` | head, body and next request in any pieces, partial sends, reading switched off | HttpConnection |
| proxies (`listen-proxy.h`, `ProxyPass` of `listen-http.h`) | two connections that know each other, `static_con` | joining, relaying, ending | the partner may run, or end, before it is known | ProxyPair |
| WebSocket (`proto/websockets.cpp`) and its users | a buffer, the frame begun | `WebSocketDecodeData` and the loops around it | frames in pieces, two in one piece | WebSocket |
| statistics (`listen-http-modstate.h`) | a ring of seconds, a ring of records | add, get; `write`, `ReadDebug` | skipped seconds, a reader without the lock | SecondsRing, DebugRing |
| light server (`server/light`) | `count_connect`, the listening socket | `Listen`, a thread for each connection | a count tested without its lock, a failed `accept` | LightServer |
| lists and allocators (`list/`) | linked nodes, free lists, pointers that follow an element | `New`, `Free`, `Next` | two locks per list, nodes freed when empty | OList, AListAlloc, VoidVector |
| strings (`TString.cpp`) | blocks of a thread, a count of its strings | `New`, constructors, moves, destructors | nothing is given back until all strings are gone | ThreadString |
| storm protocols (`listen-*.h`) | one object per connection | handlers `storm_start`, `recv`, `send`, `stop`, `timeout` | what they ask of the core, in any order | their effects: Handlers of StormWork; listen_cgi in OList and SendDataRing, listen_websockets in WebSocket |
| relay, SMTP, configuration, OS layer, extensions, client protocols, memory control, script interpreters, windows and graphics, special tools, vendored code | | | | none, see *Not modelled* |

How they interact: `StormServer` starts two threads, the acceptor and the core's
poller, which starts the workers. `StormServer::Listen` calls
`StormCore::StormAddSock`; the poller and the workers share the core's lists
under `socket_free_lock` and hand slots over through the two rings; workers call
the protocol object's handlers, which call back into the core (`storm_work_el`)
or, for other connections, through `storm_socket` handles. The bytes of a pass
come through `RecvData` and leave through `SendData`. `TLock` protects all of it,
so the other modules take it as the atomic section that `RecursiveLock` promises
and `TLock` is shown to implement. Objects of connections live in an `OList`,
whose elements come from `AListAllocOList`.

## Modules

**RecursiveLock, TLock** (`lock.cpp`). `RecursiveLock` is the promise: a count
and an owner, `Acquire` and `Release`. `TLock` has one action per load and store
of `lock` and `threadid` and per call of the mutex, for threads that nest up to
`MaxDepth`. `Lock()` first tests for recursion without the mutex (`HeldBy`); the
question is whether stores of another thread can make that test succeed wrongly.

**StormStart** (`threads.cpp`, `storm-server.h`, `storm-core.h`). `COTS` of the
server and of the core in steps of one load or store; the server's thread
starts the core's and may fail to open its ports, the core's sees each place of
`threads[]`, starts workers, and becomes the poller or returns at `Run once`.

**Acceptor** (`storm-server.h`). `Listen`: the sockets of a turn, `select()`, one
`accept()` for each that is ready, the next turn. A port's protocol is a word;
`NewProtoEl` looks for registered names in it as the code does, with `rtms` and
the test of what is around it.

**StormSlots, StormWork, StormCore** (`storm-core.h`, epoll build). `StormSlots`
is the life of a slot: free, polled, queued, working, closing. `StormWork` is one
pass of `WorkDo` as sets of outcomes: what the kernel may do with the bytes, and
what a protocol handler may do (`Handlers`: send, stop or resume reading, close).
`StormCore` has the acceptor, the poller (drain of `select_ring_e`, re-arm,
`epoll_select`, `SocketPollToWork`, timeout scan), the workers (`PollWait` ..
`PollSocketAgain` or `DelSocketData`) and threads that call through handles.
A section under `socket_free_lock` is one step unless the code waits or loops in
it; then `lockBy` says who keeps it. Names: `sock`, `conn` (the item), `unkid`,
`stat` (AIFOP_POLL, AIFOP_TIME), `io` (rd, wr, AIFOP_CLOSE, bytes in `sd`),
`listed` (select list), `armed` (what epoll has), `workRing`, `sendRing`.

**WorkQueue, StormRing**. `StormCore` treats `work_ring` as a sequence.
`StormRing` justifies that: the loads and stores of `wid`, `rid` and `data`, the
condition lock, spurious wake-ups, and a refinement into the bounded queue
`WorkQueue`. The poller only writes slots that are nowhere else, which is
`Ownership` of `StormCore`.

**ByteQueue, SendData** (`send.cpp`). `SendData` keeps a list of blocks of
`BufSz` bytes with a header of `HeadSz`: `Set` fills the last block, then adds
one that is large enough; `Del` takes away blocks that are sent; three sums say
how much memory, how many bytes set and how many still waiting. `ByteQueue` is
the promise: bytes come out once, in order.

**SendDataRing** (`send.cpp`, `console.cpp`). The ring of a CGI program's output:
`PipeLine2::Process` asks `IsFree()`, which holds no lock and loads the indices
twice, then reads the program and writes; the application takes bytes and says
how many it used. `Iscont` says whether `Process` loops in a thread of its own.

**RecvData** (`send.cpp`, `WorkDoRecv`). A pass reads behind the rest of the last
one, the handler says how many bytes it has used (any number, more than there
are included), the remainder is saved. Bytes are numbered by their place in the
peer's stream.

**StormStream** (`storm-core.h`, `storm-core.cpp`). What `StormCore` leaves out
of its sends: the bytes. On one connection the worker reads `sd`, calls `send()`
and deletes from `sd` in three steps; a handler sends directly or into `sd`; apps
send under `socket_free_lock`, which the worker does not hold. `send()` takes any
part of what it is given. A byte is its source and number, a message two bytes.

**HttpConnection** (`listen-http.h`). One connection: a request's kind (short
text, file, body to take in, too large, bad), head, body and reply as counts of
bytes; `Work` is a pass of the worker with `storm_recv` and `storm_send`, `Event`
what epoll reports. The peer says its requests and reads replies in any pieces.

**ProxyPair** (`listen-proxy.h`, `listen-http.h`). Client's and server's
connection, their passes interleaved, from the call of `Connect()` until both are
gone; `static_con` with the stranger it may catch. Both programs speak when they
like. A SOCKS5 server that does so before its connection is PROXY is read by
`AnalysHead` as a client (`ReadsHead`), gets the error page and a close
(`SendError`), while `rv` keeps what it said (`hands`). `AnalysSend` does not look
at what `Connect()` gave: with `connected` FALSE descriptor 0 is added, the handle
to it is refused everywhere, and the pair ends by the timeout (`TimesOut`) of that
connection.

**WebSocket** (`websockets.cpp`, its four users). Streams of frames in any pieces
against the decoder's tests of length, and the loops that call it.

**VoidVector, AListAlloc, OList, ThreadString** (`AList.h`, `OList.h`,
`TString.cpp`). The sorted array with its binary search; `Moved` is the `memcpy` of
overlapping nodes in `Add` and `Del`, of which the C library promises nothing. The
build that is modelled is the Linux one, in which `define/sys.h:63` says
`#define memcpy memmove` for the whole program, so `Moved` is what memmove does;
in a build without that line (Windows) none of what is said here of the array
holds by the language alone, and the mutant `MovedForward` shows what breaks. The
allocator of elements out of nodes, with malloc's addresses in any order; the list with its
pointers and the two locks, one step per lock; the arena of a thread's strings.

**SecondsRing, DebugRing** (`listen-http-modstate.h`). Counts per second; records
for a debug reader, written in two `memcpy` and read without the lock.

**LightServer** (`light.h`). `Listen` and the threads of connections around
`count_connect`, `Wait` at the limit, `accept` that fails.

**MCThreads, MCData, MCProtocols** each check several modules in one run: the
variable `subject`, chosen initially, says whose behaviour it is, and the others
rest. The modules share nothing, so this is one check after another, with the
properties of each. **MCStormCore, MCSendDataRing** give constants to theirs.
**ThreadsProofs** (locks, start, wake-up ring, light server, acceptor),
**StormCoreProofs** with **StormWorldProofs** on top, **StreamProofs** (bytes of a
connection), **ProtocolsProofs** (proxies, WebSocket, HTTP), **BufferProofs** (receive
buffer, CGI's ring, statistics, temporary strings, and MCData as a whole),
**ListProofs** (OList, its allocator and the allocator's array, SendData) hold the proofs,
**DataProofs** the lemmas that several of them use.

Definitions whose comment begins with *Slip:* are used by nothing but the
mutants: each is a definition above or below it with one plausible mistake.

## Runs

| run | instance | shows |
|---|---|---|
| threads | lock: 3 threads, depth 2. start: 3 calls, 2 workers. ring: 2 slots, 2 workers, room for 1. accept: 4 ports, turns of 2, 2 peers. light: limit 2, 3 clients | exclusion, no `globalerror`, RecursiveLock, every `Lock()` returns; a thread starts once, a call that starts the server returns; the unlocked ring is a FIFO queue and no slot stays in it; connections are taken, by the protocol of their port; the count of the light server is exact and each socket is closed once |
| one_worker | the same ring with 1 worker (violation) | a wake-up is lost between `is()` and `Wait()` |
| storm_core | 2 slots, 2 connections, 2 workers | a slot is in one place; counters, items and descriptors agree with it; implements StormSlots |
| storm_slot | 1 slot used for 3 connections, 1 worker, 1 application thread, all handlers | epoll reports only polled slots, nothing queued is forgotten, a stale handle reaches nobody |
| storm_close | 1 slot, 2 connections, fairness | a close that was asked for happens |
| storm_stall | full `select_ring_e` (violation) | `StormSendData` spins under the lock the ring's reader needs |
| storm_hangup | a peer hangs up (violation) | the poller fetches a slot that a timeout has handed to a worker |
| data | an array; 4 nodes of 2 elements; 2 strings, 3 blocks; a list of 2 with 3 addresses, twice; blocks of 3 bytes; a ring of 4; two-byte messages of 3 sources; a buffer of 4 and 10 bytes; 3 seconds; 12 words of records | the containers keep what they are given, pointers follow the list, nothing is freed twice or under a reader; `SendData` is a queue of bytes; every byte goes once and in order, in and out |
| send_ring_full | a program at most 4 bytes ahead of a ring of 4 (violation) | a ring filled to its last byte reads as empty |
| protocols | http: 3 requests of 5 kinds, `send()` takes 2 bytes. websocket: 4 users, 4 streams. proxy: a byte from each side, a server that is not reached, a stranger; or two bytes of a server that may be early | replies are framed, in order, and given; each frame comes out once, whole; bytes are relayed once, in order; a pair ends together |
| http_cut_off | the same connection (violation) | a file without keep-alive loses its last bytes |
| debug_ring | records that do not divide the ring (violation) | a reader that keeps up reads what is no head |

Bounds and why they are enough: a slot's life involves one slot and at most two
workers, so two of each show every interleaving of ownership; three connections
on one slot and one descriptor number make a handle stale twice over; rings of
one make every ring full and empty; `QMax` 1 tells "bytes waiting" from "none",
which is all that the core asks. Four ports in turns of two make a turn that
stops at a socket, one that stops at the end, and empty entries between. A line
of five bytes fills a used block, a whole one and part of a third; a ring of four
turns over twice in ten bytes; a message of two bytes can be cut once, which is
what partial sends differ by; a file of seven with pieces of four and a socket of
two needs two reads and four sends; a frame of two bytes is shorter than the
decoder's least, one of ten is longer than the buffer's step. Strings of lengths
0, 2, 5 and 9 are none, share a block, fill one, and get one of their own.
`MaxConns`, `MaxCalls`, `MaxRuns`, `MaxConnect`, `MaxListens`, `MaxFailed`,
`MaxWritten`, `MaxOutput`, `MaxPeer`, `MaxAdds`, `MaxRecords`, `MaxTold`,
`MaxAsked`, `MaxSaid` and `Most` only bound the run's length. Where a system may
stop because such a bound is used up, the module has a step that rests or the
configuration says `CHECK_DEADLOCK FALSE`. `storm_core` uses symmetry of its
workers; no run with a liveness property uses any.

Some constants choose between uses of the code, and the runs show one of each.
`Iscont` FALSE: the reader calls `Process` itself, through `listen_cgi_el::Work`
(the background thread's call of it is commented out); with a reader on another
thread (TRUE) `IsFree()` may load `pread` before and after a wrap and promise
room that is not there, and `RingSound` breaks. `Pipelined` FALSE and `Patient`
TRUE: a peer waits for the whole reply before it asks again; otherwise
`storm_work_el::send` gives the next reply to the socket past the rest of the
last one in `sd`, and `InOrder` and `RepliesSound` break. `Users` is one thread:
with two, both find `cottid` 0 and `StartsOnce` breaks. All are listed as hazards.

Fairness. Threads that can go on do (WF), and a thread that waits for a lock
gets it when it is free again and again (SF): the scheduler and a pthread mutex
under finite contention. In `threads`: who holds the lock lets go, each step of
`COTS` and of its thread, the acceptor, the ring's poller (WF) and its workers
(SF, for `socket_work_lock`). In `data`, the one sweeping thread of listen_cgi.
In `protocols`, the worker, epoll's reports, a peer that reads, and the timeout of
a connection to nobody, on whose descriptor 0 no event is counted on. For
`CloseCarriedOut`, infinitely often a connection whose output is awaited becomes
writable while its peer is silent: without it a peer that keeps sending postpones
the close, as the code says (verdict 0). New connections, other timeouts, calls through
handles, and a return of a wait without a signal are never assumed.
`LiveHandlers` leaves out a handler that resumes reading in every pass, which
does keep a closing connection alive.

## Findings

* `storm_stall`: the loop on a full ring in `StormSendData` (storm-core.h:685,
  and 703) holds `socket_free_lock`; with the ring full and its reader waiting
  for that lock neither goes on.
* `storm_hangup`: EPOLLHUP and EPOLLERR cannot be disarmed; after the timeout
  scan the poller may fetch a slot that is not in the select list, which
  storm-core.h:914 calls a failure and waits for in steps of a second.
* `one_worker`: `CLock::Signal` takes no lock, so with one worker a slot may
  stay in `work_ring` until some other event comes.
* `send_ring_full`: `Process` reads as many bytes as `IsFree()` says fit, so a
  reader that is a whole ring behind lets it fill the ring; equal indices then
  mean empty and `IsRead()` (`// Max Read`) answers 0.
* `http_cut_off`: when the last piece of a file is read `storm_send` already asks
  for the close, and the pass that sends a part of what is in `sd` deletes the
  connection with the rest. The condition that would wait is in the code as a
  comment (storm-core.h:1216). The tail of an answer that a proxy relays is cut
  by the same pass.
* `debug_ring`: `storm_binary_ring::read` never moves `rid` in its loop and
  `ReadDebug` holds no lock: after the ring's first turn, or while a record is
  half written, a reader gets words that are no head.

## Proofs

Assumptions are the named `ASSUME`s of the modules: sizes are positive naturals,
the special values differ from the threads. What a theorem assumes beyond them is
in its statement.

* **ThreadsProofs**. Locks: `Exclusion`, `WriterExclusion`, `ErrorFree`, together
  `Safe`; `LockTypeCorrect`, `LockRefinement`. The invariant ties each place in the code to
  the mutex: whoever is between `StoreOwner` and `ClearOwner` owns it, and
  `threadid` names a thread only while that thread does, so another thread's
  unlocked test cannot succeed. Start: `StartsOnceHolds`, for a program with one
  thread that starts its server. The invariant: while nobody is in `COTS` of an
  object, `cottid` = 0 means that no thread of it runs; one that does is the last
  one created; the core's thread never returns, so there is at most one, and the
  window between the two loads of a place of `threads[]` is its alone.
  Wake-up ring: `RingTypeCorrect`, `RoomHolds`, `TakenOnceHolds`,
  `QueueRefinement` for any ring size of two or more and any number of workers.
  Lemmas about the remainder give the ring's contents as a sequence: the store of
  `wid` appends, the store of `rid` takes the head, the store of `data` is not
  seen. The invariant says that a slot is with the poller, in the ring or with one
  worker. Servers: `LightServerIsSound` for any limit and number of connections:
  the count is that of the threads, one more or less while its lock is held; what
  the holder has loaded is still true when it stores. `NamedProtocolHolds` for any
  set of registered protocols and words of a port: whatever `NewProtoEl` answers
  for a word that is a name, `rtms` and its test of the neighbours included, it is
  the protocol of that name. It assumes that a port's word has no space, as
  `LoadConf` splits its line there. `ThreadsTypeCorrect` is about MCThreads' `Spec`,
  from the type theorems of the parts; that of the light server says that `Listen`
  starts a thread for the socket -1 at most once each time it is called, since the
  loop it fails in ends with `stopserver`.
* **StormCoreProofs**: `TypeCorrect`, `OwnershipHolds`, `SlotsRefinement` for any
  number of slots, workers, handles and any ring sizes. The invariant `IInv` adds
  to `Ownership` where each thread's current slot is at each place of its code.
  `EventsHold` and `FetchedHolds` need a second one (what is armed is polled) and
  the assumption that nobody hangs up, which storm_hangup shows to be necessary.
* **StormWorldProofs**, each relative to `IInv` and to `Blank` (a slot in nobody's
  hands names nothing). `DescriptorsHold`: a descriptor that two slots name is
  closed in one of them, and the acceptor may hold a number that a half-closed
  slot still names. `ItemsHold`: an item is in one slot, or with one worker that
  deletes it, never both. `CountsHold`: the counters are cardinalities, so each
  step that moves a slot must find it where the counter says. `ResourcesHold` is
  the three together. `HandlesHold`: a handle's `unkid` is never ahead of its
  slot's; it assumes fewer connections than `unkid` has values, since a wrap does
  break it.
  `NothingForgottenHolds`, while nobody hangs up, is the second half: its
  invariant follows `wr` through both halves of `WorkDo`: a worker that puts a
  slot back with `wr` = 1, and so without asking for writability, has nothing
  queued and no close pending; what an app adds later the poller is told of,
  through `select_ring_e`, its hand, or the app that waits for room.
* **BufferProofs**. `RecvIsSound`, `RecvTypeCorrect` for a buffer of any size and
  any use of it: the bytes of the buffer, and of the saved rest, are consecutive
  numbers that end with the last one received; the rest is shorter than the
  buffer, so the next `recv()` has room and `Read` never refuses it.
  `RingLosesNothing` for a program that is never a whole ring ahead of its reader
  (send_ring_full shows that the assumption is necessary), and `RingIsSound` for a
  reader that calls `Process` itself (`~Iscont`, see *Runs*): the ring's cells are
  the bytes written and not read, and room that was promised is still there when
  the write comes. `SecondsAreShown`: each slot of the ring of seconds holds the
  count of the second whose number it is, or nothing. `DebugTold`: until the ring
  of records is full, `dpos` is the number of words copied, they are the records
  in order, and a reader stands before the record that follows what it was told;
  after the first turn it is not so, as debug_ring shows. `ArenaIsSound` of
  ThreadString: the bytes given out tile what the blocks have used, each string's
  are among them, and while a string lives its block does. It assumes `NoGap`: no
  length falls between the room of the first block, which is 32 bytes short, and
  the limit above which a string gets a block of its own; with such a length `fsz`
  wraps and later strings lie outside the block.
  The theorems about MCData's `Spec` put the parts together: each step of it is one
  of one part and leaves the others alone (`StepsOfParts`), so each part behaves by
  its own specification, and what is proved of that holds here:
  `StatisticsAreSound`, `AllocatorIsSound` (with `NoGap`) and `DataTypeCorrect`
  (with `NoGap`, `Ahead < N` and `~Pipelined`).
* **StreamProofs**. `BytesOnce` for any number of senders, any cuts of `send()`:
  each byte made is exactly once in what went out, in a hand or in `sd`, and
  `BytesInOrder`: the bytes of one source go out in order; the invariant says who
  may send past what waits in `sd`. Both while a peer waits for a reply before it
  asks again (`~Pipelined`).
* **ProtocolsProofs**. `BytesRelayed` of the proxy pair, for any number of bytes,
  with an early server, one that is not reached and a stranger: what one end got
  is a beginning of what the other said, and while both are open the rest is in
  `sd`, `rv` or the kernel. The invariant `ProxyInv` says more than `Relayed` of two
  things: until the pair is joined all that the client said is in the kernel, and
  in SOCKS5 nothing of the server's was passed on (`NothingYet`), so the opening
  that the handler sends comes first; and whom the handle names at each place of
  the handler (`Pairing`), so that once it names a stranger nothing is given to the
  server.
  `FramesReach` for any frames in any pieces and any buffers: what a reader has
  not given yet is, in this order, what it holds, what is in the kernel and what
  the other side has still to send; one that waits holds no whole frame, except
  where `WebSocketSound` says so.
  `RepliesAreSound` of the HTTP connection, for any requests, lengths and sizes of
  the buffers, when the peer reads the whole reply before it asks again
  (`Patient`; with one that does not, a reply does go past another, see *Runs*).
  What was given to the socket and what waits in `sd` are one reply per request, each laid out by
  its head, the last one short of `Left`. While a request waits to be read, `sd`
  is empty and the peer has all of it; so `wel.send`, which goes past `sd`, passes
  nothing that waits there. Until a body is refused, what the worker has still to
  read is a part of the last request only. `ProtocolsTypeCorrect` (of
  MCProtocols' `Spec`) puts `HttpTypeCorrect`, `WebSocketTypeCorrect` and
  `ProxyTypeCorrect` together.
* **ListProofs**: `TypeCorrect`, `PointerAliveHolds`, `UseStableHolds`,
  `FreesWhatItSawHolds`, for any number of threads, elements and pointers. The
  thread with the lock of the list has passed only pointers that are not at what
  it frees, so none is left there at the end of the loop. `Free()` compares
  addresses, and memory is used again: the invariant says that a pointer whose
  element another thread freed is before the place where an element of the same
  address can come back, so the two are never equal. The allocator:
  `NodeIsFound`, `NodesUsedHolds`, `TakesFromRoomHolds` for any sizes and any
  addresses malloc gives: the array of nodes is sorted by address, so an element
  finds the node it is in; the list of nodes with room links those that have some.
  The array of nodes: `VectorFinds`, `VectorKeepsNodes` for any addresses and any
  size it begins with: the nodes stay in the order of their addresses, and each
  turn of the search keeps the place in the part it leaves, which gets smaller.
  `SendIsSound`, `SendRefines`, `SendTypeCorrect` for blocks of any size: the sums
  are those of the blocks, and all blocks but the last are full and wait to be
  sent. `Set` starts from a last block that is emptied if it is sent up, which
  moves no byte. A new block may be short of its own head, so its bytes leave at
  most `HeadSz` over; a second one has at least that room because
  `2 * HeadSz <= BufSz`, and the third turn of the loop leaves nothing. A turn of
  `Del`'s loop takes a block off the front or is the last, since a block that is
  sent up in front of another is used up; the loop can therefore not stay at one.

TLAPS has no induction over data here, so it is done by hand where a proof needs
it (**DataProofs**): a property that fails for some natural number fails for a
least one (`NatLeast`, from the well-foundedness of the naturals), and a function
defined by recursion is shown to exist (`Recursive`) before its equations are used,
those of the library's `FlattenSeq` among them.

Only model-checked: liveness (`LockReturns`, `RestartReturns`, `SlotTaken`,
`AcceptorServes`, `CloseCarriedOut`, `CgiMarkedFreed`, `Answered`,
`EndsTogether`), which needs fairness and ENABLED and so is out of the prover's
reach. Every safety property of a passing run is a theorem, some under an
assumption that is named above and that the run's constants meet.

## Not modelled

Of the modelled components:

* Core: the branch of `StormAddSock` for a `NewSocketData` that gives no slot, which
  cannot be taken (behind the code that adds a block the free list is not empty; a
  `new` that fails throws, or its null pointer is written through); the WIN32
  branches, the select build, emulation, TLS, what the bytes mean.
  `StormEnableRead` is one step, although its change of `rd` may lose one of the
  worker's. What a send through a stale descriptor number does to the other peer.
  `StopServer` (ports stay open). A thread that cannot be created.
* HTTP: host, path and extension tables, ranges, a file that is cut short while
  it is sent, what a peer sends after a 413 (it is read as a head), the wrappers
  for JSON and XML. CGI's programs are the environment of SendDataRing.
* Proxies: replies to bad requests, but for the error page. The page is one piece,
  and where it stands among the bytes in `sd` is left out. It is assumed that no
  server's first byte is a version of SOCKS (4 or 5), that a stranger stays open,
  and that `socket()` itself does not fail with -1; the events of descriptor 0 are
  left out. `Relayed` makes no exception; `EndsTogether` excepts the behaviours in
  which the client's connection took a stranger for its partner. `listen-proxy-cache.h`
  and `listen-xml2s.h`, the relay with its rooms, are commented out of
  storm-include.h: no build has them.
* WebSocket: encoder and the client's `Connect`; frames after CLOSE. A frame of
  two to four bytes waits for the next (the decoder wants five before it looks),
  and `listen_websockets` does not look at what came with the head: `WebSocketSound`
  makes an exception of both.
* Statistics: the totals and the page's text. Seconds that were skipped, which a
  short `memset` clears by half, and the debug ring after its first turn are
  outside the properties that hold.
* Light server: `LightServer::Accept`, which says "Use child class", and parsing.
* Lists: a build whose `memcpy` is not `memmove` (see VoidVector); Sort, Search,
  `OListSingle`, and templates nothing instantiates. Strings:
  formatting and parsing; a TString that ends in another thread than it began in,
  and `USEMSV_TSTRING_NOLEAKS`, which no build sets.
* Acceptor: `LoadConf`, which fills the ports once; `select()` failing ends the
  thread, and `ConnectionsTaken` is stated while it runs.

Other components: configuration files, client protocols (a JSON and XML parser, a
bot client, libmysql) and extensions parse text or wrap services and keep no
state that two actors share. The OS layer is wrappers; memory control
(`memcon.h`) exists on Windows with DbgHelp only. Script interpreters, windows and
graphics and special tools are sequential programs of their own with other
purposes; vendored hashes and headers are not this program.

## Plan

1. *done* locks; slots and threads of the core; the wake-up ring; threads and start.
2. *done* buffers in both directions; the stream of bytes of a connection; CGI's ring.
3. *done* HTTP connection, proxies, WebSocket; statistics; light server; acceptor.
4. *done* lists and allocators; the memory of temporary strings.
5. *done* a proof of every safety property of the passing runs.
6. Open: the select build of the core; `StormEnableRead` with its two stores; SMTP.
