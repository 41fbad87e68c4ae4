# TLA+ models of the `practise` repository

The repository holds small network programs and language exercises that share
no code: three echo servers on three event libraries, a TFTP server with a
session list, an FTP-port line server, a binary tree and a number of Go
exercises. There is no documentation; the code and one unit test
(`tftp/list_test.cc`) are the reference. This directory models the programs
that keep state across events, checks them with TLC and proves the central
results with TLAPS.

## Inventory

| Part | State | Operations | What is hard | What makes it correct |
|---|---|---|---|---|
| epoll echo server (`echo/epoll`) | `session_map` of string queues, `readbuf`, epoll's ready list, socket buffers | start-up, `epoll_wait`, accept, read loop, half write of the first data, one string per `EPOLLOUT` | packets between two system calls, partial writes, edge-triggered events, -1 used as a length, `front()` of an empty queue, SIGPIPE | what comes back is what was sent, in order, nothing lost; the assertion holds; connections do not disturb each other |
| TFTP handlers (`tftp/tftp_server.c`) | one global `FILE *`, descriptors, datagrams under way | RRQ, WRQ, ACK, `handle_req` | UDP loses, repeats and reorders; signed 16-bit blocks; all sessions share the `FILE *` | block *i* of a transfer is block *i* of a file; transfers end |
| TFTP main loop | `in_buf`, receive queue | start-up, one datagram per turn | `recvfrom` unchecked, wrong descriptor in `epoll_ctl` | one session in the program's life, and that for a client that asked for it |
| session list (`tftp/list.c`) | nodes in memory | create, insert, remove, length | unlinking and freeing on reused addresses | it is the list `list.h` promises; no freed memory is used |
| libevent echo pair (`echo/libevent2`) | evbuffers, two client threads with ten connections each | connect, `read_cb`, `event_cb`, `listener_cb` | two processes, two threads, death of the peer, partial writes | bytes are conserved, traffic never stops, threads end when all their connections have |
| boost-asio echo server (`echo/boost-asio`) | sessions held by completion handlers | accept chain, read and write chain | `shared_from_this` of a `std::shared_ptr`, reads that end only at EOF, errors ignored | lifetime of a session; the accept chain goes on |
| block list (`go/custom`) | a map of slices, lists in Redis | `initSoftMap`, `getBlockedCates` | in-place deletion while iterating, repeated calls on the mutated map | the blocked categories are those all of whose entries are blocked |
| binary tree (`algorithm`) | tree of nodes | `push_data`, `preorder_print` | duplicates, a place that depends on every earlier push | it is a sorted list |
| FTP line server (`ftp/main.c`) | `buf`, one connection | accept, gets, write, read | blocking calls, the inner loop has no exit, unchecked lengths and results | lines and answers alternate, lines arrive in order; one client ever |
| Redis writer (`go/redis`) | keys in the database | SET, DEL | failure between the two, commands executed after their sender gave up, several instances | a failed run leaves at most one key behind |
| MongoDB writer, other Go, Python | none | single library calls | - | - |
| `gtest`, `libevent2-dist` | third-party | | | |

The programs do not interact, with two exceptions: any of the echo servers can
be talked to by any TCP client (in particular the libevent client, which uses
the port of the libevent server), and the session list is written for the TFTP
server, which does not use it yet.

## Modules

| Module | Models |
|---|---|
| `EchoService` | what an echo server is for: the abstract specification of `EpollEcho` and `AsioEcho` |
| `EpollEcho` | `echo/epoll/echo_server.cpp` with the kernel and its clients |
| `EpollPingPong` | the same server with clients that wait for each echo, with fairness |
| `EpollEchoProofs` | proofs about `EpollEcho` and `EpollPingPong`, with the refinement of `EchoService` |
| `AsioEcho` | `echo/boost-asio/echo_server.cpp` with asio, the kernel and its clients |
| `AsioEchoProofs` | proofs about `AsioEcho`, with the refinement of `EchoService` |
| `TftpHandlers` | the handlers of `tftp/tftp_server.c` and the state they share |
| `TftpTransfer` | the protocol: handlers, RFC 1350 clients, an unreliable network |
| `TftpNetworks` | the same on two fair networks, a reliable and a lossy one |
| `TftpMain` | `main` of `tftp/tftp_server.c` as it stands |
| `TftpProofs` | proofs about `TftpTransfer`, `TftpNetworks` and `TftpMain` |
| `SessionSeq` | the abstract list of `tftp/list.h` |
| `SessionList` | `tftp/list.c` on a heap with reused addresses |
| `SessionListProofs` | proofs about `SessionList`, with the refinement |
| `LibeventEcho` | `echo/libevent2`: server, client and the TCP between them |
| `LibeventEchoProofs` | proofs about `LibeventEcho` |
| `BlockSoft` | `go/custom/block_soft.go` with the database it reads |
| `SortedList` | the abstract list behind `algorithm/binary-tree` |
| `BinaryTree` | `algorithm/binary-tree/normal/binary-tree.cpp` |
| `BinaryTreeProofs` | proofs about `BinaryTree`: the refinement of `SortedList` |
| `FtpServer` | `ftp/main.c` with its sockets and clients |
| `FtpServerProofs` | proofs about `FtpServer` |
| `RedisChurn` | `go/redis/main.go`, several instances, with the database |
| `RedisProofs` | proofs about `BlockSoft` and `RedisChurn` |
| `MCTftp`, `MCTftpNetworks`, `MCTftpMain`, `MCLibeventEcho`, `MCBlockSoft` | values for TLC |

Operators whose comment says *faulty variant* stand next to the definition
they vary. They are plausible mistakes in the same code and are used by no
specification; each shows which property would notice the mistake.

### EpollEcho

A step of the server is one system call and the code up to the next one, since
that is where packets slip in. `pc` is the place in the loop: `"loop"` is
`epoll_wait` and the `for` over the events, `"read"` the `while` around
`read()`, `"write"` the half write of a connection's first data (lines
139-150), `"out"` the `EPOLLOUT` part (161-184). The ends are `"sigpipe"`,
`"abort"` (the assertion) and `"segv"`; `"deaf"` is the loop after a failed
start-up, which the program enters all the same (a failed `bind` leaves it listening on
a port nobody knows, which comes to the same).

Bytes are numbered by their position in the client's stream, so a
`std::string` is a run `lo..hi`, with `junk` counting foreign bytes in front
(`readbuf - 1` when `write` returned -1). Conversions keep the code's
arithmetic: -1 compared with `size()` is larger than any size and pops the
string; -1 as an offset adds a byte. A client stands for its descriptor, which
is never closed and so never reused.

External parts, modelled from how the server uses them: the edge-triggered
ready list (`rdl`, woken by arriving segments and by space that becomes free
after `SOCK_NOSPACE`), TCP buffers, FIN and RST, SIGPIPE. `front()` and `pop()`
of an empty queue are undefined; the model lets the string found there be
empty, be a byte of rubbish, or fault, and keeps the client in `ub` from then
on. Properties about a client's bytes are stated for clients outside `ub`;
`FrontDefined` shows which clients never get there.

### EchoService, AsioEcho

`EchoService` says what both servers promise: what a client has received is
the beginning of what it has sent. It has no step that takes anything back, so a
refinement also shows that nothing arrives before it was sent. A client in
`loose` is promised nothing: `EpollEcho` maps it to `ub`, `AsioEcho` to the empty
set. `LibeventEcho` does not refine it: its client echoes as well, and its equal
bytes are counted instead (`Conserved`).

In `AsioEcho` a step is a handler, or one read or write that asio makes for an
operation it has not completed. `op` is the operation a session has under way;
the handler bound to it is the only owner of the session, so `op = "none"` for
an accepted connection means that the session has been released. `async_read` has no
completion condition and a streambuf without a limit, so it completes at the end
of the stream or an error; neither handler looks at the error. `session` derives
from `boost::enable_shared_from_this` and is owned by a `std::shared_ptr`:
`shared_from_this()` throws, and nobody catches it. `owned`, which never changes,
says whether the session finds its owner: `FALSE` is this program; `TRUE` shows what the rest of the code does once the session finds its
owner. External: asio's operations and TCP.

### TftpHandlers, TftpTransfer, TftpNetworks, TftpMain

`handle_RRQ` and `handle_ACK` are the whole functions, with the failing
`fopen` that clears the global pointer, the FILE that is overwritten without
`fclose`, the overflow of `out_buf` by a full or nearly full first block (which may
abort the process), `fseek` failing on a negative block, and the descriptor
limit. `ToShort` and `ToWire` are the conversions of a block number; `Half`
stands for 2^15. A block of data is known by the file and the place it was read
from.

`main` never calls `handle_req`: `TftpTransfer` models the loop that function
is written for, and RFC 1350 clients; both are external. Datagrams stay in
`reqs` and `net` in `TftpTransfer`, so each may be received any number of
times, in any order, or never. `TftpNetworks` takes them out when they are
received, unless `lossy` (which never changes) lets the network repeat and lose
them; that is where liveness can be stated. `TftpMain` models `main` itself, which ends with
its first session because `epoll_ctl` is given the server's descriptor again; `seen` is
a history variable, the datagrams that `recvfrom` has returned. Files neither change
nor appear nor vanish while the server runs: `ServedToAsker` rests on that, as a
name that could not be opened would otherwise be served later to the sender of an
empty datagram.

### SessionSeq, SessionList

Each loop of `list.c` is one step per round, with `pindex` and `pprev` as in
the code. `nodes` and `heap` are what is allocated; a dereference of anything
else, or a second `free`, leads to `"fault"`. malloc may return any address
that is free, or fail: `create_session_list` then ends the program,
`insert_to_session_list` faults on the null pointer (`"segv"`). `chain` is a
history variable, the sequence of nodes the list should consist of; it is
never read by the code's guards except through the callers' rule that a session
is inserted once (`list_test.cc`).

### LibeventEcho

The server and the client composed: `proc` and `thread` are the two processes
and the client's threads, everything else is kept per side and connection. The
two `read_cb` are the same function, so `Read`, `Write`, `ReadEnd`,
`WriteError` and `SigPipe` are written once for both sides. `input`, `output`,
`reading` and `writing` are the bufferevent (EV_WRITE is on from its creation,
EV_READ from `bufferevent_enable`), `wire`, `link` and `err` the socket. What
libevent does around a callback (the shipped headers are of 2.0.22: an end of stream
disables reading, a failed write disables writing, a failed connect removes
both events) is external, as is the kernel. The message consists of 1024 equal
bytes, so bytes are counted and not told apart. `event_cb` prints and, for
`BEV_EVENT_CONNECTED`, writes the message; its `abort()` needs an event
libevent does not report here (timeouts are never set). A process may be killed
at any moment; when it ends, the kernel resets connections that were not
accepted or have unread bytes, and closes the others. The listener may get no
memory for a bufferevent, in which case `listener_cb` uses a null pointer and
the server ends (`"segv"`). Starting a connect is assumed to succeed
(loopback, descriptors left); its outcome is not.

### BlockSoft

`initSoftMap` is one step per Redis command, because other clients change the
lists in between (`Change`) and each command may fail; an error returns what has
been read, and the program goes on with that. Keys are model values, and
`cate_of` is what `Split` and `ParseInt` make of them: several keys can name one
category (the last one read wins), or none. A key whose list is empty does not
exist. `getBlockedCates` is one step per round of its inner loop, with the index
counted from 0 as in the code; the two ranges over the map go in any order. The
arrays behind the slices come from one `append` chain per category and are not
shared, so a slice is a sequence. The history variables `was` (every list a key
had since KEYS) and `loaded` (the map before the first deletion) are read by
properties only.

### SortedList, BinaryTree

One call of a recursive function is one step. The recursion of `push_data_aux` is
a tail call; the one of `preorder_print_aux`, an in-order walk in spite of its name, keeps
the nodes it has still to print on `stack`. `order` is a history variable: where
a node is linked below another one, it is put next to it, to the left or to the
right. The refinement maps the abstract list to the values along `order`, so a
push must put a value where it belongs at the moment it links it, and a complete
walk must print exactly `order`, whatever the shape of the tree.

### FtpServer

All calls block: a step is the return of a call, guarded by what the call waits
for. A line is known by its number, 0 is the empty line of a `gets` at the end of
the input (the `memset` before it is part of the step). A line of n characters
needs n + 3 bytes; a longer one may do no harm, hit `clifd` (`NoClient`) or end the
program. `sprintf(buf, "%s\r\n", buf)` reads what it writes, which is undefined:
the line is kept, or emptied. `said` is a history variable: the line each turn had in
`buf`, the empty one included. The first operation after a reset reports it, the
next write raises SIGPIPE, as does a write after FIN and RST (`err`).

### RedisChurn

A command is sent, executed and answered in three steps. `Do` can fail between
any two; the program then returns, and a command that was not executed yet is
lost or stays in `late`, to be executed at any later moment; there it carries the
number of its failure, since two runs may have left the same command. Several instances
share the database, may draw the same key, and may be started again. The
database is external.

## Runs

| Run | Instance | Shows |
|---|---|---|
| `epoll_stream` | 1 client, 6 bytes, `readbuf` of 2, send buffer of 3 | refinement of `EchoService`, `NothingLost`, `AssertHolds`, `SigPipeOnlyByRace` |
| `epoll_pingpong` | 3 clients, room for 2, messages up to `readbuf` | `FrontDefined`; `MessageEchoed` and `AcceptedUnlessFull` under fairness |
| `tftp_files` | 2 clients, three names, one of them missing | each client gets exactly its file while no other is asked for; offsets are right even when the shared FILE mixes files; leaked descriptors silence the server for good |
| `tftp_networks` | 1 client, block numbers of 3 bits, files of 0 to 13 full blocks (up to 3 on the lossy network) | reading on past the sign bit, starting again after the wrap, completion below it; whatever is lost, a transfer that has begun is completed, or stops one short block before its end or for want of descriptors |
| `tftp_main` | 2 clients, 3 datagrams | one transfer ever, and nobody is sent a file that only another client asked for |
| `session_list` | 4 nodes, 3 sessions | well-formedness, memory safety, refinement of `SessionSeq`, calls return |
| `libevent_echo` | 2 threads, a connection each, message of 3 bytes, sockets of 2 | the message stays whole and goes round for ever; nothing ends before its peer; threads end after the server |
| `block_soft` | 4 keys, 2 categories, 2 pieces of software, 1 change while reading | the report is the one defined in the comment, on every call; it was so in the database; calls return |
| `asio` | 2 clients, 3 bytes each, reads and send buffers of 2, with and without sessions that know their owner | the server ends at an accept or not at all, the program as it stands at its first connection (`EndsAtAccept`); otherwise: refinement of `EchoService`, no echo before the client's FIN, all of it afterwards, ended sessions spin, connections are accepted until an accept fails, and never again after that |
| `binary_tree` | 4 nodes, 3 values | refinement of `SortedList`; calls return |
| `ftp` | 2 clients, 3 lines, `buf` of 4, 2 bytes of answers, room for 1 line | lines and answers alternate, for one client ever; the client gets what was in `buf`, turn by turn; lines arrive unless the client resets the connection or a line overflows `buf` |
| `redis_churn` | 2 instances, 3 keys, 2 rounds, 3 runs | a failed run leaves at most one key behind |

The bounds are chosen so that each boundary is crossed: six bytes are three
`readbuf`s and two send buffers, so partial writes, full buffers and queues of
several strings all occur; a send buffer is never smaller than `readbuf`, as in
the kernel (4 KiB against 1024). Two clients that stream at will are beyond
TLC here; connections that share `readbuf` and `session_map` are met by
`epoll_pingpong`, and the proofs are for any number of clients. With 3-bit
block numbers the sign bit comes at block 4 and the wrap at block 8, and files
end before, at and after both; on the lossy network three full blocks are
enough for an old ACK to be served between two newer ones. Four nodes for three sessions and the head mean
that every insert after a removal reuses an address. The libevent message is
longer than a socket buffer, so both sides meet partial writes and full
buffers; one connection per thread is enough for the end of one thread while the
other goes on. The lists of `block_soft` contain the same software twice in a
row, where a deletion that does not step back goes wrong; two keys for one
category and one change are enough to make a list differ from the one KEYS saw.
Three bytes through asio chunks and send buffers of two make both a partial read
and a partial write. Four nodes with three values give every tree shape of four nodes and
force a duplicate. A `buf` of 4 holds lines of one character, so
lines of two and more overflow it; three lines for two bytes of answers leave
the program waiting in `read`. Two Redis instances with three runs let a
command of the first run be executed during the third, on a key that another
instance is using.

Deadlock is checked in `epoll_pingpong`, `block_soft` and `binary_tree`. The other runs contain states in which
the program has ended or the environment has nothing left to do.

### Fairness

`epoll_pingpong` assumes that the server process keeps running (`WF` of its
step: it is a loop around `epoll_wait` with a timeout and non-blocking calls)
and that TCP delivers what is in a send buffer. Nothing is assumed of a
client's sending, so an idle client is allowed. `tftp_networks`
assumes that a client on the lossy network repeats its last datagram and, since
any of them may be lost, strong fairness of the server receiving that datagram
and of the client receiving the block it waits for: what is sent again and
again arrives at some time. On the reliable network each of the two is sent
once and stays until it is received. `session_list` assumes only that a called
function runs. `libevent_echo` assumes that an event loop runs every handler
that is due (libevent goes through its whole active queue before it waits
again) and that TCP delivers segments and resets; nothing is assumed about
processes being started or killed, so the server may never run. `block_soft`
assumes that the program runs and that a command is answered or fails.
`asio` assumes that `io_service::run` gets to every
handler that is ready (its queue is first in, first out) and that a client takes what it is
sent; nothing is assumed of clients sending, closing or resetting. `binary_tree`
assumes that a called function runs. `ftp` assumes that a call that can return
does, and that TCP delivers; whether a line is typed is up to the user. The
other runs check safety only and assume no fairness.

### What the runs do not promise

The models contain behaviour of the code that the properties have to leave
room for: a client that sends faster than it receives can meet an empty queue
(`ub`); a reset that hits the server between two steps of an event, or after
the client's FIN, ends the server with SIGPIPE; a second TFTP client that asks
for another file changes the content of the first one's transfer; a lost last
block is never repeated because the file has been closed; beyond 2^16 blocks a
file starts again. Nothing in the repository says otherwise, so none of these is
recorded as a finding.

## Proofs

TLAPS proves, for every value of the constants that satisfies the named
assumptions:

* `EpollEchoProofs`, about the server: `TypeCorrect`, `EchoIsPrefix`, `NoByteLost`,
  `AssertionHolds`, from `EpollAssumption` (in particular a send buffer not
  smaller than `readbuf`). None of these properties is inductive. `IInv` adds
  that a reported `EPOLLOUT` still has room when the loop gets to it
  (`RoomInv`: nobody else writes to the socket, and the half write happens
  only on a socket with nothing in its buffer), that a connection without a
  session has not been answered (`FirstInv`), that queued strings fit into
  `readbuf` (`QueueInv`), and that the received bytes, the send buffer and the
  queue continue each other (`StreamInv`). `RoomInv` is why -1 never means
  EAGAIN at the two places that do not check for it.
  On top of it, `ServerEchoes` is the refinement of `EchoService`. It needs
  `CountAll` (nothing is read before it arrived, nothing queued or received before it
  was read). `QuietResetHarmless` (`SigPipeOnlyByRace`) needs `RaceAll`: a
  connection that was reset at a quiet moment has nothing to be read, so the
  server meets the reset in `read()` and drops the session before it writes.
* `EpollEchoProofs`, about clients that wait for their echo: `FrontIsDefined`
  (`FrontDefined`). `PPInv` says that a message is unread only while all before it
  has come back (`WaitInv`), that a reported or pending event of a client
  with a session is about a message not yet answered (`EventInv`), and that the
  queue holds the message of the event being handled and nothing else (`OneInv`).
  A proof of the specification with fairness, though the fairness is not used.
* `AsioEchoProofs`: `TypeCorrect`, `ServerEchoes` (the refinement of
  `EchoService`), `SilentWhileOpen` and `EndsOnlyAtAccept` (`EndsAtAccept`), from
  `AsioAssumption`. `AInv` says that received bytes, send
  buffer and `sbuf_` continue each other, but for a gap that a reset leaves in
  front of `sbuf_` (`StreamInv`), and that nothing is being written before the end of the
  client's stream (`OpenInv`). `EndInv` says that only connections taken up have an
  operation under way (`OpInv`) and that the accept chain is there while the server
  runs (`ChainInv`); with it `EndsAtAccept` is inductive.
* `TftpProofs`: `TypeCorrect`, `OffsetsAreRight`, `ContentIsRight`, from
  `TftpAssumption`. `TInv` adds that every datagram under way carries the block
  its number names and that block numbers stay below the sign bit
  (`DataInv`, `ReqInv`), and that only the last block a client has can be short
  (`RecvInv`). `ContentIsRight` needs `AskedInv` as well: the open FILE, the requests and
  the blocks under way are of files that some client has asked for, so while
  that is one file an old request served late changes nothing. `ExhaustionIsFinal` (`SilentWhenExhausted`) is an action property;
  it needs that the descriptors in use stay within the limit (`FdsInv`).
* `TftpProofs`, about the reliable network: `WrapIsExact` (`WrapsAround`), for any
  width of the block number. `WrapInv` says that one client and the server take
  turns: as long as the client is not done at most one datagram is on its way,
  it is the last one of the client or the block the client waits for, and the
  file stands right behind the last block sent whenever the next acknowledgement
  may have the sign bit and `fseek` fail (`TurnsInv`). The block numbers are reasoned about through
  the uniqueness of quotient and remainder (`RemainderUnique`, `WireSucc`, `NextOnWire`).
* `TftpProofs`, about `main`: `OneTransfer` (`OneTransferEver`). `MInv` says that nothing
  has been opened or sent while the loop runs: the turn that begins a transfer is
  the last. `StaleRequestHarmless` (`ServedToAsker`) adds `StaleInv`: once a request has been
  read, what `in_buf` holds while the loop runs cannot be opened, so an empty
  datagram that has it handled again changes nothing.
* `FtpServerProofs`: `LinesAndAnswers` (`InStep`), `LinesKeepOrder` (`LinesInOrder`)
  and `OneClient` (`OneClientEver`), from `FtpAssumption`. `FInv` says that
  `clifd` is the one client accepted (`LoopInv`) and that this client, unless
  it was reset, has been handed exactly one line per turn (`ClientInv`), so that
  received lines and send buffer together are a beginning of the history `said`
  (`InOrder`).
* `SessionListProofs`: `ListWellFormed`, `ListMemorySafe` and
  `ListImplementsSeq`, from `ListAssumption`. `ListInv` adds that the list owns
  its sessions, each once (`OwnInv`), and that a loop that has gone *k* rounds
  stands at node *k* + 1, with `pprev` one behind and the session not yet seen
  (`LoopInv`). The refinement maps the abstract list to the `value` fields along
  the chain; `insert_to_session_list`, the unlinking round of
  `remove_from_list` and the last round of `get_list_length` are its steps.
  `LoopsAdvance` (`WalksForward`) is the safety half of `CallsReturn`: a round ends the call
  or passes one more of the finitely many nodes of the list.
* `LibeventEchoProofs`: `TypeCorrect`, `MessageConserved` and
  `NothingEndsFirst`, from `LibeventAssumption`. `LInv` adds that there are no
  bytes before a client is connected and that only connections the server has
  heard of are open (`BytesInv`, `OpenInv`), that a FIN, a reset or a pending
  error means that the peer is gone (`LinkInv`: this is why SIGPIPE comes second),
  and that a client still reads unless it was refused or lost the server
  (`ReadInv`: this is what keeps `event_base_dispatch` from returning).
* `RedisProofs`, about `BlockSoft`: `ReportIsRight` and `ReportIsFresh`, from
  `BlockSoftAssumption`. `BInv` adds that the lists in the map lose nothing but
  blocked software (`MapInv`), that the list in the loop is clean below the
  index and lists the range has left are clean (`LoopInv`, `DoneInv`), and that
  what was loaded was in the database after KEYS (`LoadInv`).
  `CallGetsShorter` (`CallShrinks`) is the safety half of `CallReturns`: the loop that deletes
  and steps back always has less in front of it, and the range around it a
  category fewer.
* `RedisProofs`, about `RedisChurn`: `ChurnLeavesLittle` (`OneKeyPerFailure`), from `RedisAssumption`,
  for any number of instances, keys, rounds and runs. Counting the keys of the
  rounds under way would not be inductive, as instances share keys. `RemainInv`
  counts `Remains` instead: the keys nobody answers for, where an instance
  answers for its key from the execution of SET to that of DEL (`Owners`), and the keys of
  SETs that may still be executed. Only `Error` adds to it, and only one key.
* `BinaryTreeProofs`: `TreeImplementsSorted` (`ImplementsSorted`), from `TreeAssumption`,
  for trees of any shape and size, without an induction over trees: by `TreeInv`
  every subtree is a stretch of the history `order`, from `lo[n]` to `hi[n]` (`SpanInv`);
  a descent has everything smaller to the left and everything larger to the
  right of the stretch it stands at (`PushInv`), so where it ends is where the
  value belongs; and the printer has printed what is before its stretch, and
  the nodes on its stack delimit the stretches that are left (`PrintInv`).
  `PrinterAdvances` (`WalkAdvances`) and `DescentNarrows` (`PushNarrows`) are the safety half
  of `CallsReturn`: the printer needs two steps per node, and a descent stands
  at a shorter stretch after every call.

Only model-checked: everything with fairness (`MessageEchoed`,
`AcceptedUnlessFull`, `Completes`, `ProgressWhileOpen`,
`CallsReturn`, `NeverStops`, `ThreadsEnd`, `CallReturns`, `HalfClosedEchoed`,
`EndedSessionSpins`, `AcceptedWhileChained`, `LineArrives`), which is outside
the prover's reach. Every other property of a run is proved.

## Plan

1. Done: every program of the repository that keeps state has its module, its
   run and its proofs; every safety property and every refinement that is
   checked is proved as well.
2. Left: the safety halves of more liveness properties, as for `WalksForward`,
   `CallShrinks`, `WalkAdvances` and `PushNarrows`: that the bytes a client of an
   echo server waits for are never without the step that moves them on.

## Not modelled

The exercises that call one library function and print the result (`go/json`,
`go/os`, `go/url`, `go/xml`, `go/regexp`, `go/strconv`, `go/test`,
`go/http_server`, `python/js.py`) have no state and no algorithm. The MongoDB
writer (`go/mongo`) sends one upsert and ends; run again it sends the same one.
`gtest` and `libevent2-dist` are third-party code, used as they are: they are
nearly all of the repository's lines (about 45,000 of 46,000), and of the
roughly 1,300 that are the repository's own, the stateful ones are modelled. In the modelled programs the
following is left out: output on the console, changes to the files the TFTP server sends, failing `malloc` outside
`list.c` and `listener_cb`, signals other than SIGPIPE, the overflow of `file_name` by a long name
in an RRQ, and `send_error`, `free_session` and `class session` of the epoll
server, which are empty or never used. Memory and descriptors that are merely
leaked (the `cli_addr` of a removed session, bufferevents that are never freed
after their connection has ended) are not counted, except for the descriptors
of the TFTP server, which runs out of them (`SilentWhenExhausted`).
