------------------------------ MODULE EpollEcho ------------------------------
(***************************************************************************)
(* The single-threaded echo server of echo/epoll/echo_server.cpp, together *)
(* with the part of the kernel it talks to (TCP sockets, an edge-triggered *)
(* epoll instance) and its clients.                                        *)
(*                                                                         *)
(* A step of the server is one system call and the code up to the next     *)
(* one, because that is where packets of a client can slip in between.     *)
(*                                                                         *)
(* The bytes a client sends are numbered 1, 2, 3, ... by their position in *)
(* its stream.  A std::string of the program is a run lo..hi of that       *)
(* stream, possibly behind some bytes that never came from the client.     *)
(*                                                                         *)
(* The server never closes a descriptor it accepted, so descriptors are    *)
(* never reused and a client stands for its descriptor.                    *)
(***************************************************************************)
EXTENDS Integers, Sequences, FiniteSets

CONSTANTS
  Clients,     \* clients, and the descriptors of their connections
  listenfd,    \* the listening socket
  BufSize,     \* sizeof readbuf (1024 in the code)
  SndCap,      \* capacity of a socket's send buffer
  MAX_EVENTS,  \* size of the events array
  MaxFds,      \* connections the descriptor table has room for
  MaxSend      \* bound: bytes a client sends

ASSUME EpollAssumption ==
  /\ listenfd \notin Clients
  /\ BufSize \in Nat \ {0}
  /\ SndCap \in Nat /\ SndCap >= BufSize   \* a send buffer is 4 KiB at least
  /\ MAX_EVENTS \in Nat \ {0}
  /\ MaxFds \in Nat
  /\ MaxSend \in Nat

VARIABLES
  \* the server process
  pc,        \* where it is, or how it ended
  cur,       \* events[i].data.fd of the event being handled
  events,    \* reported and not yet handled: descriptor -> event mask
  readbuf,   \* what the last read() left in readbuf
  mapped,    \* keys of session_map
  data_buf,  \* the strings queued in session_map[fd]
  deficit,   \* pop() calls the queue took while it was empty
  ub,        \* clients whose empty queue was asked for its front()
  \* the kernel
  conn,      \* the connection's place in the server
  sent,      \* bytes the client's packets put into the receive buffer
  rd,        \* bytes read() took out of it
  link,      \* FIN and RST received
  err,       \* connections with an error not reported yet
  out,       \* the send buffer
  nospace,   \* SOCK_NOSPACE: somebody wants to know about free space
  rdl,       \* epoll's ready list
  \* the clients
  got,       \* bytes the client received
  \* history
  raced      \* clients whose RST came at a moment that is not quiet

serverVars == <<pc, cur, events, readbuf, mapped, data_buf, deficit, ub>>
kernelVars == <<conn, sent, rd, link, err, out, nospace, rdl>>
vars == <<serverVars, kernelVars, got, raced>>

Fds == Clients \cup {listenfd}
Masks == SUBSET {"EPOLLIN", "EPOLLOUT"}

MinOf(a, b) == IF a <= b THEN a ELSE b

-----------------------------------------------------------------------------
(* Strings: bytes lo..hi of the stream behind junk foreign bytes.          *)

Strings == [junk : Nat, lo : Nat, hi : Nat]
Run(lo, hi) == [junk |-> 0, lo |-> lo, hi |-> hi]
Size(s) == s.junk + (s.hi + 1 - s.lo)
\* Byte i of string s; a foreign byte is 0.
Byte(s, i) == IF i <= s.junk THEN 0 ELSE s.lo + (i - s.junk) - 1
\* std::string::erase(0, n), and std::string(readbuf + n, ...)
Drop(s, n) ==
  IF n <= s.junk
  THEN [junk |-> s.junk - n, lo |-> s.lo, hi |-> s.hi]
  ELSE Run(s.lo + (n - s.junk), s.hi)

-----------------------------------------------------------------------------
(* The kernel, as the server uses it.                                      *)

Running == pc \in {"loop", "read", "write", "out"}

Reset(c) == link[c] \in {"rst", "finrst"}

\* Linux reports a TCP socket writable while a third of its buffer is free.
WritableWith(c, used) == Reset(c) \/ 2 * (SndCap - used) >= used
Writable(c) == WritableWith(c, Len(out[c]))

\* What polling the descriptor of client c shows.
Poll(c) ==
  {e \in {"EPOLLIN", "EPOLLOUT"} :
     \/ e = "EPOLLIN" /\ (sent[c] > rd[c] \/ link[c] # "open")
     \/ e = "EPOLLOUT" /\ Writable(c)}

\* Descriptors epoll_wait has on its list; the listening socket is
\* level-triggered.
Backlog == {c \in Clients : conn[c] = "backlog"}
\* (faulty variant: the listening socket registered edge-triggered)
ListedEdge == rdl \cup (IF Cardinality(Backlog) = 1 THEN {listenfd} ELSE {})

Listed == rdl \cup (IF Backlog # {} THEN {listenfd} ELSE {})

\* Client c's registered descriptor is put on the ready list.
Wake(c) == IF conn[c] = "accepted" THEN rdl \cup {c} ELSE rdl

\* write() raises SIGPIPE on a connection whose reset is no news any more,
\* or that was reset after the client had closed its side (EPIPE).
Kills(c) == link[c] = "finrst" \/ (link[c] = "rst" /\ c \notin err)

\* The value write() returns for n bytes: -1 is EAGAIN or ECONNRESET.
nwrite(c, n) ==
  IF Reset(c) \/ (n > 0 /\ Len(out[c]) = SndCap)
  THEN -1
  ELSE MinOf(n, SndCap - Len(out[c]))

\* What write(c, s, n) does to the socket when it does not kill the server.
SocketWrite(c, s, n) ==
  LET nw == nwrite(c, n)
  IN  /\ out' = IF nw > 0
                THEN [out EXCEPT ![c] = @ \o [i \in 1..nw |-> Byte(s, i)]]
                ELSE out
      /\ err' = err \ {c}
      /\ nospace' = IF ~Reset(c) /\ nw < n THEN nospace \cup {c} ELSE nospace

-----------------------------------------------------------------------------
Init ==
  /\ pc = "setup"
  /\ cur = listenfd
  /\ events = [fd \in Fds |-> {}]
  /\ readbuf = Run(1, 0)
  /\ mapped = {}
  /\ data_buf = [c \in Clients |-> <<>>]
  /\ deficit = [c \in Clients |-> 0]
  /\ ub = {}
  /\ conn = [c \in Clients |-> "new"]
  /\ sent = [c \in Clients |-> 0]
  /\ rd = [c \in Clients |-> 0]
  /\ link = [c \in Clients |-> "open"]
  /\ err = {}
  /\ out = [c \in Clients |-> <<>>]
  /\ nospace = {}
  /\ rdl = {}
  /\ got = [c \in Clients |-> <<>>]
  /\ raced = {}

\* socket ... epoll_ctl(listenfd).  A call that fails is reported and the
\* program goes on to its loop, where no client can reach it.
Setup ==
  /\ pc = "setup"
  /\ pc' \in {"loop", "deaf"}
  /\ UNCHANGED <<cur, events, readbuf, mapped, data_buf, deficit, ub,
                 kernelVars, got, raced>>

\* (faulty variant: the clients' sockets registered without EPOLLET)
EpollWaitLevel ==
  /\ pc = "loop"
  /\ \A fd \in Fds : events[fd] = {}
  /\ \E S \in SUBSET Listed :
       /\ S # {}
       /\ Cardinality(S) = MinOf(MAX_EVENTS, Cardinality(Listed))
       /\ events' = [fd \in Fds |->
                       IF fd \notin S THEN {}
                       ELSE IF fd = listenfd THEN {"EPOLLIN"} ELSE Poll(fd)]
  /\ UNCHANGED <<pc, cur, readbuf, mapped, data_buf, deficit, ub,
                 conn, sent, rd, link, err, out, nospace, rdl, got, raced>>

\* epoll_wait: takes up to MAX_EVENTS descriptors off the list and reports
\* those on which something is ready now.
EpollWait ==
  /\ pc = "loop"
  /\ \A fd \in Fds : events[fd] = {}
  /\ \E S \in SUBSET Listed :
       /\ S # {}
       /\ Cardinality(S) = MinOf(MAX_EVENTS, Cardinality(Listed))
       /\ events' = [fd \in Fds |->
                       IF fd \notin S THEN {}
                       ELSE IF fd = listenfd THEN {"EPOLLIN"} ELSE Poll(fd)]
       /\ rdl' = rdl \ S
       /\ nospace' = nospace \cup {c \in S \cap Clients : ~Writable(c)}
  /\ UNCHANGED <<pc, cur, readbuf, mapped, data_buf, deficit, ub,
                 conn, sent, rd, link, err, out, got, raced>>

\* epoll_wait with nothing ready returns 0 after 1000 ms.
EpollTimeout ==
  /\ \/ pc = "deaf"
     \/ pc = "loop" /\ Listed = {} /\ \A fd \in Fds : events[fd] = {}
  /\ UNCHANGED vars

\* accept on the listening socket.  The last two cases are a failing
\* fcntl (the descriptor stays open and unregistered) and a full table.
Accept ==
  /\ pc = "loop"
  /\ "EPOLLIN" \in events[listenfd]
  /\ events' = [events EXCEPT ![listenfd] = {}]
  /\ IF Cardinality({c \in Clients : conn[c] \in {"accepted", "orphan"}}) < MaxFds
     THEN \E c \in Backlog :
            \/ /\ conn' = [conn EXCEPT ![c] = "accepted"]
               /\ rdl' = rdl \cup {c}
            \/ /\ conn' = [conn EXCEPT ![c] = "orphan"]
               /\ UNCHANGED rdl
     ELSE UNCHANGED <<conn, rdl>>
  /\ UNCHANGED <<pc, cur, readbuf, mapped, data_buf, deficit, ub,
                 sent, rd, link, err, out, nospace, got, raced>>

\* The for loop turns to the event of client c.
NextEvent(c) ==
  /\ pc = "loop"
  /\ events[c] # {}
  /\ cur' = c
  /\ pc' = IF "EPOLLIN" \in events[c] THEN "read" ELSE "out"
  /\ UNCHANGED <<events, readbuf, mapped, data_buf, deficit, ub,
                 kernelVars, got, raced>>

\* The server is through with the event of c.
Done(c) ==
  /\ pc' = "loop"
  /\ events' = [events EXCEPT ![c] = {}]

\* std::queue::push; a queue that was popped while empty swallows it.
Push(c, s) ==
  IF deficit[c] > 0
  THEN /\ deficit' = [deficit EXCEPT ![c] = @ - 1]
       /\ UNCHANGED data_buf
  ELSE /\ data_buf' = [data_buf EXCEPT ![c] = Append(@, s)]
       /\ UNCHANGED deficit

\* std::queue::pop
Pop(c) ==
  IF data_buf[c] = <<>>
  THEN /\ deficit' = [deficit EXCEPT ![c] = @ + 1]
       /\ UNCHANGED data_buf
  ELSE /\ data_buf' = [data_buf EXCEPT ![c] = Tail(@)]
       /\ UNCHANGED deficit

\* (faulty variant: read asked for more than sizeof readbuf)
ReadDataLarge(c) ==
  /\ pc = "read" /\ cur = c
  /\ sent[c] > rd[c]
  /\ LET s == Run(rd[c] + 1, sent[c])
     IN  /\ rd' = [rd EXCEPT ![c] = sent[c]]
         /\ readbuf' = s
         /\ IF c \in mapped
            THEN Push(c, s) /\ UNCHANGED pc
            ELSE pc' = "write" /\ UNCHANGED <<data_buf, deficit>>
  /\ UNCHANGED <<cur, events, mapped, ub,
                 conn, sent, link, err, out, nospace, rdl, got, raced>>

\* read returned data: the first data of a connection is answered at once,
\* anything later is queued.
ReadData(c) ==
  /\ pc = "read" /\ cur = c
  /\ sent[c] > rd[c]
  /\ LET nread == MinOf(BufSize, sent[c] - rd[c])
         s     == Run(rd[c] + 1, rd[c] + nread)
     IN  /\ rd' = [rd EXCEPT ![c] = @ + nread]
         /\ readbuf' = s
         /\ IF c \in mapped
            THEN Push(c, s) /\ UNCHANGED pc
            ELSE pc' = "write" /\ UNCHANGED <<data_buf, deficit>>
  /\ UNCHANGED <<cur, events, mapped, ub,
                 conn, sent, link, err, out, nospace, rdl, got, raced>>

\* (faulty variant: the session survives the error)
ReadErrorKeeps(c) ==
  /\ pc = "read" /\ cur = c
  /\ sent[c] = rd[c]
  /\ link[c] = "rst" /\ c \in err
  /\ err' = err \ {c}
  /\ UNCHANGED <<pc, cur, events, readbuf, mapped, data_buf, deficit, ub,
                 conn, sent, rd, link, out, nospace, rdl, got, raced>>

\* read returned -1 for another reason than EAGAIN: the session goes, the
\* descriptor stays, and the loop reads again.
ReadError(c) ==
  /\ pc = "read" /\ cur = c
  /\ sent[c] = rd[c]
  /\ link[c] = "rst" /\ c \in err
  /\ err' = err \ {c}
  /\ mapped' = mapped \ {c}
  /\ data_buf' = [data_buf EXCEPT ![c] = <<>>]
  /\ deficit' = [deficit EXCEPT ![c] = 0]
  /\ UNCHANGED <<pc, cur, events, readbuf, ub,
                 conn, sent, rd, link, out, nospace, rdl, got, raced>>

\* (faulty variant: "else if" in front of the EPOLLOUT test)
ReadBreakElse(c) ==
  /\ pc = "read" /\ cur = c
  /\ sent[c] = rd[c]
  /\ ~(link[c] = "rst" /\ c \in err)
  /\ Done(c)
  /\ UNCHANGED <<cur, readbuf, mapped, data_buf, deficit, ub,
                 kernelVars, got, raced>>

\* read returned 0 (end of the stream) or EAGAIN: on to EPOLLOUT.
ReadBreak(c) ==
  /\ pc = "read" /\ cur = c
  /\ sent[c] = rd[c]
  /\ ~(link[c] = "rst" /\ c \in err)
  /\ IF "EPOLLOUT" \in events[c]
     THEN pc' = "out" /\ UNCHANGED events
     ELSE Done(c)
  /\ UNCHANGED <<cur, readbuf, mapped, data_buf, deficit, ub,
                 kernelVars, got, raced>>

\* (faulty variant: all of readbuf is queued behind its first half)
FirstWriteRepeats(c) ==
  /\ pc = "write" /\ cur = c
  /\ ~Kills(c)
  /\ SocketWrite(c, readbuf, Size(readbuf) \div 2)
  /\ Push(c, readbuf)
  /\ mapped' = mapped \cup {c}
  /\ pc' = "read"
  /\ UNCHANGED <<cur, events, readbuf, ub, conn, sent, rd, link, rdl, got, raced>>

\* write of the first half of the first data; the rest is queued.  With -1
\* the queued string starts one byte in front of the buffer.
FirstWrite(c) ==
  /\ pc = "write" /\ cur = c
  /\ ~Kills(c)
  /\ LET half == Size(readbuf) \div 2
         nw   == nwrite(c, half)
     IN  /\ SocketWrite(c, readbuf, half)
         /\ Push(c, IF nw = -1 THEN [junk |-> 1, lo |-> readbuf.lo, hi |-> readbuf.hi]
                               ELSE Drop(readbuf, nw))
  /\ mapped' = mapped \cup {c}
  /\ pc' = "read"
  /\ UNCHANGED <<cur, events, readbuf, ub, conn, sent, rd, link, rdl, got, raced>>

\* EPOLLOUT without a session: continue.
OutSkip(c) ==
  /\ pc = "out" /\ cur = c
  /\ c \notin mapped
  /\ Done(c)
  /\ UNCHANGED <<cur, readbuf, mapped, data_buf, deficit, ub,
                 kernelVars, got, raced>>

\* (faulty variant: a string written in part is popped)
WriteFrontPops(c, s) ==
  /\ ~Kills(c)
  /\ SocketWrite(c, s, Size(s))
  /\ Done(c)
  /\ Pop(c)
  /\ UNCHANGED <<cur, readbuf, mapped, conn, sent, rd, link, rdl, got, raced>>

\* write of the string s at the front of the queue.  -1 compares, as an
\* unsigned number, larger than any size and so pops the string.
WriteFront(c, s) ==
  LET nw == nwrite(c, Size(s))
  IN  /\ ~Kills(c)
      /\ SocketWrite(c, s, Size(s))
      /\ IF nw > BufSize                      \* assert(nwrite <= 1024)
         THEN pc' = "abort" /\ UNCHANGED <<events, data_buf, deficit>>
         ELSE /\ Done(c)
              /\ IF nw \in 0..(Size(s) - 1)
                 THEN /\ data_buf' = IF data_buf[c] = <<>> THEN data_buf
                                     ELSE [data_buf EXCEPT ![c][1] = Drop(s, nw)]
                      /\ UNCHANGED deficit
                 ELSE Pop(c)
      /\ UNCHANGED <<cur, readbuf, mapped, conn, sent, rd, link, rdl, got, raced>>

\* EPOLLOUT with something queued: one string per event.
OutWrite(c) ==
  /\ pc = "out" /\ cur = c
  /\ c \in mapped
  /\ data_buf[c] # <<>>
  /\ WriteFront(c, Head(data_buf[c]))
  /\ UNCHANGED ub

\* EPOLLOUT with an empty queue: front() is undefined.  The slot holds an
\* uninitialised string, which is empty, or a byte of rubbish, or faults.
OutUndefined(c) ==
  /\ pc = "out" /\ cur = c
  /\ c \in mapped
  /\ data_buf[c] = <<>>
  /\ ub' = ub \cup {c}
  /\ \/ \E n \in 0..1 : WriteFront(c, [junk |-> n, lo |-> 1, hi |-> 0])
     \/ /\ pc' = "segv"
        /\ UNCHANGED <<cur, events, readbuf, mapped, data_buf, deficit,
                       kernelVars, got, raced>>

\* Either write on a dead connection: SIGPIPE ends the process.
SigPipe(c) ==
  /\ cur = c
  /\ \/ pc = "write"
     \/ pc = "out" /\ c \in mapped
  /\ Kills(c)
  /\ pc' = "sigpipe"
  /\ UNCHANGED <<cur, events, readbuf, mapped, data_buf, deficit, ub,
                 kernelVars, got, raced>>

Server ==
  \/ EpollWait \/ EpollTimeout \/ Accept
  \/ \E c \in Clients :
       \/ NextEvent(c)
       \/ ReadData(c) \/ ReadError(c) \/ ReadBreak(c)
       \/ FirstWrite(c)
       \/ OutSkip(c) \/ OutWrite(c) \/ OutUndefined(c)
       \/ SigPipe(c)

-----------------------------------------------------------------------------
(* The clients and the network.                                            *)

\* The handshake completes and the connection waits for accept.
Connect(c) ==
  /\ Running
  /\ conn[c] = "new"
  /\ conn' = [conn EXCEPT ![c] = "backlog"]
  /\ UNCHANGED <<serverVars, sent, rd, link, err, out, nospace, rdl, got, raced>>

Established(c) == conn[c] # "new"

\* A segment of n bytes arrives.
Arrive(c, n) ==
  /\ Running
  /\ Established(c) /\ link[c] = "open"
  /\ sent[c] + n <= MaxSend
  /\ sent' = [sent EXCEPT ![c] = @ + n]
  /\ rdl' = Wake(c)
  /\ UNCHANGED <<serverVars, conn, rd, link, err, out, nospace, got, raced>>

\* The client's FIN arrives; it may still receive.
ArriveFin(c) ==
  /\ Running
  /\ Established(c) /\ link[c] = "open"
  /\ link' = [link EXCEPT ![c] = "fin"]
  /\ rdl' = Wake(c)
  /\ UNCHANGED <<serverVars, conn, sent, rd, err, out, nospace, got, raced>>

\* Nothing of c is unread and the server is not busy with c.
Quiet(c) ==
  /\ link[c] = "open"
  /\ sent[c] = rd[c]
  /\ events[c] = {}

\* The client's RST arrives: what is in the send buffer is lost.
ArriveRst(c) ==
  /\ Running
  /\ Established(c) /\ ~Reset(c)
  /\ link' = [link EXCEPT ![c] = IF @ = "open" THEN "rst" ELSE "finrst"]
  /\ err' = err \cup {c}
  /\ out' = [out EXCEPT ![c] = <<>>]
  /\ rdl' = Wake(c)
  /\ raced' = IF Quiet(c) THEN raced ELSE raced \cup {c}
  /\ UNCHANGED <<serverVars, conn, sent, rd, nospace, got>>

\* The client receives the first n bytes of the send buffer, which tells a
\* waiting writer once the socket is writable again.
Deliver(c, n) ==
  /\ Running
  /\ n \in 1..Len(out[c])
  /\ got' = [got EXCEPT ![c] = @ \o SubSeq(out[c], 1, n)]
  /\ out' = [out EXCEPT ![c] = SubSeq(@, n + 1, Len(@))]
  /\ IF c \in nospace /\ WritableWith(c, Len(out[c]) - n)
     THEN rdl' = Wake(c) /\ nospace' = nospace \ {c}
     ELSE UNCHANGED <<rdl, nospace>>
  /\ UNCHANGED <<serverVars, conn, sent, rd, link, err, raced>>

Environment ==
  \E c \in Clients :
    \/ Connect(c)
    \/ \E n \in 1..MaxSend : Arrive(c, n)
    \/ ArriveFin(c) \/ ArriveRst(c)
    \/ \E n \in 1..SndCap : Deliver(c, n)

Next == Setup \/ Server \/ Environment

Spec == Init /\ [][Next]_vars

-----------------------------------------------------------------------------
(* What the server promises its clients.                                   *)

Ends == {"sigpipe", "abort", "segv"}

\* The types of the variables of echo_server.cpp and of its sockets.
TypeOK ==
  /\ pc \in {"setup", "deaf", "loop", "read", "write", "out"} \cup Ends
  /\ cur \in Fds
  /\ events \in [Fds -> Masks]
  /\ readbuf \in Strings
  /\ mapped \subseteq Clients
  /\ data_buf \in [Clients -> Seq(Strings)]
  /\ deficit \in [Clients -> Nat]
  /\ ub \subseteq Clients
  /\ conn \in [Clients -> {"new", "backlog", "accepted", "orphan"}]
  /\ sent \in [Clients -> Nat]
  /\ rd \in [Clients -> Nat]
  /\ link \in [Clients -> {"open", "fin", "rst", "finrst"}]
  /\ err \subseteq Clients
  /\ out \in [Clients -> Seq(Nat)]
  /\ nospace \subseteq Clients
  /\ rdl \subseteq Clients
  /\ got \in [Clients -> Seq(Nat)]
  /\ raced \subseteq Clients

\* Bytes of c handed to the socket (while it has not been reset).
Handed(c) == Len(got[c]) + Len(out[c])

\* The strings of queue q are, one behind the other, bytes lo..hi.
Covers(q, lo, hi) ==
  /\ \A i \in 1..Len(q) : q[i].junk = 0 /\ q[i].lo <= q[i].hi
  /\ \A i \in 1..(Len(q) - 1) : q[i + 1].lo = q[i].hi + 1
  /\ q = <<>> => lo = hi + 1
  /\ q # <<>> => q[1].lo = lo /\ q[Len(q)].hi = hi

\* What a client has received is the beginning of what it sent, whatever
\* half writes, partial writes and queued strings it went through
\* (echo_server.cpp:139-183), until front() is called on an empty queue.
EchoPrefix ==
  \A c \in Clients \ ub : \A i \in 1..Len(got[c]) : got[c][i] = i

\* No byte is lost on a live connection: the bytes read from it are those
\* handed to its socket followed by those in its queue, once each and in
\* order.  In particular the -1 that WriteFront takes for success never
\* means EAGAIN.
NothingLost ==
  \A c \in Clients \ ub :
    ~Reset(c) /\ ~(pc = "write" /\ cur = c)
      => Covers(data_buf[c], Handed(c) + 1, rd[c])

\* assert(nwrite <= 1024) at echo_server.cpp:172 does not fire, although a
\* queued string can be one byte longer than the buffer it came from.
AssertHolds == pc # "abort"

\* A client that resets its connection while the server has nothing of it to
\* read or to answer cannot end the server: SIGPIPE takes a reset that hits
\* the server between the steps of an event, or after the client's FIN.
SigPipeOnlyByRace == pc = "sigpipe" => cur \in raced

E == INSTANCE EchoService WITH loose <- ub

\* The server is an echo server for every client whose empty queue is not
\* asked for its front(): whatever is read, queued, written in halves or
\* reset, what arrives at the client are the bytes it sent, in order, none
\* twice and none before it was sent.
ImplementsEcho == E!Spec

-----------------------------------------------------------------------------
(* The inductive invariant behind EchoPrefix, NothingLost and AssertHolds. *)

AtWrite(c) == pc = "write" /\ cur = c

\* The for loop: a client's event is being handled outside "loop", and the
\* second half of the body runs only for an EPOLLOUT.
LoopInv ==
  /\ pc \in {"read", "write", "out"} => cur \in Clients
  /\ pc = "out" => "EPOLLOUT" \in events[cur]

\* A reported EPOLLOUT still has room when the loop gets to it.
RoomInv(c) ==
  /\ "EPOLLOUT" \in events[c] /\ ~Reset(c) => Len(out[c]) < SndCap
  /\ Reset(c) => out[c] = <<>>

\* A live client without a session has not been answered yet; with the
\* first data in readbuf it is about to be.
FirstInv(c) ==
  /\ c \notin mapped => data_buf[c] = <<>> /\ deficit[c] = 0
  /\ c \notin mapped /\ ~Reset(c) =>
       /\ c \notin ub
       /\ got[c] = <<>> /\ out[c] = <<>>
       /\ AtWrite(c) \/ rd[c] = 0
  /\ AtWrite(c) => c \notin mapped
  /\ AtWrite(c) /\ ~Reset(c) => readbuf = Run(1, rd[c]) /\ rd[c] \in 1..BufSize

\* Queued strings fit into readbuf; only undefined pops leave a deficit.
QueueInv(c) ==
  /\ ~Reset(c) => \A i \in 1..Len(data_buf[c]) : Size(data_buf[c][i]) <= BufSize
  /\ c \notin ub => deficit[c] = 0

\* The received bytes, the send buffer and the queue continue each other.
StreamInv(c) ==
  c \notin ub =>
    /\ \A i \in 1..Len(got[c]) : got[c][i] = i
    /\ \A i \in 1..Len(out[c]) : out[c][i] = Len(got[c]) + i
    /\ ~Reset(c) /\ ~AtWrite(c) => Covers(data_buf[c], Handed(c) + 1, rd[c])

ClientInv(c) == RoomInv(c) /\ FirstInv(c) /\ QueueInv(c) /\ StreamInv(c)

IInv ==
  /\ TypeOK /\ LoopInv /\ AssertHolds
  /\ \A c \in Clients : ClientInv(c)

-----------------------------------------------------------------------------
(* On top of IInv: what ImplementsEcho and SigPipeOnlyByRace need.         *)

\* Nothing is read before it arrived and nothing is queued or received
\* before it was read.
CountInv(c) ==
  /\ rd[c] <= sent[c]
  /\ c \notin ub => Len(got[c]) <= rd[c]
  /\ c \notin ub /\ ~Reset(c) =>
       \A i \in 1..Len(data_buf[c]) : data_buf[c][i].hi <= rd[c]

\* An event being handled has not been cleared.
BusyInv == pc \in {"read", "write"} => "EPOLLIN" \in events[cur]

\* A connection reset at a quiet moment has nothing left to be read: the
\* server learns of the reset in its next read(), and drops the session.
RaceInv(c) ==
  /\ link[c] = "finrst" => c \in raced
  /\ link[c] = "rst" /\ c \notin raced =>
       /\ sent[c] = rd[c]
       /\ ~AtWrite(c)
       /\ IF c \in err
          THEN /\ events[c] # {} => "EPOLLIN" \in events[c]
               /\ ~(pc = "out" /\ cur = c)
          ELSE c \notin mapped

CountAll == \A c \in Clients : CountInv(c)
RaceAll == SigPipeOnlyByRace /\ BusyInv /\ \A c \in Clients : RaceInv(c)
=============================================================================
