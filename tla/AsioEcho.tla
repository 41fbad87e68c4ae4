------------------------------ MODULE AsioEcho ------------------------------
(***************************************************************************)
(* echo/boost-asio/echo_server.cpp: one thread in io_service::run(), a     *)
(* chain of accepts and, for each connection, a session that is kept alive *)
(* by the handler of the operation it has under way.                       *)
(*                                                                         *)
(* A step is one handler of the program, or one read or write that asio    *)
(* makes for an operation it has not completed yet.                        *)
(*                                                                         *)
(* class session derives from boost::enable_shared_from_this but is held   *)
(* by a std::shared_ptr, which does not tell it so: shared_from_this()     *)
(* throws.  owned = FALSE is the program as it stands; TRUE is the         *)
(* program with a std::enable_shared_from_this, which shows what the rest  *)
(* of the code does.                                                       *)
(***************************************************************************)
EXTENDS Integers, Sequences

CONSTANTS
  Clients,     \* clients, and their sessions
  Chunk,       \* bytes asio reads at a time
  SndCap,      \* capacity of a socket's send buffer
  MaxSend      \* bound: bytes a client sends

ASSUME AsioAssumption ==
  /\ Chunk \in Nat \ {0}
  /\ SndCap \in Nat \ {0}
  /\ MaxSend \in Nat

VARIABLES
  owned,      \* shared_from_this() finds its owner; never changes
  \* the server process
  pc,         \* "start", "run", or how it ended: "exit" or "terminate"
  chain,      \* the chain of accepts: "none", "armed", or "broken" by an error
  op,         \* op[c]: the operation of c's session that is under way
  sbuf_,      \* its streambuf
  \* the kernel
  conn,       \* the connection's place in the server
  sent,       \* bytes the client's packets put into the receive buffer
  rd,         \* bytes taken out of it
  link,       \* FIN and RST received
  out,        \* the send buffer
  \* the clients
  got         \* bytes the client received

streams == <<sbuf_, rd, out>>
vars == <<owned, pc, chain, op, conn, sent, link, got, streams>>

MinOf(a, b) == IF a <= b THEN a ELSE b

Running == pc = "run"

Init ==
  /\ owned \in BOOLEAN
  /\ pc = "start"
  /\ chain = "none"
  /\ op = [c \in Clients |-> "none"]
  /\ sbuf_ = [c \in Clients |-> <<>>]
  /\ conn = [c \in Clients |-> "new"]
  /\ sent = [c \in Clients |-> 0]
  /\ rd = [c \in Clients |-> 0]
  /\ link = [c \in Clients |-> "open"]
  /\ out = [c \in Clients |-> <<>>]
  /\ got = [c \in Clients |-> <<>>]

-----------------------------------------------------------------------------
(* The accept chain.                                                       *)

\* main: the constructor of acceptor_ binds and listens, or throws;
\* echo_server::start asks for the first connection.
start ==
  /\ pc = "start"
  /\ \/ pc' = "run" /\ chain' = "armed"
     \/ pc' = "terminate" /\ UNCHANGED chain
  /\ UNCHANGED <<owned, op, conn, sent, link, got, streams>>

\* session::start: the first read, with the session's owner bound to its
\* handler.  Nobody catches the exception of shared_from_this().
session_start(c) ==
  IF owned
  THEN op' = [op EXCEPT ![c] = "read"] /\ UNCHANGED pc
  ELSE pc' = "terminate" /\ UNCHANGED op

\* (faulty variant: async_accept is not called again)
handle_acceptOnce(c) ==
  /\ Running /\ chain = "armed"
  /\ conn[c] = "backlog"
  /\ conn' = [conn EXCEPT ![c] = "accepted"]
  /\ chain' = "none"
  /\ IF link[c] = "rst"
     THEN pc' = "terminate" /\ UNCHANGED op
     ELSE session_start(c)
  /\ UNCHANGED <<owned, sent, link, got, streams>>

\* A connection is there.  remote_endpoint() throws if the client has reset
\* it in the meantime; otherwise its session and the next accept begin.
handle_accept(c) ==
  /\ Running /\ chain = "armed"
  /\ conn[c] = "backlog"
  /\ conn' = [conn EXCEPT ![c] = "accepted"]
  /\ IF link[c] = "rst"
     THEN pc' = "terminate" /\ UNCHANGED op
     ELSE session_start(c)
  /\ UNCHANGED <<owned, chain, sent, link, got, streams>>

\* accept failed, for want of descriptors or memory: no further one is made.
handle_accept_error ==
  /\ Running /\ chain = "armed"
  /\ \E c \in Clients : conn[c] = "backlog"
  /\ chain' = "broken"
  /\ UNCHANGED <<owned, pc, op, conn, sent, link, got, streams>>

\* run() has no work left, and main returns.
run_returns ==
  /\ Running /\ chain # "armed"
  /\ \A c \in Clients : op[c] = "none"
  /\ pc' = "exit"
  /\ UNCHANGED <<owned, chain, op, conn, sent, link, got, streams>>

-----------------------------------------------------------------------------
(* A session: async_read completes at the end of the stream only, and      *)
(* async_write when all of sbuf_ is written, or at an error.               *)

\* asio appends what has arrived to sbuf_.
read_some(c) ==
  /\ Running
  /\ op[c] = "read" /\ sent[c] > rd[c]
  /\ LET n == MinOf(Chunk, sent[c] - rd[c])
     IN  /\ sbuf_' = [sbuf_ EXCEPT ![c] = @ \o [i \in 1..n |-> rd[c] + i]]
         /\ rd' = [rd EXCEPT ![c] = @ + n]
  /\ UNCHANGED <<owned, pc, chain, op, conn, sent, link, got, out>>

\* (faulty variant: async_read_some, which completes with the first data)
handle_readSome(c) ==
  /\ Running
  /\ op[c] = "read" /\ sent[c] = rd[c]
  /\ link[c] # "open" \/ sbuf_[c] # <<>>
  /\ op' = [op EXCEPT ![c] = "write"]
  /\ UNCHANGED <<owned, pc, chain, conn, sent, link, got, streams>>

\* (faulty variant: the handler gives up when it is told of an error)
handle_readChecks(c) ==
  /\ Running
  /\ op[c] = "read" /\ sent[c] = rd[c]
  /\ link[c] # "open"
  /\ op' = [op EXCEPT ![c] = "none"]
  /\ UNCHANGED <<owned, pc, chain, conn, sent, link, got, streams>>

\* The end of the stream, or the reset, is reached.  The handler does not
\* look at ec and has sbuf_ written.
handle_read(c) ==
  /\ Running
  /\ op[c] = "read" /\ sent[c] = rd[c]
  /\ link[c] # "open"
  /\ op' = [op EXCEPT ![c] = "write"]
  /\ UNCHANGED <<owned, pc, chain, conn, sent, link, got, streams>>

\* (faulty variant: what is written is not consumed)
write_someKeeps(c) ==
  /\ Running
  /\ op[c] = "write" /\ link[c] # "rst"
  /\ LET n == MinOf(Len(sbuf_[c]), SndCap - Len(out[c]))
     IN  /\ n > 0
         /\ out' = [out EXCEPT ![c] = @ \o SubSeq(sbuf_[c], 1, n)]
  /\ UNCHANGED <<owned, pc, chain, op, conn, sent, link, got, rd, sbuf_>>

\* asio hands the socket as much of sbuf_ as it takes.
write_some(c) ==
  /\ Running
  /\ op[c] = "write" /\ link[c] # "rst"
  /\ LET n == MinOf(Len(sbuf_[c]), SndCap - Len(out[c]))
     IN  /\ n > 0
         /\ out' = [out EXCEPT ![c] = @ \o SubSeq(sbuf_[c], 1, n)]
         /\ sbuf_' = [sbuf_ EXCEPT ![c] = SubSeq(@, n + 1, Len(@))]
  /\ UNCHANGED <<owned, pc, chain, op, conn, sent, link, got, rd>>

\* (faulty variant: the handler lets the session go when it is told of an error)
handle_writeStops(c) ==
  /\ Running
  /\ op[c] = "write"
  /\ sbuf_[c] = <<>> \/ link[c] = "rst"
  /\ op' = [op EXCEPT ![c] = IF link[c] = "rst" THEN "none" ELSE "read"]
  /\ UNCHANGED <<owned, pc, chain, conn, sent, link, got, streams>>

\* All is written, or (without a signal, asio writes with MSG_NOSIGNAL)
\* there is an error and the rest stays in sbuf_.  The handler does not look
\* at ec either and begins the next read.
handle_write(c) ==
  /\ Running
  /\ op[c] = "write"
  /\ sbuf_[c] = <<>> \/ link[c] = "rst"
  /\ op' = [op EXCEPT ![c] = "read"]
  /\ UNCHANGED <<owned, pc, chain, conn, sent, link, got, streams>>

Session(c) == read_some(c) \/ handle_read(c) \/ write_some(c) \/ handle_write(c)

-----------------------------------------------------------------------------
(* The clients and the network.                                            *)

\* The handshake completes.
Connect(c) ==
  /\ Running
  /\ conn[c] = "new"
  /\ conn' = [conn EXCEPT ![c] = "backlog"]
  /\ UNCHANGED <<owned, pc, chain, op, sent, link, got, streams>>

\* A segment of n bytes arrives.
Arrive(c, n) ==
  /\ Running
  /\ conn[c] # "new" /\ link[c] = "open"
  /\ sent[c] + n <= MaxSend
  /\ sent' = [sent EXCEPT ![c] = @ + n]
  /\ UNCHANGED <<owned, pc, chain, op, conn, link, got, streams>>

\* The client's FIN arrives; it may still receive.
ArriveFin(c) ==
  /\ Running
  /\ conn[c] # "new" /\ link[c] = "open"
  /\ link' = [link EXCEPT ![c] = "fin"]
  /\ UNCHANGED <<owned, pc, chain, op, conn, sent, got, streams>>

\* The client's RST arrives: what is in the send buffer is lost.
ArriveRst(c) ==
  /\ Running
  /\ conn[c] # "new" /\ link[c] # "rst"
  /\ link' = [link EXCEPT ![c] = "rst"]
  /\ out' = [out EXCEPT ![c] = <<>>]
  /\ UNCHANGED <<owned, pc, chain, op, conn, sent, got, sbuf_, rd>>

\* The client receives the first n bytes of the send buffer.
Deliver(c, n) ==
  /\ Running
  /\ n \in 1..Len(out[c])
  /\ got' = [got EXCEPT ![c] = @ \o SubSeq(out[c], 1, n)]
  /\ out' = [out EXCEPT ![c] = SubSeq(@, n + 1, Len(@))]
  /\ UNCHANGED <<owned, pc, chain, op, conn, sent, link, sbuf_, rd>>

Environment(c) ==
  \/ Connect(c)
  \/ \E n \in 1..MaxSend : Arrive(c, n)
  \/ ArriveFin(c) \/ ArriveRst(c)
  \/ \E n \in 1..SndCap : Deliver(c, n)

Next ==
  \/ start \/ handle_accept_error \/ run_returns
  \/ \E c \in Clients : handle_accept(c) \/ Session(c) \/ Environment(c)

Spec == Init /\ [][Next]_vars

\* run() takes what is ready in turn, so no session waits for ever behind
\* another; a client takes what it is sent.
FairSpec ==
  /\ Spec
  /\ WF_vars(start) /\ WF_vars(run_returns)
  /\ \A c \in Clients :
       /\ WF_vars(handle_accept(c))
       /\ WF_vars(Session(c))
       /\ WF_vars(\E n \in 1..SndCap : Deliver(c, n))

-----------------------------------------------------------------------------
\* The types of the variables of echo_server.cpp and of its sockets.
TypeOK ==
  /\ owned \in BOOLEAN
  /\ pc \in {"start", "run", "exit", "terminate"}
  /\ chain \in {"none", "armed", "broken"}
  /\ op \in [Clients -> {"none", "read", "write"}]
  /\ sbuf_ \in [Clients -> Seq(Nat)]
  /\ conn \in [Clients -> {"new", "backlog", "accepted"}]
  /\ sent \in [Clients -> 0..MaxSend]
  /\ rd \in [Clients -> Nat]
  /\ link \in [Clients -> {"open", "fin", "rst"}]
  /\ out \in [Clients -> Seq(Nat)]
  /\ got \in [Clients -> Seq(Nat)]

E == INSTANCE EchoService WITH loose <- {}

\* Whatever the chunks in which bytes are read, written and received, and
\* although both handlers ignore errors, a client gets a beginning of what it
\* sent and nothing else.
ImplementsEcho == E!Spec

\* The server answers nobody who has not ended its stream: a client that
\* waits for the echo before it goes on waits for ever, because async_read
\* (echo_server.cpp:23) without a condition reads to the end.
NoEchoWhileOpen == \A c \in Clients : link[c] = "open" => got[c] = <<>>

\* A client that ends its stream and goes on receiving gets all of it back,
\* unless it resets the connection or the server ends.
HalfClosedEchoed ==
  \A c \in Clients :
    op[c] # "none" /\ link[c] = "fin"
      ~> Len(got[c]) = sent[c] \/ link[c] = "rst" \/ ~Running

\* A session whose client is gone is never released: read and write follow
\* each other for as long as the server runs, at once and without an end.
EndedSessionSpins ==
  \A c \in Clients :
    op[c] # "none" /\ link[c] # "open"
      ~> \/ [](~Running)
         \/ [](op[c] # "none") /\ []<>(op[c] = "read") /\ []<>(op[c] = "write")

\* A connection is taken up, unless an accept failed before or the server
\* ends; and a failed accept ends the chain for good: whoever has not been
\* taken up by then never is, however long the server runs on.
AcceptedWhileChained ==
  \A c \in Clients :
    /\ conn[c] = "backlog" ~> conn[c] = "accepted" \/ chain = "broken" \/ ~Running
    /\ [](chain = "broken" /\ conn[c] # "accepted" => [](conn[c] # "accepted"))

\* Connections that were taken up and have no session.
Sessionless == {c \in Clients : conn[c] = "accepted" /\ op[c] = "none"}

\* The server ends at an accept or not at all.  While it runs every connection
\* it has taken up keeps its session, so that run() returns only if no
\* connection was taken up before an accept failed (echo_server.cpp:56), and
\* an exception ends it only in the handler of one connection, beside those
\* whose sessions go on: a connection that was reset before remote_endpoint()
\* (:60), or any where shared_from_this() (:22) finds no owner.
EndsAtAccept ==
  /\ Running => Sessionless = {}
  /\ pc = "exit" => chain = "broken" /\ \A c \in Clients : conn[c] # "accepted"
  /\ pc = "terminate" /\ chain # "none" =>
       \E c \in Clients : Sessionless = {c} /\ (owned => link[c] = "rst")

-----------------------------------------------------------------------------
(* The inductive invariant behind ImplementsEcho and NoEchoWhileOpen.      *)

\* What the client has got, the send buffer and sbuf_ continue each other;
\* what a reset took out of the send buffer is a gap in front of sbuf_.
StreamInv(c) ==
  /\ \A i \in 1..Len(got[c]) : got[c][i] = i
  /\ \A i \in 1..Len(out[c]) : out[c][i] = Len(got[c]) + i
  /\ \A i \in 1..Len(sbuf_[c]) : sbuf_[c][i] = (rd[c] - Len(sbuf_[c])) + i
  /\ Len(got[c]) + Len(out[c]) + Len(sbuf_[c]) <= rd[c]
  /\ rd[c] <= sent[c]
  /\ link[c] = "rst" => out[c] = <<>>
  /\ link[c] # "rst" => Len(got[c]) + Len(out[c]) + Len(sbuf_[c]) = rd[c]

\* Nothing is written before the client's stream has ended.
OpenInv(c) == link[c] = "open" => op[c] # "write" /\ out[c] = <<>> /\ got[c] = <<>>

\* Behind EndsAtAccept: only an accepted connection has an operation under
\* way, and the chain is there while the server runs.
OpInv == \A c \in Clients : op[c] # "none" => conn[c] = "accepted"

ChainInv ==
  /\ pc = "start" => chain = "none" /\ \A c \in Clients : conn[c] = "new"
  /\ Running => chain \in {"armed", "broken"}

EndInv == OpInv /\ ChainInv /\ EndsAtAccept

AInv == TypeOK /\ \A c \in Clients : StreamInv(c) /\ OpenInv(c)
=============================================================================
