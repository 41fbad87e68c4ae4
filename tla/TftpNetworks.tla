---------------------------- MODULE TftpNetworks ----------------------------
(***************************************************************************)
(* The clients and the server of TftpTransfer on two fair networks: one    *)
(* that delivers every datagram once, and one that loses and repeats them, *)
(* but not all of them for ever, to clients that keep sending their last   *)
(* one.  lossy says which of the two it is.                                *)
(***************************************************************************)
EXTENDS TftpTransfer

CONSTANT LossyBlocks   \* bound: full blocks of a file asked for if lossy

VARIABLE lossy

netVars == <<vars, lossy>>

NetInit == Init /\ lossy \in BOOLEAN

\* The network loses a datagram.
Lose ==
  /\ lossy
  /\ \/ /\ \E m \in reqs : reqs' = reqs \ {m}
        /\ UNCHANGED <<handlerVars, clientVars>>
     \/ /\ \E m \in net : net' = net \ {m}
        /\ UNCHANGED <<file, pos, nfile, nsock, alive, reqs, clientVars>>

\* A client has waited too long, which it does only for lost datagrams.
Retry(c) == lossy /\ Timeout(c)

\* The process is assumed to survive the overflow of out_buf.
NetNext ==
  /\ \/ \E m \in reqs, again \in {FALSE, lossy} : Serve(m, again) /\ alive'
     \/ \E m \in net, again \in {FALSE, lossy} : Receive(m, again)
     \/ \E c \in Clients, f \in Files : Request(c, f) /\ (lossy => Full[f] <= LossyBlocks)
     \/ \E c \in Clients : Retry(c)
     \/ Lose
  /\ UNCHANGED lossy

\* What client c sent last, and will send again.
Last(c) ==
  LET n == Len(recv[c]) IN IF n = 0 THEN rrq(c, want[c]) ELSE ack(c, ToWire(n))

\* The datagram a client keeps sending arrives at some time, and so does the
\* block that is sent to it in answer, however often older datagrams are
\* received in between.
NetFairness ==
  \A c \in Clients :
    /\ WF_vars(Retry(c))
    /\ SF_vars(Last(c) \in reqs /\ Serve(Last(c), FALSE) /\ alive')
    /\ SF_vars(\E m \in net : /\ m.to = c /\ m.block = ToWire(Len(recv[c]) + 1)
                              /\ Receive(m, FALSE))

NetSpec == NetInit /\ [][NetNext]_netVars /\ NetFairness

-----------------------------------------------------------------------------
\* There is no second client to get in the way of the first.
OneClient == \A c, d \in Clients : c = d

\* Block numbers turn negative at Half, where fseek fails and the file is
\* simply read on, and start again at 0 after 2 * Half blocks: from there on
\* a client that gets every block once gets the beginning of the file again.
WrapsAround ==
  ~lossy /\ OneClient =>
    \A c \in Clients : \A i \in 1..Len(recv[c]) :
      recv[c][i].at = (i - 1) % (2 * Half)

\* Client c has asked for a file that ends before block numbers start again.
BelowWrap(c) == want[c] # NoFile /\ Full[want[c]] \in 0..(2 * Half - 1)

\* On the reliable network a transfer on its own ends, beyond the sign bit
\* of the block number too.
Completes ==
  \A c \in Clients : (~lossy /\ BelowWrap(c)) ~> (c \in done)

\* Client c is left without an answer: the file is closed, either because all
\* of its full blocks have been acknowledged, so that c lacks at most the short
\* block that closed it, or because fopen found no descriptor for a repeated
\* request.
Abandoned(c) ==
  /\ file = NoFile /\ want[c] # NoFile
  /\ Len(recv[c]) = Full[want[c]] \/ nfile + nsock >= MaxFds

\* Whatever is lost, a transfer that has begun is completed, or comes to a
\* halt one short block before its end (handle_ACK closes the file before that
\* block has arrived, tftp_server.c:145-150), or for want of descriptors.
ProgressWhileOpen ==
  \A c \in Clients : (BelowWrap(c) /\ file # NoFile) ~> (c \in done \/ Abandoned(c))

-----------------------------------------------------------------------------
(* Behind WrapsAround: one client and the server take turns.               *)

\* As long as client c is not done, at most one datagram is on its way: what
\* the client sent last, or the block it waits for.  The position in the file
\* is right whenever the server may have to rely on it.
TurnsInv(c) ==
  LET n == Len(recv[c])
  IN  /\ \A i \in 1..n : recv[c][i].at = ToWire(i - 1)
      /\ want[c] = NoFile => reqs = {} /\ net = {} /\ n = 0
      /\ c \notin done =>
           /\ reqs # {} => /\ reqs = {Last(c)} /\ net = {}
                           /\ n > 0 /\ file # NoFile => pos = ToWire(n - 1) + 1
           /\ \A d \in net : /\ net = {d}
                             /\ d.block = ToWire(n + 1) /\ d.chunk.at = ToWire(n)
                             /\ d.chunk.size = "full" => pos = d.chunk.at + 1

WrapInv ==
  /\ lossy \in BOOLEAN
  /\ ~lossy /\ OneClient => \A c \in Clients : TurnsInv(c)
=============================================================================
