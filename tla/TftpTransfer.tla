---------------------------- MODULE TftpTransfer ----------------------------
(***************************************************************************)
(* The protocol the handlers of tftp_server.c implement: handle_RRQ starts *)
(* a transfer, every datagram that reaches a session goes to handle_req    *)
(* and what that returns goes back to its sender.  The clients follow RFC  *)
(* 1350; the network loses, repeats and reorders datagrams.                *)
(***************************************************************************)
EXTENDS TftpHandlers, Sequences

CONSTANT MaxBlocks   \* bound: blocks a client takes

ASSUME TransferAssumption == MaxBlocks \in Nat

VARIABLES
  reqs,   \* datagrams on their way to the server
  want,   \* the file a client asked for, or NoFile
  recv,   \* the blocks it has got
  done    \* clients that have got a short block

clientVars == <<want, recv, done>>
vars == <<handlerVars, reqs, clientVars>>

Requests ==
  [op : {"RRQ"}, from : Clients, name : Files] \cup
  [op : {"ACK"}, from : Clients, block : Wire] \cup
  [op : {"ERROR"}, from : Clients]

rrq(c, f) == [op |-> "RRQ", from |-> c, name |-> f]
ack(c, b) == [op |-> "ACK", from |-> c, block |-> b]
error(c) == [op |-> "ERROR", from |-> c]

TypeOK ==
  /\ HandlersTypeOK
  /\ reqs \subseteq Requests
  /\ want \in [Clients -> Files \cup {NoFile}]
  /\ recv \in [Clients -> Seq(Chunks)]
  /\ done \subseteq Clients

Init ==
  /\ HandlersInit
  /\ reqs = {}
  /\ want = [c \in Clients |-> NoFile]
  /\ recv = [c \in Clients |-> <<>>]
  /\ done = {}

\* What is on the way once m has been received, and may or may not be
\* received again.
Left(set, m, again) == IF again THEN set ELSE set \ {m}

\* The server handles datagram m.
Serve(m, again) ==
  /\ alive /\ m \in reqs
  /\ reqs' = Left(reqs, m, again)
  /\ IF m.op \in {"RRQ", "WRQ"}
     THEN handle_new_connection(m.from, m)
     ELSE handle_req(m.from, m)
  /\ UNCHANGED clientVars

\* Client c asks for file f.
Request(c, f) ==
  /\ want[c] = NoFile
  /\ want' = [want EXCEPT ![c] = f]
  /\ reqs' = reqs \cup {rrq(c, f)}
  /\ UNCHANGED <<handlerVars, recv, done>>

\* The client gets datagram m: the block it waits for; or the last one again,
\* which it acknowledges again; or a block it has no use for, which may make
\* it complain.
Receive(m, again) ==
  LET c == m.to
      n == Len(recv[c])
  IN  /\ m \in net
      /\ net' = Left(net, m, again)
      /\ \/ /\ c \notin done /\ n < MaxBlocks /\ m.block = ToWire(n + 1)
            /\ recv' = [recv EXCEPT ![c] = Append(@, m.chunk)]
            /\ done' = IF m.chunk.size = "full" THEN done ELSE done \cup {c}
            /\ reqs' = reqs \cup {ack(c, m.block)}
         \/ /\ n > 0 /\ m.block = ToWire(n)
            /\ reqs' = reqs \cup {ack(c, m.block)}
            /\ UNCHANGED <<recv, done>>
         \/ /\ c \in done \/ m.block # ToWire(n + 1)
            /\ n = 0 \/ m.block # ToWire(n)
            /\ reqs' \in {reqs, reqs \cup {error(c)}}
            /\ UNCHANGED <<recv, done>>
      /\ UNCHANGED <<file, pos, nfile, nsock, alive, want>>

\* Client c has waited long enough and sends its last datagram again.
Timeout(c) ==
  /\ want[c] # NoFile /\ c \notin done
  /\ LET n == Len(recv[c])
     IN  reqs' = reqs \cup {IF n = 0 THEN rrq(c, want[c]) ELSE ack(c, ToWire(n))}
  /\ UNCHANGED <<handlerVars, clientVars>>

\* A datagram that stays on its way covers all that UDP can do to it: it is
\* received late, more than once or, being ignored for ever, not at all.
Next ==
  \/ \E m \in reqs : Serve(m, TRUE)
  \/ \E m \in net : Receive(m, TRUE)
  \/ \E c \in Clients : Timeout(c) \/ \E f \in Files : Request(c, f)

Spec == Init /\ [][Next]_vars

-----------------------------------------------------------------------------
\* Block numbers stay clear of the sign bit.
Small == \A f \in Files : Full[f] + 2 <= Half

\* Block i of what a client has got was read from block i - 1 of a file:
\* handle_ACK takes the position from the datagram alone, so that lost,
\* repeated and reordered datagrams cannot shift a transfer (:139-152).
OffsetRight ==
  Small => \A c \in Clients : \A i \in 1..Len(recv[c]) : recv[c][i].at = i - 1

\* All clients that have asked for a file have asked for the same one.
OneAsked ==
  \A c, d \in Clients : want[c] # NoFile /\ want[d] # NoFile => want[c] = want[d]

\* As long as the clients have asked for one file, what they have got is its
\* beginning, and all of it once they are done.  (With a second file the
\* global FILE *file mixes them.)
ContentRight ==
  Small /\ OneAsked =>
    \A c \in Clients :
      /\ \A i \in 1..Len(recv[c]) : recv[c][i] = fread(want[c], i - 1)
      /\ c \in done => Len(recv[c]) = Full[want[c]] + 1

\* Descriptors that will never be closed: the sessions' sockets, and every
\* FILE the global pointer does not point to any more.
Leaked == nsock + nfile - (IF file = NoFile THEN 0 ELSE 1)

\* Leaked descriptors are lost for good, and once they are all there are the
\* server is silent for ever: no file is opened and no DATA sent (:108, :54).
SilentWhenExhausted ==
  [][ /\ Leaked' >= Leaked
      /\ Leaked = MaxFds => file' = NoFile /\ net' = net ]_vars

-----------------------------------------------------------------------------
\* Behind SilentWhenExhausted: the descriptors in use are within the limit.
FdsInv == nfile + nsock <= MaxFds

-----------------------------------------------------------------------------
(* The inductive invariants behind OffsetRight and, with AskedInv,         *)
(* ContentRight.                                                           *)

\* The global pointer stands for a FILE that exists and is open.
FileInv == file # NoFile => nfile > 0 /\ Full[file] >= 0

\* A datagram carries the block its number names, inside the positive range.
DataInv ==
  \A m \in net :
    /\ want[m.to] # NoFile
    /\ m.block \in 1..Half
    /\ m.chunk = fread(m.chunk.file, m.block - 1) /\ Full[m.chunk.file] >= 0

ReqInv ==
  \A m \in reqs :
    /\ want[m.from] # NoFile
    /\ m.op = "ACK" => m.block \in 1..(Half - 1)

\* A client has got the first blocks, each from some file; only the last
\* one may be short, and then the client is done.
RecvInv(c) ==
  /\ recv[c] # <<>> => want[c] # NoFile
  /\ \A i \in 1..Len(recv[c]) :
       recv[c][i] = fread(recv[c][i].file, i - 1) /\ Full[recv[c][i].file] >= 0
  /\ \A i \in 1..(Len(recv[c]) - 1) : recv[c][i].size = "full"
  /\ recv[c] # <<>> => (recv[c][Len(recv[c])].size = "full" <=> c \notin done)
  /\ c \in done => recv[c] # <<>>

\* Only files that somebody has asked for are opened, sent and received.
Asked(f) == \E d \in Clients : want[d] = f

AskedInv ==
  /\ file # NoFile => Asked(file)
  /\ \A m \in net : Asked(m.chunk.file)
  /\ \A m \in reqs : m.op = "RRQ" => Asked(m.name)
  /\ \A c \in Clients : \A i \in 1..Len(recv[c]) : Asked(recv[c][i].file)

TInv ==
  /\ TypeOK /\ FileInv
  /\ Small => DataInv /\ ReqInv /\ \A c \in Clients : RecvInv(c)
=============================================================================
