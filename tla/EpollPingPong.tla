---------------------------- MODULE EpollPingPong ----------------------------
(***************************************************************************)
(* EpollEcho with interactive clients: a client sends a message that fits  *)
(* into readbuf, in one segment, and waits for its whole echo before it    *)
(* sends the next one.  It never closes the connection.  These are the     *)
(* clients the server's event handling is made for: with them an event     *)
(* never finds an empty queue, and every message comes back.               *)
(***************************************************************************)
EXTENDS EpollEcho

\* The next message of client c, n bytes long.
SendMessage(c, n) ==
  /\ sent[c] = Len(got[c])
  /\ Arrive(c, n)

\* The server, without the failing fcntl of accept.
Serve == Server /\ \A c \in Clients : conn'[c] # "orphan"

DeliverSome(c) == \E n \in 1..SndCap : Deliver(c, n)

PPNext ==
  \/ Setup
  \/ Serve
  \/ \E c \in Clients :
       \/ Connect(c)
       \/ \E n \in 1..BufSize : SendMessage(c, n)
       \/ DeliverSome(c)

\* The process and the network keep going; clients need not.
PPFairness ==
  /\ WF_vars(Serve)
  /\ \A c \in Clients : WF_vars(DeliverSome(c))

PPSpec == Init /\ [][PPNext]_vars /\ PPFairness

-----------------------------------------------------------------------------
\* Every EPOLLOUT that finds a session finds a string in its queue, so
\* session_map[fd].front() (echo_server.cpp:170) is always defined.
FrontDefined ==
  pc = "out" /\ cur \in mapped => data_buf[cur] # <<>>

\* Every message comes back in full.
MessageEchoed ==
  \A c \in Clients :
    (Len(got[c]) < sent[c] /\ conn[c] = "accepted")
      ~> (Len(got[c]) = sent[c])

\* A waiting connection is accepted while the descriptor table has room.
AcceptedUnlessFull ==
  \A c \in Clients :
    (conn[c] = "backlog")
      ~> \/ conn[c] = "accepted"
         \/ Cardinality({d \in Clients : conn[d] = "accepted"}) = MaxFds

-----------------------------------------------------------------------------
(* The inductive invariant behind FrontDefined, on top of IInv, CountAll   *)
(* and BusyInv of EpollEcho.                                               *)

\* The client keeps the connection and waits for its echo: a message is
\* unread only while all before it has been received.
WaitInv(c) ==
  /\ link[c] = "open" /\ c \notin ub /\ c \notin nospace
  /\ sent[c] <= Len(got[c]) + BufSize
  /\ sent[c] > rd[c] => Len(got[c]) = rd[c]
  /\ conn[c] # "accepted" => c \notin mapped /\ c \notin rdl /\ events[c] = {}

\* An event that reports data is about a message that is not answered yet,
\* and there is no second event for it.  With a session, every event is one.
EventInv(c) ==
  /\ "EPOLLIN" \in events[c] => Handed(c) < sent[c] /\ c \notin rdl
  /\ c \in mapped /\ c \in rdl => sent[c] > rd[c]
  /\ events[c] # {} => /\ "EPOLLOUT" \in events[c]
                       /\ c \in mapped => "EPOLLIN" \in events[c]

\* The queue holds the message of the event being handled, and only that.
OneInv(c) ==
  /\ data_buf[c] # <<>> => /\ cur = c /\ pc \in {"read", "out"}
                           /\ sent[c] = rd[c] /\ Len(data_buf[c]) = 1
  /\ AtWrite(c) => sent[c] = rd[c]
  /\ pc = "out" /\ cur = c /\ c \in mapped => data_buf[c] # <<>>

PPInv == \A c \in Clients : WaitInv(c) /\ EventInv(c) /\ OneInv(c)
=============================================================================
