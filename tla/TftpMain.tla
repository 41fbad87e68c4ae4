------------------------------ MODULE TftpMain ------------------------------
(***************************************************************************)
(* main of tftp/tftp_server.c as it stands: one datagram per turn of the   *)
(* loop goes to handle_new_connection, and the session's descriptor is     *)
(* added to epoll under the number of the server's own socket, which is    *)
(* already there.  epoll_ctl fails with EEXIST and the program ends.       *)
(***************************************************************************)
EXTENDS TftpHandlers, Sequences

CONSTANT MaxIn    \* bound: datagrams that arrive

ASSUME MainAssumption == MaxIn \in Nat

VARIABLES
  pc,       \* "setup", "loop" or "exit"
  queue,    \* datagrams in the receive buffer of serverfd
  in_buf,   \* the request in in_buf
  arrived,  \* datagrams that have arrived
  seen      \* history: datagrams that recvfrom has returned

mainVars == <<handlerVars, pc, queue, in_buf, arrived, seen>>

Contents == [op : {"RRQ"}, name : Files] \cup [op : {"WRQ", "ACK"}]
Datagrams == [from : Clients, body : Contents \cup [op : {"empty"}]]

MainTypeOK ==
  /\ HandlersTypeOK
  /\ pc \in {"setup", "loop", "exit"}
  /\ queue \in Seq(Datagrams)
  /\ in_buf \in Contents
  /\ arrived \in 0..MaxIn
  /\ seen \subseteq Datagrams

\* in_buf is not initialised.
MainInit ==
  /\ HandlersInit
  /\ pc = "setup"
  /\ queue = <<>>
  /\ in_buf \in Contents
  /\ arrived = 0
  /\ seen = {}

\* socket, bind, epoll_create1, epoll_ctl: each failure ends the program.
Setup ==
  /\ pc = "setup"
  /\ pc' \in {"loop", "exit"}
  /\ UNCHANGED <<handlerVars, queue, in_buf, arrived, seen>>

\* A datagram arrives at the bound socket.
Arrive(d) ==
  /\ pc = "loop" /\ arrived < MaxIn
  /\ queue' = Append(queue, d)
  /\ arrived' = arrived + 1
  /\ UNCHANGED <<handlerVars, pc, in_buf, seen>>

\* (faulty variant: the program goes on after its first session)
TurnGoesOn ==
  /\ pc = "loop" /\ queue # <<>>
  /\ LET d == Head(queue)
     IN  /\ in_buf' = IF d.body.op = "empty" THEN in_buf ELSE d.body
         /\ handle_new_connection(d.from, in_buf')
         /\ seen' = seen \cup {d}
  /\ queue' = Tail(queue)
  /\ UNCHANGED <<pc, arrived>>

\* epoll_wait, recvfrom and what follows.  The result of recvfrom is not
\* looked at: an empty datagram leaves the request before it in in_buf.
Turn ==
  /\ pc = "loop" /\ queue # <<>>
  /\ LET d == Head(queue)
     IN  /\ in_buf' = IF d.body.op = "empty" THEN in_buf ELSE d.body
         /\ handle_new_connection(d.from, in_buf')
         /\ seen' = seen \cup {d}
  /\ pc' = IF (in_buf'.op = "RRQ" /\ CanOpen(in_buf'.name)) \/ ~alive'
           THEN "exit" ELSE "loop"
  /\ queue' = Tail(queue)
  /\ UNCHANGED arrived

MainNext == Setup \/ Turn \/ \E d \in Datagrams : Arrive(d)

MainSpec == MainInit /\ [][MainNext]_mainVars

-----------------------------------------------------------------------------
\* The program sends one DATA block in its life, and opens one file: the
\* epoll_ctl at tftp_server.c:254 names the wrong descriptor.
OneTransferEver == Cardinality(net) <= 1 /\ nfile <= 1 /\ nsock <= 1

\* The unchecked recvfrom (tftp_server.c:248) leaves an old request in in_buf
\* for whoever sends an empty datagram; yet nobody is sent a file that only
\* another client asked for.  A request stays in in_buf only if its file could
\* not be opened, since one that could ends the program.  The exception is
\* in_buf before the first request, which holds anything at all.  (Files do
\* not appear or vanish while the program runs.)
ServedToAsker ==
  \A d \in net :
    \/ [from |-> d.to, body |-> [op |-> "RRQ", name |-> d.chunk.file]] \in seen
    \/ \A e \in seen : e.body.op = "empty"

-----------------------------------------------------------------------------
\* Behind OneTransferEver and ServedToAsker: up to the first transfer nothing
\* has been opened or sent, and the turn that starts it is the last; once a
\* request has been read, what in_buf holds cannot be opened.
MInv ==
  /\ pc \in {"setup", "loop"} => net = {} /\ nfile = 0 /\ nsock = 0
  /\ \A d, e \in net : d = e
  /\ nfile \in 0..1 /\ nsock \in 0..1

StaleInv ==
  /\ queue \in Seq(Datagrams)
  /\ pc = "setup" => seen = {}
  /\ pc = "loop" /\ in_buf.op = "RRQ" /\ (\E e \in seen : e.body.op # "empty") =>
       ~CanOpen(in_buf.name)
=============================================================================
