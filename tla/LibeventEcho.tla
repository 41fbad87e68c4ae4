---------------------------- MODULE LibeventEcho ----------------------------
(***************************************************************************)
(* echo/libevent2: a client process with two threads, each with an event   *)
(* base and connections of its own, and a server that sends everything     *)
(* back.  A client sends one message when it is connected and from then on *)
(* sends back whatever it gets: the message goes round for ever.           *)
(*                                                                         *)
(* Both ends handle their bufferevents alike.  A step is one callback of   *)
(* libevent, which contains at most one system call.  The message is 1024  *)
(* zero bytes, so bytes are only counted.                                  *)
(***************************************************************************)
EXTENDS Integers

CONSTANTS
  Conns,      \* connections, the echo_client objects
  Threads,    \* threads of the client process
  thread_of,  \* thread_of[c]: the thread that runs connection c
  MSG_SIZE,   \* bytes of the message
  Cap         \* bytes TCP can hold in one direction of a connection

ASSUME LibeventAssumption ==
  /\ thread_of \in [Conns -> Threads]
  /\ MSG_SIZE \in Nat \ {0}
  /\ Cap \in Nat \ {0}

VARIABLES
  proc,     \* the two processes
  thread,   \* the threads of the client
  st,       \* st[s][c]: what side s knows of connection c
  reading,  \* connections with EV_READ enabled
  writing,  \* connections with EV_WRITE enabled
  input,    \* bytes in the input evbuffer
  output,   \* bytes in the output evbuffer
  wire,     \* wire[s][c]: bytes sent by s that its peer has not read
  link,     \* FIN and RST received
  err       \* connections with an error not reported yet

buffers == <<input, output, wire>>
vars == <<proc, thread, st, reading, writing, buffers, link, err>>

Sides == {"client", "server"}
Peer(s) == IF s = "client" THEN "server" ELSE "client"

MinOf(a, b) == IF a <= b THEN a ELSE b

Up(s) == proc[s] = "up"
Established(c) == st["server"][c] # "none"
Reset(s, c) == link[s][c] \in {"rst", "finrst"}

\* The event loop of side s that looks after connection c is running.
Served(s, c) ==
  /\ Up(s) /\ st[s][c] = "open"
  /\ s = "client" => thread[thread_of[c]] = "run"

Init ==
  /\ proc = [s \in Sides |-> IF s = "client" THEN "up" ELSE "off"]
  /\ thread = [t \in Threads |-> "off"]
  /\ st = [s \in Sides |-> [c \in Conns |-> "none"]]
  /\ reading = [s \in Sides |-> {}]
  /\ writing = [s \in Sides |-> {}]
  /\ input = [s \in Sides |-> [c \in Conns |-> 0]]
  /\ output = [s \in Sides |-> [c \in Conns |-> 0]]
  /\ wire = [s \in Sides |-> [c \in Conns |-> 0]]
  /\ link = [s \in Sides |-> [c \in Conns |-> "open"]]
  /\ err = [s \in Sides |-> {}]

-----------------------------------------------------------------------------
(* The end of a process.                                                   *)

\* Process s ends as "how".  The kernel resets the connections in rst: those
\* that were never accepted, and some of those with bytes s has not read.
\* Of what s sent, only what has arrived (kept) can still be read there.
\* The other connections get a FIN.
Exit(s, how) ==
  LET p == Peer(s)
  IN  \E rst, kept \in SUBSET {c \in Conns : Established(c)} :
        /\ \A c \in rst : wire[p][c] > 0 \/ st[s][c] = "backlog"
        /\ \A c \in Conns : st[s][c] = "backlog" => c \in rst
        /\ kept \subseteq rst
        /\ proc' = [proc EXCEPT ![s] = how]
        /\ link' = [link EXCEPT ![p] = [c \in Conns |->
                      IF ~Established(c) \/ link[p][c] # "open" THEN link[p][c]
                      ELSE IF c \in rst THEN "rst" ELSE "fin"]]
        /\ err' = [err EXCEPT ![p] = @ \cup rst]
        /\ wire' = [wire EXCEPT
                      ![p] = [c \in Conns |-> IF c \in rst THEN 0 ELSE wire[p][c]],
                      ![s] = [c \in Conns |->
                                IF c \in rst \ kept THEN 0 ELSE wire[s][c]]]

\* A signal from outside ends process s.
Kill(s) ==
  /\ Up(s)
  /\ Exit(s, "killed")
  /\ UNCHANGED <<thread, st, reading, writing, input, output>>

\* Bytes arrive for a process that is gone.
PeerReset(s, c) ==
  /\ Up(s) /\ link[s][c] = "fin" /\ wire[s][c] > 0
  /\ link' = [link EXCEPT ![s][c] = "finrst"]
  /\ err' = [err EXCEPT ![s] = @ \cup {c}]
  /\ wire' = [wire EXCEPT ![s][c] = 0]
  /\ UNCHANGED <<proc, thread, st, reading, writing, input, output>>

-----------------------------------------------------------------------------
(* Start-up.                                                               *)

\* main of the server, up to event_base_dispatch.
main_server ==
  /\ proc["server"] = "off"
  /\ proc' \in {[proc EXCEPT !["server"] = how] : how \in {"up", "exit"}}
  /\ UNCHANGED <<thread, st, reading, writing, buffers, link, err>>

\* start_thread, up to event_base_dispatch: every client starts to connect,
\* unless the thread gets no event base.
start_thread(t) ==
  /\ Up("client") /\ thread[t] = "off"
  /\ \/ LET mine == {c \in Conns : thread_of[c] = t}
        IN  /\ thread' = [thread EXCEPT ![t] = "run"]
            /\ st' = [st EXCEPT !["client"] = [c \in Conns |->
                        IF c \in mine THEN "connecting" ELSE st["client"][c]]]
            /\ reading' = [reading EXCEPT !["client"] = @ \cup mine]
            /\ writing' = [writing EXCEPT !["client"] = @ \cup mine]
     \/ /\ thread' = [thread EXCEPT ![t] = "failed"]
        /\ UNCHANGED <<st, reading, writing>>
  /\ UNCHANGED <<proc, buffers, link, err>>

\* The handshake completes; the server has not accepted yet.
Handshake(c) ==
  /\ Up("client") /\ Up("server")
  /\ st["client"][c] = "connecting" /\ ~Established(c)
  /\ st' = [st EXCEPT !["server"][c] = "backlog"]
  /\ UNCHANGED <<proc, thread, reading, writing, buffers, link, err>>

\* (faulty variant: bufferevent_enable is forgotten)
listener_cbMute(c) ==
  /\ Up("server") /\ st["server"][c] = "backlog"
  /\ st' = [st EXCEPT !["server"][c] = "open"]
  /\ writing' = [writing EXCEPT !["server"] = @ \cup {c}]
  /\ UNCHANGED <<proc, thread, reading, buffers, link, err>>

\* listener_cb: the connection gets a bufferevent.  Without memory there is
\* none, which is reported and then used.
listener_cb(c) ==
  /\ Up("server") /\ st["server"][c] = "backlog"
  /\ \/ /\ st' = [st EXCEPT !["server"][c] = "open"]
        /\ reading' = [reading EXCEPT !["server"] = @ \cup {c}]
        /\ writing' = [writing EXCEPT !["server"] = @ \cup {c}]
        /\ UNCHANGED <<proc, buffers, link, err>>
     \/ /\ Exit("server", "segv")
        /\ UNCHANGED <<st, reading, writing, input, output>>
  /\ UNCHANGED thread

\* event_cb with BEV_EVENT_CONNECTED: the message is put on its way.
event_cb_connected(c) ==
  /\ Up("client") /\ thread[thread_of[c]] = "run"
  /\ st["client"][c] = "connecting" /\ Established(c)
  /\ c \notin err["client"]
  /\ st' = [st EXCEPT !["client"][c] = "open"]
  /\ output' = [output EXCEPT !["client"][c] = @ + MSG_SIZE]
  /\ UNCHANGED <<proc, thread, reading, writing, input, wire, link, err>>

\* event_cb with BEV_EVENT_ERROR before that: libevent has given up.
event_cb_failed(c) ==
  /\ Up("client") /\ thread[thread_of[c]] = "run"
  /\ st["client"][c] = "connecting"
  /\ c \in err["client"] \/ (~Established(c) /\ ~Up("server"))
  /\ st' = [st EXCEPT !["client"][c] = "failed"]
  /\ reading' = [reading EXCEPT !["client"] = @ \ {c}]
  /\ writing' = [writing EXCEPT !["client"] = @ \ {c}]
  /\ err' = [err EXCEPT !["client"] = @ \ {c}]
  /\ UNCHANGED <<proc, thread, buffers, link>>

-----------------------------------------------------------------------------
(* The bufferevents.                                                       *)

\* (faulty variant: the input is copied and not drained)
read_cbCopies(s, c, n) ==
  /\ input' = [input EXCEPT ![s][c] = @ + n]
  /\ output' = [output EXCEPT ![s][c] = @ + (input[s][c] + n)]

\* read_cb, after libevent has put n bytes into the input buffer:
\* all of it is moved behind the output.
read_cb(s, c, n) ==
  /\ input' = [input EXCEPT ![s][c] = 0]
  /\ output' = [output EXCEPT ![s][c] = @ + (input[s][c] + n)]

\* The read event: bytes are there.
Read(s, c, n) ==
  /\ Served(s, c) /\ c \in reading[s]
  /\ n \in 1..wire[Peer(s)][c]
  /\ wire' = [wire EXCEPT ![Peer(s)][c] = @ - n]
  /\ read_cb(s, c, n)
  /\ UNCHANGED <<proc, thread, st, reading, writing, link, err>>

\* (faulty variant: the callback enables the bufferevent again)
ReadEndEnables(s, c) ==
  /\ Served(s, c) /\ c \in reading[s]
  /\ wire[Peer(s)][c] = 0 /\ link[s][c] # "open"
  /\ err' = [err EXCEPT ![s] = @ \ {c}]
  /\ UNCHANGED <<proc, thread, st, reading, writing, buffers, link>>

\* The read event: end of the stream, or an error.  libevent disables
\* reading; the server has no event_cb and the client's only prints.
ReadEnd(s, c) ==
  /\ Served(s, c) /\ c \in reading[s]
  /\ wire[Peer(s)][c] = 0 /\ link[s][c] # "open"
  /\ reading' = [reading EXCEPT ![s] = @ \ {c}]
  /\ err' = [err EXCEPT ![s] = @ \ {c}]
  /\ UNCHANGED <<proc, thread, st, writing, buffers, link>>

\* The write event is pending.
WritePending(s, c) == c \in writing[s] /\ output[s][c] > 0

Write(s, c, n) ==
  /\ Served(s, c) /\ WritePending(s, c)
  /\ ~Reset(s, c)
  /\ n \in 1..MinOf(output[s][c], Cap - wire[s][c])
  /\ output' = [output EXCEPT ![s][c] = @ - n]
  /\ wire' = [wire EXCEPT ![s][c] = @ + n]
  /\ UNCHANGED <<proc, thread, st, reading, writing, input, link, err>>

\* The write fails with ECONNRESET: libevent disables writing.
WriteError(s, c) ==
  /\ Served(s, c) /\ WritePending(s, c)
  /\ link[s][c] = "rst" /\ c \in err[s]
  /\ writing' = [writing EXCEPT ![s] = @ \ {c}]
  /\ err' = [err EXCEPT ![s] = @ \ {c}]
  /\ UNCHANGED <<proc, thread, st, reading, buffers, link>>

\* The write fails with EPIPE.  Neither program ignores SIGPIPE, so it ends
\* with all its threads and connections.
SigPipe(s, c) ==
  /\ Served(s, c) /\ WritePending(s, c)
  /\ link[s][c] = "finrst" \/ (link[s][c] = "rst" /\ c \notin err[s])
  /\ Exit(s, "sigpipe")
  /\ UNCHANGED <<thread, st, reading, writing, input, output>>

-----------------------------------------------------------------------------
(* The end of the client.                                                  *)

\* (faulty variant: the loop ends as soon as nothing is to be written)
dispatch_returnsEarly(t) ==
  /\ Up("client") /\ thread[t] = "run"
  /\ \A c \in Conns : thread_of[c] = t => output["client"][c] = 0
  /\ thread' = [thread EXCEPT ![t] = "end"]
  /\ UNCHANGED <<proc, st, reading, writing, buffers, link, err>>

\* event_base_dispatch returns when no event is left, and start_thread ends.
dispatch_returns(t) ==
  /\ Up("client") /\ thread[t] = "run"
  /\ \A c \in Conns : thread_of[c] = t =>
       /\ c \notin reading["client"]
       /\ ~WritePending("client", c)
       /\ st["client"][c] # "connecting"
  /\ thread' = [thread EXCEPT ![t] = "end"]
  /\ UNCHANGED <<proc, st, reading, writing, buffers, link, err>>

\* main of the client has joined its threads.
main_client ==
  /\ Up("client")
  /\ \A t \in Threads : thread[t] \in {"end", "failed"}
  /\ Exit("client", "done")
  /\ UNCHANGED <<thread, st, reading, writing, input, output>>

\* What libevent calls for connection c on side s.
Handle(s, c) ==
  \/ \E n \in 1..MSG_SIZE : Read(s, c, n) \/ Write(s, c, n)
  \/ ReadEnd(s, c) \/ WriteError(s, c) \/ SigPipe(s, c)

Next ==
  \/ main_server \/ main_client
  \/ \E t \in Threads : start_thread(t) \/ dispatch_returns(t)
  \/ \E c \in Conns :
       \/ Handshake(c) \/ listener_cb(c)
       \/ event_cb_connected(c) \/ event_cb_failed(c)
       \/ \E s \in Sides : Handle(s, c) \/ PeerReset(s, c)
  \/ \E s \in Sides : Kill(s)

Spec == Init /\ [][Next]_vars

SomeRead(s, c) == \E n \in 1..MSG_SIZE : Read(s, c, n)
SomeWrite(s, c) == \E n \in 1..MSG_SIZE : Write(s, c, n)

\* An event loop runs all handlers that are due before it waits again, and
\* TCP delivers segments and resets.  Nothing is assumed about starting
\* or killing a process.
FairSpec ==
  /\ Spec
  /\ \A t \in Threads : WF_vars(dispatch_returns(t))
  /\ \A c \in Conns :
       /\ WF_vars(Handshake(c)) /\ WF_vars(listener_cb(c))
       /\ WF_vars(event_cb_connected(c)) /\ WF_vars(event_cb_failed(c))
       /\ \A s \in Sides :
            /\ WF_vars(SomeRead(s, c)) /\ WF_vars(SomeWrite(s, c))
            /\ WF_vars(ReadEnd(s, c)) /\ WF_vars(PeerReset(s, c))
            /\ WF_vars(WriteError(s, c)) /\ WF_vars(SigPipe(s, c))

-----------------------------------------------------------------------------
\* The types of the processes, bufferevents and sockets of echo/libevent2.
TypeOK ==
  /\ proc \in [Sides -> {"off", "up", "exit", "done", "killed", "segv", "sigpipe"}]
  /\ thread \in [Threads -> {"off", "run", "failed", "end"}]
  /\ st \in [Sides -> [Conns -> {"none", "connecting", "backlog", "open", "failed"}]]
  /\ reading \in [Sides -> SUBSET Conns]
  /\ writing \in [Sides -> SUBSET Conns]
  /\ input \in [Sides -> [Conns -> Nat]]
  /\ output \in [Sides -> [Conns -> Nat]]
  /\ wire \in [Sides -> [Conns -> Nat]]
  /\ link \in [Sides -> [Conns -> {"open", "fin", "rst", "finrst"}]]
  /\ err \in [Sides -> SUBSET Conns]

Held(s, c) == input[s][c] + output[s][c] + wire[s][c]

\* While both processes run, a connected client's message is there exactly
\* once, spread over evbuffers and sockets: neither read_cb loses or
\* multiplies bytes, however reads and writes cut the message.
Conserved ==
  \A c \in Conns : Up("client") /\ Up("server") =>
    Held("client", c) + Held("server", c) =
      IF st["client"][c] = "open" THEN MSG_SIZE ELSE 0

\* SIGPIPE ends a process only after its peer.  While the server runs, a
\* thread of the client has ended only if all its connections were refused
\* before the server was there: event_base_dispatch never returns under a
\* connection that was made.
EndsOnlyAfterPeer ==
  /\ \A s \in Sides : proc[s] = "sigpipe" => ~Up(Peer(s))
  /\ Up("server") =>
       \A c \in Conns :
         thread[thread_of[c]] = "end" => st["client"][c] = "failed" /\ ~Established(c)

Bouncing(c) == Up("client") /\ Up("server") /\ st["client"][c] = "open"

\* The message goes round for ever, whatever the size of the socket buffers:
\* as long as both processes live, the client gets bytes back.
NeverStops ==
  \A c \in Conns : []<>Bouncing(c) => []<><<SomeRead("client", c)>>_vars

\* When the server is gone, the threads of the client end, or the client is
\* ended by SIGPIPE.
ThreadsEnd ==
  \A t \in Threads :
    (thread[t] = "run" /\ proc["server"] \notin {"off", "up"})
      ~> (thread[t] = "end" \/ ~Up("client"))

-----------------------------------------------------------------------------
(* The inductive invariant behind Conserved and EndsOnlyAfterPeer.         *)

\* Process s has ended for good.
Gone(s) == proc[s] \notin {"off", "up"}

\* Only connections the server has heard of are open, and only those of
\* started threads have begun.
OpenInv(c) ==
  /\ st["client"][c] = "open" => Established(c)
  /\ proc["server"] = "off" => ~Established(c)
  /\ thread[thread_of[c]] \in {"off", "failed"} => st["client"][c] = "none"

\* There are no bytes before the client's message, which stays whole.
BytesInv(c) ==
  /\ st["client"][c] # "open" => Held("client", c) = 0 /\ Held("server", c) = 0
  /\ st["client"][c] = "open" /\ Up("client") /\ Up("server") =>
       Held("client", c) + Held("server", c) = MSG_SIZE

\* A FIN, a reset or an error tells that the peer is gone.
LinkInv(c) ==
  \A s \in Sides :
    /\ link[s][c] # "open" => Gone(Peer(s))
    /\ c \in err[s] => Gone(Peer(s))

\* A client stops reading only when it could not connect or lost the server.
ReadInv(c) ==
  /\ thread[thread_of[c]] \in {"run", "end"} =>
       \/ c \in reading["client"]
       \/ st["client"][c] = "failed" /\ ~Established(c)
       \/ Gone("server")
  /\ thread[thread_of[c]] = "end" => c \notin reading["client"]

SignalInv == \A s \in Sides : proc[s] = "sigpipe" => Gone(Peer(s))

LInv ==
  /\ TypeOK /\ SignalInv
  /\ proc["client"] # "off"
  /\ \A c \in Conns : OpenInv(c) /\ BytesInv(c) /\ LinkInv(c) /\ ReadInv(c)
=============================================================================
