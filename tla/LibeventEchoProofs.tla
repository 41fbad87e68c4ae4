-------------------------- MODULE LibeventEchoProofs --------------------------
(***************************************************************************)
(* Proofs about LibeventEcho, for any connections, threads, message and    *)
(* buffer sizes: the message is conserved, and nothing ends but after its  *)
(* peer.                                                                   *)
(***************************************************************************)
EXTENDS LibeventEcho, TLAPS

\* The peer of a side is the other side.
LEMMA PeerFacts ==
  /\ Peer("client") = "server" /\ Peer("server") = "client"
  /\ \A s \in Sides : Peer(s) \in Sides /\ Peer(s) # s /\ Peer(Peer(s)) = s
  BY DEF Peer, Sides

\* The end of a process only takes bytes off the wire, and tells its peer.
LEMMA ExitEffect ==
  ASSUME TypeOK, NEW s \in Sides, NEW how \in {"done", "killed", "segv", "sigpipe"},
         Exit(s, how)
  PROVE  /\ proc' = [proc EXCEPT ![s] = how]
         /\ link' \in [Sides -> [Conns -> {"open", "fin", "rst", "finrst"}]]
         /\ err' \in [Sides -> SUBSET Conns]
         /\ wire' \in [Sides -> [Conns -> Nat]]
         /\ \A x \in Sides, c \in Conns : wire'[x][c] \in {0, wire[x][c]}
         /\ link'[s] = link[s] /\ err'[s] = err[s]
<1> DEFINE p == Peer(s)
<1> DEFINE E == {c \in Conns : Established(c)}
<1>1. PICK rst \in SUBSET E, kept \in SUBSET E :
        /\ proc' = [proc EXCEPT ![s] = how]
        /\ link' = [link EXCEPT ![p] = [c \in Conns |->
                      IF ~Established(c) \/ link[p][c] # "open" THEN link[p][c]
                      ELSE IF c \in rst THEN "rst" ELSE "fin"]]
        /\ err' = [err EXCEPT ![p] = @ \cup rst]
        /\ wire' = [wire EXCEPT
                      ![p] = [c \in Conns |-> IF c \in rst THEN 0 ELSE wire[p][c]],
                      ![s] = [c \in Conns |->
                                IF c \in rst \ kept THEN 0 ELSE wire[s][c]]]
  BY DEF Exit
<1>2. p \in Sides /\ p # s /\ \A x \in Sides : x = s \/ x = p
  BY DEF Sides, Peer
<1> HIDE DEF p
<1>0. rst \subseteq Conns
  OBVIOUS
<1>3. link' \in [Sides -> [Conns -> {"open", "fin", "rst", "finrst"}]]
      /\ link'[s] = link[s]
  <2>1. [c \in Conns |-> IF ~Established(c) \/ link[p][c] # "open" THEN link[p][c]
                         ELSE IF c \in rst THEN "rst" ELSE "fin"]
          \in [Conns -> {"open", "fin", "rst", "finrst"}]
    BY <1>2 DEF TypeOK
  <2> QED
    BY <1>1, <1>2, <2>1 DEF TypeOK
<1>4. err' \in [Sides -> SUBSET Conns] /\ err'[s] = err[s]
  BY <1>0, <1>1, <1>2 DEF TypeOK
<1>5. wire' \in [Sides -> [Conns -> Nat]]
      /\ \A x \in Sides, c \in Conns : wire'[x][c] \in {0, wire[x][c]}
  <2> DEFINE f == [c \in Conns |-> IF c \in rst THEN 0 ELSE wire[p][c]]
             g == [c \in Conns |-> IF c \in rst \ kept THEN 0 ELSE wire[s][c]]
  <2>1. /\ f \in [Conns -> Nat] /\ g \in [Conns -> Nat]
        /\ \A c \in Conns : f[c] \in {0, wire[p][c]} /\ g[c] \in {0, wire[s][c]}
    BY <1>2 DEF TypeOK
  <2>2. wire' = [wire EXCEPT ![p] = f, ![s] = g]
    BY <1>1
  <2> HIDE DEF f, g
  <2>3. wire'[p] = f /\ wire'[s] = g
    BY <1>2, <2>2 DEF TypeOK
  <2> QED
    BY <1>2, <2>1, <2>2, <2>3 DEF TypeOK
<1> QED
  BY <1>1, <1>3, <1>4, <1>5

-----------------------------------------------------------------------------
\* Start-up has the types.
LEMMA TypeInit == Init => TypeOK
  BY LibeventAssumption DEF Init, TypeOK, Sides

\* Every step keeps the types.
LEMMA TypeStep == TypeOK /\ [Next]_vars => TypeOK'
<1> SUFFICES ASSUME TypeOK, [Next]_vars
             PROVE  TypeOK'
  OBVIOUS
<1> USE LibeventAssumption, PeerFacts
<1>0. "client" \in Sides /\ "server" \in Sides
  BY DEF Sides
<1>1. CASE UNCHANGED vars
  BY <1>1 DEF vars, buffers, TypeOK
<1>2. CASE main_server
  BY <1>0, <1>2 DEF main_server, buffers, TypeOK
<1>3. CASE main_client
  BY <1>0, <1>3, ExitEffect DEF main_client, TypeOK
<1>4. ASSUME NEW t \in Threads, start_thread(t) PROVE TypeOK'
  <2> DEFINE mine == {c \in Conns : thread_of[c] = t}
             f == [c \in Conns |-> IF c \in mine THEN "connecting" ELSE st["client"][c]]
  <2>1. mine \subseteq Conns
        /\ f \in [Conns -> {"none", "connecting", "backlog", "open", "failed"}]
    BY <1>0 DEF TypeOK
  <2>2. UNCHANGED <<proc, input, output, wire, link, err>>
    BY <1>4 DEF start_thread, buffers
  <2>3. CASE /\ thread' = [thread EXCEPT ![t] = "run"]
             /\ st' = [st EXCEPT !["client"] = f]
             /\ reading' = [reading EXCEPT !["client"] = @ \cup mine]
             /\ writing' = [writing EXCEPT !["client"] = @ \cup mine]
    <3> HIDE DEF mine, f
    <3>1. reading' \in [Sides -> SUBSET Conns] /\ writing' \in [Sides -> SUBSET Conns]
      BY <1>0, <2>1, <2>3 DEF TypeOK
    <3>2. st' \in [Sides -> [Conns -> {"none", "connecting", "backlog", "open", "failed"}]]
      BY <1>0, <2>1, <2>3 DEF TypeOK
    <3> QED
      BY <2>2, <2>3, <3>1, <3>2 DEF TypeOK
  <2>4. CASE thread' = [thread EXCEPT ![t] = "failed"] /\ UNCHANGED <<st, reading, writing>>
    BY <2>2, <2>4 DEF TypeOK
  <2> QED
    BY <1>4, <2>3, <2>4 DEF start_thread
<1>5. ASSUME NEW t \in Threads, dispatch_returns(t) PROVE TypeOK'
  BY <1>5 DEF dispatch_returns, buffers, TypeOK
<1>6. ASSUME NEW c \in Conns, Handshake(c) PROVE TypeOK'
  BY <1>0, <1>6 DEF Handshake, buffers, TypeOK
<1>7. ASSUME NEW c \in Conns, listener_cb(c) PROVE TypeOK'
  <2>0. thread' = thread
    BY <1>7 DEF listener_cb
  <2>1. CASE Exit("server", "segv") /\ UNCHANGED <<st, reading, writing, input, output>>
    BY <1>0, <2>0, <2>1, ExitEffect DEF TypeOK
  <2>2. CASE /\ st' = [st EXCEPT !["server"][c] = "open"]
             /\ reading' = [reading EXCEPT !["server"] = @ \cup {c}]
             /\ writing' = [writing EXCEPT !["server"] = @ \cup {c}]
             /\ UNCHANGED <<proc, buffers, link, err>>
    <3>1. reading' \in [Sides -> SUBSET Conns] /\ writing' \in [Sides -> SUBSET Conns]
      BY <1>0, <2>2 DEF TypeOK
    <3>2. st' \in [Sides -> [Conns -> {"none", "connecting", "backlog", "open", "failed"}]]
      BY <1>0, <2>2 DEF TypeOK
    <3> QED
      BY <2>0, <2>2, <3>1, <3>2 DEF buffers, TypeOK
  <2> QED
    BY <1>7, <2>1, <2>2 DEF listener_cb
<1>8. ASSUME NEW c \in Conns, event_cb_connected(c) PROVE TypeOK'
  BY <1>0, <1>8 DEF event_cb_connected, TypeOK
<1>9. ASSUME NEW c \in Conns, event_cb_failed(c) PROVE TypeOK'
  BY <1>0, <1>9 DEF event_cb_failed, buffers, TypeOK
<1>10. ASSUME NEW c \in Conns, NEW s \in Sides, NEW n \in 1..MSG_SIZE, Read(s, c, n)
       PROVE  TypeOK'
  <2>1. n \in Nat /\ wire[Peer(s)][c] - n \in Nat /\ output[s][c] + (input[s][c] + n) \in Nat
    BY <1>10 DEF Read, TypeOK
  <2> QED
    BY <1>10, <2>1 DEF Read, read_cb, TypeOK
<1>11. ASSUME NEW c \in Conns, NEW s \in Sides, NEW n \in 1..MSG_SIZE, Write(s, c, n)
       PROVE  TypeOK'
  <2>1. n \in Nat /\ wire[s][c] + n \in Nat /\ output[s][c] - n \in Nat
    BY <1>11 DEF Write, MinOf, TypeOK
  <2> QED
    BY <1>11, <2>1 DEF Write, TypeOK
<1>12. ASSUME NEW c \in Conns, NEW s \in Sides, ReadEnd(s, c) \/ WriteError(s, c)
       PROVE  TypeOK'
  <2>1. CASE ReadEnd(s, c)
    BY <2>1 DEF ReadEnd, buffers, TypeOK
  <2>2. CASE WriteError(s, c)
    BY <2>2 DEF WriteError, buffers, TypeOK
  <2> QED
    BY <1>12, <2>1, <2>2
<1>13. ASSUME NEW c \in Conns, NEW s \in Sides, SigPipe(s, c) PROVE TypeOK'
  BY <1>13, ExitEffect DEF SigPipe, TypeOK
<1>14. ASSUME NEW c \in Conns, NEW s \in Sides, PeerReset(s, c) PROVE TypeOK'
  BY <1>14 DEF PeerReset, TypeOK
<1>15. ASSUME NEW s \in Sides, Kill(s) PROVE TypeOK'
  BY <1>15, ExitEffect DEF Kill, TypeOK
<1> QED
  BY <1>1, <1>2, <1>3, <1>4, <1>5, <1>6, <1>7, <1>8, <1>9, <1>10, <1>11, <1>12,
     <1>13, <1>14, <1>15 DEF Next, Handle

-----------------------------------------------------------------------------
(* LInv is inductive.                                                      *)

ConnInv(c) == OpenInv(c) /\ BytesInv(c) /\ LinkInv(c) /\ ReadInv(c)

\* A connection that a step does not touch keeps its invariants.
LEMMA Frame ==
  ASSUME NEW d \in Conns, ConnInv(d), proc' = proc,
         thread'[thread_of[d]] = thread[thread_of[d]],
         \A s \in Sides :
           /\ st'[s][d] = st[s][d] /\ link'[s][d] = link[s][d]
           /\ d \in err'[s] <=> d \in err[s]
           /\ d \in reading'[s] <=> d \in reading[s]
           /\ input'[s][d] = input[s][d] /\ output'[s][d] = output[s][d]
           /\ wire'[s][d] = wire[s][d]
  PROVE  ConnInv(d)'
<1>1. "client" \in Sides /\ "server" \in Sides
  BY DEF Sides
<1>2. OpenInv(d)' /\ ReadInv(d)'
  BY <1>1 DEF ConnInv, OpenInv, ReadInv, Established, Gone
<1>3. BytesInv(d)'
  BY <1>1 DEF ConnInv, BytesInv, Held, Up
<1>4. LinkInv(d)'
  BY DEF ConnInv, LinkInv, Gone
<1> QED
  BY <1>2, <1>3, <1>4 DEF ConnInv

\* The end of a process.  SIGPIPE presupposes that the peer is gone.
LEMMA ExitStep ==
  ASSUME LInv, NEW s \in Sides, NEW how \in {"done", "killed", "segv", "sigpipe"},
         Exit(s, how), how = "sigpipe" => Gone(Peer(s)),
         UNCHANGED <<thread, st, reading, writing, input, output>>
  PROVE  SignalInv' /\ proc'["client"] # "off" /\ \A c \in Conns : ConnInv(c)'
<1>0. "client" \in Sides /\ "server" \in Sides /\ \A x \in Sides : x = s \/ x = Peer(s)
  BY DEF Sides, Peer
<1>a. TypeOK /\ DOMAIN proc = Sides
  BY DEF LInv, TypeOK
<1>1. /\ proc' = [proc EXCEPT ![s] = how]
      /\ \A x \in Sides, c \in Conns : wire'[x][c] \in {0, wire[x][c]}
      /\ link'[s] = link[s] /\ err'[s] = err[s]
  BY <1>a, ExitEffect
<1>2. /\ proc'[s] = how /\ \A x \in Sides : x # s => proc'[x] = proc[x]
      /\ Gone(s)' /\ ~Up(s)' /\ \A x \in Sides : Gone(x) => Gone(x)'
  BY <1>a, <1>1 DEF Gone, Up
<1>3. SignalInv' /\ proc'["client"] # "off"
  BY <1>0, <1>2, PeerFacts DEF LInv, SignalInv
<1>4. ASSUME NEW c \in Conns PROVE ConnInv(c)'
  <2>0. OpenInv(c) /\ BytesInv(c) /\ LinkInv(c) /\ ReadInv(c)
    BY DEF LInv
  <2>1. OpenInv(c)'
    BY <1>0, <1>2, <2>0 DEF OpenInv, Established
  <2>2. BytesInv(c)'
    <3>1. ~(Up("client") /\ Up("server"))'
      BY <1>2 DEF Sides
    <3>2. \A x \in Sides : /\ input[x][c] \in Nat /\ output[x][c] \in Nat /\ wire[x][c] \in Nat
                           /\ wire'[x][c] \in {0, wire[x][c]}
      BY <1>1 DEF LInv, TypeOK
    <3>3. \A x \in Sides : Held(x, c) = 0 => Held(x, c)' = 0
      BY <3>2 DEF Held
    <3> QED
      BY <1>0, <2>0, <3>1, <3>3 DEF BytesInv
  <2>3. LinkInv(c)'
    BY <1>0, <1>1, <1>2, <2>0, PeerFacts DEF LinkInv
  <2>4. ReadInv(c)'
    BY <1>0, <1>2, <2>0 DEF ReadInv, Established
  <2> QED
    BY <2>1, <2>2, <2>3, <2>4 DEF ConnInv
<1> QED
  BY <1>3, <1>4

\* Steps that change no byte: start-up, the callbacks of a failing
\* connection, the end of a thread.
LEMMA QuietStep ==
  ASSUME LInv, TypeOK',
         \/ main_server
         \/ \E t \in Threads : start_thread(t) \/ dispatch_returns(t)
         \/ \E c \in Conns : Handshake(c) \/ event_cb_failed(c)
         \/ \E c \in Conns, s \in Sides : ReadEnd(s, c) \/ WriteError(s, c)
  PROVE  SignalInv' /\ proc'["client"] # "off" /\ \A c \in Conns : ConnInv(c)'
<1> USE LibeventAssumption
<1>0. "client" \in Sides /\ "server" \in Sides
  BY DEF Sides
<1>a. \A c \in Conns : ConnInv(c) /\ thread_of[c] \in Threads
  BY DEF LInv, ConnInv
<1>b. ASSUME proc' = proc PROVE SignalInv' /\ proc'["client"] # "off"
  BY <1>b DEF LInv, SignalInv, Gone
<1>1. CASE main_server
  <2>1. /\ UNCHANGED <<thread, st, reading, writing, input, output, wire, link, err>>
        /\ proc["server"] = "off" /\ proc'["server"] \in {"up", "exit"}
        /\ proc'["client"] = proc["client"]
    BY <1>0, <1>1 DEF main_server, buffers, LInv, TypeOK
  <2>2. \A x \in Sides : Gone(x) => Gone(x)'
    BY <2>1 DEF Gone, Sides
  <2>3. SignalInv'
    BY <2>1, <2>2, <1>0, PeerFacts DEF LInv, SignalInv, Sides
  <2>4. ASSUME NEW c \in Conns PROVE ConnInv(c)'
    <3>0. OpenInv(c) /\ BytesInv(c) /\ LinkInv(c) /\ ReadInv(c)
      BY DEF LInv
    <3>1. ~Established(c) /\ st["client"][c] # "open"
      BY <2>1, <3>0 DEF OpenInv
    <3>2. OpenInv(c)' /\ ReadInv(c)'
      BY <2>1, <2>2, <1>0, <3>0, <3>1 DEF OpenInv, ReadInv, Established
    <3>3. BytesInv(c)'
      BY <2>1, <3>0, <3>1 DEF BytesInv, Held
    <3>4. LinkInv(c)'
      BY <2>1, <2>2, <3>0, PeerFacts DEF LinkInv
    <3> QED
      BY <3>2, <3>3, <3>4 DEF ConnInv
  <2> QED
    BY <2>1, <2>3, <2>4 DEF LInv
<1>2. ASSUME NEW t \in Threads, start_thread(t)
      PROVE  SignalInv' /\ proc'["client"] # "off" /\ \A c \in Conns : ConnInv(c)'
  <2>1. /\ UNCHANGED <<proc, input, output, wire, link, err>>
        /\ thread[t] = "off" /\ thread'[t] \in {"run", "failed"}
        /\ \A u \in Threads : u # t => thread'[u] = thread[u]
        /\ st'["server"] = st["server"]
        /\ \A c \in Conns : thread_of[c] # t =>
             /\ st'["client"][c] = st["client"][c]
             /\ \A s \in Sides : c \in reading'[s] <=> c \in reading[s]
        /\ \A c \in Conns : thread_of[c] = t =>
             IF thread'[t] = "run"
             THEN st'["client"][c] = "connecting" /\ c \in reading'["client"]
             ELSE st'["client"][c] = st["client"][c]
    <3>1. UNCHANGED <<proc, input, output, wire, link, err>> /\ thread[t] = "off"
      BY <1>2 DEF start_thread, buffers
    <3> DEFINE mine == {c \in Conns : thread_of[c] = t}
               f == [c \in Conns |-> IF c \in mine THEN "connecting" ELSE st["client"][c]]
    <3>2. CASE /\ thread' = [thread EXCEPT ![t] = "run"]
               /\ st' = [st EXCEPT !["client"] = f]
               /\ reading' = [reading EXCEPT !["client"] = @ \cup mine]
      <4>1. thread'[t] = "run" /\ \A u \in Threads : u # t => thread'[u] = thread[u]
        BY <3>2 DEF LInv, TypeOK
      <4>2. st'["server"] = st["server"] /\ st'["client"] = f
        BY <1>0, <3>2 DEF LInv, TypeOK
      <4>3. reading'["client"] = reading["client"] \cup mine
            /\ reading'["server"] = reading["server"]
        BY <1>0, <3>2 DEF LInv, TypeOK
      <4> QED
        BY <3>1, <4>1, <4>2, <4>3 DEF Sides
    <3>3. CASE thread' = [thread EXCEPT ![t] = "failed"] /\ UNCHANGED <<st, reading, writing>>
      <4>1. thread'[t] = "failed" /\ \A u \in Threads : u # t => thread'[u] = thread[u]
        BY <3>3 DEF LInv, TypeOK
      <4> QED
        BY <3>1, <3>3, <4>1
    <3> QED
      BY <1>2, <3>2, <3>3 DEF start_thread
  <2>2. ASSUME NEW c \in Conns, thread_of[c] # t PROVE ConnInv(c)'
    <3>1. thread'[thread_of[c]] = thread[thread_of[c]]
      BY <1>a, <2>1, <2>2
    <3>2. \A s \in Sides : st'[s][c] = st[s][c] /\ (c \in reading'[s] <=> c \in reading[s])
      BY <2>1, <2>2 DEF Sides
    <3> QED
      BY <1>a, <2>1, <3>1, <3>2, Frame
  <2>3. ASSUME NEW c \in Conns, thread_of[c] = t PROVE ConnInv(c)'
    <3>0. OpenInv(c) /\ BytesInv(c) /\ LinkInv(c) /\ ReadInv(c)
      BY DEF LInv
    <3>1. st["client"][c] = "none"
      BY <2>1, <2>3, <3>0 DEF OpenInv
    <3>2. st'["client"][c] # "open" /\ (thread'[t] = "failed" => st'["client"][c] = "none")
      BY <2>1, <2>3, <3>1
    <3>3. OpenInv(c)'
      BY <2>1, <2>3, <3>0, <3>2 DEF OpenInv, Established
    <3>4. BytesInv(c)'
      BY <2>1, <3>0, <3>1, <3>2 DEF BytesInv, Held
    <3>5. LinkInv(c)' /\ ReadInv(c)'
      BY <2>1, <2>3, <3>0 DEF LinkInv, ReadInv, Gone
    <3> QED
      BY <3>3, <3>4, <3>5 DEF ConnInv
  <2> QED
    BY <1>b, <2>1, <2>2, <2>3
<1>3. ASSUME NEW t \in Threads, dispatch_returns(t)
      PROVE  SignalInv' /\ proc'["client"] # "off" /\ \A c \in Conns : ConnInv(c)'
  <2>1. /\ UNCHANGED <<proc, st, reading, writing, input, output, wire, link, err>>
        /\ thread[t] = "run" /\ thread'[t] = "end"
        /\ \A u \in Threads : u # t => thread'[u] = thread[u]
        /\ \A c \in Conns : thread_of[c] = t => c \notin reading["client"]
    BY <1>3 DEF dispatch_returns, buffers, LInv, TypeOK
  <2>2. ASSUME NEW c \in Conns, thread_of[c] # t PROVE ConnInv(c)'
    BY <1>a, <2>1, <2>2, Frame
  <2>3. ASSUME NEW c \in Conns, thread_of[c] = t PROVE ConnInv(c)'
    <3>0. OpenInv(c) /\ BytesInv(c) /\ LinkInv(c) /\ ReadInv(c)
      BY DEF LInv
    <3>1. OpenInv(c)' /\ ReadInv(c)'
      BY <2>1, <2>3, <3>0 DEF OpenInv, ReadInv, Established, Gone
    <3>2. BytesInv(c)' /\ LinkInv(c)'
      BY <2>1, <3>0 DEF BytesInv, LinkInv, Held, Up, Gone
    <3> QED
      BY <3>1, <3>2 DEF ConnInv
  <2> QED
    BY <1>b, <2>1, <2>2, <2>3
<1>4. ASSUME NEW c \in Conns, Handshake(c)
      PROVE  SignalInv' /\ proc'["client"] # "off" /\ \A d \in Conns : ConnInv(d)'
  <2>1. /\ UNCHANGED <<proc, thread, reading, writing, input, output, wire, link, err>>
        /\ st'["client"] = st["client"] /\ st'["server"][c] = "backlog"
        /\ \A s \in Sides, d \in Conns : d # c => st'[s][d] = st[s][d]
        /\ proc["server"] = "up" /\ st["client"][c] = "connecting"
    BY <1>0, <1>4 DEF Handshake, Up, buffers, LInv, TypeOK
  <2>2. ASSUME NEW d \in Conns, d # c PROVE ConnInv(d)'
    BY <1>a, <2>1, <2>2, Frame
  <2>3. ConnInv(c)'
    <3>0. OpenInv(c) /\ BytesInv(c) /\ LinkInv(c) /\ ReadInv(c)
      BY DEF LInv
    <3>1. OpenInv(c)' /\ ReadInv(c)'
      BY <2>1, <3>0 DEF OpenInv, ReadInv, Established, Gone
    <3>2. BytesInv(c)' /\ LinkInv(c)'
      BY <2>1, <3>0 DEF BytesInv, LinkInv, Held, Up, Gone
    <3> QED
      BY <3>1, <3>2 DEF ConnInv
  <2> QED
    BY <1>b, <2>1, <2>2, <2>3
<1>5. ASSUME NEW c \in Conns, event_cb_failed(c)
      PROVE  SignalInv' /\ proc'["client"] # "off" /\ \A d \in Conns : ConnInv(d)'
  <2>1. /\ UNCHANGED <<proc, thread, input, output, wire, link>>
        /\ st'["server"] = st["server"] /\ st'["client"][c] = "failed"
        /\ \A s \in Sides, d \in Conns : d # c =>
             /\ st'[s][d] = st[s][d]
             /\ d \in reading'[s] <=> d \in reading[s]
             /\ d \in err'[s] <=> d \in err[s]
        /\ \A s \in Sides : c \in err'[s] => c \in err[s]
        /\ st["client"][c] = "connecting" /\ thread[thread_of[c]] = "run"
        /\ c \in err["client"] \/ ~Established(c)
    BY <1>0, <1>5 DEF event_cb_failed, buffers, LInv, TypeOK
  <2>2. ASSUME NEW d \in Conns, d # c PROVE ConnInv(d)'
    BY <1>a, <2>1, <2>2, Frame
  <2>3. ConnInv(c)'
    <3>0. OpenInv(c) /\ BytesInv(c) /\ LinkInv(c) /\ ReadInv(c)
      BY DEF LInv
    <3>1. c \in err["client"] => Gone("server")
      BY <1>0, <3>0, PeerFacts DEF LinkInv
    <3>2. OpenInv(c)' /\ ReadInv(c)'
      BY <2>1, <3>0, <3>1 DEF OpenInv, ReadInv, Established, Gone
    <3>3. BytesInv(c)' /\ LinkInv(c)'
      BY <2>1, <3>0 DEF BytesInv, LinkInv, Held, Up, Gone
    <3> QED
      BY <3>2, <3>3 DEF ConnInv
  <2> QED
    BY <1>b, <2>1, <2>2, <2>3
<1>6. ASSUME NEW c \in Conns, NEW s \in Sides, ReadEnd(s, c) \/ WriteError(s, c)
      PROVE  SignalInv' /\ proc'["client"] # "off" /\ \A d \in Conns : ConnInv(d)'
  <2>1. /\ UNCHANGED <<proc, thread, st, input, output, wire, link>>
        /\ \A x \in Sides, d \in Conns :
             /\ d # c => (d \in reading'[x] <=> d \in reading[x])
             /\ d # c => (d \in err'[x] <=> d \in err[x])
             /\ d \in err'[x] => d \in err[x]
             /\ d \in reading'[x] => d \in reading[x]
        /\ link[s][c] # "open"
        /\ s # "client" => reading'["client"] = reading["client"]
    <3>1. CASE ReadEnd(s, c)
      BY <1>0, <3>1 DEF ReadEnd, buffers, LInv, TypeOK
    <3>2. CASE WriteError(s, c)
      BY <1>0, <3>2 DEF WriteError, buffers, LInv, TypeOK
    <3> QED
      BY <1>6, <3>1, <3>2
  <2>2. ASSUME NEW d \in Conns, d # c PROVE ConnInv(d)'
    BY <1>a, <2>1, <2>2, Frame
  <2>3. ConnInv(c)'
    <3>0. OpenInv(c) /\ BytesInv(c) /\ LinkInv(c) /\ ReadInv(c)
      BY DEF LInv
    <3>1. s = "client" => Gone("server")
      BY <2>1, <3>0, PeerFacts DEF LinkInv
    <3>2. OpenInv(c)' /\ ReadInv(c)'
      BY <1>0, <2>1, <3>0, <3>1 DEF OpenInv, ReadInv, Established, Gone
    <3>3. BytesInv(c)' /\ LinkInv(c)'
      BY <2>1, <3>0 DEF BytesInv, LinkInv, Held, Up, Gone
    <3> QED
      BY <3>2, <3>3 DEF ConnInv
  <2> QED
    BY <1>b, <2>1, <2>2, <2>3
<1> QED
  BY <1>1, <1>2, <1>3, <1>4, <1>5, <1>6

\* Steps of live connections.  Bytes change place and nothing else.
LEMMA LiveStep ==
  ASSUME LInv, TypeOK', NEW c \in Conns,
         \/ listener_cb(c) /\ proc' = proc
         \/ event_cb_connected(c)
         \/ \E s \in Sides : \/ PeerReset(s, c)
                            \/ \E n \in 1..MSG_SIZE : Read(s, c, n) \/ Write(s, c, n)
  PROVE  SignalInv' /\ proc'["client"] # "off" /\ \A d \in Conns : ConnInv(d)'
<1> USE LibeventAssumption
<1>0. "client" \in Sides /\ "server" \in Sides
  BY DEF Sides
<1>a. \A d \in Conns : ConnInv(d)
  BY DEF LInv, ConnInv
<1>b. proc' = proc /\ thread' = thread
  BY DEF listener_cb, event_cb_connected, PeerReset, Read, Write
<1>c. SignalInv' /\ proc'["client"] # "off"
  BY <1>b DEF LInv, SignalInv, Gone
<1>d. OpenInv(c) /\ BytesInv(c) /\ LinkInv(c) /\ ReadInv(c)
  BY DEF LInv
<1>e. \A s \in Sides : input[s][c] \in Nat /\ output[s][c] \in Nat /\ wire[s][c] \in Nat
  BY DEF LInv, TypeOK
<1>1. CASE listener_cb(c) /\ proc' = proc
  <2>1. /\ UNCHANGED <<input, output, wire, link, err>>
        /\ st'["client"] = st["client"] /\ st'["server"][c] = "open"
        /\ st["server"][c] = "backlog"
        /\ reading'["client"] = reading["client"]
        /\ \A s \in Sides, d \in Conns : d # c =>
             st'[s][d] = st[s][d] /\ (d \in reading'[s] <=> d \in reading[s])
    <3>0. st["server"][c] = "backlog"
      BY <1>1 DEF listener_cb
    <3>1. ~Exit("server", "segv")
      <4>1. SUFFICES ASSUME Exit("server", "segv") PROVE FALSE
        OBVIOUS
      <4>2. proc' = [proc EXCEPT !["server"] = "segv"]
        BY <4>1, <1>0, ExitEffect DEF LInv
      <4>3. proc'["server"] = "segv"
        BY <4>2, <1>0 DEF LInv, TypeOK
      <4> QED
        BY <4>3, <1>1 DEF listener_cb, Up
    <3>2. /\ st' = [st EXCEPT !["server"][c] = "open"]
          /\ reading' = [reading EXCEPT !["server"] = @ \cup {c}]
          /\ UNCHANGED <<input, output, wire, link, err>>
      BY <1>1, <3>1 DEF listener_cb, buffers
    <3>3. st'["client"] = st["client"] /\ st'["server"][c] = "open"
          /\ \A s \in Sides, d \in Conns : d # c => st'[s][d] = st[s][d]
      BY <1>0, <3>2 DEF LInv, TypeOK
    <3>4. reading'["client"] = reading["client"]
          /\ \A s \in Sides, d \in Conns : d # c => (d \in reading'[s] <=> d \in reading[s])
      BY <1>0, <3>2 DEF LInv, TypeOK
    <3> QED
      BY <3>0, <3>2, <3>3, <3>4
  <2>2. ASSUME NEW d \in Conns, d # c PROVE ConnInv(d)'
    BY <1>a, <1>b, <2>1, <2>2, Frame
  <2>3. OpenInv(c)' /\ ReadInv(c)'
    BY <1>b, <1>d, <2>1 DEF OpenInv, ReadInv, Established, Gone
  <2>4. BytesInv(c)' /\ LinkInv(c)'
    BY <1>b, <1>d, <2>1 DEF BytesInv, LinkInv, Held, Up, Gone
  <2> QED
    BY <1>c, <2>2, <2>3, <2>4 DEF ConnInv
<1>2. CASE event_cb_connected(c)
  <2>1. /\ UNCHANGED <<reading, input, wire, link, err>>
        /\ st'["server"] = st["server"] /\ st'["client"][c] = "open"
        /\ st["client"][c] = "connecting" /\ Established(c)
        /\ thread[thread_of[c]] = "run"
        /\ output'["client"][c] = output["client"][c] + MSG_SIZE
        /\ output'["server"] = output["server"]
        /\ \A s \in Sides, d \in Conns : d # c =>
             st'[s][d] = st[s][d] /\ output'[s][d] = output[s][d]
    BY <1>0, <1>2 DEF event_cb_connected, LInv, TypeOK
  <2>2. ASSUME NEW d \in Conns, d # c PROVE ConnInv(d)'
    BY <1>a, <1>b, <2>1, <2>2, Frame
  <2>3. OpenInv(c)' /\ ReadInv(c)'
    BY <1>b, <1>d, <2>1 DEF OpenInv, ReadInv, Established, Gone
  <2>4. BytesInv(c)'
    <3>1. Held("client", c) = 0 /\ Held("server", c) = 0
      BY <1>d, <2>1 DEF BytesInv
    <3>2. Held("client", c)' = Held("client", c) + MSG_SIZE
          /\ Held("server", c)' = Held("server", c)
      BY <1>0, <1>e, <2>1 DEF Held
    <3>3. Held("client", c)' + Held("server", c)' = MSG_SIZE
      BY <3>1, <3>2
    <3> QED
      BY <2>1, <3>3 DEF BytesInv
  <2>5. LinkInv(c)'
    BY <1>b, <1>d, <2>1 DEF LinkInv, Gone
  <2> QED
    BY <1>c, <2>2, <2>3, <2>4, <2>5 DEF ConnInv
<1>3. ASSUME NEW s \in Sides, PeerReset(s, c) PROVE \A d \in Conns : ConnInv(d)'
  <2>1. /\ UNCHANGED <<st, reading, input, output>>
        /\ link[s][c] = "fin" /\ wire'[s][c] = 0
        /\ \A x \in Sides, d \in Conns : (x # s \/ d # c) =>
             /\ wire'[x][d] = wire[x][d] /\ link'[x][d] = link[x][d]
             /\ d \in err'[x] <=> d \in err[x]
    BY <1>3 DEF PeerReset, LInv, TypeOK
  <2>2. ASSUME NEW d \in Conns, d # c PROVE ConnInv(d)'
    BY <1>a, <1>b, <2>1, <2>2, Frame
  <2>3. OpenInv(c)' /\ ReadInv(c)'
    BY <1>b, <1>d, <2>1 DEF OpenInv, ReadInv, Established, Gone
  <2>4. Gone(Peer(s))
    BY <1>d, <2>1 DEF LinkInv
  <2>5. LinkInv(c)'
    BY <1>b, <1>d, <2>1, <2>4 DEF LinkInv, Gone
  <2>6. BytesInv(c)'
    <3>1. ~(Up("client") /\ Up("server"))
      BY <2>4 DEF Gone, Up, Peer
    <3>2. \A x \in Sides : wire'[x][c] \in {0, wire[x][c]}
      BY <2>1
    <3>3. \A x \in Sides : Held(x, c) = 0 => Held(x, c)' = 0
      BY <1>e, <2>1, <3>2 DEF Held
    <3> QED
      BY <1>0, <1>b, <1>d, <2>1, <3>1, <3>3 DEF BytesInv, Up
  <2> QED
    BY <2>2, <2>3, <2>5, <2>6 DEF ConnInv
<1>4. ASSUME UNCHANGED <<st, reading, link, err>>,
             \A x \in Sides, d \in Conns : d # c =>
               /\ input'[x][d] = input[x][d] /\ output'[x][d] = output[x][d]
               /\ wire'[x][d] = wire[x][d],
             st["client"][c] = "open",
             Held("client", c)' + Held("server", c)' = Held("client", c) + Held("server", c)
      PROVE  \A d \in Conns : ConnInv(d)'
  <2>1. ASSUME NEW d \in Conns, d # c PROVE ConnInv(d)'
    BY <1>a, <1>b, <1>4, <2>1, Frame
  <2>2. OpenInv(c)' /\ ReadInv(c)' /\ LinkInv(c)'
    BY <1>b, <1>d, <1>4 DEF OpenInv, ReadInv, LinkInv, Established, Gone
  <2>3. BytesInv(c)'
    BY <1>b, <1>d, <1>4 DEF BytesInv, Up
  <2> QED
    BY <2>1, <2>2, <2>3 DEF ConnInv
<1>5. ASSUME NEW s \in Sides, NEW n \in 1..MSG_SIZE, Read(s, c, n)
      PROVE  \A d \in Conns : ConnInv(d)'
  <2> DEFINE p == Peer(s)
  <2>0. p \in Sides /\ p # s
    BY PeerFacts
  <2> HIDE DEF p
  <2>1. n \in Nat /\ n > 0 /\ n <= wire[p][c]
    BY <1>5, <1>e, <2>0 DEF Read, p
  <2>2. /\ input'[s][c] = 0 /\ output'[s][c] = output[s][c] + (input[s][c] + n)
        /\ wire'[p][c] = wire[p][c] - n
        /\ UNCHANGED <<st, reading, link, err>>
    BY <1>5, <2>0 DEF Read, read_cb, LInv, TypeOK, p
  <2>3. \A x \in Sides, d \in Conns :
          /\ (x # s \/ d # c) => input'[x][d] = input[x][d] /\ output'[x][d] = output[x][d]
          /\ (x # p \/ d # c) => wire'[x][d] = wire[x][d]
    BY <1>5, <2>0 DEF Read, read_cb, LInv, TypeOK, p
  <2>4. Held(s, c)' = Held(s, c) + n /\ Held(p, c)' = Held(p, c) - n
    <3>1. wire'[s][c] = wire[s][c] /\ input'[p][c] = input[p][c] /\ output'[p][c] = output[p][c]
      BY <2>0, <2>3
    <3>2. Held(s, c)' = 0 + (output[s][c] + (input[s][c] + n)) + wire[s][c]
      BY <2>2, <3>1 DEF Held
    <3>3. Held(p, c)' = input[p][c] + output[p][c] + (wire[p][c] - n)
      BY <2>2, <3>1 DEF Held, p
    <3> QED
      BY <1>e, <2>0, <2>1, <3>2, <3>3 DEF Held
  <2>5. st["client"][c] = "open"
    <3>1. SUFFICES ASSUME st["client"][c] # "open" PROVE FALSE
      OBVIOUS
    <3>2. Held(p, c) = 0
      BY <1>d, <3>1, <2>0 DEF BytesInv, Sides
    <3> QED
      BY <1>e, <2>0, <2>1, <3>2 DEF Held
  <2>6. Held(s, c) \in Nat /\ Held(p, c) \in Nat
    BY <1>e, <2>0 DEF Held
  <2>7. Held(s, c)' + Held(p, c)' = Held(s, c) + Held(p, c)
    BY <2>1, <2>4, <2>6
  <2>8. Held("client", c)' + Held("server", c)' = Held("client", c) + Held("server", c)
    <3>1. CASE s = "client"
      <4>1. p = "server"
        BY <3>1 DEF p, Peer
      <4> QED
        BY <2>7, <3>1, <4>1 DEF Held
    <3>2. CASE s = "server"
      <4>1. p = "client"
        BY <3>2 DEF p, Peer
      <4>2. Held("server", c)' + Held("client", c)' = Held("server", c) + Held("client", c)
        BY <2>7, <3>2, <4>1 DEF Held
      <4>3. Held("client", c)' \in Nat /\ Held("server", c)' \in Nat
        BY <1>0 DEF Held, TypeOK
      <4> QED
        BY <2>6, <3>2, <4>1, <4>2, <4>3
    <3> QED
      BY <3>1, <3>2 DEF Sides
  <2> QED
    BY <1>4, <2>2, <2>3, <2>5, <2>8
<1>6. ASSUME NEW s \in Sides, NEW n \in 1..MSG_SIZE, Write(s, c, n)
      PROVE  \A d \in Conns : ConnInv(d)'
  <2>1. /\ n \in Nat /\ n > 0 /\ n <= output[s][c]
        /\ output'[s][c] = output[s][c] - n /\ wire'[s][c] = wire[s][c] + n
        /\ UNCHANGED <<st, reading, link, err, input>>
        /\ \A x \in Sides, d \in Conns : (x # s \/ d # c) =>
             output'[x][d] = output[x][d] /\ wire'[x][d] = wire[x][d]
    BY <1>6, <1>e DEF Write, MinOf, LInv, TypeOK
  <2>2. st["client"][c] = "open"
    <3>1. SUFFICES ASSUME st["client"][c] # "open" PROVE FALSE
      OBVIOUS
    <3>2. Held(s, c) = 0
      BY <1>d, <3>1 DEF BytesInv, Sides
    <3> QED
      BY <1>e, <2>1, <3>2 DEF Held
  <2>3. Held(s, c)' = Held(s, c)
    BY <1>e, <2>1 DEF Held
  <2>4. \A x \in Sides : x # s => Held(x, c)' = Held(x, c)
    BY <2>1 DEF Held
  <2>5. Held("client", c)' + Held("server", c)' = Held("client", c) + Held("server", c)
    <3>1. CASE s = "client"
      BY <1>0, <2>3, <2>4, <3>1 DEF Held
    <3>2. CASE s = "server"
      BY <1>0, <2>3, <2>4, <3>2 DEF Held
    <3> QED
      BY <3>1, <3>2 DEF Sides
  <2> QED
    BY <1>4, <2>1, <2>2, <2>5
<1> QED
  BY <1>1, <1>2, <1>3, <1>5, <1>6, <1>c

-----------------------------------------------------------------------------
\* Nothing has begun in the initial state.
LEMMA LInvInit == Init => LInv
<1> SUFFICES ASSUME Init PROVE LInv
  OBVIOUS
<1>0. "client" \in Sides /\ "server" \in Sides
  BY DEF Sides
<1>1. TypeOK
  BY TypeInit
<1>2. SignalInv /\ proc["client"] # "off" /\ proc["server"] = "off"
  BY <1>0 DEF Init, SignalInv
<1>3. ASSUME NEW c \in Conns PROVE OpenInv(c) /\ BytesInv(c) /\ LinkInv(c) /\ ReadInv(c)
  <2>1. \A s \in Sides : /\ st[s][c] = "none" /\ link[s][c] = "open" /\ c \notin err[s]
                         /\ input[s][c] = 0 /\ output[s][c] = 0 /\ wire[s][c] = 0
    BY DEF Init
  <2>2. thread[thread_of[c]] = "off"
    BY LibeventAssumption DEF Init
  <2>3. Held("client", c) = 0 /\ Held("server", c) = 0
    BY <1>0, <2>1 DEF Held
  <2> QED
    BY <1>0, <2>1, <2>2, <2>3 DEF OpenInv, BytesInv, LinkInv, ReadInv, Established
<1> QED
  BY <1>1, <1>2, <1>3 DEF LInv

\* Every step keeps the inductive invariant.
LEMMA LInvStep == LInv /\ [Next]_vars => LInv'
<1> SUFFICES ASSUME LInv, [Next]_vars PROVE LInv'
  OBVIOUS
<1>0. "client" \in Sides /\ "server" \in Sides
  BY DEF Sides
<1>t. TypeOK'
  BY TypeStep DEF LInv
<1> DEFINE Goal == SignalInv' /\ proc'["client"] # "off" /\ \A c \in Conns : ConnInv(c)'
<1>q. SUFFICES Goal
  BY <1>t DEF LInv, ConnInv
<1>1. CASE UNCHANGED vars
  <2>1. UNCHANGED <<proc, thread, st, reading, input, output, wire, link, err>>
    BY <1>1 DEF vars, buffers
  <2>2. SignalInv' /\ proc'["client"] # "off"
    BY <2>1 DEF LInv, SignalInv, Gone
  <2>3. ASSUME NEW c \in Conns PROVE ConnInv(c)'
    <3>1. ConnInv(c)
      BY DEF LInv, ConnInv
    <3> QED
      BY <2>1, <3>1, Frame
  <2> QED
    BY <2>2, <2>3
<1>2. CASE main_client
  BY <1>0, <1>2, ExitStep DEF main_client
<1>3. ASSUME NEW s \in Sides, Kill(s) PROVE Goal
  BY <1>3, ExitStep DEF Kill
<1>4. ASSUME NEW c \in Conns, NEW s \in Sides, SigPipe(s, c) PROVE Goal
  <2>1. Gone(Peer(s))
    BY <1>4 DEF SigPipe, LInv, LinkInv
  <2>2. Exit(s, "sigpipe") /\ UNCHANGED <<thread, st, reading, writing, input, output>>
    BY <1>4 DEF SigPipe
  <2> QED
    BY <2>1, <2>2, ExitStep
<1>5. ASSUME NEW c \in Conns, listener_cb(c) PROVE Goal
  <2>1. CASE Exit("server", "segv") /\ UNCHANGED <<st, reading, writing, input, output>>
    <3>1. thread' = thread
      BY <1>5 DEF listener_cb
    <3> QED
      BY <1>0, <2>1, <3>1, ExitStep
  <2>2. CASE proc' = proc
    BY <1>5, <1>t, <2>2, LiveStep
  <2> QED
    BY <1>5, <2>1, <2>2 DEF listener_cb
<1>6. CASE \/ main_server
           \/ \E t \in Threads : start_thread(t) \/ dispatch_returns(t)
           \/ \E c \in Conns : Handshake(c) \/ event_cb_failed(c)
           \/ \E c \in Conns, s \in Sides : ReadEnd(s, c) \/ WriteError(s, c)
  BY <1>6, <1>t, QuietStep
<1>7. ASSUME NEW c \in Conns,
             \/ event_cb_connected(c)
             \/ \E s \in Sides : \/ PeerReset(s, c)
                                \/ \E n \in 1..MSG_SIZE : Read(s, c, n) \/ Write(s, c, n)
      PROVE  Goal
  BY <1>7, <1>t, LiveStep
<1> HIDE DEF Goal
<1> QED
  BY <1>1, <1>2, <1>3, <1>4, <1>5, <1>6, <1>7 DEF Next, Handle

-----------------------------------------------------------------------------
\* The variables keep their types.
THEOREM TypeCorrect == Spec => []TypeOK
  BY TypeInit, TypeStep, PTL DEF Spec

\* The inductive invariant holds in every reachable state.
THEOREM Invariant == Spec => []LInv
  BY LInvInit, LInvStep, PTL DEF Spec

\* However the reads and writes of the two read_cb cut a message, its bytes
\* are there exactly once while both processes live (echo_server.cpp:15-19,
\* echo_client.cpp:23-27).
THEOREM MessageConserved == Spec => []Conserved
<1>1. LInv => Conserved
  <2> SUFFICES ASSUME LInv, NEW c \in Conns, Up("client"), Up("server")
               PROVE  Held("client", c) + Held("server", c) =
                        IF st["client"][c] = "open" THEN MSG_SIZE ELSE 0
    BY DEF Conserved
  <2> QED
    BY DEF LInv, BytesInv
<1> QED
  BY <1>1, Invariant, PTL

\* SIGPIPE strikes only when the other process is gone, and under a connection
\* to a running server event_base_dispatch does not return
\* (echo_client.cpp:28-49, 98-103).
THEOREM NothingEndsFirst == Spec => []EndsOnlyAfterPeer
<1>1. LInv => EndsOnlyAfterPeer
  <2> SUFFICES ASSUME LInv PROVE EndsOnlyAfterPeer
    OBVIOUS
  <2>1. \A s \in Sides : proc[s] = "sigpipe" => ~Up(Peer(s))
    BY DEF LInv, SignalInv, Gone, Up
  <2>2. ASSUME Up("server"), NEW c \in Conns, thread[thread_of[c]] = "end"
        PROVE  st["client"][c] = "failed" /\ ~Established(c)
    BY <2>2 DEF LInv, ReadInv, Gone, Up
  <2> QED
    BY <2>1, <2>2 DEF EndsOnlyAfterPeer
<1> QED
  BY <1>1, Invariant, PTL
=============================================================================
