--------------------------- MODULE EpollEchoProofs ---------------------------
(***************************************************************************)
(* Theorems about EpollEcho and EpollPingPong, for any set of clients, any *)
(* buffer size and any send buffer at least as large.                      *)
(***************************************************************************)
EXTENDS EpollPingPong, SequenceTheorems, TLAPS

(* Strings ----------------------------------------------------------------*)

\* Erasing a beginning of a string leaves a string (std::string::erase).
LEMMA DropType ==
  ASSUME NEW s \in Strings, NEW n \in Int
  PROVE  Drop(s, n) \in Strings
BY DEF Strings, Drop, Run

\* The first bytes of a string, as write() copies them to the send buffer.
LEMMA BytesType ==
  ASSUME NEW s \in Strings, NEW n \in Int
  PROVE  [i \in 1..n |-> Byte(s, i)] \in Seq(Nat)
<1>1. CASE n \in Nat
  <2>1. \A i \in 1..n : Byte(s, i) \in Nat
    BY DEF Strings, Byte
  <2>. QED BY <1>1, <2>1, IsASeq
<1>2. CASE n \notin Nat
  <2>1. 1..n = {}
    BY <1>2
  <2>2. [i \in 1..n |-> Byte(s, i)] = << >>
    BY <2>1
  <2>. QED BY <2>2
<1>. QED BY <1>1, <1>2

\* What a write() returns is a number of bytes, or -1.
LEMMA NWriteType ==
  ASSUME TypeOK, NEW c \in Clients, NEW n \in Int
  PROVE  /\ nwrite(c, n) \in Int
         /\ nwrite(c, n) <= n \/ nwrite(c, n) = -1
BY EpollAssumption DEF TypeOK, nwrite, MinOf

\* write() keeps the socket's variables well typed.
LEMMA SocketWriteType ==
  ASSUME TypeOK, NEW c \in Clients, NEW s \in Strings, NEW n \in Int,
         SocketWrite(c, s, n)
  PROVE  /\ out' \in [Clients -> Seq(Nat)]
         /\ err' \subseteq Clients
         /\ nospace' \subseteq Clients
<1> DEFINE nw == nwrite(c, n)
           bytes == [i \in 1..nw |-> Byte(s, i)]
<1>1. bytes \in Seq(Nat)
  BY NWriteType, BytesType
<1>2. out[c] \o bytes \in Seq(Nat)
  BY <1>1, ConcatProperties DEF TypeOK
<1>3. out' \in [Clients -> Seq(Nat)]
  BY <1>2 DEF TypeOK, SocketWrite
<1>. QED BY <1>3 DEF TypeOK, SocketWrite

\* push() and pop() keep the queue a sequence of strings.
LEMMA PushType ==
  ASSUME TypeOK, NEW c \in Clients, NEW s \in Strings, Push(c, s)
  PROVE  data_buf' \in [Clients -> Seq(Strings)] /\ deficit' \in [Clients -> Nat]
<1>1. CASE deficit[c] > 0
  BY <1>1 DEF TypeOK, Push
<1>2. CASE ~(deficit[c] > 0)
  <2>1. Append(data_buf[c], s) \in Seq(Strings)
    BY AppendProperties DEF TypeOK
  <2>. QED BY <1>2, <2>1 DEF TypeOK, Push
<1>. QED BY <1>1, <1>2

LEMMA PopType ==
  ASSUME TypeOK, NEW c \in Clients, Pop(c)
  PROVE  data_buf' \in [Clients -> Seq(Strings)] /\ deficit' \in [Clients -> Nat]
<1>1. CASE data_buf[c] = <<>>
  BY <1>1 DEF TypeOK, Pop
<1>2. CASE data_buf[c] # <<>>
  <2>1. Tail(data_buf[c]) \in Seq(Strings)
    BY <1>2, HeadTailProperties DEF TypeOK
  <2>. QED BY <1>2, <2>1 DEF TypeOK, Pop
<1>. QED BY <1>1, <1>2

\* Cutting a byte sequence after n bytes, as Deliver does with a send buffer.
LEMMA CutSeq ==
  ASSUME NEW s \in Seq(Nat), NEW n \in 1..Len(s)
  PROVE  /\ SubSeq(s, 1, n) \in Seq(Nat)
         /\ Len(SubSeq(s, 1, n)) = n
         /\ \A i \in 1..n : SubSeq(s, 1, n)[i] = s[i]
         /\ SubSeq(s, n + 1, Len(s)) \in Seq(Nat)
         /\ Len(SubSeq(s, n + 1, Len(s))) = Len(s) - n
         /\ \A i \in 1..(Len(s) - n) : SubSeq(s, n + 1, Len(s))[i] = s[n + i]
<1>1. Len(s) \in Nat /\ \A i \in 1..Len(s) : s[i] \in Nat
  BY LenProperties, ElementOfSeq
<1>2. /\ SubSeq(s, 1, n) \in Seq(Nat)
      /\ Len(SubSeq(s, 1, n)) = n
      /\ \A i \in 1..n : SubSeq(s, 1, n)[i] = s[i]
  <2>1. \A i \in 1..n : s[i] \in Nat
    BY <1>1
  <2>. QED BY <1>1, <2>1, SubSeqProperties
<1>3. /\ SubSeq(s, n + 1, Len(s)) \in Seq(Nat)
      /\ Len(SubSeq(s, n + 1, Len(s))) = Len(s) - n
      /\ \A i \in 1..(Len(s) - n) : SubSeq(s, n + 1, Len(s))[i] = s[n + i]
  <2> DEFINE l == Len(s)
             r == SubSeq(s, n + 1, l)
  <2>1. l \in Nat /\ n \in 1..l /\ n + 1 \in Int /\ \A i \in (n + 1)..l : s[i] \in Nat
    BY <1>1
  <2>2. /\ r \in Seq(Nat)
        /\ Len(r) = IF n + 1 <= l THEN l - (n + 1) + 1 ELSE 0
        /\ \A i \in 1..(l - (n + 1) + 1) : r[i] = s[(n + 1) + i - 1]
    BY <2>1, SubSeqProperties
  <2>. HIDE DEF l, r
  <2>3. Len(r) = l - n /\ l - (n + 1) + 1 = l - n
    BY <2>1, <2>2
  <2>4. ASSUME NEW i \in 1..(l - n) PROVE r[i] = s[n + i]
    <3>1. (n + 1) + i - 1 = n + i
      BY <2>1
    <3>. QED BY <2>2, <2>3, <3>1
  <2>. QED BY <2>2, <2>3, <2>4 DEF l, r
<1>. QED BY <1>2, <1>3

(* Types ------------------------------------------------------------------*)

\* write() of the front string, whichever string that is.
LEMMA WriteFrontType ==
  ASSUME TypeOK, NEW c \in Clients, NEW s \in Strings, WriteFront(c, s),
         ub' \subseteq Clients
  PROVE  TypeOK'
<1> DEFINE nw == nwrite(c, Size(s))
<1>0. Size(s) \in Int
  BY DEF Strings, Size
<1>1. nw \in Int
  BY <1>0, NWriteType
<1>2. /\ out' \in [Clients -> Seq(Nat)]
      /\ err' \subseteq Clients
      /\ nospace' \subseteq Clients
  BY <1>0, SocketWriteType DEF WriteFront
<1>3. data_buf' \in [Clients -> Seq(Strings)] /\ deficit' \in [Clients -> Nat]
  <2>1. CASE nw > BufSize
    BY <2>1 DEF WriteFront, TypeOK
  <2>2. CASE ~(nw > BufSize) /\ nw \in 0..(Size(s) - 1)
    <3>1. Drop(s, nw) \in Strings
      BY <1>1, DropType
    <3>2. data_buf[c] # <<>> => [data_buf[c] EXCEPT ![1] = Drop(s, nw)] \in Seq(Strings)
      BY <3>1, ExceptSeq DEF TypeOK
    <3>. QED BY <2>2, <3>1, <3>2 DEF WriteFront, TypeOK
  <2>3. CASE ~(nw > BufSize) /\ nw \notin 0..(Size(s) - 1)
    <3>1. Pop(c)
      BY <2>3 DEF WriteFront
    <3>. QED BY <3>1, PopType
  <2>. QED BY <2>1, <2>2, <2>3
<1>4. events' \in [Fds -> Masks] /\ pc' \in {"abort", "loop"}
  BY DEF WriteFront, Done, TypeOK, Masks, Fds
<1>. QED BY <1>2, <1>3, <1>4 DEF WriteFront, TypeOK, Ends

\* No step of the server, of a client or of the network leaves the types.
LEMMA TypeStep == TypeOK /\ [Next]_vars => TypeOK'
<1> SUFFICES ASSUME TypeOK, [Next]_vars PROVE TypeOK'
  OBVIOUS
<1>1. CASE Setup
  BY <1>1 DEF Setup, TypeOK, kernelVars
<1>2. CASE EpollWait
  <2>1. PICK S \in SUBSET Listed :
          /\ events' = [fd \in Fds |->
                          IF fd \notin S THEN {}
                          ELSE IF fd = listenfd THEN {"EPOLLIN"} ELSE Poll(fd)]
          /\ rdl' = rdl \ S
          /\ nospace' = nospace \cup {c \in S \cap Clients : ~Writable(c)}
    BY <1>2 DEF EpollWait
  <2>2. \A fd \in Fds : Poll(fd) \in Masks
    BY DEF Poll, Masks
  <2>3. events' \in [Fds -> Masks]
    BY <2>1, <2>2 DEF Masks
  <2>. QED BY <1>2, <2>1, <2>3 DEF EpollWait, TypeOK
<1>3. CASE EpollTimeout
  BY <1>3 DEF EpollTimeout, TypeOK, vars, serverVars, kernelVars
<1>4. CASE Accept
  BY <1>4 DEF Accept, TypeOK, Masks, Fds, Backlog
<1>5. ASSUME NEW c \in Clients, NextEvent(c) PROVE TypeOK'
  BY <1>5 DEF NextEvent, TypeOK, kernelVars, Fds
<1>6. ASSUME NEW c \in Clients, ReadData(c) PROVE TypeOK'
  <2> DEFINE nread == MinOf(BufSize, sent[c] - rd[c])
             s     == Run(rd[c] + 1, rd[c] + nread)
  <2>1. nread \in Nat /\ s \in Strings
    BY <1>6, EpollAssumption DEF ReadData, MinOf, TypeOK, Run, Strings
  <2>2. data_buf' \in [Clients -> Seq(Strings)] /\ deficit' \in [Clients -> Nat]
    <3>1. CASE c \in mapped
      BY <1>6, <2>1, <3>1, PushType DEF ReadData
    <3>2. CASE c \notin mapped
      BY <1>6, <3>2 DEF ReadData, TypeOK
    <3>. QED BY <3>1, <3>2
  <2>3. rd' \in [Clients -> Nat] /\ readbuf' \in Strings
    BY <1>6, <2>1 DEF ReadData, TypeOK
  <2>. QED BY <1>6, <2>2, <2>3 DEF ReadData, TypeOK
<1>7. ASSUME NEW c \in Clients, ReadError(c) PROVE TypeOK'
  BY <1>7 DEF ReadError, TypeOK
<1>8. ASSUME NEW c \in Clients, ReadBreak(c) PROVE TypeOK'
  BY <1>8 DEF ReadBreak, Done, TypeOK, kernelVars, Masks, Fds
<1>9. ASSUME NEW c \in Clients, FirstWrite(c) PROVE TypeOK'
  <2> DEFINE half == Size(readbuf) \div 2
             nw   == nwrite(c, half)
             rest == IF nw = -1 THEN [junk |-> 1, lo |-> readbuf.lo, hi |-> readbuf.hi]
                                ELSE Drop(readbuf, nw)
  <2>0. half \in Int
    BY DEF TypeOK, Strings, Size
  <2>1. nw \in Int
    BY <2>0, NWriteType
  <2>2. rest \in Strings
    <3>1. Drop(readbuf, nw) \in Strings
      BY <2>1, DropType DEF TypeOK
    <3>. QED BY <3>1 DEF TypeOK, Strings
  <2>3. data_buf' \in [Clients -> Seq(Strings)] /\ deficit' \in [Clients -> Nat]
    <3>1. Push(c, rest)
      BY <1>9 DEF FirstWrite
    <3>. QED BY <2>2, <3>1, PushType
  <2>4. /\ out' \in [Clients -> Seq(Nat)]
        /\ err' \subseteq Clients
        /\ nospace' \subseteq Clients
    <3>1. SocketWrite(c, readbuf, half) /\ readbuf \in Strings
      BY <1>9 DEF FirstWrite, TypeOK
    <3>. QED BY <2>0, <3>1, SocketWriteType
  <2>. QED BY <1>9, <2>3, <2>4 DEF FirstWrite, TypeOK
<1>10. ASSUME NEW c \in Clients, OutSkip(c) PROVE TypeOK'
  BY <1>10 DEF OutSkip, Done, TypeOK, kernelVars, Masks, Fds
<1>11. ASSUME NEW c \in Clients, OutWrite(c) PROVE TypeOK'
  <2>1. Head(data_buf[c]) \in Strings
    BY <1>11, HeadTailProperties DEF OutWrite, TypeOK
  <2>. QED BY <1>11, <2>1, WriteFrontType DEF OutWrite, TypeOK
<1>12. ASSUME NEW c \in Clients, OutUndefined(c) PROVE TypeOK'
  <2>1. CASE pc' = "segv" /\ UNCHANGED <<cur, events, readbuf, mapped, data_buf,
                                          deficit, kernelVars, got, raced>>
    BY <1>12, <2>1 DEF OutUndefined, TypeOK, kernelVars, Ends
  <2>2. ASSUME NEW n \in 0..1, WriteFront(c, [junk |-> n, lo |-> 1, hi |-> 0])
        PROVE  TypeOK'
    <3>1. [junk |-> n, lo |-> 1, hi |-> 0] \in Strings
      BY DEF Strings
    <3>2. ub' \subseteq Clients
      BY <1>12 DEF OutUndefined, TypeOK
    <3>. QED BY <2>2, <3>1, <3>2, WriteFrontType
  <2>. QED BY <1>12, <2>1, <2>2 DEF OutUndefined
<1>13. ASSUME NEW c \in Clients, SigPipe(c) PROVE TypeOK'
  BY <1>13 DEF SigPipe, TypeOK, kernelVars, Ends
<1>14. ASSUME NEW c \in Clients, Connect(c) PROVE TypeOK'
  BY <1>14 DEF Connect, TypeOK, serverVars
<1>15. ASSUME NEW c \in Clients, NEW n \in 1..MaxSend, Arrive(c, n) PROVE TypeOK'
  BY <1>15, EpollAssumption DEF Arrive, TypeOK, serverVars, Wake
<1>16. ASSUME NEW c \in Clients, ArriveFin(c) PROVE TypeOK'
  BY <1>16 DEF ArriveFin, TypeOK, serverVars, Wake
<1>17. ASSUME NEW c \in Clients, ArriveRst(c) PROVE TypeOK'
  BY <1>17 DEF ArriveRst, TypeOK, serverVars, Wake
<1>18. ASSUME NEW c \in Clients, NEW n \in 1..SndCap, Deliver(c, n) PROVE TypeOK'
  <2>1. /\ SubSeq(out[c], 1, n) \in Seq(Nat)
        /\ SubSeq(out[c], n + 1, Len(out[c])) \in Seq(Nat)
    BY <1>18, CutSeq DEF Deliver, TypeOK
  <2>2. got[c] \o SubSeq(out[c], 1, n) \in Seq(Nat)
    BY <2>1, ConcatProperties DEF TypeOK
  <2>3. out' \in [Clients -> Seq(Nat)] /\ got' \in [Clients -> Seq(Nat)]
    BY <1>18, <2>1, <2>2 DEF Deliver, TypeOK
  <2>. QED BY <1>18, <2>3 DEF Deliver, TypeOK, serverVars, Wake
<1>19. CASE UNCHANGED vars
  BY <1>19 DEF TypeOK, vars, serverVars, kernelVars
<1>. QED
  BY <1>1, <1>2, <1>3, <1>4, <1>5, <1>6, <1>7, <1>8, <1>9, <1>10, <1>11, <1>12,
     <1>13, <1>14, <1>15, <1>16, <1>17, <1>18, <1>19
  DEF Next, Server, Environment

\* The variables keep their types in every behaviour of the server.
THEOREM TypeCorrect == Spec => []TypeOK
<1>1. Init => TypeOK
  BY DEF Init, TypeOK, Fds, Masks, Strings, Run
<1>. QED BY <1>1, TypeStep, PTL DEF Spec

(* Queues of strings ------------------------------------------------------*)

\* push() of the bytes that follow extends what the queue covers.
LEMMA CoversAppend ==
  ASSUME NEW q \in Seq(Strings), NEW lo \in Nat, NEW hi \in Nat, NEW n \in Nat \ {0},
         Covers(q, lo, hi)
  PROVE  Covers(Append(q, Run(hi + 1, hi + n)), lo, hi + n)
<1> DEFINE s == Run(hi + 1, hi + n)
           r == Append(q, s)
<1>1. s \in Strings /\ s.junk = 0 /\ s.lo = hi + 1 /\ s.hi = hi + n
  BY DEF Run, Strings
<1>2. /\ Len(r) = Len(q) + 1 /\ r # <<>>
      /\ \A i \in 1..Len(q) : r[i] = q[i]
      /\ r[Len(q) + 1] = s
  BY <1>1, AppendProperties
<1>3. Len(q) \in Nat /\ (q = <<>> <=> Len(q) = 0)
  BY LenProperties, EmptySeq
<1>4. \A i \in 1..Len(r) : r[i].junk = 0 /\ r[i].lo <= r[i].hi
  BY <1>1, <1>2, <1>3 DEF Covers
<1>5. \A i \in 1..(Len(r) - 1) : r[i + 1].lo = r[i].hi + 1
  BY <1>1, <1>2, <1>3 DEF Covers
<1>6. r[1].lo = lo /\ r[Len(r)].hi = hi + n
  BY <1>1, <1>2, <1>3 DEF Covers
<1>. QED BY <1>2, <1>4, <1>5, <1>6 DEF Covers

\* pop() takes the bytes of the front string away.
LEMMA CoversTail ==
  ASSUME NEW q \in Seq(Strings), NEW lo \in Nat, NEW hi \in Nat, q # <<>>,
         Covers(q, lo, hi)
  PROVE  Covers(Tail(q), q[1].hi + 1, hi)
<1> DEFINE r == Tail(q)
<1>1. /\ r \in Seq(Strings) /\ Len(r) = Len(q) - 1
      /\ \A i \in 1..Len(r) : r[i] = q[i + 1]
  BY HeadTailProperties
<1>2. Len(q) \in Nat \ {0} /\ (r = <<>> <=> Len(r) = 0)
  BY <1>1, LenProperties, EmptySeq
<1>3. \A i \in 1..Len(r) : r[i].junk = 0 /\ r[i].lo <= r[i].hi
  BY <1>1, <1>2 DEF Covers
<1>4. \A i \in 1..(Len(r) - 1) : r[i + 1].lo = r[i].hi + 1
  BY <1>1, <1>2 DEF Covers
<1>5. CASE Len(q) = 1
  BY <1>1, <1>2, <1>3, <1>4, <1>5 DEF Covers
<1>6. CASE Len(q) # 1
  <2>1. r[1] = q[2] /\ r[Len(r)] = q[Len(q)] /\ q[2].lo = q[1].hi + 1
    BY <1>1, <1>2, <1>6 DEF Covers
  <2>. QED BY <1>1, <1>2, <1>3, <1>4, <1>6, <2>1 DEF Covers
<1>. QED BY <1>5, <1>6

\* A partial write shortens the front string by the bytes written.
LEMMA CoversDrop ==
  ASSUME NEW q \in Seq(Strings), NEW lo \in Nat, NEW hi \in Nat, q # <<>>,
         Covers(q, lo, hi), NEW n \in 0..(Size(q[1]) - 1)
  PROVE  /\ Covers([q EXCEPT ![1] = Drop(q[1], n)], lo + n, hi)
         /\ Size(Drop(q[1], n)) = Size(q[1]) - n
<1> DEFINE t == Drop(q[1], n)
           r == [q EXCEPT ![1] = t]
<1>1. Len(q) \in Nat \ {0}
  BY LenProperties, EmptySeq
<1>2. q[1] \in Strings /\ q[1].junk = 0 /\ q[1].lo = lo
  BY <1>1, ElementOfSeq DEF Covers
<1>3. n \in Nat /\ n <= q[1].hi - lo
  BY <1>2 DEF Size, Strings
<1>4. /\ t \in Strings /\ t.junk = 0 /\ t.lo = lo + n /\ t.hi = q[1].hi /\ t.lo <= t.hi
  BY <1>2, <1>3 DEF Drop, Run, Strings
<1>5. /\ Len(r) = Len(q) /\ r # <<>>
      /\ \A j \in 1..Len(q) : r[j] = IF j = 1 THEN t ELSE q[j]
  <2>1. r \in Seq(Strings) /\ Len(r) = Len(q)
        /\ \A j \in 1..Len(q) : r[j] = IF j = 1 THEN t ELSE q[j]
    BY <1>1, <1>4, ExceptSeq
  <2>. QED BY <1>1, <2>1, EmptySeq
<1>6. \A i \in 1..Len(r) : r[i].junk = 0 /\ r[i].lo <= r[i].hi
  BY <1>4, <1>5 DEF Covers
<1>7. \A i \in 1..(Len(r) - 1) : r[i + 1].lo = r[i].hi + 1
  BY <1>1, <1>4, <1>5 DEF Covers
<1>8. r[1].lo = lo + n /\ r[Len(r)].hi = hi
  BY <1>1, <1>4, <1>5 DEF Covers
<1>9. Size(t) = Size(q[1]) - n
  <2>1. q[1].hi \in Nat
    BY <1>2 DEF Strings
  <2>. QED BY <1>2, <1>3, <1>4, <2>1 DEF Size
<1>10. Covers(r, lo + n, hi)
  BY <1>5, <1>6, <1>7, <1>8 DEF Covers
<1>. QED BY <1>9, <1>10

\* The client invariant only looks at the client's own part of the state.
LEMMA Frame ==
  ASSUME NEW d \in Clients, ClientInv(d),
         events[d]' \subseteq events[d], Reset(d)' <=> Reset(d), out[d]' = out[d],
         (d \in mapped)' <=> d \in mapped, data_buf[d]' = data_buf[d],
         deficit[d]' = deficit[d], (d \in ub)' <=> d \in ub, got[d]' = got[d],
         rd[d]' = rd[d], AtWrite(d)' <=> AtWrite(d), AtWrite(d) => readbuf' = readbuf
  PROVE  ClientInv(d)'
<1>1. RoomInv(d)'
  BY DEF ClientInv, RoomInv
<1>2. FirstInv(d)'
  BY DEF ClientInv, FirstInv
<1>3. QueueInv(d)'
  BY DEF ClientInv, QueueInv
<1>4. StreamInv(d)'
  BY DEF ClientInv, StreamInv, Handed
<1>. QED BY <1>1, <1>2, <1>3, <1>4 DEF ClientInv

(* The inductive invariant ------------------------------------------------*)

\* A part of the client invariant that no event mask can disturb.
LEMMA EventsOnly ==
  ASSUME NEW d \in Clients, ClientInv(d), RoomInv(d)',
         Reset(d)' <=> Reset(d), out[d]' = out[d],
         (d \in mapped)' <=> d \in mapped, data_buf[d]' = data_buf[d],
         deficit[d]' = deficit[d], (d \in ub)' <=> d \in ub, got[d]' = got[d],
         rd[d]' = rd[d], ~AtWrite(d), ~AtWrite(d)'
  PROVE  ClientInv(d)'
<1>2. FirstInv(d)'
  BY DEF ClientInv, FirstInv
<1>3. QueueInv(d)'
  BY DEF ClientInv, QueueInv
<1>4. StreamInv(d)'
  BY DEF ClientInv, StreamInv, Handed
<1>. QED BY <1>2, <1>3, <1>4 DEF ClientInv

\* epoll_wait reports EPOLLOUT only for a socket with room.
LEMMA EpollWaitInv ==
  ASSUME IInv, EpollWait, NEW d \in Clients
  PROVE  ClientInv(d)'
<1>1. "EPOLLOUT" \in events'[d] => Writable(d)
  <2>1. PICK S \in SUBSET Listed :
          events' = [fd \in Fds |->
                       IF fd \notin S THEN {}
                       ELSE IF fd = listenfd THEN {"EPOLLIN"} ELSE Poll(fd)]
    BY DEF EpollWait
  <2>2. d \in Fds /\ d # listenfd
    BY EpollAssumption DEF Fds
  <2>3. events'[d] = IF d \notin S THEN {} ELSE Poll(d)
    BY <2>1, <2>2
  <2>. QED BY <2>3 DEF Poll
<1>2. Len(out[d]) \in Nat
  BY DEF IInv, TypeOK
<1>3. ClientInv(d)
  BY DEF IInv
<1>4. Reset(d)' <=> Reset(d)
  BY DEF EpollWait, Reset
<1>5. RoomInv(d)'
  <2>1. Writable(d) /\ ~Reset(d) => Len(out[d]) < SndCap
    BY <1>2, EpollAssumption DEF Writable, WritableWith
  <2>2. out' = out
    BY DEF EpollWait
  <2>. QED BY <1>1, <1>3, <1>4, <2>1, <2>2 DEF ClientInv, RoomInv
<1>6. ~AtWrite(d) /\ ~AtWrite(d)'
  BY DEF EpollWait, AtWrite
<1>. QED BY <1>3, <1>4, <1>5, <1>6, EventsOnly DEF EpollWait

\* Erasing n bytes makes a string n bytes shorter, foreign bytes or not.
LEMMA DropSize ==
  ASSUME NEW s \in Strings, NEW n \in Int
  PROVE  Size(Drop(s, n)) = Size(s) - n
BY DEF Strings, Drop, Run, Size

\* What write() does to a socket with room in its buffer.
LEMMA WriteRoom ==
  ASSUME TypeOK, NEW c \in Clients, NEW s \in Strings, NEW n \in Nat,
         SocketWrite(c, s, n), ~Reset(c), Len(out[c]) < SndCap
  PROVE  /\ nwrite(c, n) \in 0..n
         /\ Len(out'[c]) = Len(out[c]) + nwrite(c, n)
         /\ \A i \in 1..Len(out[c]) : out'[c][i] = out[c][i]
         /\ \A i \in 1..nwrite(c, n) : out'[c][Len(out[c]) + i] = Byte(s, i)
<1> DEFINE nw == nwrite(c, n)
           bytes == [i \in 1..nw |-> Byte(s, i)]
<1>1. out[c] \in Seq(Nat) /\ Len(out[c]) \in Nat
  BY DEF TypeOK
<1>2. nw \in 0..n
  BY <1>1, EpollAssumption DEF nwrite, MinOf
<1>3. CASE nw > 0
  <2>1. bytes \in Seq(Nat)
    BY <1>2, BytesType
  <2>2. Len(bytes) = nw /\ \A i \in 1..nw : bytes[i] = Byte(s, i)
    <3>1. DOMAIN bytes = 1..nw
      OBVIOUS
    <3>2. Len(bytes) \in Nat /\ DOMAIN bytes = 1..Len(bytes)
      BY <2>1, LenProperties
    <3>. QED BY <1>2, <3>1, <3>2
  <2>3. out'[c] = out[c] \o bytes
    BY <1>3 DEF SocketWrite, TypeOK
  <2>. HIDE DEF bytes, nw
  <2>4. /\ Len(out[c] \o bytes) = Len(out[c]) + Len(bytes)
        /\ \A i \in 1..(Len(out[c]) + Len(bytes)) : (out[c] \o bytes)[i] =
             IF i <= Len(out[c]) THEN out[c][i] ELSE bytes[i - Len(out[c])]
    BY <1>1, <2>1, ConcatProperties
  <2>5. \A i \in 1..Len(out[c]) : out'[c][i] = out[c][i]
    BY <1>1, <1>2, <2>2, <2>3, <2>4
  <2>6. \A i \in 1..nw : out'[c][Len(out[c]) + i] = Byte(s, i)
    <3>. TAKE i \in 1..nw
    <3>1. Len(out[c]) + i \in 1..(Len(out[c]) + Len(bytes))
      BY <1>1, <1>2, <2>2
    <3>2. ~(Len(out[c]) + i <= Len(out[c])) /\ Len(out[c]) + i - Len(out[c]) = i
      BY <1>1, <1>2
    <3>3. out'[c][Len(out[c]) + i] = bytes[Len(out[c]) + i - Len(out[c])]
      BY <2>3, <2>4, <3>1, <3>2
    <3>. QED BY <2>2, <3>2, <3>3
  <2>. QED BY <1>2, <2>2, <2>3, <2>4, <2>5, <2>6 DEF nw
<1>4. CASE ~(nw > 0)
  <2>1. out' = out /\ nw = 0
    BY <1>2, <1>4 DEF SocketWrite
  <2>. QED BY <1>1, <1>2, <2>1
<1>. QED BY <1>3, <1>4

\* write() on a reset connection leaves the (empty) send buffer alone.
LEMMA WriteReset ==
  ASSUME NEW c \in Clients, NEW s, NEW n, SocketWrite(c, s, n), Reset(c)
  PROVE  nwrite(c, n) = -1 /\ out' = out
BY DEF SocketWrite, nwrite

\* Writing one client's front string does not touch another client.
LEMMA WriteFrontOther ==
  ASSUME IInv, NEW c \in Clients, NEW s \in Strings, WriteFront(c, s),
         pc = "out", NEW d \in Clients, d # c, (d \in ub)' <=> d \in ub
  PROVE  ClientInv(d)'
<1>1. out'[d] = out[d]
  BY DEF WriteFront, SocketWrite, IInv, TypeOK
<1>2. data_buf'[d] = data_buf[d] /\ deficit'[d] = deficit[d]
  BY DEF WriteFront, Pop, IInv, TypeOK
<1>3. events'[d] = events[d] /\ ~AtWrite(d) /\ ~AtWrite(d)'
  BY DEF WriteFront, Done, AtWrite, IInv, TypeOK, Fds
<1>4. Reset(d)' <=> Reset(d)
  BY DEF WriteFront, Reset
<1>. QED BY <1>1, <1>2, <1>3, <1>4, Frame DEF WriteFront, IInv

\* One string of the queue goes to the socket, in full or in part.
LEMMA OutWriteInv ==
  ASSUME IInv, TypeOK', NEW c \in Clients, OutWrite(c)
  PROVE  ClientInv(c)' /\ AssertHolds'
<1> DEFINE q == data_buf[c]
           s == Head(q)
           n == Size(s)
           nw == nwrite(c, n)
<1>1. /\ TypeOK /\ ClientInv(c) /\ "EPOLLOUT" \in events[c]
      /\ c \in mapped /\ mapped' = mapped /\ ub' = ub /\ got' = got /\ rd' = rd
      /\ ~AtWrite(c) /\ WriteFront(c, s) /\ q # <<>>
  BY DEF IInv, LoopInv, OutWrite, WriteFront, AtWrite
<1>2. Reset(c)' <=> Reset(c)
  BY <1>1 DEF WriteFront, Reset
<1>3. q \in Seq(Strings) /\ Len(q) \in Nat \ {0} /\ s = q[1] /\ s \in Strings /\ n \in Int
  <2>1. q \in Seq(Strings)
    BY <1>1 DEF TypeOK
  <2>2. Len(q) \in Nat \ {0}
    BY <1>1, <2>1, EmptySeq, LenProperties
  <2>3. s = q[1] /\ s \in Strings
    BY <1>1, <2>1, <2>2, ElementOfSeq, HeadTailProperties
  <2>. QED BY <2>1, <2>2, <2>3 DEF Strings, Size
<1>4. FirstInv(c)' /\ ~AtWrite(c)'
  BY <1>1 DEF FirstInv, WriteFront, Done, AtWrite
<1>5. nw \in Int /\ nw <= BufSize
  <2>1. Reset(c) => nw = -1
    BY <1>1, <1>3, WriteReset DEF WriteFront
  <2>2. ~Reset(c) => n <= BufSize
    BY <1>1, <1>3 DEF ClientInv, QueueInv
  <2>3. nw \in Int /\ (nw <= n \/ nw = -1)
    BY <1>1, <1>3, NWriteType
  <2>. HIDE DEF nw, n
  <2>. QED BY <1>3, <2>1, <2>2, <2>3, EpollAssumption
<1>6. /\ Done(c)
      /\ nw \in 0..(n - 1) => /\ data_buf' = [data_buf EXCEPT ![c][1] = Drop(s, nw)]
                              /\ deficit' = deficit
      /\ nw \notin 0..(n - 1) => data_buf' = [data_buf EXCEPT ![c] = Tail(@)] /\ deficit' = deficit
  <2>1. ~(nw > BufSize)
    BY <1>5, EpollAssumption
  <2>. QED BY <1>1, <2>1 DEF WriteFront, Pop
<1>7. AssertHolds'
  BY <1>6 DEF Done, AssertHolds
<1>8. events'[c] = {}
  BY <1>1, <1>6 DEF Done, TypeOK, Fds
<1>. HIDE DEF nw
<1>9. data_buf'[c] = IF nw \in 0..(n - 1) THEN [q EXCEPT ![1] = Drop(s, nw)] ELSE Tail(q)
  BY <1>1, <1>6 DEF TypeOK
<1>10. CASE Reset(c)
  <2>1. out' = out
    BY <1>1, <1>10, WriteReset DEF WriteFront
  <2>2. RoomInv(c)'
    BY <1>1, <1>2, <1>8, <2>1 DEF ClientInv, RoomInv
  <2>3. QueueInv(c)'
    BY <1>1, <1>2, <1>6, <1>10 DEF ClientInv, QueueInv
  <2>4. StreamInv(c)'
    BY <1>1, <1>2, <1>10, <2>1 DEF ClientInv, StreamInv
  <2>. QED BY <1>4, <1>7, <2>2, <2>3, <2>4 DEF ClientInv
<1>11. CASE ~Reset(c)
  <2>1. Len(out[c]) < SndCap
    BY <1>1, <1>11 DEF ClientInv, RoomInv
  <2>2. RoomInv(c)'
    BY <1>2, <1>8, <1>11 DEF RoomInv
  <2>3. QueueInv(c)'
    <3>1. \A i \in 1..Len(q) : Size(q[i]) <= BufSize
      BY <1>1, <1>11 DEF ClientInv, QueueInv
    <3>2. CASE nw \in 0..(n - 1)
      <4>1. Size(Drop(s, nw)) <= BufSize /\ Drop(s, nw) \in Strings
        <5>1. Size(Drop(s, nw)) = n - nw /\ n <= BufSize
          BY <1>3, <1>5, <3>1, DropSize
        <5>. QED BY <1>3, <1>5, <3>2, <5>1, DropType, EpollAssumption
      <4>2. /\ Len([q EXCEPT ![1] = Drop(s, nw)]) = Len(q)
            /\ \A j \in 1..Len(q) : [q EXCEPT ![1] = Drop(s, nw)][j] =
                                      IF j = 1 THEN Drop(s, nw) ELSE q[j]
        BY <1>3, <4>1, ExceptSeq
      <4>. QED BY <1>1, <1>6, <1>9, <3>1, <3>2, <4>1, <4>2 DEF ClientInv, QueueInv
    <3>3. CASE nw \notin 0..(n - 1)
      <4>1. Len(Tail(q)) = Len(q) - 1 /\ \A i \in 1..Len(Tail(q)) : Tail(q)[i] = q[i + 1]
        BY <1>1, <1>3, HeadTailProperties
      <4>2. \A i \in 1..Len(Tail(q)) : Size(Tail(q)[i]) <= BufSize
        BY <1>3, <3>1, <4>1
      <4>. QED BY <1>1, <1>6, <1>9, <3>3, <4>2 DEF ClientInv, QueueInv
    <3>. QED BY <3>2, <3>3
  <2>4. ASSUME c \notin ub PROVE StreamInv(c)'
    <3> DEFINE g == Len(got[c])
               o == Len(out[c])
    <3>1. /\ \A i \in 1..g : got[c][i] = i
          /\ \A i \in 1..o : out[c][i] = g + i
          /\ Covers(q, g + o + 1, rd[c])
      BY <1>1, <1>11, <2>4 DEF ClientInv, StreamInv, Handed
    <3>2. g \in Nat /\ o \in Nat /\ rd[c] \in Nat
      BY <1>1 DEF TypeOK
    <3>3. n \in Nat => /\ nw \in 0..n
                       /\ Len(out'[c]) = o + nw
                       /\ \A i \in 1..o : out'[c][i] = out[c][i]
                       /\ \A i \in 1..nw : out'[c][o + i] = Byte(s, i)
      <4>1. SocketWrite(c, s, n)
        BY <1>1 DEF WriteFront
      <4>. QED BY <1>1, <1>3, <1>11, <2>1, <4>1, WriteRoom DEF nw
    <3>. HIDE DEF g, o
    <3>4. /\ s.junk = 0 /\ s.lo = g + o + 1 /\ s.lo <= s.hi /\ s.hi \in Nat
          /\ n = s.hi - (g + o)
      <4>1. q[1].junk = 0 /\ q[1].lo <= q[1].hi /\ q[1].lo = g + o + 1
        BY <1>1, <1>3, <3>1 DEF Covers
      <4>2. s.hi \in Nat
        BY <1>3 DEF Strings
      <4>. QED BY <1>3, <3>2, <4>1, <4>2 DEF Size
    <3>5. n \in Nat /\ nw \in 0..n
      BY <3>2, <3>3, <3>4
    <3>6. \A i \in 1..(o + nw) : out'[c][i] = g + i
      <4>. TAKE i \in 1..(o + nw)
      <4>1. CASE i <= o
        <5>1. i \in 1..o
          BY <3>2, <3>5, <4>1
        <5>. QED BY <3>1, <3>3, <3>5, <5>1
      <4>2. CASE ~(i <= o)
        <5>1. i - o \in 1..nw /\ o + (i - o) = i
          BY <3>2, <3>5, <4>2
        <5>2. out'[c][i] = Byte(s, i - o)
          BY <3>3, <3>5, <5>1
        <5>. QED BY <3>2, <3>4, <3>5, <5>1, <5>2 DEF Byte
      <4>. QED BY <4>1, <4>2
    <3>7. Covers(data_buf'[c], g + (o + nw) + 1, rd[c])
      <4>1. g + o + 1 \in Nat
        BY <3>2
      <4>2. CASE nw \in 0..(n - 1)
        <5>1. Covers([q EXCEPT ![1] = Drop(q[1], nw)], g + o + 1 + nw, rd[c])
          BY <1>1, <1>3, <3>1, <3>2, <4>1, <4>2, CoversDrop
        <5>2. g + o + 1 + nw = g + (o + nw) + 1
          BY <3>2, <3>5
        <5>. QED BY <1>3, <1>9, <4>2, <5>1, <5>2
      <4>3. CASE nw \notin 0..(n - 1)
        <5>1. s.hi + 1 = g + (o + nw) + 1
          BY <3>2, <3>4, <3>5, <4>3
        <5>2. Covers(Tail(q), q[1].hi + 1, rd[c])
          BY <1>1, <1>3, <3>1, <3>2, <4>1, CoversTail
        <5>. QED BY <1>3, <1>9, <4>3, <5>1, <5>2
      <4>. QED BY <4>2, <4>3
    <3>. QED BY <1>1, <3>1, <3>3, <3>5, <3>6, <3>7 DEF StreamInv, Handed, g
  <2>5. StreamInv(c)'
    BY <1>1, <2>4 DEF StreamInv
  <2>. QED BY <1>4, <1>7, <2>2, <2>3, <2>5 DEF ClientInv
<1>. QED BY <1>10, <1>11

\* front() of an empty queue: whatever it yields, the assertion holds.
LEMMA OutUndefinedInv ==
  ASSUME IInv, NEW c \in Clients, OutUndefined(c)
  PROVE  ClientInv(c)' /\ AssertHolds'
<1>1. /\ TypeOK /\ ClientInv(c) /\ c \in mapped /\ data_buf[c] = <<>> /\ c \in ub'
      /\ pc = "out"
  BY DEF IInv, OutUndefined
<1>2. CASE pc' = "segv" /\ UNCHANGED <<cur, events, readbuf, mapped, data_buf, deficit,
                                       kernelVars, got, raced>>
  <2>1. RoomInv(c)'
    BY <1>1, <1>2 DEF ClientInv, RoomInv, Reset, kernelVars
  <2>2. FirstInv(c)' /\ QueueInv(c)' /\ StreamInv(c)' /\ AssertHolds'
    BY <1>1, <1>2 DEF FirstInv, QueueInv, StreamInv, AtWrite, AssertHolds
  <2>. QED BY <2>1, <2>2 DEF ClientInv
<1>3. ASSUME NEW n \in 0..1, WriteFront(c, [junk |-> n, lo |-> 1, hi |-> 0])
      PROVE  ClientInv(c)' /\ AssertHolds'
  <2> DEFINE s == [junk |-> n, lo |-> 1, hi |-> 0]
  <2>1. s \in Strings /\ Size(s) = n
    BY DEF Strings, Size
  <2>2. nwrite(c, n) <= BufSize /\ nwrite(c, n) \in Int
    <3>1. n \in Int /\ n <= 1
      OBVIOUS
    <3>2. nwrite(c, n) \in Int /\ (nwrite(c, n) <= n \/ nwrite(c, n) = -1)
      BY <1>1, <3>1, NWriteType
    <3>3. BufSize \in Int /\ BufSize >= 1
      BY EpollAssumption
    <3>4. PICK k \in Int : k = nwrite(c, n)
      BY <3>2
    <3>5. k <= BufSize
      BY <3>1, <3>2, <3>3, <3>4
    <3>. QED BY <3>4, <3>5
  <2>3. Done(c) /\ data_buf' = data_buf /\ mapped' = mapped
    BY <1>1, <1>3, <2>1, <2>2, EpollAssumption DEF WriteFront, Pop
  <2>4. Reset(c)' <=> Reset(c)
    BY <1>3 DEF WriteFront, Reset
  <2>5. Reset(c) => out' = out
    BY <1>3, WriteReset DEF WriteFront
  <2>6. RoomInv(c)'
    BY <1>1, <2>3, <2>4, <2>5 DEF ClientInv, RoomInv, Done, TypeOK, Fds
  <2>7. FirstInv(c)' /\ QueueInv(c)' /\ StreamInv(c)' /\ AssertHolds'
    BY <1>1, <2>3 DEF FirstInv, QueueInv, StreamInv, AtWrite, AssertHolds, Done
  <2>. QED BY <2>6, <2>7 DEF ClientInv
<1>. QED BY <1>2, <1>3 DEF OutUndefined

\* The first data: half of it goes out and the rest becomes the queue.
LEMMA FirstWriteInv ==
  ASSUME IInv, NEW c \in Clients, FirstWrite(c)
  PROVE  ClientInv(c)'
<1> DEFINE half == Size(readbuf) \div 2
           nw   == nwrite(c, half)
           rest == IF nw = -1 THEN [junk |-> 1, lo |-> readbuf.lo, hi |-> readbuf.hi]
                              ELSE Drop(readbuf, nw)
<1>1. /\ TypeOK /\ ClientInv(c) /\ AtWrite(c) /\ c \notin mapped
      /\ data_buf[c] = <<>> /\ deficit[c] = 0
  BY DEF IInv, FirstWrite, AtWrite, ClientInv, FirstInv
<1>2. /\ SocketWrite(c, readbuf, half) /\ Push(c, rest) /\ c \in mapped'
      /\ got' = got /\ rd' = rd /\ ub' = ub /\ events' = events /\ ~AtWrite(c)'
  BY DEF FirstWrite, AtWrite
<1>3. Reset(c)' <=> Reset(c)
  BY DEF FirstWrite, Reset
<1>4. FirstInv(c)'
  BY <1>2 DEF FirstInv
<1>5. data_buf'[c] = <<rest>> /\ deficit'[c] = 0
  <2>1. data_buf' = [data_buf EXCEPT ![c] = Append(@, rest)] /\ deficit' = deficit
    BY <1>1, <1>2 DEF Push
  <2>. HIDE DEF rest
  <2>2. data_buf'[c] = Append(<<>>, rest)
    BY <1>1, <2>1 DEF TypeOK
  <2>. QED BY <1>1, <2>1, <2>2
<1>6. CASE Reset(c)
  <2>1. out' = out
    BY <1>2, <1>6, WriteReset
  <2>. QED BY <1>1, <1>2, <1>3, <1>4, <1>5, <1>6, <2>1
       DEF ClientInv, RoomInv, QueueInv, StreamInv
<1>7. CASE ~Reset(c)
  <2>1. /\ c \notin ub /\ got[c] = <<>> /\ out[c] = <<>>
        /\ readbuf = Run(1, rd[c]) /\ rd[c] \in 1..BufSize
    BY <1>1, <1>7 DEF ClientInv, FirstInv
  <2>2. Size(readbuf) = rd[c] /\ half \in 0..(rd[c] - 1)
    BY <2>1, EpollAssumption DEF Size, Run
  <2>3. Len(out[c]) = 0 /\ nw = half
    BY <1>7, <2>1, <2>2, EpollAssumption DEF nwrite, MinOf
  <2>4. /\ Len(out'[c]) = half
        /\ \A i \in 1..half : out'[c][i] = Byte(readbuf, i)
    <3>1. /\ Len(out'[c]) = Len(out[c]) + nw
          /\ \A i \in 1..nw : out'[c][Len(out[c]) + i] = Byte(readbuf, i)
      <4>1. readbuf \in Strings /\ half \in Nat /\ Len(out[c]) < SndCap
        BY <1>1, <2>1, <2>2, <2>3, EpollAssumption DEF TypeOK
      <4>. QED BY <1>1, <1>2, <1>7, <4>1, WriteRoom
    <3>. QED BY <2>2, <2>3, <3>1
  <2>5. rest = Run(half + 1, rd[c])
    BY <2>1, <2>2, <2>3 DEF Drop, Run
  <2>. HIDE DEF rest
  <2>6. RoomInv(c)'
    BY <1>3, <1>7, <2>1, <2>2, <2>4, EpollAssumption DEF RoomInv
  <2>7. QueueInv(c)'
    BY <1>2, <1>5, <2>1, <2>2, <2>5, EpollAssumption DEF QueueInv, Size, Run
  <2>8. StreamInv(c)'
    <3>1. \A i \in 1..half : out'[c][i] = i
      BY <2>1, <2>2, <2>4 DEF Byte, Run
    <3>2. Covers(data_buf'[c], half + 1, rd[c])
      BY <1>5, <2>1, <2>2, <2>5, EpollAssumption DEF Covers, Run
    <3>. QED BY <1>2, <2>1, <2>2, <2>4, <3>1, <3>2 DEF StreamInv, Handed
  <2>. QED BY <1>4, <2>6, <2>7, <2>8 DEF ClientInv
<1>. QED BY <1>6, <1>7

\* A read: the bytes that follow go to the end of the queue, or are the
\* first data of the connection.
LEMMA ReadDataInv ==
  ASSUME IInv, NEW c \in Clients, ReadData(c)
  PROVE  ClientInv(c)'
<1> DEFINE nread == MinOf(BufSize, sent[c] - rd[c])
           s == Run(rd[c] + 1, rd[c] + nread)
<1>1. /\ TypeOK /\ ClientInv(c) /\ ~AtWrite(c) /\ mapped' = mapped /\ ub' = ub
      /\ got' = got /\ out' = out /\ events' = events
  BY DEF IInv, ReadData, AtWrite
<1>2. /\ rd[c] \in Nat /\ nread \in 1..BufSize /\ nread \in Nat \ {0}
      /\ rd'[c] = rd[c] + nread /\ readbuf' = s
  BY <1>1, EpollAssumption DEF ReadData, MinOf, TypeOK
<1>3. Reset(c)' <=> Reset(c)
  BY DEF ReadData, Reset
<1>. HIDE DEF nread
<1>4. RoomInv(c)'
  BY <1>1, <1>3 DEF ClientInv, RoomInv
<1>5. CASE c \in mapped
  <2>1. Push(c, s) /\ ~AtWrite(c)'
    BY <1>1, <1>5 DEF ReadData, AtWrite, nread
  <2>2. FirstInv(c)'
    BY <1>1, <1>5, <2>1 DEF FirstInv
  <2>3. data_buf[c] \in Seq(Strings) /\ deficit[c] \in Nat /\ s \in Strings /\ Size(s) <= BufSize
    BY <1>1, <1>2, EpollAssumption DEF TypeOK, Strings, Run, Size
  <2>4. CASE deficit[c] > 0
    <3>1. data_buf' = data_buf /\ c \in ub
      BY <1>1, <2>1, <2>3, <2>4 DEF Push, ClientInv, QueueInv
    <3>. QED BY <1>1, <1>3, <1>4, <2>2, <3>1 DEF ClientInv, QueueInv, StreamInv
  <2>5. CASE ~(deficit[c] > 0)
    <3>1. data_buf'[c] = Append(data_buf[c], s) /\ deficit' = deficit
      BY <1>1, <2>1, <2>5 DEF Push, TypeOK
    <3>. HIDE DEF s
    <3>2. /\ Len(data_buf'[c]) = Len(data_buf[c]) + 1
          /\ \A i \in 1..Len(data_buf[c]) : data_buf'[c][i] = data_buf[c][i]
          /\ data_buf'[c][Len(data_buf[c]) + 1] = s
      BY <2>3, <3>1, AppendProperties
    <3>3. QueueInv(c)'
      <4>1. ASSUME ~Reset(c), NEW i \in 1..Len(data_buf'[c])
            PROVE  Size(data_buf'[c][i]) <= BufSize
        <5>1. Len(data_buf[c]) \in Nat
          BY <2>3
        <5>2. i \in 1..Len(data_buf[c]) \/ i = Len(data_buf[c]) + 1
          BY <3>2, <5>1
        <5>3. i \in 1..Len(data_buf[c]) => Size(data_buf[c][i]) <= BufSize
          BY <1>1, <4>1 DEF ClientInv, QueueInv
        <5>. QED BY <2>3, <3>2, <5>2, <5>3
      <4>. QED BY <1>1, <1>3, <3>1, <4>1 DEF ClientInv, QueueInv
    <3>4. StreamInv(c)'
      <4>1. ASSUME c \notin ub, ~Reset(c) PROVE Covers(data_buf'[c], Handed(c) + 1, rd'[c])
        <5>1. Covers(data_buf[c], Handed(c) + 1, rd[c])
          BY <1>1, <4>1 DEF ClientInv, StreamInv
        <5>2. Handed(c) + 1 \in Nat
          BY <1>1 DEF TypeOK, Handed
        <5>3. Covers(Append(data_buf[c], Run(rd[c] + 1, rd[c] + nread)), Handed(c) + 1,
                     rd[c] + nread)
          BY <1>2, <2>3, <5>1, <5>2, CoversAppend
        <5>. QED BY <1>2, <3>1, <5>3 DEF s
      <4>2. Handed(c)' = Handed(c)
        BY <1>1 DEF Handed
      <4>. QED BY <1>1, <1>3, <4>1, <4>2 DEF ClientInv, StreamInv
    <3>. QED BY <1>4, <2>2, <3>3, <3>4 DEF ClientInv
  <2>. QED BY <2>4, <2>5
<1>6. CASE c \notin mapped
  <2>1. AtWrite(c)' /\ data_buf' = data_buf /\ deficit' = deficit
    BY <1>1, <1>6 DEF ReadData, AtWrite
  <2>2. FirstInv(c)'
    <3>1. ~Reset(c) => rd[c] = 0
      BY <1>1, <1>6 DEF ClientInv, FirstInv
    <3>2. ~Reset(c) => readbuf' = Run(1, rd'[c]) /\ rd'[c] \in 1..BufSize
      BY <1>2, <3>1, EpollAssumption
    <3>. QED BY <1>1, <1>3, <1>6, <2>1, <3>2 DEF ClientInv, FirstInv
  <2>3. QueueInv(c)' /\ StreamInv(c)'
    BY <1>1, <1>3, <2>1 DEF ClientInv, QueueInv, StreamInv
  <2>. QED BY <1>4, <2>2, <2>3 DEF ClientInv
<1>. QED BY <1>5, <1>6

\* The network moves bytes from the send buffer to the client, in order.
LEMMA DeliverInv ==
  ASSUME IInv, NEW c \in Clients, NEW n \in 1..SndCap, Deliver(c, n)
  PROVE  ClientInv(c)'
<1> DEFINE o == Len(out[c])
           g == Len(got[c])
<1>1. /\ TypeOK /\ ClientInv(c) /\ n \in 1..o /\ mapped' = mapped /\ ub' = ub
      /\ events' = events /\ data_buf' = data_buf /\ deficit' = deficit /\ rd' = rd
      /\ (AtWrite(c)' <=> AtWrite(c)) /\ readbuf' = readbuf /\ (Reset(c)' <=> Reset(c))
  BY DEF IInv, Deliver, serverVars, AtWrite, Reset
<1>2. out[c] \in Seq(Nat) /\ got[c] \in Seq(Nat) /\ o \in Nat /\ g \in Nat
  BY <1>1 DEF TypeOK
<1>3. /\ Len(out'[c]) = o - n
      /\ \A i \in 1..(o - n) : out'[c][i] = out[c][n + i]
      /\ Len(got'[c]) = g + n
      /\ \A i \in 1..g : got'[c][i] = got[c][i]
      /\ \A i \in 1..n : got'[c][g + i] = out[c][i]
  <2> DEFINE cut == SubSeq(out[c], 1, n)
  <2>1. /\ out'[c] = SubSeq(out[c], n + 1, Len(out[c]))
        /\ got'[c] = got[c] \o cut
    BY <1>1 DEF Deliver, TypeOK
  <2>2. /\ cut \in Seq(Nat) /\ Len(cut) = n
        /\ \A i \in 1..n : cut[i] = out[c][i]
        /\ Len(SubSeq(out[c], n + 1, Len(out[c]))) = o - n
        /\ \A i \in 1..(o - n) : SubSeq(out[c], n + 1, Len(out[c]))[i] = out[c][n + i]
    BY <1>1, <1>2, CutSeq
  <2>. HIDE DEF cut
  <2>3. /\ Len(got'[c]) = g + n
        /\ \A i \in 1..(g + n) :
             got'[c][i] = IF i <= g THEN got[c][i] ELSE cut[i - g]
    BY <1>2, <2>1, <2>2, ConcatProperties
  <2>. HIDE DEF g, o
  <2>4. \A i \in 1..g : got'[c][i] = got[c][i]
    BY <1>1, <1>2, <2>3
  <2>5. ASSUME NEW i \in 1..n PROVE got'[c][g + i] = out[c][i]
    <3>1. g + i \in 1..(g + n) /\ ~(g + i <= g) /\ g + i - g = i
      BY <1>1, <1>2
    <3>2. got'[c][g + i] = cut[g + i - g]
      BY <1>1, <1>2, <2>3, <3>1
    <3>. QED BY <2>2, <3>1, <3>2
  <2>. QED BY <2>1, <2>2, <2>3, <2>4, <2>5
<1>4. out[c] # <<>> /\ ~Reset(c) /\ c \in mapped
  <2>1. out[c] # <<>>
    BY <1>1, <1>2
  <2>. QED BY <1>1, <2>1 DEF ClientInv, RoomInv, FirstInv
<1>5. RoomInv(c)'
  <2>1. "EPOLLOUT" \in events[c] => o < SndCap
    BY <1>1, <1>4 DEF ClientInv, RoomInv
  <2>. HIDE DEF o
  <2>2. "EPOLLOUT" \in events[c] => Len(out'[c]) < SndCap
    BY <1>1, <1>2, <1>3, <2>1, EpollAssumption
  <2>. QED BY <1>1, <1>4, <2>2 DEF RoomInv
<1>6. FirstInv(c)' /\ QueueInv(c)'
  BY <1>1, <1>4 DEF ClientInv, FirstInv, QueueInv
<1>7. ASSUME c \notin ub PROVE StreamInv(c)'
  <2>1. /\ \A i \in 1..g : got[c][i] = i
        /\ \A i \in 1..o : out[c][i] = g + i
        /\ ~AtWrite(c) => Covers(data_buf[c], g + o + 1, rd[c])
    BY <1>1, <1>4, <1>7 DEF ClientInv, StreamInv, Handed
  <2>. HIDE DEF g, o
  <2>2. ASSUME NEW i \in 1..(g + n) PROVE got'[c][i] = i
    <3>1. CASE i <= g
      <4>1. i \in 1..g
        BY <1>1, <1>2, <3>1
      <4>. QED BY <1>3, <2>1, <4>1
    <3>2. CASE ~(i <= g)
      <4>1. i - g \in 1..n /\ g + (i - g) = i /\ i - g \in 1..o
        BY <1>1, <1>2, <3>2
      <4>. QED BY <1>3, <2>1, <4>1
    <3>. QED BY <3>1, <3>2
  <2>3. ASSUME NEW i \in 1..(o - n) PROVE out'[c][i] = (g + n) + i
    <3>1. n + i \in 1..o /\ g + (n + i) = (g + n) + i
      BY <1>1, <1>2
    <3>. QED BY <1>3, <2>1, <3>1
  <2>4. (g + n) + (o - n) + 1 = g + o + 1
    BY <1>1, <1>2
  <2>. QED BY <1>1, <1>3, <2>1, <2>2, <2>3, <2>4 DEF StreamInv, Handed
<1>8. StreamInv(c)'
  BY <1>1, <1>7 DEF StreamInv
<1>. QED BY <1>5, <1>6, <1>8 DEF ClientInv

\* Each step of the server, its clients and the network keeps the invariant.
LEMMA InvStep == IInv /\ [Next]_vars => IInv'
<1> SUFFICES ASSUME IInv, [Next]_vars PROVE IInv'
  OBVIOUS
<1>1. TypeOK /\ TypeOK'
  BY TypeStep DEF IInv
<1>2. \A d \in Clients : ClientInv(d)
  BY DEF IInv
<1>3. CASE UNCHANGED vars
  BY <1>3 DEF IInv, vars, serverVars, kernelVars, TypeOK, LoopInv, AssertHolds,
     ClientInv, RoomInv, FirstInv, QueueInv, StreamInv, Reset, AtWrite, Handed
<1>4. CASE Setup
  <2>1. ASSUME NEW d \in Clients PROVE ClientInv(d)'
    <3>1. ~AtWrite(d) /\ ~AtWrite(d)' /\ (Reset(d)' <=> Reset(d))
      BY <1>4 DEF Setup, AtWrite, Reset, kernelVars
    <3>. QED BY <1>2, <1>4, <3>1, Frame DEF Setup, kernelVars
  <2>. QED BY <1>1, <1>4, <2>1 DEF Setup, IInv, LoopInv, AssertHolds
<1>5. CASE EpollWait
  BY <1>1, <1>5, EpollWaitInv DEF EpollWait, IInv, LoopInv, AssertHolds
<1>6. CASE EpollTimeout
  BY <1>3, <1>6 DEF EpollTimeout
<1>7. CASE Accept
  <2>1. ASSUME NEW d \in Clients PROVE ClientInv(d)'
    <3>1. ~AtWrite(d) /\ ~AtWrite(d)' /\ (Reset(d)' <=> Reset(d))
      BY <1>7 DEF Accept, AtWrite, Reset
    <3>2. events'[d] \subseteq events[d]
      BY <1>1, <1>7, EpollAssumption DEF Accept, TypeOK, Fds
    <3>. QED BY <1>2, <1>7, <3>1, <3>2, Frame DEF Accept
  <2>. QED BY <1>1, <1>7, <2>1 DEF Accept, IInv, LoopInv, AssertHolds
<1>8. ASSUME NEW c \in Clients, NextEvent(c) PROVE IInv'
  <2>1. ASSUME NEW d \in Clients PROVE ClientInv(d)'
    <3>1. ~AtWrite(d) /\ ~AtWrite(d)' /\ (Reset(d)' <=> Reset(d))
      BY <1>8 DEF NextEvent, AtWrite, Reset, kernelVars
    <3>. QED BY <1>2, <1>8, <3>1, Frame DEF NextEvent, kernelVars
  <2>2. LoopInv' /\ AssertHolds'
    <3>1. events[c] \subseteq {"EPOLLIN", "EPOLLOUT"} /\ events[c] # {}
      BY <1>1, <1>8 DEF NextEvent, TypeOK, Fds, Masks
    <3>. QED BY <1>8, <3>1 DEF NextEvent, LoopInv, AssertHolds
  <2>. QED BY <1>1, <2>1, <2>2 DEF IInv
<1>9. ASSUME NEW c \in Clients, ReadData(c) PROVE IInv'
  <2>1. ASSUME NEW d \in Clients, d # c PROVE ClientInv(d)'
    <3>1. ~AtWrite(d) /\ ~AtWrite(d)' /\ (Reset(d)' <=> Reset(d))
      BY <1>9, <2>1 DEF ReadData, AtWrite, Reset
    <3>2. rd'[d] = rd[d] /\ data_buf'[d] = data_buf[d] /\ deficit'[d] = deficit[d]
      BY <1>1, <1>9, <2>1 DEF ReadData, Push, TypeOK
    <3>. QED BY <1>2, <1>9, <3>1, <3>2, Frame DEF ReadData
  <2>2. ClientInv(c)'
    BY <1>9, ReadDataInv
  <2>3. LoopInv' /\ AssertHolds'
    BY <1>9 DEF ReadData, LoopInv, AssertHolds
  <2>. QED BY <1>1, <2>1, <2>2, <2>3 DEF IInv
<1>10. ASSUME NEW c \in Clients, ReadError(c) PROVE IInv'
  <2>1. ASSUME NEW d \in Clients, d # c PROVE ClientInv(d)'
    <3>1. ~AtWrite(d) /\ ~AtWrite(d)' /\ (Reset(d)' <=> Reset(d))
      BY <1>10 DEF ReadError, AtWrite, Reset
    <3>2. data_buf'[d] = data_buf[d] /\ deficit'[d] = deficit[d]
      BY <1>1, <1>10, <2>1 DEF ReadError, TypeOK
    <3>. QED BY <1>2, <1>10, <2>1, <3>1, <3>2, Frame DEF ReadError
  <2>2. ClientInv(c)'
    <3>1. Reset(c) /\ Reset(c)' /\ ~AtWrite(c)'
      BY <1>10 DEF ReadError, Reset, AtWrite
    <3>2. data_buf'[c] = <<>> /\ deficit'[c] = 0
      BY <1>1, <1>10 DEF ReadError, TypeOK
    <3>3. RoomInv(c)'
      BY <1>2, <1>10, <3>1 DEF ReadError, ClientInv, RoomInv
    <3>4. FirstInv(c)' /\ QueueInv(c)'
      BY <3>1, <3>2 DEF FirstInv, QueueInv
    <3>5. StreamInv(c)'
      BY <1>2, <1>10, <3>1 DEF ReadError, ClientInv, StreamInv
    <3>. QED BY <3>3, <3>4, <3>5 DEF ClientInv
  <2>3. LoopInv' /\ AssertHolds'
    BY <1>10 DEF ReadError, LoopInv, AssertHolds
  <2>. QED BY <1>1, <2>1, <2>2, <2>3 DEF IInv
<1>11. ASSUME NEW c \in Clients, ReadBreak(c) PROVE IInv'
  <2>1. ASSUME NEW d \in Clients PROVE ClientInv(d)'
    <3>1. ~AtWrite(d) /\ ~AtWrite(d)' /\ (Reset(d)' <=> Reset(d))
      BY <1>11 DEF ReadBreak, Done, AtWrite, Reset, kernelVars
    <3>2. events'[d] \subseteq events[d]
      BY <1>1, <1>11 DEF ReadBreak, Done, TypeOK, Fds
    <3>. QED BY <1>2, <1>11, <3>1, <3>2, Frame DEF ReadBreak, kernelVars
  <2>2. LoopInv' /\ AssertHolds'
    BY <1>11 DEF ReadBreak, Done, LoopInv, AssertHolds
  <2>. QED BY <1>1, <2>1, <2>2 DEF IInv
<1>12. ASSUME NEW c \in Clients, FirstWrite(c) PROVE IInv'
  <2>1. ASSUME NEW d \in Clients, d # c PROVE ClientInv(d)'
    <3>1. ~AtWrite(d) /\ ~AtWrite(d)' /\ (Reset(d)' <=> Reset(d))
      BY <1>12, <2>1 DEF FirstWrite, AtWrite, Reset
    <3>2. data_buf'[d] = data_buf[d] /\ deficit'[d] = deficit[d] /\ out'[d] = out[d]
      BY <1>1, <1>12, <2>1 DEF FirstWrite, Push, SocketWrite, TypeOK
    <3>. QED BY <1>2, <1>12, <2>1, <3>1, <3>2, Frame DEF FirstWrite
  <2>2. ClientInv(c)'
    BY <1>12, FirstWriteInv
  <2>3. LoopInv' /\ AssertHolds'
    BY <1>12 DEF FirstWrite, LoopInv, AssertHolds
  <2>. QED BY <1>1, <2>1, <2>2, <2>3 DEF IInv
<1>13. ASSUME NEW c \in Clients, OutSkip(c) PROVE IInv'
  <2>1. ASSUME NEW d \in Clients PROVE ClientInv(d)'
    <3>1. ~AtWrite(d) /\ ~AtWrite(d)' /\ (Reset(d)' <=> Reset(d))
      BY <1>13 DEF OutSkip, Done, AtWrite, Reset, kernelVars
    <3>2. events'[d] \subseteq events[d]
      BY <1>1, <1>13 DEF OutSkip, Done, TypeOK, Fds
    <3>. QED BY <1>2, <1>13, <3>1, <3>2, Frame DEF OutSkip, kernelVars
  <2>2. LoopInv' /\ AssertHolds'
    BY <1>13 DEF OutSkip, Done, LoopInv, AssertHolds
  <2>. QED BY <1>1, <2>1, <2>2 DEF IInv
<1>14. ASSUME NEW c \in Clients, OutWrite(c) PROVE IInv'
  <2>1. Head(data_buf[c]) \in Strings
    BY <1>1, <1>14, HeadTailProperties DEF OutWrite, TypeOK
  <2>2. ASSUME NEW d \in Clients, d # c PROVE ClientInv(d)'
    BY <1>14, <2>1, <2>2, WriteFrontOther DEF OutWrite
  <2>3. ClientInv(c)' /\ AssertHolds'
    BY <1>1, <1>14, OutWriteInv
  <2>4. LoopInv'
    BY <1>14 DEF OutWrite, WriteFront, Done, LoopInv
  <2>. QED BY <1>1, <2>2, <2>3, <2>4 DEF IInv
<1>15. ASSUME NEW c \in Clients, OutUndefined(c) PROVE IInv'
  <2>1. ASSUME NEW d \in Clients, d # c PROVE ClientInv(d)'
    <3>1. ~AtWrite(d) /\ ((d \in ub)' <=> d \in ub) /\ pc = "out"
      BY <1>15, <2>1 DEF OutUndefined, AtWrite
    <3>2. CASE pc' = "segv" /\ UNCHANGED <<cur, events, readbuf, mapped, data_buf, deficit,
                                           kernelVars, got, raced>>
      <4>1. ~AtWrite(d)' /\ (Reset(d)' <=> Reset(d))
        BY <3>2 DEF AtWrite, Reset, kernelVars
      <4>. QED BY <1>2, <3>1, <3>2, <4>1, Frame DEF kernelVars
    <3>3. ASSUME NEW n \in 0..1, WriteFront(c, [junk |-> n, lo |-> 1, hi |-> 0])
          PROVE  ClientInv(d)'
      <4>1. [junk |-> n, lo |-> 1, hi |-> 0] \in Strings
        BY DEF Strings
      <4>. QED BY <2>1, <3>1, <3>3, <4>1, WriteFrontOther
    <3>. QED BY <1>15, <3>2, <3>3 DEF OutUndefined
  <2>2. ClientInv(c)' /\ AssertHolds'
    BY <1>15, OutUndefinedInv
  <2>3. LoopInv'
    BY <1>15 DEF OutUndefined, WriteFront, Done, LoopInv
  <2>. QED BY <1>1, <2>1, <2>2, <2>3 DEF IInv
<1>16. ASSUME NEW c \in Clients, SigPipe(c) PROVE IInv'
  <2>1. ASSUME NEW d \in Clients PROVE ClientInv(d)'
    BY <1>2, <1>16 DEF SigPipe, kernelVars, ClientInv, RoomInv, FirstInv, QueueInv,
       StreamInv, AtWrite, Reset, Handed, Kills
  <2>. QED BY <1>1, <1>16, <2>1 DEF SigPipe, IInv, LoopInv, AssertHolds
<1>17. ASSUME NEW c \in Clients, Connect(c) PROVE IInv'
  <2>1. ASSUME NEW d \in Clients PROVE ClientInv(d)'
    <3>1. (AtWrite(d)' <=> AtWrite(d)) /\ (Reset(d)' <=> Reset(d))
      BY <1>17 DEF Connect, AtWrite, Reset, serverVars
    <3>. QED BY <1>2, <1>17, <3>1, Frame DEF Connect, serverVars
  <2>. QED BY <1>1, <1>17, <2>1 DEF Connect, serverVars, IInv, LoopInv, AssertHolds
<1>18. ASSUME NEW c \in Clients, NEW n \in 1..MaxSend, Arrive(c, n) PROVE IInv'
  <2>1. ASSUME NEW d \in Clients PROVE ClientInv(d)'
    <3>1. (AtWrite(d)' <=> AtWrite(d)) /\ (Reset(d)' <=> Reset(d))
      BY <1>18 DEF Arrive, AtWrite, Reset, serverVars
    <3>. QED BY <1>2, <1>18, <3>1, Frame DEF Arrive, serverVars
  <2>. QED BY <1>1, <1>18, <2>1 DEF Arrive, serverVars, IInv, LoopInv, AssertHolds
<1>19. ASSUME NEW c \in Clients, ArriveFin(c) PROVE IInv'
  <2>1. ASSUME NEW d \in Clients PROVE ClientInv(d)'
    <3>1. (AtWrite(d)' <=> AtWrite(d)) /\ (Reset(d)' <=> Reset(d))
      BY <1>1, <1>19 DEF ArriveFin, AtWrite, Reset, serverVars, TypeOK
    <3>. QED BY <1>2, <1>19, <3>1, Frame DEF ArriveFin, serverVars
  <2>. QED BY <1>1, <1>19, <2>1 DEF ArriveFin, serverVars, IInv, LoopInv, AssertHolds
<1>20. ASSUME NEW c \in Clients, ArriveRst(c) PROVE IInv'
  <2>1. ASSUME NEW d \in Clients, d # c PROVE ClientInv(d)'
    <3>1. (AtWrite(d)' <=> AtWrite(d)) /\ (Reset(d)' <=> Reset(d)) /\ out'[d] = out[d]
      BY <1>1, <1>20, <2>1 DEF ArriveRst, AtWrite, Reset, serverVars, TypeOK
    <3>. QED BY <1>2, <1>20, <3>1, Frame DEF ArriveRst, serverVars
  <2>2. ClientInv(c)'
    <3>1. /\ Reset(c)' /\ out'[c] = <<>> /\ (AtWrite(c)' <=> AtWrite(c))
          /\ ClientInv(c) /\ Len(<<>>) = 0
      BY <1>1, <1>2, <1>20 DEF ArriveRst, AtWrite, Reset, serverVars, TypeOK
    <3>2. RoomInv(c)'
      BY <3>1 DEF RoomInv
    <3>3. FirstInv(c)' /\ QueueInv(c)'
      BY <1>20, <3>1 DEF ArriveRst, serverVars, ClientInv, FirstInv, QueueInv
    <3>4. StreamInv(c)'
      BY <1>20, <3>1 DEF ArriveRst, serverVars, ClientInv, StreamInv
    <3>. QED BY <3>2, <3>3, <3>4 DEF ClientInv
  <2>. QED BY <1>1, <1>20, <2>1, <2>2 DEF ArriveRst, serverVars, IInv, LoopInv, AssertHolds
<1>21. ASSUME NEW c \in Clients, NEW n \in 1..SndCap, Deliver(c, n) PROVE IInv'
  <2>1. ASSUME NEW d \in Clients, d # c PROVE ClientInv(d)'
    <3>1. /\ (AtWrite(d)' <=> AtWrite(d)) /\ (Reset(d)' <=> Reset(d))
          /\ out'[d] = out[d] /\ got'[d] = got[d]
      BY <1>1, <1>21, <2>1 DEF Deliver, AtWrite, Reset, serverVars, TypeOK
    <3>. QED BY <1>2, <1>21, <3>1, Frame DEF Deliver, serverVars
  <2>2. ClientInv(c)'
    BY <1>21, DeliverInv
  <2>. QED BY <1>1, <1>21, <2>1, <2>2 DEF Deliver, serverVars, IInv, LoopInv, AssertHolds
<1>. QED
  BY <1>3, <1>4, <1>5, <1>6, <1>7, <1>8, <1>9, <1>10, <1>11, <1>12, <1>13, <1>14, <1>15,
     <1>16, <1>17, <1>18, <1>19, <1>20, <1>21
  DEF Next, Server, Environment

\* The server starts with nothing connected.
LEMMA InitInv == Init => IInv
<1>1. Init => TypeOK
  BY DEF Init, TypeOK, Fds, Masks, Strings, Run
<1>2. ASSUME Init PROVE LoopInv /\ AssertHolds
  BY <1>2 DEF Init, LoopInv, AssertHolds
<1>3. ASSUME Init, NEW c \in Clients PROVE ClientInv(c)
  <2>1. ~Reset(c) /\ ~AtWrite(c)
    BY <1>3 DEF Init, Reset, AtWrite
  <2>2. RoomInv(c)
    BY <1>3, <2>1 DEF Init, RoomInv, Fds
  <2>3. FirstInv(c) /\ QueueInv(c) /\ StreamInv(c)
    BY <1>3, <2>1 DEF Init, FirstInv, QueueInv, StreamInv, Handed, Covers
  <2>. QED BY <2>2, <2>3 DEF ClientInv
<1>. QED BY <1>1, <1>2, <1>3 DEF IInv

\* The inductive invariant holds in every reachable state.
THEOREM Invariant == Spec => []IInv
BY InitInv, InvStep, PTL DEF Spec

\* A client only ever receives a beginning of the stream it sent, until
\* front() has been called on its empty queue (echo_server.cpp:139-183).
THEOREM EchoIsPrefix == Spec => []EchoPrefix
<1>1. IInv => EchoPrefix
  BY DEF IInv, ClientInv, StreamInv, EchoPrefix
<1>. QED BY <1>1, Invariant, PTL

\* Between read() and write() of a live connection no byte is lost, repeated
\* or moved, whatever the buffer sizes (echo_server.cpp:139-183).
THEOREM NoByteLost == Spec => []NothingLost
<1>1. IInv => NothingLost
  BY DEF IInv, ClientInv, StreamInv, NothingLost, AtWrite
<1>. QED BY <1>1, Invariant, PTL

\* The assertion at echo_server.cpp:172 cannot fail.
THEOREM AssertionHolds == Spec => []AssertHolds
<1>1. IInv => AssertHolds
  BY DEF IInv
<1>. QED BY <1>1, Invariant, PTL

(* Resets -----------------------------------------------------------------*)

\* A client the step leaves alone keeps its part of the race invariant.
LEMMA RaceFrame ==
  ASSUME NEW d \in Clients, RaceInv(d),
         UNCHANGED <<link[d], sent[d], rd[d], events[d], d \in raced, d \in err>>,
         d \in mapped' => d \in mapped,
         AtWrite(d)' => AtWrite(d),
         (pc = "out" /\ cur = d)' => (pc = "out" /\ cur = d)
  PROVE  RaceInv(d)'
BY DEF RaceInv

\* write() to client c's socket tells nobody else anything.
LEMMA RaceWrite ==
  ASSUME TypeOK, NEW c \in Clients, NEW s \in Strings, WriteFront(c, s),
         pc = "out", cur = c, "EPOLLOUT" \in events[c], c \in mapped,
         \A d \in Clients : RaceInv(d)
  PROVE  BusyInv' /\ \A d \in Clients : RaceInv(d)'
<1>1. /\ cur' = cur /\ mapped' = mapped /\ link' = link /\ sent' = sent /\ rd' = rd
      /\ raced' = raced /\ err' = err \ {c} /\ pc' \in {"loop", "abort"}
      /\ \A d \in Clients : d # c => events'[d] = events[d]
  BY DEF WriteFront, SocketWrite, Done, TypeOK, Fds
<1>2. ASSUME NEW d \in Clients, d # c PROVE RaceInv(d)'
  BY <1>1, <1>2, RaceFrame DEF AtWrite
<1>3. RaceInv(c)'
  <2>1. RaceInv(c) /\ ~Kills(c)
    BY DEF WriteFront
  <2>2. ~(link[c] = "rst" /\ c \notin raced)
    BY <2>1 DEF RaceInv, Kills
  <2>. QED BY <1>1, <2>1, <2>2 DEF RaceInv
<1>. QED BY <1>1, <1>2, <1>3 DEF BusyInv

\* Each step keeps the race invariant.
LEMMA RaceStep == IInv /\ RaceAll /\ [Next]_vars => RaceAll'
<1> SUFFICES ASSUME IInv, RaceAll, [Next]_vars PROVE RaceAll'
  OBVIOUS
<1>1. /\ TypeOK /\ LoopInv /\ BusyInv /\ SigPipeOnlyByRace
      /\ \A d \in Clients : RaceInv(d) /\ ClientInv(d)
  BY DEF IInv, RaceAll
<1>2. CASE UNCHANGED vars
  BY <1>1, <1>2 DEF vars, serverVars, kernelVars, RaceAll, RaceInv, BusyInv,
     SigPipeOnlyByRace, AtWrite
<1>3. CASE Setup
  BY <1>1, <1>3 DEF Setup, kernelVars, RaceAll, RaceInv, BusyInv, SigPipeOnlyByRace, AtWrite
<1>4. CASE EpollWait
  <2>1. ASSUME NEW d \in Clients PROVE RaceInv(d)'
    <3>1. events'[d] = {} \/ events'[d] = Poll(d)
      BY <1>4, EpollAssumption DEF EpollWait, Fds
    <3>2. link[d] = "rst" => "EPOLLIN" \in Poll(d)
      BY DEF Poll
    <3>. QED BY <1>1, <1>4, <3>1, <3>2 DEF EpollWait, RaceInv, AtWrite
  <2>. QED BY <1>4, <2>1 DEF EpollWait, RaceAll, BusyInv, SigPipeOnlyByRace
<1>5. CASE EpollTimeout
  BY <1>2, <1>5 DEF EpollTimeout
<1>6. CASE Accept
  <2>1. \A d \in Clients : events'[d] = events[d]
    BY <1>1, <1>6, EpollAssumption DEF Accept, TypeOK, Fds
  <2>. QED BY <1>1, <1>6, <2>1 DEF Accept, RaceAll, RaceInv, BusyInv, SigPipeOnlyByRace, AtWrite
<1>7. ASSUME NEW c \in Clients, NextEvent(c) PROVE RaceAll'
  <2>1. ASSUME NEW d \in Clients PROVE RaceInv(d)'
    BY <1>1, <1>7 DEF NextEvent, kernelVars, RaceInv, AtWrite
  <2>. QED BY <1>7, <2>1 DEF NextEvent, RaceAll, BusyInv, SigPipeOnlyByRace
<1>8. ASSUME NEW c \in Clients, ReadData(c) PROVE RaceAll'
  <2>1. ASSUME NEW d \in Clients, d # c PROVE RaceInv(d)'
    <3>1. rd'[d] = rd[d]
      BY <1>1, <1>8, <2>1 DEF ReadData, TypeOK
    <3>. QED BY <1>1, <1>8, <2>1, <3>1, RaceFrame DEF ReadData, AtWrite
  <2>2. RaceInv(c)'
    <3>1. sent[c] # rd[c]
      BY <1>1, <1>8 DEF ReadData, TypeOK
    <3>. QED BY <1>1, <1>8, <3>1 DEF ReadData, RaceInv
  <2>3. pc' \in {"read", "write"}
    BY <1>8 DEF ReadData
  <2>. QED BY <1>1, <1>8, <2>1, <2>2, <2>3 DEF ReadData, RaceAll, BusyInv, SigPipeOnlyByRace
<1>9. ASSUME NEW c \in Clients, ReadError(c) PROVE RaceAll'
  <2>1. ASSUME NEW d \in Clients, d # c PROVE RaceInv(d)'
    BY <1>1, <1>9, <2>1, RaceFrame DEF ReadError, AtWrite
  <2>2. RaceInv(c)'
    BY <1>1, <1>9 DEF ReadError, RaceInv, AtWrite
  <2>. QED BY <1>1, <1>9, <2>1, <2>2 DEF ReadError, RaceAll, BusyInv, SigPipeOnlyByRace
<1>10. ASSUME NEW c \in Clients, ReadBreak(c) PROVE RaceAll'
  <2>1. ASSUME NEW d \in Clients, d # c PROVE RaceInv(d)'
    <3>1. events'[d] = events[d]
      BY <1>1, <1>10, <2>1 DEF ReadBreak, Done, TypeOK, Fds
    <3>. QED BY <1>1, <1>10, <2>1, <3>1, RaceFrame DEF ReadBreak, Done, AtWrite, kernelVars
  <2>2. RaceInv(c)'
    <3>1. events' = events \/ events'[c] = {}
      BY <1>1, <1>10 DEF ReadBreak, Done, TypeOK, Fds
    <3>2. pc' \in {"loop", "out"}
      BY <1>10 DEF ReadBreak, Done
    <3>. QED BY <1>1, <1>10, <3>1, <3>2 DEF ReadBreak, RaceInv, AtWrite, kernelVars
  <2>. QED BY <1>1, <1>10, <2>1, <2>2 DEF ReadBreak, Done, RaceAll, BusyInv, SigPipeOnlyByRace
<1>11. ASSUME NEW c \in Clients, FirstWrite(c) PROVE RaceAll'
  <2>1. ASSUME NEW d \in Clients, d # c PROVE RaceInv(d)'
    BY <1>1, <1>11, <2>1, RaceFrame DEF FirstWrite, SocketWrite, AtWrite
  <2>2. RaceInv(c)'
    BY <1>1, <1>11 DEF FirstWrite, RaceInv, AtWrite
  <2>. QED BY <1>1, <1>11, <2>1, <2>2 DEF FirstWrite, RaceAll, BusyInv, SigPipeOnlyByRace
<1>12. ASSUME NEW c \in Clients, OutSkip(c) PROVE RaceAll'
  <2>1. ASSUME NEW d \in Clients, d # c PROVE RaceInv(d)'
    <3>1. events'[d] = events[d]
      BY <1>1, <1>12, <2>1 DEF OutSkip, Done, TypeOK, Fds
    <3>. QED BY <1>1, <1>12, <2>1, <3>1, RaceFrame DEF OutSkip, Done, AtWrite, kernelVars
  <2>2. RaceInv(c)'
    <3>1. events'[c] = {}
      BY <1>1, <1>12 DEF OutSkip, Done, TypeOK, Fds
    <3>. QED BY <1>1, <1>12, <3>1 DEF OutSkip, Done, RaceInv, AtWrite, kernelVars
  <2>. QED BY <1>12, <2>1, <2>2 DEF OutSkip, Done, RaceAll, BusyInv, SigPipeOnlyByRace
<1>13. ASSUME NEW c \in Clients, OutWrite(c) PROVE RaceAll'
  <2>1. Head(data_buf[c]) \in Strings
    BY <1>1, <1>13, HeadTailProperties DEF OutWrite, TypeOK
  <2>2. BusyInv' /\ \A d \in Clients : RaceInv(d)'
    BY <1>1, <1>13, <2>1, RaceWrite DEF OutWrite, LoopInv
  <2>. QED BY <1>13, <2>2 DEF OutWrite, WriteFront, Done, RaceAll, SigPipeOnlyByRace
<1>14. ASSUME NEW c \in Clients, OutUndefined(c) PROVE RaceAll'
  <2>1. CASE pc' = "segv" /\ UNCHANGED <<cur, events, readbuf, mapped, data_buf, deficit,
                                         kernelVars, got, raced>>
    BY <1>1, <2>1 DEF kernelVars, RaceAll, RaceInv, BusyInv, SigPipeOnlyByRace, AtWrite
  <2>2. ASSUME NEW n \in 0..1, WriteFront(c, [junk |-> n, lo |-> 1, hi |-> 0])
        PROVE  RaceAll'
    <3>1. [junk |-> n, lo |-> 1, hi |-> 0] \in Strings
      BY DEF Strings
    <3>2. BusyInv' /\ \A d \in Clients : RaceInv(d)'
      BY <1>1, <1>14, <2>2, <3>1, RaceWrite DEF OutUndefined, LoopInv
    <3>. QED BY <2>2, <3>2 DEF WriteFront, Done, RaceAll, SigPipeOnlyByRace
  <2>. QED BY <1>14, <2>1, <2>2 DEF OutUndefined
<1>15. ASSUME NEW c \in Clients, SigPipe(c) PROVE RaceAll'
  <2>1. c \in raced
    <3>1. CASE link[c] = "finrst"
      BY <1>1, <3>1 DEF RaceInv
    <3>2. CASE link[c] = "rst" /\ c \notin err
      BY <1>1, <1>15, <3>2 DEF SigPipe, RaceInv, AtWrite
    <3>. QED BY <1>15, <3>1, <3>2 DEF SigPipe, Kills
  <2>2. \A d \in Clients : RaceInv(d)'
    BY <1>1, <1>15 DEF SigPipe, kernelVars, RaceInv, AtWrite
  <2>. QED BY <1>15, <2>1, <2>2 DEF SigPipe, RaceAll, BusyInv, SigPipeOnlyByRace
<1>16. ASSUME NEW c \in Clients, Connect(c) PROVE RaceAll'
  BY <1>1, <1>16 DEF Connect, serverVars, RaceAll, RaceInv, BusyInv, SigPipeOnlyByRace, AtWrite
<1>17. ASSUME NEW c \in Clients, NEW n \in 1..MaxSend, Arrive(c, n) PROVE RaceAll'
  <2>1. ASSUME NEW d \in Clients PROVE RaceInv(d)'
    <3>1. link[d] = "rst" => sent'[d] = sent[d]
      BY <1>1, <1>17 DEF Arrive, TypeOK
    <3>. QED BY <1>1, <1>17, <3>1 DEF Arrive, serverVars, RaceInv, AtWrite
  <2>. QED BY <1>1, <1>17, <2>1 DEF Arrive, serverVars, RaceAll, BusyInv, SigPipeOnlyByRace
<1>18. ASSUME NEW c \in Clients, ArriveFin(c) PROVE RaceAll'
  <2>1. ASSUME NEW d \in Clients PROVE RaceInv(d)'
    <3>1. link'[d] = link[d] \/ link'[d] = "fin"
      BY <1>1, <1>18 DEF ArriveFin, TypeOK
    <3>. QED BY <1>1, <1>18, <3>1 DEF ArriveFin, serverVars, RaceInv, AtWrite
  <2>. QED BY <1>1, <1>18, <2>1 DEF ArriveFin, serverVars, RaceAll, BusyInv, SigPipeOnlyByRace
<1>19. ASSUME NEW c \in Clients, ArriveRst(c) PROVE RaceAll'
  <2>1. ASSUME NEW d \in Clients, d # c PROVE RaceInv(d)'
    <3>1. link'[d] = link[d] /\ (d \in raced' <=> d \in raced) /\ (d \in err' <=> d \in err)
      BY <1>1, <1>19, <2>1 DEF ArriveRst, TypeOK
    <3>. QED BY <1>1, <1>19, <3>1 DEF ArriveRst, serverVars, RaceInv, AtWrite
  <2>2. RaceInv(c)'
    <3>1. CASE Quiet(c)
      <4>1. sent[c] = rd[c] /\ events[c] = {} /\ link'[c] = "rst" /\ c \in err'
        BY <1>1, <1>19, <3>1 DEF ArriveRst, Quiet, TypeOK
      <4>2. ~(pc \in {"read", "write", "out"} /\ cur = c)
        BY <1>1, <4>1 DEF BusyInv, LoopInv
      <4>. QED BY <1>19, <4>1, <4>2 DEF ArriveRst, serverVars, RaceInv, AtWrite
    <3>2. CASE ~Quiet(c)
      BY <1>19, <3>2 DEF ArriveRst, RaceInv
    <3>. QED BY <3>1, <3>2
  <2>3. raced \subseteq raced'
    BY <1>19 DEF ArriveRst
  <2>. QED BY <1>1, <1>19, <2>1, <2>2, <2>3 DEF ArriveRst, serverVars, RaceAll, BusyInv,
       SigPipeOnlyByRace
<1>20. ASSUME NEW c \in Clients, NEW n \in 1..SndCap, Deliver(c, n) PROVE RaceAll'
  BY <1>1, <1>20 DEF Deliver, serverVars, RaceAll, RaceInv, BusyInv, SigPipeOnlyByRace, AtWrite
<1>. QED
  BY <1>2, <1>3, <1>4, <1>5, <1>6, <1>7, <1>8, <1>9, <1>10, <1>11, <1>12, <1>13, <1>14,
     <1>15, <1>16, <1>17, <1>18, <1>19, <1>20
  DEF Next, Server, Environment

\* The server is only ever killed by a reset that comes while there is data
\* of the client to read, an event of it to handle, or after its FIN; a
\* client that hangs up at a quiet moment is noticed by read()
\* (echo_server.cpp:133-163).
THEOREM QuietResetHarmless == Spec => []SigPipeOnlyByRace
<1>1. Init => RaceAll
  BY DEF Init, RaceAll, RaceInv, BusyInv, SigPipeOnlyByRace, AtWrite
<1>2. RaceAll => SigPipeOnlyByRace
  BY DEF RaceAll
<1>. QED BY <1>1, <1>2, RaceStep, Invariant, PTL DEF Spec

(* The abstract echo server -----------------------------------------------*)

\* A queue that covers what is left of r bytes read leaves at most r bytes
\* for the client and the send buffer, and fewer while something is queued.
LEMMA CoversBound ==
  ASSUME NEW q \in Seq(Strings), NEW h \in Nat, NEW r \in Nat,
         Covers(q, h + 1, r), \A i \in 1..Len(q) : q[i].hi <= r
  PROVE  IF q = <<>> THEN h = r ELSE h < r
<1>1. CASE q = <<>>
  BY <1>1 DEF Covers
<1>2. CASE q # <<>>
  <2>1. Len(q) \in Nat \ {0}
    BY <1>2, EmptySeq, LenProperties
  <2>2. 1 \in 1..Len(q) /\ q[1] \in Strings
    BY <2>1, ElementOfSeq
  <2>3. q[1].lo = h + 1 /\ q[1].lo <= q[1].hi /\ q[1].hi <= r /\ q[1].hi \in Nat
    BY <1>2, <2>2 DEF Covers, Strings
  <2>. QED BY <1>2, <2>3
<1>. QED BY <1>1, <1>2

\* A client of which the step touches neither bytes nor queue.
LEMMA CountFrame ==
  ASSUME NEW d \in Clients, CountInv(d),
         UNCHANGED <<sent[d], rd[d], got[d], data_buf[d]>>,
         d \in ub => d \in ub',
         Reset(d) => Reset(d)'
  PROVE  CountInv(d)'
BY DEF CountInv

\* A live client that is not about to be answered for the first time has
\* been handed no more than was read.
LEMMA HandedRead ==
  ASSUME TypeOK, NEW c \in Clients, ClientInv(c), CountInv(c), c \notin ub
  PROVE  Len(got[c]) + Len(out[c]) <= rd[c]
<1>1. PICK h \in Nat : h = Handed(c)
  BY DEF TypeOK, Handed
<1>2. rd[c] \in Nat /\ data_buf[c] \in Seq(Strings)
  BY DEF TypeOK
<1>3. CASE Reset(c)
  <2>1. out[c] = <<>> /\ got[c] \in Seq(Nat) /\ Len(got[c]) <= rd[c]
    BY <1>3 DEF ClientInv, RoomInv, CountInv, TypeOK
  <2>. QED BY <1>2, <2>1
<1>4. CASE ~Reset(c) /\ AtWrite(c)
  <2>1. got[c] = <<>> /\ out[c] = <<>>
    BY <1>4 DEF ClientInv, FirstInv
  <2>. QED BY <1>2, <2>1
<1>5. CASE ~Reset(c) /\ ~AtWrite(c)
  <2>1. Covers(data_buf[c], h + 1, rd[c])
    BY <1>1, <1>5 DEF ClientInv, StreamInv
  <2>2. \A i \in 1..Len(data_buf[c]) : data_buf[c][i].hi <= rd[c]
    BY <1>5 DEF CountInv
  <2>3. h <= rd[c]
    BY <1>2, <2>1, <2>2, CoversBound
  <2>. QED BY <1>1, <2>3 DEF Handed
<1>. QED BY <1>3, <1>4, <1>5

\* Erasing a beginning of a string leaves its end where it is.
LEMMA DropHi ==
  ASSUME NEW s \in Strings, NEW n \in Int
  PROVE  Drop(s, n).hi = s.hi
BY DEF Strings, Drop, Run

\* read() takes what has arrived and queues what it took.
LEMMA ReadDataCount ==
  ASSUME TypeOK, NEW c \in Clients, CountInv(c), ReadData(c), TypeOK'
  PROVE  CountInv(c)'
<1>1. PICK n \in Nat : n = MinOf(BufSize, sent[c] - rd[c])
  BY EpollAssumption DEF ReadData, MinOf, TypeOK
<1>2. PICK r \in Nat : r = rd[c]
  BY DEF TypeOK
<1>3. PICK q \in Seq(Strings) : q = data_buf[c]
  BY DEF TypeOK
<1>4. /\ rd'[c] = r + n /\ sent' = sent /\ got' = got /\ ub' = ub /\ link' = link
      /\ c \in mapped => Push(c, Run(r + 1, r + n))
      /\ c \notin mapped => data_buf' = data_buf
  BY <1>1, <1>2 DEF ReadData, TypeOK
<1>5. r + n <= sent[c]
  BY <1>1, <1>2, EpollAssumption DEF ReadData, MinOf, TypeOK
<1>6. data_buf'[c] = q \/ data_buf'[c] = Append(q, Run(r + 1, r + n))
  BY <1>3, <1>4 DEF Push, TypeOK
<1>7. c \notin ub => Len(got[c]) <= r + n
  <2>1. Len(got[c]) \in Nat
    BY DEF TypeOK
  <2>2. c \notin ub => Len(got[c]) <= r
    BY <1>2 DEF CountInv
  <2>. QED BY <1>1, <1>2, <2>1, <2>2
<1>8. ASSUME c \notin ub, ~Reset(c), NEW i \in 1..Len(data_buf'[c])
      PROVE  data_buf'[c][i].hi <= r + n
  <2>1. \A j \in 1..Len(q) : q[j].hi <= r + n
    <3>1. \A j \in 1..Len(q) : q[j].hi <= r
      BY <1>2, <1>3, <1>8 DEF CountInv
    <3>2. ASSUME NEW j \in 1..Len(q) PROVE q[j].hi <= r + n
      <4>1. q[j] \in Strings /\ q[j].hi <= r
        BY <3>1, ElementOfSeq
      <4>. QED BY <4>1 DEF Strings
    <3>. QED BY <3>2
  <2>2. CASE data_buf'[c] = q
    BY <1>8, <2>1, <2>2
  <2>3. CASE data_buf'[c] = Append(q, Run(r + 1, r + n))
    <3>1. /\ Len(data_buf'[c]) = Len(q) + 1
          /\ \A j \in 1..Len(q) : data_buf'[c][j] = q[j]
          /\ data_buf'[c][Len(q) + 1] = Run(r + 1, r + n)
      <4>1. Run(r + 1, r + n) \in Strings
        BY DEF Run, Strings
      <4>. QED BY <2>3, <4>1, AppendProperties
    <3>2. Run(r + 1, r + n).hi = r + n
      BY DEF Run
    <3>3. i \in 1..Len(q) \/ i = Len(q) + 1
      BY <3>1, LenProperties
    <3>. QED BY <2>1, <3>1, <3>2, <3>3
  <2>. QED BY <1>6, <2>2, <2>3
<1>. QED BY <1>4, <1>5, <1>7, <1>8 DEF CountInv, Reset

\* The queued rest of the first data ends where the data ended.
LEMMA FirstWriteCount ==
  ASSUME TypeOK, NEW c \in Clients, ClientInv(c), CountInv(c), FirstWrite(c)
  PROVE  CountInv(c)'
<1> DEFINE nw == nwrite(c, Size(readbuf) \div 2)
           rest == IF nw = -1 THEN [junk |-> 1, lo |-> readbuf.lo, hi |-> readbuf.hi]
                              ELSE Drop(readbuf, nw)
<1>1. /\ rd' = rd /\ sent' = sent /\ got' = got /\ ub' = ub /\ link' = link
      /\ Push(c, rest) /\ AtWrite(c)
  BY DEF FirstWrite, AtWrite
<1>2. data_buf[c] = <<>> /\ deficit[c] = 0
  BY <1>1 DEF ClientInv, FirstInv
<1>3. rest.hi = readbuf.hi
  <2>1. nw \in Int /\ readbuf \in Strings
    <3>1. readbuf \in Strings
      BY DEF TypeOK
    <3>2. Size(readbuf) \div 2 \in Int
      BY <3>1 DEF Size, Strings
    <3>. QED BY <3>1, <3>2, NWriteType
  <2>. HIDE DEF nw
  <2>2. Drop(readbuf, nw).hi = readbuf.hi
    BY <2>1, DropHi
  <2>. QED BY <2>2
<1>. HIDE DEF rest
<1>4. data_buf'[c] = <<rest>>
  <2>1. data_buf'[c] = Append(<<>>, rest)
    BY <1>1, <1>2 DEF Push, TypeOK
  <2>. QED BY <2>1
<1>5. ~Reset(c) => rest.hi <= rd[c]
  <2>1. ~Reset(c) => readbuf = Run(1, rd[c]) /\ rd[c] \in Nat
    BY <1>1 DEF ClientInv, FirstInv, TypeOK
  <2>. QED BY <1>3, <2>1 DEF Run
<1>. QED BY <1>1, <1>4, <1>5 DEF CountInv, Reset

\* Writing, in full or in part, leaves strings that end where they did.
LEMMA OutWriteCount ==
  ASSUME TypeOK, NEW c \in Clients, CountInv(c), OutWrite(c)
  PROVE  CountInv(c)'
<1>1. PICK q \in Seq(Strings) : q = data_buf[c]
  BY DEF TypeOK
<1>2. q # <<>> /\ Len(q) \in Nat \ {0} /\ Head(q) = q[1] /\ Head(q) \in Strings
  <2>1. q # <<>>
    BY <1>1 DEF OutWrite
  <2>2. Len(q) \in Nat \ {0}
    BY <2>1, EmptySeq, LenProperties
  <2>. QED BY <2>1, <2>2, ElementOfSeq, HeadTailProperties
<1>3. PICK nw \in Int : nw = nwrite(c, Size(Head(q)))
  <2>1. Size(Head(q)) \in Int
    BY <1>2 DEF Size, Strings
  <2>. QED BY <2>1, NWriteType
<1>4. /\ rd' = rd /\ sent' = sent /\ got' = got /\ ub' = ub /\ link' = link
      /\ WriteFront(c, Head(q))
  BY <1>1 DEF OutWrite, WriteFront
<1>5. \/ data_buf'[c] = q
      \/ data_buf'[c] = [q EXCEPT ![1] = Drop(Head(q), nw)]
      \/ data_buf'[c] = Tail(q)
  BY <1>1, <1>2, <1>3, <1>4 DEF WriteFront, Pop, TypeOK
<1>6. ASSUME c \notin ub, ~Reset(c), NEW i \in 1..Len(data_buf'[c])
      PROVE  data_buf'[c][i].hi <= rd[c]
  <2>1. \A j \in 1..Len(q) : q[j].hi <= rd[c]
    BY <1>1, <1>6 DEF CountInv
  <2>2. CASE data_buf'[c] = q
    BY <1>6, <2>1, <2>2
  <2>3. CASE data_buf'[c] = [q EXCEPT ![1] = Drop(Head(q), nw)]
    <3>1. Drop(Head(q), nw) \in Strings /\ Drop(Head(q), nw).hi = q[1].hi
      BY <1>2, DropType, DropHi
    <3>2. /\ Len(data_buf'[c]) = Len(q)
          /\ \A j \in 1..Len(q) : data_buf'[c][j] =
                                    IF j = 1 THEN Drop(Head(q), nw) ELSE q[j]
      BY <1>2, <2>3, <3>1, ExceptSeq
    <3>3. 1 \in 1..Len(q) /\ i \in 1..Len(q)
      BY <1>2, <3>2
    <3>. QED BY <2>1, <3>1, <3>2, <3>3
  <2>4. CASE data_buf'[c] = Tail(q)
    <3>1. Len(Tail(q)) = Len(q) - 1 /\ \A j \in 1..Len(Tail(q)) : Tail(q)[j] = q[j + 1]
      BY <1>2, HeadTailProperties
    <3>2. i + 1 \in 1..Len(q) /\ data_buf'[c][i] = q[i + 1]
      BY <1>2, <2>4, <3>1
    <3>. QED BY <2>1, <3>2
  <2>. QED BY <1>5, <2>2, <2>3, <2>4
<1>. QED BY <1>4, <1>6 DEF CountInv, Reset

\* What Deliver moves, it takes from the send buffer.
LEMMA DeliverLen ==
  ASSUME TypeOK, NEW c \in Clients, NEW n \in 1..SndCap, Deliver(c, n)
  PROVE  /\ n \in 1..Len(out[c])
         /\ Len(got'[c]) = Len(got[c]) + n
         /\ \A r \in Nat : Len(got[c]) + Len(out[c]) <= r => Len(got'[c]) <= r
<1>1. PICK o \in Seq(Nat) : o = out[c]
  BY DEF TypeOK
<1>2. PICK g \in Seq(Nat) : g = got[c]
  BY DEF TypeOK
<1>3. n \in 1..Len(o) /\ got'[c] = g \o SubSeq(o, 1, n)
  BY <1>1, <1>2 DEF Deliver, TypeOK
<1>4. SubSeq(o, 1, n) \in Seq(Nat) /\ Len(SubSeq(o, 1, n)) = n
  BY <1>3, CutSeq
<1>5. Len(got'[c]) = Len(g) + n
  BY <1>3, <1>4, ConcatProperties
<1>6. \A r \in Nat : Len(g) + Len(o) <= r => Len(g) + n <= r
  BY <1>3, LenProperties
<1>. QED BY <1>1, <1>2, <1>3, <1>5, <1>6

\* Each step keeps the counts.
LEMMA CountStep == IInv /\ CountAll /\ [Next]_vars => CountAll'
<1> SUFFICES ASSUME IInv, CountAll, [Next]_vars, NEW d \in Clients PROVE CountInv(d)'
  BY DEF CountAll
<1>1. TypeOK /\ TypeOK' /\ ClientInv(d) /\ CountInv(d)
  BY TypeStep DEF IInv, CountAll
<1>2. CASE UNCHANGED vars
  BY <1>1, <1>2 DEF vars, serverVars, kernelVars, CountInv, Reset
<1>3. CASE Setup \/ EpollWait \/ EpollTimeout \/ Accept
  BY <1>1, <1>3, CountFrame
  DEF Setup, EpollWait, EpollTimeout, Accept, vars, serverVars, kernelVars, Reset
<1>4. ASSUME NEW c \in Clients,
             NextEvent(c) \/ ReadBreak(c) \/ OutSkip(c) \/ SigPipe(c) \/ Connect(c)
      PROVE  CountInv(d)'
  BY <1>1, <1>4, CountFrame
  DEF NextEvent, ReadBreak, OutSkip, SigPipe, Connect, serverVars, kernelVars, Reset
<1>5. ASSUME NEW c \in Clients, ReadData(c) PROVE CountInv(d)'
  <2>1. CASE d = c
    BY <1>1, <1>5, <2>1, ReadDataCount
  <2>2. CASE d # c
    <3>1. rd'[d] = rd[d] /\ data_buf'[d] = data_buf[d]
      BY <1>1, <1>5, <2>2 DEF ReadData, Push, TypeOK
    <3>. QED BY <1>1, <1>5, <3>1, CountFrame DEF ReadData, Reset
  <2>. QED BY <2>1, <2>2
<1>6. ASSUME NEW c \in Clients, ReadError(c) PROVE CountInv(d)'
  <2>1. CASE d = c
    BY <1>1, <1>6, <2>1 DEF ReadError, CountInv, Reset
  <2>2. CASE d # c
    <3>1. data_buf'[d] = data_buf[d]
      BY <1>1, <1>6, <2>2 DEF ReadError, TypeOK
    <3>. QED BY <1>1, <1>6, <3>1, CountFrame DEF ReadError, Reset
  <2>. QED BY <2>1, <2>2
<1>7. ASSUME NEW c \in Clients, FirstWrite(c) PROVE CountInv(d)'
  <2>1. CASE d = c
    BY <1>1, <1>7, <2>1, FirstWriteCount
  <2>2. CASE d # c
    <3>1. data_buf'[d] = data_buf[d]
      BY <1>1, <1>7, <2>2 DEF FirstWrite, Push, TypeOK
    <3>. QED BY <1>1, <1>7, <3>1, CountFrame DEF FirstWrite, Reset
  <2>. QED BY <2>1, <2>2
<1>8. ASSUME NEW c \in Clients, OutWrite(c) PROVE CountInv(d)'
  <2>1. CASE d = c
    BY <1>1, <1>8, <2>1, OutWriteCount
  <2>2. CASE d # c
    <3>1. data_buf'[d] = data_buf[d]
      BY <1>1, <1>8, <2>2 DEF OutWrite, WriteFront, Pop, TypeOK
    <3>. QED BY <1>1, <1>8, <3>1, CountFrame DEF OutWrite, WriteFront, Reset
  <2>. QED BY <2>1, <2>2
<1>9. ASSUME NEW c \in Clients, OutUndefined(c) PROVE CountInv(d)'
  <2>1. rd' = rd /\ sent' = sent /\ got' = got /\ link' = link /\ ub' = ub \cup {c}
    BY <1>9 DEF OutUndefined, WriteFront, kernelVars
  <2>2. CASE d = c
    BY <1>1, <2>1, <2>2 DEF CountInv
  <2>3. CASE d # c
    <3>1. data_buf'[d] = data_buf[d]
      BY <1>1, <1>9, <2>3 DEF OutUndefined, WriteFront, Pop, TypeOK
    <3>. QED BY <1>1, <2>1, <3>1, CountFrame DEF Reset
  <2>. QED BY <2>2, <2>3
<1>10. ASSUME NEW c \in Clients, NEW n \in 1..MaxSend, Arrive(c, n) PROVE CountInv(d)'
  <2>1. sent[d] <= sent'[d] /\ sent[d] \in Nat /\ sent'[d] \in Nat /\ rd[d] \in Nat
    BY <1>1, <1>10 DEF Arrive, TypeOK
  <2>2. rd[d] <= sent'[d]
    BY <1>1, <2>1 DEF CountInv
  <2>. QED BY <1>1, <1>10, <2>2 DEF Arrive, serverVars, CountInv, Reset
<1>11. ASSUME NEW c \in Clients, ArriveFin(c) \/ ArriveRst(c) PROVE CountInv(d)'
  <2>1. Reset(d) => Reset(d)'
    BY <1>1, <1>11 DEF ArriveFin, ArriveRst, Reset, TypeOK
  <2>. QED BY <1>1, <1>11, <2>1, CountFrame DEF ArriveFin, ArriveRst, serverVars
<1>12. ASSUME NEW c \in Clients, NEW n \in 1..SndCap, Deliver(c, n) PROVE CountInv(d)'
  <2>1. CASE d = c
    <3>1. c \notin ub => Len(got[c]) + Len(out[c]) <= rd[c]
      BY <1>1, <2>1, HandedRead
    <3>2. rd[c] \in Nat
      BY <1>1 DEF TypeOK
    <3>3. c \notin ub => Len(got'[c]) <= rd[c]
      BY <1>1, <1>12, <3>1, <3>2, DeliverLen
    <3>. QED BY <1>1, <1>12, <2>1, <3>3 DEF Deliver, serverVars, CountInv, Reset
  <2>2. CASE d # c
    <3>1. got'[d] = got[d]
      BY <1>1, <1>12, <2>2 DEF Deliver, TypeOK
    <3>. QED BY <1>1, <1>12, <3>1, CountFrame DEF Deliver, serverVars, Reset
  <2>. QED BY <2>1, <2>2
<1>. QED
  BY <1>2, <1>3, <1>4, <1>5, <1>6, <1>7, <1>8, <1>9, <1>10, <1>11, <1>12
  DEF Next, Server, Environment

\* A delivery is an echo, or anything at all to a client whose empty queue
\* has been asked for its front().
LEMMA DeliverEchoes ==
  ASSUME IInv, IInv', CountAll, CountAll', NEW c \in Clients, NEW n \in 1..SndCap,
         Deliver(c, n)
  PROVE  E!Echo(c) \/ E!Anything(c)
<1>1. /\ TypeOK /\ TypeOK' /\ ub' = ub /\ sent' = sent
      /\ got' = [got EXCEPT ![c] = got[c] \o SubSeq(out[c], 1, n)]
  BY DEF IInv, Deliver, serverVars
<1>2. got' = [got EXCEPT ![c] = got'[c]]
  BY <1>1 DEF TypeOK
<1>3. CASE c \in ub
  BY <1>1, <1>2, <1>3 DEF E!Anything
<1>4. CASE c \notin ub
  <2>1. PICK e \in Seq(Nat) : e = got'[c]
    BY <1>1 DEF TypeOK
  <2>2. PICK m \in Nat : m = Len(e)
    BY LenProperties
  <2>3. \A i \in 1..m : e[i] = i
    BY <1>1, <1>4, <2>1, <2>2 DEF IInv, ClientInv, StreamInv
  <2>4. e = [i \in 1..m |-> i]
    BY <2>2, <2>3
  <2>5. m \in Len(got[c])..sent[c]
    <3>1. m = Len(got[c]) + n
      BY <1>1, <2>1, <2>2, DeliverLen
    <3>2. m <= rd'[c] /\ rd'[c] <= sent'[c]
      BY <1>1, <1>4, <2>1, <2>2 DEF CountAll, CountInv
    <3>3. Len(got[c]) \in Nat /\ rd'[c] \in Nat /\ sent[c] \in Nat
      BY <1>1 DEF TypeOK
    <3>. QED BY <1>1, <3>1, <3>2, <3>3
  <2>. QED BY <1>1, <1>2, <1>4, <2>1, <2>4, <2>5 DEF E!Echo
<1>. QED BY <1>3, <1>4

\* The server is an echo server: every step of it, of its clients and of
\* the network is a step of EchoService or changes nothing a client sees,
\* for any number of clients and any buffer sizes (echo_server.cpp:97-187).
THEOREM ServerEchoes == Spec => ImplementsEcho
<1>1. Init => E!Init /\ CountAll
  BY DEF Init, E!Init, CountAll, CountInv
<1>2. IInv /\ IInv' /\ CountAll /\ CountAll' /\ [Next]_vars => [E!Next]_<<sent, got, ub>>
  <2> SUFFICES ASSUME IInv, IInv', CountAll, CountAll', [Next]_vars
               PROVE  E!Next \/ UNCHANGED <<sent, got, ub>>
    OBVIOUS
  <2>1. CASE UNCHANGED vars
    BY <2>1 DEF vars, serverVars, kernelVars
  <2>2. CASE Setup \/ EpollWait \/ EpollTimeout \/ Accept
    BY <2>2 DEF Setup, EpollWait, EpollTimeout, Accept, vars, serverVars, kernelVars
  <2>3. ASSUME NEW c \in Clients,
               \/ NextEvent(c) \/ ReadData(c) \/ ReadError(c) \/ ReadBreak(c)
               \/ FirstWrite(c) \/ OutSkip(c) \/ OutWrite(c) \/ SigPipe(c)
        PROVE  UNCHANGED <<sent, got, ub>>
    BY <2>3 DEF NextEvent, ReadData, ReadError, ReadBreak, FirstWrite, OutSkip, OutWrite,
       WriteFront, SigPipe, kernelVars
  <2>4. ASSUME NEW c \in Clients, OutUndefined(c) PROVE E!Next
    <3>1. E!Loosen(c)
      BY <2>4 DEF OutUndefined, WriteFront, kernelVars, E!Loosen
    <3>. QED BY <3>1 DEF E!Next
  <2>5. ASSUME NEW c \in Clients, Connect(c) \/ ArriveFin(c) \/ ArriveRst(c)
        PROVE  UNCHANGED <<sent, got, ub>>
    BY <2>5 DEF Connect, ArriveFin, ArriveRst, serverVars
  <2>6. ASSUME NEW c \in Clients, NEW n \in 1..MaxSend, Arrive(c, n) PROVE E!Next
    <3>1. sent[c] + n \in (sent[c] + 1)..MaxSend
      BY <2>6, EpollAssumption DEF Arrive, IInv, TypeOK
    <3>2. E!Send(c)
      BY <2>6, <3>1 DEF Arrive, serverVars, E!Send
    <3>. QED BY <3>2 DEF E!Next
  <2>7. ASSUME NEW c \in Clients, NEW n \in 1..SndCap, Deliver(c, n) PROVE E!Next
    BY <2>7, DeliverEchoes DEF E!Next
  <2>. QED BY <2>1, <2>2, <2>3, <2>4, <2>5, <2>6, <2>7 DEF Next, Server, Environment
<1>. QED BY <1>1, <1>2, Invariant, CountStep, PTL DEF Spec, ImplementsEcho, E!Spec

(* Interactive clients ----------------------------------------------------*)

\* The counts of a waiting client.
LEMMA WaitFacts ==
  ASSUME IInv, CountAll, NEW c \in Clients, WaitInv(c)
  PROVE  \E g, o, r, s \in Nat :
           /\ g = Len(got[c]) /\ o = Len(out[c]) /\ r = rd[c] /\ s = sent[c]
           /\ Handed(c) = g + o /\ g + o <= r /\ r <= s /\ s <= g + BufSize
           /\ s > r => g = r
           /\ data_buf[c] = <<>> /\ ~AtWrite(c) => g + o = r
           /\ data_buf[c] # <<>> => g + o < r
<1>1. TypeOK /\ ClientInv(c) /\ CountInv(c) /\ c \notin ub /\ ~Reset(c)
  BY DEF IInv, CountAll, WaitInv, Reset
<1>2. PICK g \in Nat : g = Len(got[c])
  BY <1>1 DEF TypeOK
<1>3. PICK o \in Nat : o = Len(out[c])
  BY <1>1 DEF TypeOK
<1>4. PICK r \in Nat : r = rd[c]
  BY <1>1 DEF TypeOK
<1>5. PICK s \in Nat : s = sent[c]
  BY <1>1 DEF TypeOK
<1>6. Handed(c) = g + o
  BY <1>2, <1>3 DEF Handed
<1>7. g + o <= r
  BY <1>1, <1>2, <1>3, <1>4, HandedRead
<1>8. r <= s /\ s <= g + BufSize /\ (s > r => g = r)
  BY <1>1, <1>2, <1>4, <1>5 DEF CountInv, WaitInv
<1>9. data_buf[c] # <<>> => ~AtWrite(c)
  BY <1>1 DEF ClientInv, FirstInv
<1>10. ~AtWrite(c) => IF data_buf[c] = <<>> THEN g + o = r ELSE g + o < r
  <2>1. ~AtWrite(c) => Covers(data_buf[c], (g + o) + 1, r)
    BY <1>1, <1>4, <1>6 DEF ClientInv, StreamInv
  <2>2. data_buf[c] \in Seq(Strings) /\ \A i \in 1..Len(data_buf[c]) : data_buf[c][i].hi <= r
    BY <1>1, <1>4 DEF TypeOK, CountInv
  <2>3. g + o \in Nat
    OBVIOUS
  <2>. QED BY <2>1, <2>2, <2>3, CoversBound
<1>. QED BY <1>2, <1>3, <1>4, <1>5, <1>6, <1>7, <1>8, <1>9, <1>10

\* A client the step has nothing to do with.
LEMMA WaitFrame ==
  ASSUME NEW d \in Clients, WaitInv(d), EventInv(d), OneInv(d),
         UNCHANGED <<sent[d], rd[d], got[d], out[d], link[d], data_buf[d], conn[d],
                     d \in mapped, d \in ub, d \in nospace, d \in rdl>>,
         events'[d] = events[d] \/ events'[d] = {},
         data_buf[d] # <<>> => cur' = d /\ pc' \in {"read", "out"},
         AtWrite(d)' => AtWrite(d),
         pc' = "out" /\ cur' = d => d \notin mapped \/ data_buf[d] # <<>>
  PROVE  WaitInv(d)' /\ EventInv(d)' /\ OneInv(d)'
<1>1. Handed(d)' = Handed(d)
  BY DEF Handed
<1>2. WaitInv(d)'
  BY DEF WaitInv
<1>3. EventInv(d)'
  BY <1>1 DEF EventInv
<1>4. OneInv(d)'
  BY DEF OneInv
<1>. QED BY <1>2, <1>3, <1>4

\* epoll_wait: what it reports of a client with a session is a message.
LEMMA WaitEpoll ==
  ASSUME IInv, CountAll, PPInv, EpollWait, NEW d \in Clients
  PROVE  WaitInv(d)' /\ EventInv(d)' /\ OneInv(d)'
<1>1. /\ TypeOK /\ ClientInv(d) /\ WaitInv(d) /\ EventInv(d) /\ OneInv(d)
      /\ pc = "loop" /\ pc' = "loop" /\ cur' = cur /\ ~AtWrite(d) /\ ~AtWrite(d)'
      /\ data_buf[d] = <<>> /\ events[d] = {}
      /\ UNCHANGED <<sent, rd, got, out, link, data_buf, conn, mapped, ub>>
  BY DEF IInv, PPInv, EpollWait, AtWrite, OneInv, Fds
<1>2. PICK g, o, r, s \in Nat :
           /\ g = Len(got[d]) /\ o = Len(out[d]) /\ r = rd[d] /\ s = sent[d]
           /\ Handed(d) = g + o /\ g + o <= r /\ r <= s /\ s <= g + BufSize
           /\ s > r => g = r
           /\ data_buf[d] = <<>> /\ ~AtWrite(d) => g + o = r
           /\ data_buf[d] # <<>> => g + o < r
  BY <1>1, WaitFacts
<1>3. PICK S \in SUBSET Listed :
        /\ events' = [fd \in Fds |->
                        IF fd \notin S THEN {}
                        ELSE IF fd = listenfd THEN {"EPOLLIN"} ELSE Poll(fd)]
        /\ rdl' = rdl \ S
        /\ nospace' = nospace \cup {c \in S \cap Clients : ~Writable(c)}
  BY DEF EpollWait
<1>4. d # listenfd /\ d \in Fds /\ (d \in S => d \in rdl)
  BY EpollAssumption DEF Fds, Listed
<1>5. CASE d \notin S
  <2>1. events'[d] = {} /\ (d \in rdl' <=> d \in rdl) /\ (d \in nospace' <=> d \in nospace)
    BY <1>3, <1>4, <1>5
  <2>. QED BY <1>1, <2>1, WaitFrame
<1>6. CASE d \in S
  <2>1. events'[d] = Poll(d) /\ d \notin rdl' /\ d \in rdl
    BY <1>3, <1>4, <1>6
  <2>2. d \in mapped => s > r
    BY <1>1, <1>2, <2>1 DEF EventInv
  <2>3. o = 0
    <3>1. CASE d \in mapped
      <4>1. g + o <= r /\ g = r
        BY <1>2, <2>2, <3>1
      <4>. QED BY <4>1
    <3>2. CASE d \notin mapped
      <4>1. out[d] = <<>>
        BY <1>1, <3>2 DEF ClientInv, FirstInv, WaitInv, Reset
      <4>. QED BY <1>2, <4>1
    <3>. QED BY <3>1, <3>2
  <2>4. Writable(d)
    BY <1>2, <2>3, EpollAssumption DEF Writable, WritableWith
  <2>5. d \in nospace' <=> d \in nospace
    BY <1>3, <2>4
  <2>6. "EPOLLOUT" \in Poll(d) /\ ("EPOLLIN" \in Poll(d) <=> s > r)
    BY <1>1, <1>2, <2>4 DEF Poll, WaitInv
  <2>7. WaitInv(d)'
    BY <1>1, <2>1, <2>5 DEF WaitInv
  <2>8. EventInv(d)'
    <3>1. Handed(d)' = r
      BY <1>1, <1>2 DEF Handed
    <3>. QED BY <1>1, <1>2, <2>1, <2>2, <2>6, <3>1 DEF EventInv
  <2>9. OneInv(d)'
    BY <1>1 DEF OneInv
  <2>. QED BY <2>7, <2>8, <2>9
<1>. QED BY <1>5, <1>6

\* read() takes the whole message.
LEMMA WaitRead ==
  ASSUME IInv, CountAll, BusyInv, PPInv, NEW c \in Clients, ReadData(c)
  PROVE  WaitInv(c)' /\ EventInv(c)' /\ OneInv(c)'
<1>1. /\ TypeOK /\ ClientInv(c) /\ WaitInv(c) /\ EventInv(c) /\ OneInv(c)
      /\ pc = "read" /\ cur = c /\ cur' = c /\ ~AtWrite(c) /\ "EPOLLIN" \in events[c]
      /\ UNCHANGED <<sent, got, out, link, conn, mapped, ub, nospace, events, rdl>>
  BY DEF IInv, PPInv, ReadData, BusyInv, AtWrite
<1>2. PICK g, o, r, s \in Nat :
           /\ g = Len(got[c]) /\ o = Len(out[c]) /\ r = rd[c] /\ s = sent[c]
           /\ Handed(c) = g + o /\ g + o <= r /\ r <= s /\ s <= g + BufSize
           /\ s > r => g = r
           /\ data_buf[c] = <<>> /\ ~AtWrite(c) => g + o = r
           /\ data_buf[c] # <<>> => g + o < r
  BY <1>1, WaitFacts
<1>3. s > r /\ data_buf[c] = <<>> /\ deficit[c] = 0
  BY <1>1, <1>2 DEF ReadData, OneInv, ClientInv, QueueInv, WaitInv
<1>4. MinOf(BufSize, s - r) = s - r
  BY <1>2, <1>3, EpollAssumption DEF MinOf
<1>5. rd'[c] = s
  <2>1. rd'[c] = r + MinOf(BufSize, s - r)
    BY <1>1, <1>2 DEF ReadData, TypeOK
  <2>. QED BY <1>4, <2>1
<1>6. \/ pc' = "read" /\ Len(data_buf'[c]) = 1
      \/ pc' = "write" /\ data_buf' = data_buf
  <2>1. CASE c \in mapped
    <3>1. PICK x : Push(c, x) /\ pc' = pc
      BY <2>1 DEF ReadData
    <3>2. data_buf'[c] = Append(<<>>, x)
      BY <1>1, <1>3, <3>1 DEF Push, TypeOK
    <3>. QED BY <1>1, <3>1, <3>2
  <2>2. CASE c \notin mapped
    BY <2>2 DEF ReadData
  <2>. QED BY <2>1, <2>2
<1>7. WaitInv(c)'
  BY <1>1, <1>2, <1>5 DEF WaitInv
<1>8. EventInv(c)'
  <2>1. Handed(c)' = Handed(c)
    BY <1>1 DEF Handed
  <2>. QED BY <1>1, <2>1 DEF EventInv
<1>9. OneInv(c)'
  BY <1>1, <1>2, <1>3, <1>5, <1>6 DEF OneInv, AtWrite
<1>. QED BY <1>7, <1>8, <1>9

\* The first half of the first message finds an empty send buffer.
LEMMA WaitFirst ==
  ASSUME IInv, IInv', CountAll, CountAll', BusyInv, PPInv, NEW c \in Clients, FirstWrite(c)
  PROVE  WaitInv(c)' /\ EventInv(c)' /\ OneInv(c)'
<1>1. /\ TypeOK /\ TypeOK' /\ ClientInv(c) /\ WaitInv(c) /\ EventInv(c) /\ OneInv(c)
      /\ AtWrite(c) /\ cur = c /\ cur' = c /\ pc' = "read" /\ "EPOLLIN" \in events[c]
      /\ UNCHANGED <<sent, rd, got, link, conn, ub, events, rdl>>
      /\ mapped' = mapped \cup {c}
  BY DEF IInv, PPInv, FirstWrite, BusyInv, AtWrite
<1>2. ~Reset(c) /\ ~Reset(c)' /\ ~AtWrite(c)' /\ c \notin ub
  BY <1>1 DEF WaitInv, Reset, AtWrite
<1>3. /\ c \notin mapped /\ data_buf[c] = <<>> /\ deficit[c] = 0 /\ out[c] = <<>>
      /\ readbuf = Run(1, rd[c]) /\ rd[c] \in 1..BufSize
  BY <1>1, <1>2 DEF ClientInv, FirstInv
<1>4. PICK half \in 0..(rd[c] - 1) : half = Size(readbuf) \div 2
  BY <1>3, EpollAssumption DEF Size, Run
<1>5. nwrite(c, half) = half
  BY <1>2, <1>3, <1>4, EpollAssumption DEF nwrite, MinOf
<1>6. nospace' = nospace
  BY <1>1, <1>3, <1>4, <1>5, EpollAssumption DEF FirstWrite, SocketWrite
<1>7. Len(data_buf'[c]) = 1 /\ data_buf'[c] # <<>>
  <2>1. PICK x : Push(c, x)
    BY DEF FirstWrite
  <2>2. data_buf'[c] = Append(<<>>, x)
    BY <1>1, <1>3, <2>1 DEF Push, TypeOK
  <2>. QED BY <2>2
<1>8. PICK h \in Nat : h = Handed(c)'
  BY <1>1 DEF TypeOK, Handed
<1>9. h < rd'[c]
  <2>1. Covers(data_buf'[c], h + 1, rd'[c])
    BY <1>1, <1>2, <1>8 DEF IInv, ClientInv, StreamInv
  <2>2. \A i \in 1..Len(data_buf'[c]) : data_buf'[c][i].hi <= rd'[c]
    BY <1>1, <1>2 DEF CountAll, CountInv
  <2>3. data_buf'[c] \in Seq(Strings) /\ rd'[c] \in Nat
    BY <1>1 DEF TypeOK
  <2>. QED BY <1>7, <2>1, <2>2, <2>3, CoversBound
<1>10. sent[c] = rd[c]
  BY <1>1 DEF OneInv
<1>11. WaitInv(c)'
  BY <1>1, <1>6 DEF WaitInv
<1>12. EventInv(c)'
  BY <1>1, <1>8, <1>9, <1>10 DEF EventInv
<1>13. OneInv(c)'
  BY <1>1, <1>2, <1>7, <1>10 DEF OneInv
<1>. QED BY <1>11, <1>12, <1>13

\* The rest of the message fits into the send buffer and leaves the queue
\* empty.
LEMMA WaitOut ==
  ASSUME IInv, CountAll, PPInv, NEW c \in Clients, OutWrite(c)
  PROVE  WaitInv(c)' /\ EventInv(c)' /\ OneInv(c)'
<1>1. /\ TypeOK /\ ClientInv(c) /\ WaitInv(c) /\ EventInv(c) /\ OneInv(c)
      /\ pc = "out" /\ cur = c /\ cur' = c /\ ~AtWrite(c) /\ "EPOLLOUT" \in events[c]
      /\ c \in mapped /\ data_buf[c] # <<>>
      /\ UNCHANGED <<sent, rd, got, link, conn, mapped, ub, rdl>>
      /\ WriteFront(c, Head(data_buf[c]))
  BY DEF IInv, PPInv, OutWrite, WriteFront, LoopInv, AtWrite
<1>2. PICK g, o, r, s \in Nat :
           /\ g = Len(got[c]) /\ o = Len(out[c]) /\ r = rd[c] /\ s = sent[c]
           /\ Handed(c) = g + o /\ g + o <= r /\ r <= s /\ s <= g + BufSize
           /\ s > r => g = r
           /\ data_buf[c] = <<>> /\ ~AtWrite(c) => g + o = r
           /\ data_buf[c] # <<>> => g + o < r
  BY <1>1, WaitFacts
<1>3. c \notin rdl /\ s = r /\ Len(data_buf[c]) = 1 /\ ~Reset(c) /\ c \notin ub
  BY <1>1, <1>2 DEF EventInv, OneInv, WaitInv, Reset
<1>4. PICK x \in Strings : x = Head(data_buf[c]) /\ x = data_buf[c][1]
  BY <1>1, <1>3, HeadTailProperties, ElementOfSeq DEF TypeOK
<1>5. x.junk = 0 /\ x.lo = g + o + 1 /\ x.hi = r
  <2>1. Covers(data_buf[c], g + o + 1, r)
    BY <1>1, <1>2, <1>3 DEF ClientInv, StreamInv
  <2>. QED BY <1>1, <1>3, <1>4, <2>1 DEF Covers
<1>6. PICK n \in 1..BufSize : n = Size(x) /\ n = r - (g + o) /\ n <= SndCap - o
  <2>1. Size(x) = r - (g + o)
    BY <1>5 DEF Size
  <2>2. r - (g + o) \in 1..BufSize /\ r - (g + o) <= SndCap - o
    <3>1. g + o < r /\ r <= g + BufSize
      BY <1>1, <1>2, <1>3
    <3>. QED BY <3>1, EpollAssumption
  <2>. QED BY <2>1, <2>2
<1>7. nwrite(c, n) = n
  <2>1. o # SndCap /\ MinOf(n, SndCap - o) = n
    BY <1>6, EpollAssumption DEF MinOf
  <2>2. Len(out[c]) = o
    BY <1>2
  <2>. QED BY <1>3, <2>1, <2>2 DEF nwrite
<1>8. nospace' = nospace
  <2>1. SocketWrite(c, x, n)
    BY <1>1, <1>4, <1>6 DEF WriteFront
  <2>. QED BY <1>6, <1>7, <2>1, EpollAssumption DEF SocketWrite
<1>9. Done(c) /\ Pop(c)
  <2>1. ~(n > BufSize) /\ n \notin 0..(n - 1)
    BY <1>6, EpollAssumption
  <2>. QED BY <1>1, <1>4, <1>6, <1>7, <2>1 DEF WriteFront
<1>10. pc' = "loop" /\ events'[c] = {} /\ data_buf'[c] = <<>>
  <2>1. data_buf'[c] = Tail(data_buf[c])
    BY <1>1, <1>9 DEF Pop, TypeOK
  <2>2. Tail(data_buf[c]) = <<>>
    <3>1. Tail(data_buf[c]) \in Seq(Strings) /\ Len(Tail(data_buf[c])) = Len(data_buf[c]) - 1
      BY <1>1, HeadTailProperties DEF TypeOK
    <3>2. Len(Tail(data_buf[c])) = 0
      BY <1>3, <3>1
    <3>. QED BY <3>1, <3>2, EmptySeq
  <2>. QED BY <1>1, <1>9, <2>1, <2>2 DEF Done, TypeOK, Fds
<1>11. WaitInv(c)'
  BY <1>1, <1>8, <1>10 DEF WaitInv
<1>12. EventInv(c)'
  BY <1>1, <1>3, <1>10 DEF EventInv
<1>13. OneInv(c)'
  BY <1>10 DEF OneInv, AtWrite
<1>. QED BY <1>11, <1>12, <1>13

\* The next message is sent when nothing of the client is under way.
LEMMA WaitSend ==
  ASSUME IInv, CountAll, PPInv, NEW c \in Clients, NEW n \in 1..BufSize, SendMessage(c, n)
  PROVE  WaitInv(c)' /\ EventInv(c)' /\ OneInv(c)'
<1>1. /\ TypeOK /\ ClientInv(c) /\ WaitInv(c) /\ EventInv(c) /\ OneInv(c)
      /\ UNCHANGED <<pc, cur, events, data_buf, mapped, ub, rd, got, out, link, conn, nospace>>
      /\ rdl' = Wake(c)
  BY DEF IInv, PPInv, SendMessage, Arrive, serverVars
<1>2. PICK g, o, r, s \in Nat :
           /\ g = Len(got[c]) /\ o = Len(out[c]) /\ r = rd[c] /\ s = sent[c]
           /\ Handed(c) = g + o /\ g + o <= r /\ r <= s /\ s <= g + BufSize
           /\ s > r => g = r
           /\ data_buf[c] = <<>> /\ ~AtWrite(c) => g + o = r
           /\ data_buf[c] # <<>> => g + o < r
  BY <1>1, WaitFacts
<1>3. sent'[c] = s + n /\ s = g
  BY <1>1, <1>2 DEF SendMessage, Arrive, TypeOK
<1>4. g = r /\ s = r /\ o = 0 /\ data_buf[c] = <<>>
  <2>1. g + o <= r /\ r <= g
    BY <1>2, <1>3
  <2>2. g = r /\ o = 0
    BY <2>1
  <2>3. data_buf[c] # <<>> => g + o < r
    BY <1>2
  <2>. QED BY <1>3, <2>2, <2>3
<1>5. ~AtWrite(c)
  <2>1. AtWrite(c) => got[c] = <<>> /\ rd[c] \in 1..BufSize
    BY <1>1 DEF ClientInv, FirstInv, WaitInv, Reset
  <2>2. got[c] = <<>> => g = 0
    BY <1>2
  <2>. QED BY <1>2, <1>4, <2>1, <2>2, EpollAssumption
<1>6. "EPOLLIN" \notin events[c]
  <2>1. "EPOLLIN" \in events[c] => g + o < s
    BY <1>1, <1>2 DEF EventInv
  <2>. QED BY <1>4, <2>1
<1>7. s + n <= g + BufSize /\ s + n > r
  BY <1>3, <1>4, EpollAssumption
<1>8. WaitInv(c)'
  <2>1. sent'[c] <= Len(got'[c]) + BufSize /\ Len(got'[c]) = rd'[c]
    BY <1>1, <1>2, <1>3, <1>4, <1>7
  <2>2. conn[c] # "accepted" => rdl' = rdl
    BY <1>1 DEF Wake
  <2>. QED BY <1>1, <2>1, <2>2 DEF WaitInv
<1>9. EventInv(c)'
  BY <1>1, <1>2, <1>3, <1>6, <1>7 DEF EventInv
<1>10. OneInv(c)'
  <2>1. ~AtWrite(c)'
    BY <1>1, <1>5 DEF AtWrite
  <2>. QED BY <1>1, <1>4, <2>1 DEF OneInv
<1>. QED BY <1>8, <1>9, <1>10

\* Deliveries wake nobody: no writer waits for room.
LEMMA WaitDeliver ==
  ASSUME IInv, CountAll, PPInv, NEW c \in Clients, NEW n \in 1..SndCap, Deliver(c, n)
  PROVE  WaitInv(c)' /\ EventInv(c)' /\ OneInv(c)'
<1>1. /\ TypeOK /\ WaitInv(c) /\ EventInv(c) /\ OneInv(c) /\ c \notin nospace
      /\ UNCHANGED <<pc, cur, events, data_buf, mapped, ub, sent, rd, link, conn, nospace, rdl>>
  BY DEF IInv, PPInv, WaitInv, Deliver, serverVars
<1>2. PICK g, o, r, s \in Nat :
           /\ g = Len(got[c]) /\ o = Len(out[c]) /\ r = rd[c] /\ s = sent[c]
           /\ Handed(c) = g + o /\ g + o <= r /\ r <= s /\ s <= g + BufSize
           /\ s > r => g = r
           /\ data_buf[c] = <<>> /\ ~AtWrite(c) => g + o = r
           /\ data_buf[c] # <<>> => g + o < r
  BY <1>1, WaitFacts
<1>3. n \in 1..o /\ Len(got'[c]) = g + n
  BY <1>1, <1>2, DeliverLen
<1>4. Len(out'[c]) = o - n
  <2>1. PICK q \in Seq(Nat) : q = out[c]
    BY <1>1 DEF TypeOK
  <2>2. out'[c] = SubSeq(q, n + 1, Len(q)) /\ n \in 1..Len(q)
    BY <1>1, <2>1 DEF Deliver, TypeOK
  <2>3. Len(out'[c]) = Len(q) - n
    BY <2>2, CutSeq
  <2>. QED BY <1>2, <2>1, <2>3
<1>5. Handed(c)' = Handed(c)
  <2>1. (g + n) + (o - n) = g + o
    BY <1>3
  <2>. QED BY <1>2, <1>3, <1>4, <2>1 DEF Handed
<1>6. s = r /\ s <= (g + n) + BufSize
  <2>1. g + o <= r /\ r <= s /\ s <= g + BufSize /\ (s > r => g = r)
    BY <1>2
  <2>. QED BY <1>3, <2>1, EpollAssumption
<1>7. WaitInv(c)'
  BY <1>1, <1>2, <1>3, <1>6 DEF WaitInv
<1>8. EventInv(c)'
  BY <1>1, <1>5 DEF EventInv
<1>9. OneInv(c)'
  BY <1>1 DEF OneInv, AtWrite
<1>. QED BY <1>7, <1>8, <1>9

\* Each step of interactive clients and their server keeps the invariant.
LEMMA PPStep ==
  IInv /\ IInv' /\ CountAll /\ CountAll' /\ BusyInv /\ PPInv /\ [PPNext]_vars => PPInv'
<1> SUFFICES ASSUME IInv, IInv', CountAll, CountAll', BusyInv, PPInv, [PPNext]_vars,
                    NEW d \in Clients
             PROVE  WaitInv(d)' /\ EventInv(d)' /\ OneInv(d)'
  BY DEF PPInv
<1>1. TypeOK /\ LoopInv /\ ClientInv(d) /\ WaitInv(d) /\ EventInv(d) /\ OneInv(d)
  BY DEF IInv, PPInv
<1>2. CASE UNCHANGED vars
  BY <1>1, <1>2, WaitFrame DEF vars, serverVars, kernelVars, AtWrite, OneInv
<1>3. CASE Setup
  BY <1>1, <1>3, WaitFrame DEF Setup, kernelVars, AtWrite, OneInv
<1>4. CASE EpollWait
  BY <1>4, WaitEpoll
<1>5. CASE EpollTimeout
  BY <1>2, <1>5 DEF EpollTimeout
<1>6. CASE Accept
  <2>1. /\ pc = "loop" /\ pc' = "loop" /\ cur' = cur /\ events'[d] = events[d]
        /\ UNCHANGED <<data_buf, mapped, ub, sent, rd, link, out, nospace, got>>
    BY <1>1, <1>6, EpollAssumption DEF Accept, TypeOK, Fds
  <2>2. CASE conn'[d] = conn[d] /\ (d \in rdl' <=> d \in rdl)
    BY <1>1, <2>1, <2>2, WaitFrame DEF AtWrite, OneInv
  <2>3. CASE ~(conn'[d] = conn[d] /\ (d \in rdl' <=> d \in rdl))
    <3>1. conn[d] = "backlog"
      BY <1>1, <1>6, <2>3 DEF Accept, Backlog, TypeOK
    <3>2. d \notin mapped /\ events[d] = {} /\ Handed(d)' = Handed(d)
      BY <1>1, <2>1, <3>1 DEF WaitInv, Handed
    <3>3. conn'[d] # "accepted" => d \notin rdl'
      BY <1>1, <1>6, <3>1 DEF Accept, WaitInv, TypeOK
    <3>. QED BY <1>1, <2>1, <3>2, <3>3 DEF WaitInv, EventInv, OneInv, AtWrite
  <2>. QED BY <2>2, <2>3
<1>7. ASSUME NEW c \in Clients, NextEvent(c) PROVE WaitInv(d)' /\ EventInv(d)' /\ OneInv(d)'
  <2>1. data_buf[d] = <<>> /\ ~AtWrite(d)'
    BY <1>1, <1>7 DEF NextEvent, OneInv, AtWrite
  <2>2. pc' = "out" /\ cur' = d => d \notin mapped
    BY <1>1, <1>7 DEF NextEvent, EventInv
  <2>. QED BY <1>1, <1>7, <2>1, <2>2, WaitFrame DEF NextEvent, kernelVars
<1>8. ASSUME NEW c \in Clients, ReadData(c) PROVE WaitInv(d)' /\ EventInv(d)' /\ OneInv(d)'
  <2>1. CASE d = c
    BY <1>8, <2>1, WaitRead
  <2>2. CASE d # c
    <3>1. rd'[d] = rd[d] /\ data_buf'[d] = data_buf[d] /\ data_buf[d] = <<>>
      BY <1>1, <1>8, <2>2 DEF ReadData, Push, TypeOK, OneInv
    <3>. QED BY <1>1, <1>8, <2>2, <3>1, WaitFrame DEF ReadData, AtWrite
  <2>. QED BY <2>1, <2>2
<1>9. ASSUME NEW c \in Clients, ReadError(c) PROVE FALSE
  <2>1. link[c] = "open"
    BY DEF PPInv, WaitInv
  <2>. QED BY <1>9, <2>1 DEF ReadError
<1>10. ASSUME NEW c \in Clients, ReadBreak(c) PROVE WaitInv(d)' /\ EventInv(d)' /\ OneInv(d)'
  <2>1. /\ pc = "read" /\ cur = c /\ cur' = c /\ "EPOLLIN" \in events[c]
        /\ "EPOLLOUT" \in events[c] /\ Handed(c) < sent[c] /\ sent[c] = rd[c] /\ ~AtWrite(c)
    BY <1>10 DEF ReadBreak, BusyInv, PPInv, EventInv, AtWrite
  <2>2. pc' = "out" /\ events' = events
    BY <1>10, <2>1 DEF ReadBreak
  <2>3. data_buf[c] # <<>>
    <3>1. WaitInv(c)
      BY DEF PPInv
    <3>2. PICK g, o, r, s \in Nat :
               /\ g = Len(got[c]) /\ o = Len(out[c]) /\ r = rd[c] /\ s = sent[c]
               /\ Handed(c) = g + o /\ g + o <= r /\ r <= s /\ s <= g + BufSize
               /\ s > r => g = r
               /\ data_buf[c] = <<>> /\ ~AtWrite(c) => g + o = r
               /\ data_buf[c] # <<>> => g + o < r
      BY <3>1, WaitFacts
    <3>3. r = s
      BY <2>1, <3>2
    <3>4. Handed(c) < s
      BY <2>1, <3>2
    <3>5. g + o # r
      <4>1. Handed(c) = g + o
        BY <3>2
      <4>. QED BY <3>3, <3>4, <4>1
    <3>6. data_buf[c] = <<>> => g + o = r
      BY <2>1, <3>2
    <3>. QED BY <3>5, <3>6
  <2>4. data_buf[d] # <<>> => d = c
    BY <1>1, <2>1 DEF OneInv
  <2>. QED BY <1>1, <1>10, <2>1, <2>2, <2>3, <2>4, WaitFrame DEF ReadBreak, kernelVars, AtWrite
<1>11. ASSUME NEW c \in Clients, FirstWrite(c) PROVE WaitInv(d)' /\ EventInv(d)' /\ OneInv(d)'
  <2>1. CASE d = c
    BY <1>11, <2>1, WaitFirst
  <2>2. CASE d # c
    <3>1. data_buf'[d] = data_buf[d] /\ out'[d] = out[d] /\ data_buf[d] = <<>>
      BY <1>1, <1>11, <2>2 DEF FirstWrite, Push, SocketWrite, TypeOK, OneInv
    <3>2. (d \in nospace' <=> d \in nospace) /\ (d \in mapped' <=> d \in mapped)
      BY <1>11, <2>2 DEF FirstWrite, SocketWrite
    <3>. QED BY <1>1, <1>11, <2>2, <3>1, <3>2, WaitFrame DEF FirstWrite, AtWrite
  <2>. QED BY <2>1, <2>2
<1>12. ASSUME NEW c \in Clients, OutSkip(c) PROVE WaitInv(d)' /\ EventInv(d)' /\ OneInv(d)'
  <2>1. events'[d] = events[d] \/ events'[d] = {}
    BY <1>1, <1>12 DEF OutSkip, Done, TypeOK, Fds
  <2>2. data_buf[d] = <<>>
    BY <1>1, <1>12 DEF OutSkip, OneInv, ClientInv, FirstInv
  <2>. QED BY <1>1, <1>12, <2>1, <2>2, WaitFrame DEF OutSkip, Done, kernelVars, AtWrite
<1>13. ASSUME NEW c \in Clients, OutWrite(c) PROVE WaitInv(d)' /\ EventInv(d)' /\ OneInv(d)'
  <2>1. CASE d = c
    BY <1>13, <2>1, WaitOut
  <2>2. CASE d # c
    <3>1. /\ data_buf'[d] = data_buf[d] /\ out'[d] = out[d] /\ data_buf[d] = <<>>
          /\ events'[d] = events[d] /\ (d \in nospace' <=> d \in nospace)
      <4>1. WriteFront(c, Head(data_buf[c])) /\ pc = "out" /\ cur = c
        BY <1>13 DEF OutWrite
      <4>2. data_buf[d] = <<>>
        BY <1>1, <2>2, <4>1 DEF OneInv
      <4>3. data_buf'[d] = data_buf[d] /\ events'[d] = events[d]
        BY <1>1, <2>2, <4>1 DEF WriteFront, Done, Pop, TypeOK, Fds
      <4>. QED BY <1>1, <2>2, <4>1, <4>2, <4>3 DEF WriteFront, SocketWrite, TypeOK
    <3>2. cur = c /\ cur' = c /\ UNCHANGED <<sent, rd, got, link, conn, mapped, ub, rdl>>
      BY <1>13 DEF OutWrite, WriteFront
    <3>. QED BY <1>1, <2>2, <3>1, <3>2, WaitFrame DEF AtWrite
  <2>. QED BY <2>1, <2>2
<1>14. ASSUME NEW c \in Clients, OutUndefined(c) \/ SigPipe(c) PROVE FALSE
  <2>1. WaitInv(c) /\ OneInv(c)
    BY DEF PPInv
  <2>. QED BY <1>14, <2>1 DEF OutUndefined, SigPipe, Kills, WaitInv, OneInv
<1>15. ASSUME NEW c \in Clients, Connect(c) PROVE WaitInv(d)' /\ EventInv(d)' /\ OneInv(d)'
  <2>1. conn'[d] = "accepted" <=> conn[d] = "accepted"
    BY <1>1, <1>15 DEF Connect, TypeOK
  <2>2. Handed(d)' = Handed(d)
    BY <1>15 DEF Connect, Handed
  <2>. QED BY <1>1, <1>15, <2>1, <2>2 DEF Connect, serverVars, WaitInv, EventInv, OneInv, AtWrite
<1>16. ASSUME NEW c \in Clients, NEW n \in 1..BufSize, SendMessage(c, n)
       PROVE  WaitInv(d)' /\ EventInv(d)' /\ OneInv(d)'
  <2>1. CASE d = c
    BY <1>16, <2>1, WaitSend
  <2>2. CASE d # c
    <3>1. sent'[d] = sent[d] /\ (d \in rdl' <=> d \in rdl)
      BY <1>1, <1>16, <2>2 DEF SendMessage, Arrive, Wake, TypeOK
    <3>. QED BY <1>1, <1>16, <3>1, WaitFrame DEF SendMessage, Arrive, serverVars, AtWrite, OneInv
  <2>. QED BY <2>1, <2>2
<1>17. ASSUME NEW c \in Clients, NEW n \in 1..SndCap, Deliver(c, n)
       PROVE  WaitInv(d)' /\ EventInv(d)' /\ OneInv(d)'
  <2>1. CASE d = c
    BY <1>17, <2>1, WaitDeliver
  <2>2. CASE d # c
    <3>1. /\ got'[d] = got[d] /\ out'[d] = out[d] /\ (d \in rdl' <=> d \in rdl)
          /\ (d \in nospace' <=> d \in nospace)
      BY <1>1, <1>17, <2>2 DEF Deliver, Wake, TypeOK
    <3>. QED BY <1>1, <1>17, <3>1, WaitFrame DEF Deliver, serverVars, AtWrite, OneInv
  <2>. QED BY <2>1, <2>2
<1>. QED
  BY <1>2, <1>3, <1>4, <1>5, <1>6, <1>7, <1>8, <1>9, <1>10, <1>11, <1>12, <1>13, <1>14,
     <1>15, <1>16, <1>17
  DEF PPNext, Serve, Server, DeliverSome

\* Interactive clients are clients.
LEMMA InteractiveStep == TypeOK /\ [PPNext]_vars => [Next]_vars
<1>1. ASSUME TypeOK, NEW c \in Clients, NEW n \in 1..BufSize, SendMessage(c, n)
      PROVE  n \in 1..MaxSend /\ Arrive(c, n)
  BY <1>1, EpollAssumption DEF SendMessage, Arrive, TypeOK
<1>. QED BY <1>1 DEF PPNext, Serve, DeliverSome, Next, Environment

\* A client that waits for its echo never meets front() on an empty queue,
\* however many there are and whatever the buffer sizes: the undefined call
\* at echo_server.cpp:170 needs a client that sends on before its echo.
THEOREM FrontIsDefined == PPSpec => []FrontDefined
<1>1. Init => IInv /\ CountAll /\ RaceAll /\ PPInv
  <2> SUFFICES ASSUME Init PROVE IInv /\ CountAll /\ RaceAll /\ PPInv
    OBVIOUS
  <2>1. IInv
    BY InitInv
  <2>2. CountAll /\ RaceAll
    BY DEF Init, CountAll, CountInv, RaceAll, RaceInv, BusyInv, SigPipeOnlyByRace, AtWrite
  <2>3. ASSUME NEW c \in Clients PROVE WaitInv(c) /\ EventInv(c) /\ OneInv(c)
    BY EpollAssumption DEF Init, WaitInv, EventInv, OneInv, AtWrite, Fds
  <2>. QED BY <2>1, <2>2, <2>3 DEF PPInv
<1>2. IInv /\ CountAll /\ RaceAll /\ PPInv /\ [PPNext]_vars
        => IInv' /\ CountAll' /\ RaceAll' /\ PPInv'
  <2> SUFFICES ASSUME IInv, CountAll, RaceAll, PPInv, [PPNext]_vars
               PROVE  IInv' /\ CountAll' /\ RaceAll' /\ PPInv'
    OBVIOUS
  <2>1. [Next]_vars
    BY InteractiveStep DEF IInv
  <2>2. IInv' /\ CountAll' /\ RaceAll'
    BY <2>1, InvStep, CountStep, RaceStep
  <2>. QED BY <2>2, PPStep DEF RaceAll
<1>3. IInv /\ PPInv => FrontDefined
  BY DEF IInv, LoopInv, PPInv, OneInv, FrontDefined
<1>. QED BY <1>1, <1>2, <1>3, PTL DEF PPSpec
=============================================================================
