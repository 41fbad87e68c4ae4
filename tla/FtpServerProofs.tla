--------------------------- MODULE FtpServerProofs ---------------------------
(***************************************************************************)
(* Theorems about FtpServer, for any clients, any buffer sizes and any     *)
(* number of lines.                                                        *)
(***************************************************************************)
EXTENDS FtpServer, SequenceTheorems, TLAPS

Lines == 0..MaxTurns

USE DEF turn

(* Lines ------------------------------------------------------------------*)

\* The line of a further turn leaves the lines handed out where they are.
LEMMA SayOrder ==
  ASSUME NEW g \in Seq(Lines), NEW o \in Seq(Lines), NEW s \in Seq(Lines), NEW x \in Lines,
         InOrder(g, o, s)
  PROVE  InOrder(g, o, Append(s, x))
<1>1. PICK m \in Nat : m = Len(g)
  BY LenProperties
<1>2. PICK n \in Nat : n = Len(o)
  BY LenProperties
<1>3. PICK k \in Nat : k = Len(s)
  BY LenProperties
<1>4. PICK e : e = Append(s, x)
  OBVIOUS
<1>5. Len(e) = k + 1 /\ \A i \in 1..k : e[i] = s[i]
  BY <1>3, <1>4, AppendProperties
<1>6. m + n <= k
  BY <1>1, <1>2, <1>3 DEF InOrder
<1>7. ASSUME NEW i \in 1..m PROVE g[i] = e[i]
  <2>1. i \in 1..k
    BY <1>6
  <2>. QED BY <1>1, <1>5, <2>1 DEF InOrder
<1>8. ASSUME NEW i \in 1..n PROVE o[i] = e[m + i]
  <2>1. m + i \in 1..k
    BY <1>6
  <2>. QED BY <1>1, <1>2, <1>5, <2>1 DEF InOrder
<1>9. m + n <= k + 1
  BY <1>6
<1>. QED BY <1>1, <1>2, <1>4, <1>5, <1>7, <1>8, <1>9 DEF InOrder

\* A line appended to the send buffer keeps the order if it is the next one.
LEMMA AppendOrder ==
  ASSUME NEW g \in Seq(Lines), NEW o \in Seq(Lines), NEW s \in Seq(Lines), NEW x \in Lines,
         InOrder(g, o, s), Len(g) + Len(o) + 1 = Len(s), x = s[Len(s)]
  PROVE  /\ Append(o, x) \in Seq(Lines)
         /\ InOrder(g, Append(o, x), s)
         /\ Len(g) + Len(Append(o, x)) = Len(g) + Len(o) + 1
<1>1. PICK m \in Nat : m = Len(g)
  BY LenProperties
<1>2. PICK n \in Nat : n = Len(o)
  BY LenProperties
<1>3. PICK e \in Seq(Lines) : e = Append(o, x)
  BY AppendProperties
<1>4. Len(e) = n + 1 /\ (\A i \in 1..n : e[i] = o[i]) /\ e[n + 1] = x
  BY <1>2, <1>3, AppendProperties
<1>5. m + (n + 1) = m + n + 1 /\ m + (n + 1) <= m + n + 1
  OBVIOUS
<1>6. ASSUME NEW i \in 1..(n + 1) PROVE e[i] = s[m + i]
  <2>1. CASE i = n + 1
    BY <1>1, <1>2, <1>4, <1>5, <2>1
  <2>2. CASE i # n + 1
    <3>1. i \in 1..n
      BY <2>2
    <3>. QED BY <1>1, <1>2, <1>4, <3>1 DEF InOrder
  <2>. QED BY <2>1, <2>2
<1>. QED BY <1>1, <1>2, <1>3, <1>4, <1>5, <1>6 DEF InOrder

\* A reset, which clears the send buffer, leaves what was received.
LEMMA ClearOrder ==
  ASSUME NEW g \in Seq(Lines), NEW o \in Seq(Lines), NEW s \in Seq(Lines), InOrder(g, o, s)
  PROVE  InOrder(g, <<>>, s) /\ Len(g) <= Len(s)
<1>1. PICK m \in Nat : m = Len(g)
  BY LenProperties
<1>2. PICK n \in Nat : n = Len(o)
  BY LenProperties
<1>3. PICK k \in Nat : k = Len(s)
  BY LenProperties
<1>4. m + n <= k
  BY <1>1, <1>2, <1>3 DEF InOrder
<1>5. m + 0 <= k /\ m <= k
  BY <1>4
<1>6. Len(<<>>) = 0 /\ 1..0 = {}
  OBVIOUS
<1>. QED BY <1>1, <1>3, <1>5, <1>6 DEF InOrder

\* The network takes the first line of the send buffer, and keeps the order.
LEMMA MoveOrder ==
  ASSUME NEW g \in Seq(Lines), NEW o \in Seq(Lines), NEW s, o # <<>>, InOrder(g, o, s)
  PROVE  /\ Append(g, Head(o)) \in Seq(Lines) /\ Tail(o) \in Seq(Lines)
         /\ InOrder(Append(g, Head(o)), Tail(o), s)
         /\ Len(Append(g, Head(o))) + Len(Tail(o)) = Len(g) + Len(o)
<1>1. PICK m \in Nat : m = Len(g)
  BY LenProperties
<1>2. PICK n \in Nat : n = Len(o)
  BY LenProperties
<1>3. n > 0 /\ Head(o) = o[1] /\ Head(o) \in Lines
  BY <1>2, EmptySeq, ElementOfSeq, HeadTailProperties
<1>4. PICK t \in Seq(Lines) : t = Tail(o)
  BY HeadTailProperties
<1>5. Len(t) = n - 1 /\ \A i \in 1..(n - 1) : t[i] = o[i + 1]
  BY <1>2, <1>4, HeadTailProperties
<1>6. PICK e \in Seq(Lines) : e = Append(g, Head(o))
  BY <1>3, AppendProperties
<1>7. Len(e) = m + 1 /\ (\A i \in 1..m : e[i] = g[i]) /\ e[m + 1] = o[1]
  BY <1>1, <1>3, <1>6, AppendProperties
<1>8. ASSUME NEW i \in 1..(m + 1) PROVE e[i] = s[i]
  <2>1. CASE i = m + 1
    <3>1. 1 \in 1..n
      BY <1>3
    <3>2. o[1] = s[m + 1]
      BY <1>1, <1>2, <3>1 DEF InOrder
    <3>. QED BY <1>7, <2>1, <3>2
  <2>2. CASE i # m + 1
    <3>1. i \in 1..m
      BY <2>2
    <3>. QED BY <1>1, <1>7, <3>1 DEF InOrder
  <2>. QED BY <2>1, <2>2
<1>9. ASSUME NEW i \in 1..(n - 1) PROVE t[i] = s[(m + 1) + i]
  <2>1. i + 1 \in 1..n /\ m + (i + 1) = (m + 1) + i
    BY <1>3
  <2>2. o[i + 1] = s[m + (i + 1)]
    BY <1>1, <1>2, <2>1 DEF InOrder
  <2>. QED BY <1>5, <2>1, <2>2
<1>10. (m + 1) + (n - 1) = m + n
  OBVIOUS
<1>11. (m + 1) + (n - 1) <= Len(s)
  BY <1>1, <1>2, <1>10 DEF InOrder
<1>. QED BY <1>1, <1>2, <1>4, <1>5, <1>6, <1>7, <1>8, <1>9, <1>10, <1>11 DEF InOrder

(* Types ------------------------------------------------------------------*)

LEMMA HandedType ==
  ASSUME TypeOK, NEW c \in Clients
  PROVE  /\ got[c] \in Seq(Lines) /\ out[c] \in Seq(Lines)
         /\ said \in Seq(Lines)
         /\ Handed(c) \in Nat /\ rd[c] \in Nat /\ turn \in Nat
<1>1. got[c] \in Seq(Lines) /\ out[c] \in Seq(Lines) /\ said \in Seq(Lines)
  BY DEF TypeOK, Lines
<1>2. Len(got[c]) \in Nat /\ Len(out[c]) \in Nat /\ Len(said) \in Nat
  BY <1>1, LenProperties
<1>. QED BY <1>1, <1>2, FtpAssumption DEF TypeOK, Handed

\* Every turn adds its line to the history.
LEMMA GetsStep ==
  ASSUME TypeOK, gets_eof \/ \E n \in 0..BufSize : gets(n)
  PROVE  /\ pc = "gets" /\ clifd' \in {clifd, NoClient} /\ pc' \in {"write", "segv"}
         /\ UNCHANGED sockets
         /\ line' \in Lines /\ said' = Append(said, line')
         /\ said' \in Seq(Lines) /\ turn' = turn + 1 /\ turn + 1 <= MaxTurns
         /\ turn \in Nat /\ line' = said'[turn']
<1>1. /\ pc = "gets" /\ clifd' \in {clifd, NoClient} /\ pc' \in {"write", "segv"}
      /\ UNCHANGED sockets /\ line' \in {0, turn + 1} /\ said' = Append(said, line')
      /\ turn < MaxTurns
  BY DEF gets_eof, gets
<1>2. said \in Seq(Lines) /\ Len(said) \in Nat /\ MaxTurns \in Nat
  BY LenProperties, FtpAssumption DEF TypeOK, Lines
<1>3. turn \in Nat /\ turn + 1 <= MaxTurns
  BY <1>1, <1>2
<1>4. line' \in Lines
  BY <1>1, <1>2, <1>3 DEF Lines
<1>5. said' \in Seq(Lines) /\ Len(said') = Len(said) + 1 /\ said'[Len(said) + 1] = line'
  BY <1>1, <1>2, <1>4, AppendProperties
<1>. QED BY <1>1, <1>3, <1>4, <1>5

\* No call of the program and no packet leaves the types.
LEMMA TypeStep == TypeOK /\ LoopInv /\ [Next]_vars => TypeOK'
<1> SUFFICES ASSUME TypeOK, LoopInv, [Next]_vars PROVE TypeOK'
  OBVIOUS
<1>0. MaxTurns \in Nat /\ MaxSend \in Nat /\ BufSize \in Nat
  BY FtpAssumption
<1>1. CASE UNCHANGED vars
  BY <1>1 DEF vars, sockets, TypeOK
<1>2. CASE setup \/ accept
  BY <1>2 DEF setup, accept, sockets, TypeOK
<1>3. CASE gets_eof \/ \E n \in 0..BufSize : gets(n)
  <2>. QED BY <1>3, GetsStep DEF sockets, TypeOK, Lines
<1>4. CASE write
  <2>1. clifd \in Clients
    BY <1>4 DEF write, TypeOK
  <2>2. Append(out[clifd], line) \in Seq(0..MaxTurns)
    BY <2>1, AppendProperties DEF TypeOK
  <2>. QED BY <1>4, <2>1, <2>2 DEF write, TypeOK
<1>5. CASE write_error \/ read_end
  BY <1>5 DEF write_error, read_end, TypeOK
<1>6. CASE read
  <2>1. clifd \in Clients
    BY <1>6 DEF read, TypeOK
  <2>2. rd[clifd] \in 0..MaxSend /\ sent[clifd] \in 0..MaxSend
    BY <2>1 DEF TypeOK
  <2>3. MinOf(rd[clifd] + BufSize, sent[clifd]) \in 0..MaxSend
    BY <1>0, <2>2 DEF MinOf
  <2>. QED BY <1>6, <2>1, <2>3 DEF read, TypeOK
<1>7. ASSUME NEW c \in Clients, Connect(c) \/ ArriveFin(c) \/ ArriveRst(c) PROVE TypeOK'
  <2>1. CASE Connect(c)
    BY <2>1 DEF Connect, TypeOK
  <2>2. CASE ArriveFin(c)
    BY <2>2 DEF ArriveFin, TypeOK
  <2>3. CASE ArriveRst(c)
    <3>1. <<>> \in Seq(0..MaxTurns)
      OBVIOUS
    <3>2. out' \in [Clients -> Seq(0..MaxTurns)]
      BY <2>3, <3>1 DEF ArriveRst, TypeOK
    <3>. QED BY <2>3, <3>2 DEF ArriveRst, TypeOK
  <2>. QED BY <1>7, <2>1, <2>2, <2>3
<1>8. ASSUME NEW c \in Clients, Deliver(c) PROVE TypeOK'
  <2>1. out[c] \in Seq(0..MaxTurns) /\ out[c] # <<>> /\ got[c] \in Seq(0..MaxTurns)
    BY <1>8 DEF Deliver, TypeOK
  <2>2. Append(got[c], Head(out[c])) \in Seq(0..MaxTurns) /\ Tail(out[c]) \in Seq(0..MaxTurns)
    BY <2>1, AppendProperties, HeadTailProperties
  <2>. QED BY <1>8, <2>2 DEF Deliver, TypeOK
<1>9. ASSUME NEW c \in Clients, NEW n \in 1..MaxSend, Arrive(c, n) PROVE TypeOK'
  <2>1. sent[c] + n \in 0..MaxSend
    BY <1>0, <1>9 DEF Arrive, TypeOK
  <2>. QED BY <1>9, <2>1 DEF Arrive, TypeOK
<1>. QED BY <1>1, <1>2, <1>3, <1>4, <1>5, <1>6, <1>7, <1>8, <1>9 DEF Next

(* The invariant ----------------------------------------------------------*)

\* A step that leaves a client's lines alone and does not count against it.
LEMMA Frame ==
  ASSUME NEW d \in Clients, ClientInv(d), UNCHANGED <<out[d], got[d], rd[d], link[d]>>,
         conn[d] = "accepted" => conn'[d] = "accepted",
         clifd' = d /\ ~Reset(d) =>
           /\ pc' \in {"gets", "read"} => Handed(d) = turn'
           /\ pc' = "write" => Handed(d) = turn' - 1,
         pc = "read" /\ clifd = d /\ link[d] = "open" => pc' = "read" /\ clifd' = d,
         InOrder(got[d], out[d], said'), Handed(d) \in Nat, rd[d] \in Nat
  PROVE  ClientInv(d)'
<1>1. Handed(d)' = Handed(d) /\ (Reset(d)' <=> Reset(d))
  BY DEF Handed, Reset
<1>2. conn'[d] # "accepted" => got'[d] = <<>> /\ out'[d] = <<>>
  BY DEF ClientInv
<1>3. (Reset(d)' => out'[d] = <<>>) /\ InOrder(got'[d], out'[d], said')
  BY <1>1 DEF ClientInv
<1>4. link'[d] = "open" =>
        Handed(d)' <= rd'[d] + (IF pc' = "read" /\ clifd' = d THEN 1 ELSE 0)
  <2>. SUFFICES ASSUME link[d] = "open"
                PROVE  Handed(d) <= rd[d] + (IF pc' = "read" /\ clifd' = d THEN 1 ELSE 0)
    BY <1>1
  <2>1. Handed(d) <= rd[d] + (IF pc = "read" /\ clifd = d THEN 1 ELSE 0)
    BY DEF ClientInv
  <2>2. CASE pc = "read" /\ clifd = d
    BY <2>1, <2>2
  <2>3. CASE ~(pc = "read" /\ clifd = d)
    BY <2>1, <2>3
  <2>. QED BY <2>2, <2>3
<1>. QED BY <1>1, <1>2, <1>3, <1>4 DEF ClientInv

\* Each call of the program and each packet keeps the invariant.
LEMMA InvStep == FInv /\ [Next]_vars => FInv'
<1> SUFFICES ASSUME FInv, [Next]_vars PROVE FInv'
  OBVIOUS
<1>1. TypeOK /\ TypeOK' /\ LoopInv /\ OneClientEver
  BY TypeStep DEF FInv
<1>2. \A d \in Clients : /\ ClientInv(d) /\ Handed(d) \in Nat /\ rd[d] \in Nat
                          /\ InOrder(got[d], out[d], said)
  BY <1>1, HandedType DEF FInv, ClientInv
<1>3. CASE UNCHANGED vars
  <2>1. LoopInv' /\ OneClientEver'
    BY <1>1, <1>3 DEF vars, sockets, LoopInv, OneClientEver
  <2>2. \A d \in Clients : ClientInv(d)'
    BY <1>2, <1>3 DEF vars, sockets, ClientInv, Handed, Reset
  <2>. QED BY <1>1, <2>1, <2>2 DEF FInv
<1>4. CASE setup
  <2>1. LoopInv' /\ OneClientEver'
    BY <1>1, <1>4 DEF setup, sockets, LoopInv, OneClientEver
  <2>2. ASSUME NEW d \in Clients PROVE ClientInv(d)'
    BY <1>2, <1>4, Frame DEF setup, sockets
  <2>. QED BY <1>1, <2>1, <2>2 DEF FInv
<1>5. CASE accept
  <2>1. turn = 0 /\ clifd = NoClient /\ \A c \in Clients : conn[c] # "accepted"
    BY <1>1, <1>5 DEF accept, LoopInv
  <2>2. LoopInv' /\ OneClientEver'
    BY <1>1, <1>5, <2>1 DEF accept, LoopInv, OneClientEver, TypeOK
  <2>3. ASSUME NEW d \in Clients PROVE ClientInv(d)'
    <3>1. got[d] = <<>> /\ out[d] = <<>>
      BY <1>2, <2>1 DEF ClientInv
    <3>2. Handed(d) = 0
      BY <3>1 DEF Handed
    <3>. QED BY <1>2, <1>5, <2>1, <3>2, Frame DEF accept
  <2>. QED BY <1>1, <2>2, <2>3 DEF FInv
<1>6. CASE gets_eof \/ \E n \in 0..BufSize : gets(n)
  <2>1. /\ pc = "gets" /\ clifd' \in {clifd, NoClient} /\ pc' \in {"write", "segv"}
        /\ UNCHANGED sockets /\ line' \in Lines /\ said' = Append(said, line')
        /\ turn' = turn + 1 /\ turn \in Nat /\ line' = said'[turn']
    BY <1>1, <1>6, GetsStep
  <2>2. LoopInv' /\ OneClientEver'
    BY <1>1, <2>1 DEF sockets, LoopInv, OneClientEver, TypeOK
  <2>3. ASSUME NEW d \in Clients PROVE ClientInv(d)'
    <3>1. clifd' = d => clifd = d
      BY <2>1, FtpAssumption
    <3>2. clifd = d /\ ~Reset(d) => Handed(d) = turn' - 1
      <4>1. clifd = d /\ ~Reset(d) => Handed(d) = turn
        BY <1>2, <2>1 DEF ClientInv
      <4>2. turn \in Nat /\ turn' - 1 = turn
        BY <2>1
      <4>. QED BY <4>1, <4>2
    <3>3. InOrder(got[d], out[d], said')
      BY <1>1, <1>2, <2>1, HandedType, SayOrder
    <3>. QED BY <1>2, <2>1, <3>1, <3>2, <3>3, Frame DEF sockets
  <2>. QED BY <1>1, <2>2, <2>3 DEF FInv
<1>7. CASE write
  <2>1. /\ clifd \in Clients /\ ~Reset(clifd) /\ turn > 0 /\ line = said[turn]
        /\ pc = "write" /\ pc' = "read" /\ conn[clifd] = "accepted"
    BY <1>1, <1>7 DEF write, TypeOK, LoopInv
  <2>2. LoopInv' /\ OneClientEver'
    BY <1>1, <1>7 DEF write, LoopInv, OneClientEver
  <2>3. ASSUME NEW d \in Clients, d # clifd PROVE ClientInv(d)'
    <3>1. out'[d] = out[d]
      BY <1>1, <1>7, <2>3 DEF write, TypeOK
    <3>. QED BY <1>2, <1>7, <2>3, <3>1, Frame DEF write
  <2>4. ASSUME NEW c \in Clients, c = clifd PROVE ClientInv(c)'
    <3>1. PICK g \in Seq(Lines) : g = got[c]
      BY <1>1, HandedType
    <3>2. PICK o \in Seq(Lines) : o = out[c]
      BY <1>1, HandedType
    <3>3. PICK h \in Nat : h = Len(g) + Len(o)
      BY <1>2, <3>1, <3>2 DEF Handed
    <3>4. h = turn - 1 /\ InOrder(g, o, said)
      BY <1>2, <2>1, <2>4, <3>1, <3>2, <3>3 DEF ClientInv, Handed
    <3>5. line \in Lines /\ said \in Seq(Lines) /\ turn \in Nat
      BY <1>1, HandedType DEF TypeOK, Lines
    <3>6. turn = h + 1
      BY <3>4, <3>5
    <3>7. Len(g) + Len(o) + 1 = Len(said) /\ line = said[Len(said)]
      BY <2>1, <3>3, <3>6
    <3>8. /\ InOrder(g, Append(o, line), said)
          /\ Len(g) + Len(Append(o, line)) = h + 1
      BY <3>3, <3>4, <3>5, <3>7, AppendOrder
    <3>9. out'[c] = Append(o, line) /\ got'[c] = g
      BY <1>1, <1>7, <2>4, <3>1, <3>2 DEF write, TypeOK
    <3>10. Handed(c)' = h + 1
      BY <3>8, <3>9 DEF Handed
    <3>11. link[c] = "open" => h <= rd[c]
      <4>1. link[c] = "open" => Handed(c) <= rd[c] + 0
        BY <1>2, <2>1 DEF ClientInv
      <4>2. Handed(c) = h
        BY <3>1, <3>2, <3>3 DEF Handed
      <4>. QED BY <1>2, <4>1, <4>2
    <3>12. link'[c] = "open" => Handed(c)' <= rd'[c] + 1
      BY <1>2, <1>7, <3>10, <3>11 DEF write
    <3>. QED BY <1>7, <2>1, <2>4, <3>6, <3>8, <3>9, <3>10, <3>12 DEF write, ClientInv, Reset
  <2>. QED BY <1>1, <2>1, <2>2, <2>3, <2>4 DEF FInv
<1>8. CASE write_error
  <2>1. LoopInv' /\ OneClientEver'
    BY <1>1, <1>8 DEF write_error, LoopInv, OneClientEver
  <2>2. ASSUME NEW d \in Clients PROVE ClientInv(d)'
    <3>1. clifd = d => Reset(d)
      BY <1>8, FtpAssumption DEF write_error
    <3>. QED BY <1>2, <1>8, <3>1, Frame DEF write_error
  <2>. QED BY <1>1, <2>1, <2>2 DEF FInv
<1>9. CASE read
  <2>1. clifd \in Clients /\ pc = "read" /\ pc' = "gets"
    BY <1>1, <1>9 DEF read, TypeOK
  <2>2. LoopInv' /\ OneClientEver'
    BY <1>1, <1>9 DEF read, LoopInv, OneClientEver
  <2>3. ASSUME NEW d \in Clients, d # clifd PROVE ClientInv(d)'
    <3>1. rd'[d] = rd[d]
      BY <1>1, <1>9, <2>3 DEF read, TypeOK
    <3>. QED BY <1>2, <1>9, <2>3, <3>1, Frame DEF read
  <2>4. ASSUME NEW c \in Clients, c = clifd PROVE ClientInv(c)'
    <3>1. Handed(c)' = Handed(c) /\ (Reset(c)' <=> Reset(c))
      BY <1>9 DEF read, Handed, Reset
    <3>2. ~Reset(c) => Handed(c) = turn
      BY <1>2, <2>1, <2>4 DEF ClientInv
    <3>3. PICK r \in Nat : r = rd[c]
      BY <1>2
    <3>4. rd'[c] >= r + 1 /\ rd'[c] \in Nat
      <4>1. rd'[c] = MinOf(r + BufSize, sent[c]) /\ sent[c] > r /\ sent[c] \in Nat
        BY <1>1, <1>9, <2>4, <3>3, FtpAssumption DEF read, TypeOK
      <4>. QED BY <4>1, FtpAssumption DEF MinOf
    <3>5. link[c] = "open" => Handed(c) <= r + 1
      BY <1>2, <2>1, <2>4, <3>3 DEF ClientInv
    <3>6. link[c] = "open" => Handed(c) <= rd'[c] + 0
      BY <1>2, <3>4, <3>5
    <3>. QED BY <1>2, <1>9, <2>1, <2>4, <3>1, <3>2, <3>6 DEF read, ClientInv
  <2>. QED BY <1>1, <2>1, <2>2, <2>3, <2>4 DEF FInv
<1>10. CASE read_end
  <2>1. LoopInv' /\ OneClientEver'
    BY <1>1, <1>10 DEF read_end, LoopInv, OneClientEver
  <2>2. ASSUME NEW d \in Clients PROVE ClientInv(d)'
    <3>1. clifd = d => link[d] # "open"
      BY <1>10, FtpAssumption DEF read_end
    <3>2. clifd = d /\ ~Reset(d) => Handed(d) = turn
      BY <1>2, <1>10 DEF read_end, ClientInv
    <3>. QED BY <1>2, <1>10, <3>1, <3>2, Frame DEF read_end
  <2>. QED BY <1>1, <2>1, <2>2 DEF FInv
<1>11. ASSUME NEW c \in Clients, Connect(c) PROVE FInv'
  <2>1. \A d \in Clients : conn'[d] = "accepted" <=> conn[d] = "accepted"
    BY <1>1, <1>11 DEF Connect, TypeOK
  <2>2. LoopInv' /\ OneClientEver'
    BY <1>1, <1>11, <2>1, FtpAssumption DEF Connect, LoopInv, OneClientEver, TypeOK
  <2>3. ASSUME NEW d \in Clients PROVE ClientInv(d)'
    <3>1. clifd = d /\ ~Reset(d) =>
            /\ pc \in {"gets", "read"} => Handed(d) = turn
            /\ pc = "write" => Handed(d) = turn - 1
      BY <1>2 DEF ClientInv
    <3>. QED BY <1>2, <1>11, <2>1, <3>1, Frame DEF Connect
  <2>. QED BY <1>1, <2>2, <2>3 DEF FInv
<1>12. ASSUME NEW c \in Clients, NEW n \in 1..MaxSend, Arrive(c, n) PROVE FInv'
  <2>1. LoopInv' /\ OneClientEver'
    BY <1>1, <1>12 DEF Arrive, LoopInv, OneClientEver
  <2>2. ASSUME NEW d \in Clients PROVE ClientInv(d)'
    BY <1>2, <1>12 DEF Arrive, ClientInv, Handed, Reset
  <2>. QED BY <1>1, <2>1, <2>2 DEF FInv
<1>13. ASSUME NEW c \in Clients, ArriveFin(c) PROVE FInv'
  <2>1. LoopInv' /\ OneClientEver'
    BY <1>1, <1>13 DEF ArriveFin, LoopInv, OneClientEver
  <2>2. ASSUME NEW d \in Clients PROVE ClientInv(d)'
    <3>1. (Reset(d)' <=> Reset(d)) /\ (link'[d] = "open" => link[d] = "open")
      BY <1>1, <1>13 DEF ArriveFin, Reset, TypeOK
    <3>. QED BY <1>2, <1>13, <3>1 DEF ArriveFin, ClientInv, Handed
  <2>. QED BY <1>1, <2>1, <2>2 DEF FInv
<1>14. ASSUME NEW c \in Clients, ArriveRst(c) PROVE FInv'
  <2>1. LoopInv' /\ OneClientEver'
    BY <1>1, <1>14 DEF ArriveRst, LoopInv, OneClientEver
  <2>2. ASSUME NEW d \in Clients, d # c PROVE ClientInv(d)'
    <3>1. link'[d] = link[d] /\ out'[d] = out[d]
      BY <1>1, <1>14, <2>2 DEF ArriveRst, TypeOK
    <3>. QED BY <1>2, <1>14, <3>1 DEF ArriveRst, ClientInv, Handed, Reset
  <2>3. ClientInv(c)'
    <3>1. Reset(c)' /\ link'[c] # "open" /\ out'[c] = <<>> /\ got' = got /\ conn' = conn
      BY <1>1, <1>14 DEF ArriveRst, Reset, TypeOK
    <3>2. InOrder(got[c], <<>>, said) /\ said' = said
      BY <1>1, <1>2, <1>14, HandedType, ClearOrder DEF ArriveRst
    <3>. QED BY <1>2, <3>1, <3>2 DEF ClientInv
  <2>. QED BY <1>1, <2>1, <2>2, <2>3 DEF FInv
<1>15. ASSUME NEW c \in Clients, Deliver(c) PROVE FInv'
  <2>1. LoopInv' /\ OneClientEver'
    BY <1>1, <1>15 DEF Deliver, LoopInv, OneClientEver
  <2>2. ASSUME NEW d \in Clients, d # c PROVE ClientInv(d)'
    <3>1. got'[d] = got[d] /\ out'[d] = out[d]
      BY <1>1, <1>15, <2>2 DEF Deliver, TypeOK
    <3>. QED BY <1>2, <1>15, <3>1 DEF Deliver, ClientInv, Handed, Reset
  <2>3. ClientInv(c)'
    <3>1. /\ got'[c] = Append(got[c], Head(out[c])) /\ out'[c] = Tail(out[c])
          /\ out[c] # <<>> /\ ~Reset(c) /\ conn[c] = "accepted"
      BY <1>1, <1>2, <1>15 DEF Deliver, ClientInv, TypeOK
    <3>2. InOrder(got[c], out[c], said) /\ got[c] \in Seq(Lines) /\ out[c] \in Seq(Lines)
      BY <1>1, <1>2, HandedType DEF ClientInv
    <3>3. InOrder(got'[c], out'[c], said) /\ Handed(c)' = Handed(c)
      BY <3>1, <3>2, MoveOrder DEF Handed
    <3>4. ~Reset(c)'
      BY <1>15, <3>1 DEF Deliver, Reset
    <3>. QED BY <1>2, <1>15, <3>1, <3>3, <3>4 DEF Deliver, ClientInv
  <2>. QED BY <1>1, <2>1, <2>2, <2>3 DEF FInv
<1>. QED
  BY <1>3, <1>4, <1>5, <1>6, <1>7, <1>8, <1>9, <1>10, <1>11, <1>12, <1>13, <1>14, <1>15
  DEF Next

\* The inductive invariant holds in every reachable state.
THEOREM Invariant == Spec => []FInv
<1>1. Init => FInv
  <2> SUFFICES ASSUME Init PROVE FInv
    OBVIOUS
  <2>1. TypeOK
    BY FtpAssumption DEF Init, TypeOK
  <2>2. LoopInv /\ OneClientEver
    BY DEF Init, LoopInv, OneClientEver
  <2>3. ASSUME NEW c \in Clients PROVE ClientInv(c)
    BY FtpAssumption DEF Init, ClientInv, InOrder, Handed, Reset
  <2>. QED BY <2>1, <2>2, <2>3 DEF FInv
<1>. QED BY <1>1, InvStep, PTL DEF Spec

\* The program waits for the client after every line (main.c:42-51): a client
\* that keeps its side open is never more than one line ahead of its answers.
THEOREM LinesAndAnswers == Spec => []InStep
<1>1. FInv => InStep
  <2> SUFFICES ASSUME FInv, NEW c \in Clients, link[c] = "open"
               PROVE  Handed(c) <= rd[c] + (IF pc = "read" THEN 1 ELSE 0)
    BY DEF InStep, Handed
  <2>1. Handed(c) \in Nat /\ rd[c] \in Nat
    BY HandedType DEF FInv
  <2>2. Handed(c) <= rd[c] + (IF pc = "read" /\ clifd = c THEN 1 ELSE 0)
    BY DEF FInv, ClientInv
  <2>. QED BY <2>1, <2>2
<1>. QED BY <1>1, Invariant, PTL

\* What the client has got is what was in buf in the first turns, each once and
\* in its place, however long it leaves lines in the send buffer and whatever
\* it sends meanwhile (main.c:44-50).
THEOREM LinesKeepOrder == Spec => []LinesInOrder
<1>1. FInv => LinesInOrder
  <2> SUFFICES ASSUME FInv, NEW c \in Clients
               PROVE  /\ Len(got[c]) <= turn
                      /\ \A i \in 1..Len(got[c]) : got[c][i] = said[i]
    BY DEF LinesInOrder
  <2>1. InOrder(got[c], out[c], said)
    BY DEF FInv, ClientInv
  <2>2. Len(got[c]) <= Len(said)
    BY <2>1, HandedType, ClearOrder DEF FInv
  <2>. QED BY <2>1, <2>2 DEF InOrder
<1>. QED BY <1>1, Invariant, PTL

\* accept is called once in the program's life (main.c:41-42).
THEOREM OneClient == Spec => []OneClientEver
<1>1. FInv => OneClientEver
  BY DEF FInv
<1>. QED BY <1>1, Invariant, PTL
=============================================================================
