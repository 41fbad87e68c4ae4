--------------------------- MODULE AsioEchoProofs ---------------------------
(***************************************************************************)
(* Theorems about AsioEcho, for any set of clients and any sizes of chunks *)
(* and buffers.                                                            *)
(***************************************************************************)
EXTENDS AsioEcho, SequenceTheorems, TLAPS

(* Numbered bytes ---------------------------------------------------------*)

\* Bytes behind bytes: where each one of a concatenation comes from.
LEMMA Joined ==
  ASSUME NEW a \in Seq(Nat), NEW b \in Seq(Nat)
  PROVE  /\ a \o b \in Seq(Nat)
         /\ Len(a) \in Nat /\ Len(b) \in Nat
         /\ Len(a \o b) = Len(a) + Len(b)
         /\ \A i \in 1..(Len(a) + Len(b)) :
              (a \o b)[i] = IF i <= Len(a) THEN a[i] ELSE b[i - Len(a)]
BY ConcatProperties, LenProperties

\* Numbered bytes behind numbered bytes are numbered on.
LEMMA JoinNumbered ==
  ASSUME NEW a \in Seq(Nat), NEW b \in Seq(Nat), NEW p \in Int,
         \A i \in 1..Len(a) : a[i] = p + i,
         \A i \in 1..Len(b) : b[i] = (p + Len(a)) + i
  PROVE  /\ a \o b \in Seq(Nat)
         /\ Len(a \o b) = Len(a) + Len(b)
         /\ \A i \in 1..Len(a \o b) : (a \o b)[i] = p + i
<1>1. ASSUME NEW i \in 1..(Len(a) + Len(b)) PROVE (a \o b)[i] = p + i
  <2>0. Len(a) \in Nat /\ Len(b) \in Nat
    BY Joined
  <2>1. CASE i <= Len(a)
    <3>1. i \in 1..Len(a)
      BY <2>0, <2>1
    <3>. QED BY <2>1, <3>1, Joined
  <2>2. CASE ~(i <= Len(a))
    <3>1. i - Len(a) \in 1..Len(b)
      BY <2>0, <2>2
    <3>2. b[i - Len(a)] = (p + Len(a)) + (i - Len(a))
      BY <3>1
    <3>3. (p + Len(a)) + (i - Len(a)) = p + i
      BY <2>0
    <3>. QED BY <2>2, <3>2, <3>3, Joined
  <2>. QED BY <2>1, <2>2
<1>. QED BY <1>1, Joined

\* Cutting a sequence of bytes after the first n.
LEMMA CutBytes ==
  ASSUME NEW s \in Seq(Nat), NEW n \in 1..Len(s)
  PROVE  /\ SubSeq(s, 1, n) \in Seq(Nat)
         /\ Len(SubSeq(s, 1, n)) = n
         /\ \A i \in 1..n : SubSeq(s, 1, n)[i] = s[i]
         /\ SubSeq(s, n + 1, Len(s)) \in Seq(Nat)
         /\ Len(SubSeq(s, n + 1, Len(s))) = Len(s) - n
         /\ \A i \in 1..(Len(s) - n) : SubSeq(s, n + 1, Len(s))[i] = s[n + i]
<1>0. Len(s) \in Nat /\ \A i \in 1..Len(s) : s[i] \in Nat
  BY LenProperties, ElementOfSeq
<1> DEFINE l == Len(s)
           r == SubSeq(s, n + 1, l)
<1>1. \A i \in 1..n : s[i] \in Nat
  BY <1>0
<1>2. /\ SubSeq(s, 1, n) \in Seq(Nat)
      /\ Len(SubSeq(s, 1, n)) = n
      /\ \A i \in 1..n : SubSeq(s, 1, n)[i] = s[i]
  BY <1>0, <1>1, SubSeqProperties
<1>3. l \in Nat /\ n + 1 \in Int /\ \A i \in (n + 1)..l : s[i] \in Nat
  BY <1>0
<1>4. /\ r \in Seq(Nat)
      /\ Len(r) = IF n + 1 <= l THEN l - (n + 1) + 1 ELSE 0
      /\ \A i \in 1..(l - (n + 1) + 1) : r[i] = s[(n + 1) + i - 1]
  BY <1>3, SubSeqProperties
<1>5. n \in 1..l
  OBVIOUS
<1>. HIDE DEF l, r
<1>6. Len(r) = l - n /\ l - (n + 1) + 1 = l - n
  BY <1>3, <1>4, <1>5
<1>7. ASSUME NEW i \in 1..(l - n) PROVE r[i] = s[n + i]
  <2>1. (n + 1) + i - 1 = n + i
    BY <1>3, <1>5
  <2>. QED BY <1>4, <1>6, <2>1
<1>. QED BY <1>2, <1>4, <1>6, <1>7 DEF l, r

\* Moving the first n bytes of b behind a, where b is numbered on from a.
LEMMA MoveNumbered ==
  ASSUME NEW a \in Seq(Nat), NEW b \in Seq(Nat), NEW p \in Int,
         NEW n \in 1..Len(b),
         \A i \in 1..Len(a) : a[i] = p + i,
         \A i \in 1..Len(b) : b[i] = (p + Len(a)) + i
  PROVE  /\ a \o SubSeq(b, 1, n) \in Seq(Nat)
         /\ Len(a \o SubSeq(b, 1, n)) = Len(a) + n
         /\ \A i \in 1..(Len(a) + n) : (a \o SubSeq(b, 1, n))[i] = p + i
         /\ SubSeq(b, n + 1, Len(b)) \in Seq(Nat)
         /\ Len(SubSeq(b, n + 1, Len(b))) = Len(b) - n
         /\ \A i \in 1..(Len(b) - n) :
              SubSeq(b, n + 1, Len(b))[i] = (p + Len(a) + n) + i
<1>0. Len(a) \in Nat /\ Len(b) \in Nat
  BY LenProperties
<1>1. \A i \in 1..n : i \in 1..Len(b)
  BY <1>0
<1>2. \A i \in 1..n : SubSeq(b, 1, n)[i] = (p + Len(a)) + i
  BY <1>1, CutBytes
<1>3. /\ a \o SubSeq(b, 1, n) \in Seq(Nat)
      /\ Len(a \o SubSeq(b, 1, n)) = Len(a) + n
      /\ \A i \in 1..Len(a \o SubSeq(b, 1, n)) : (a \o SubSeq(b, 1, n))[i] = p + i
  <2> DEFINE f == SubSeq(b, 1, n)
  <2>1. f \in Seq(Nat) /\ Len(f) = n /\ \A i \in 1..Len(f) : f[i] = (p + Len(a)) + i
    BY <1>2, CutBytes
  <2>. HIDE DEF f
  <2>2. /\ a \o f \in Seq(Nat)
        /\ Len(a \o f) = Len(a) + Len(f)
        /\ \A i \in 1..Len(a \o f) : (a \o f)[i] = p + i
    BY <2>1, JoinNumbered
  <2>. QED BY <2>1, <2>2 DEF f
<1>4. ASSUME NEW i \in 1..(Len(b) - n)
      PROVE  SubSeq(b, n + 1, Len(b))[i] = (p + Len(a) + n) + i
  <2>1. n + i \in 1..Len(b) /\ (p + Len(a)) + (n + i) = (p + Len(a) + n) + i
    BY <1>0
  <2>2. SubSeq(b, n + 1, Len(b))[i] = b[n + i]
    BY CutBytes
  <2>. QED BY <2>1, <2>2
<1>. QED BY <1>3, <1>4, CutBytes

\* The smaller of two numbers.
LEMMA MinFacts ==
  ASSUME NEW a \in Int, NEW b \in Int
  PROVE  /\ MinOf(a, b) \in Int
         /\ MinOf(a, b) <= a /\ MinOf(a, b) <= b
         /\ MinOf(a, b) = a \/ MinOf(a, b) = b
BY DEF MinOf

(* The invariant ----------------------------------------------------------*)

\* A step that leaves a client's streams alone keeps its part of AInv.
LEMMA Untouched ==
  ASSUME TypeOK, NEW c \in Clients, StreamInv(c), OpenInv(c),
         sbuf_'[c] = sbuf_[c], rd'[c] = rd[c], out'[c] = out[c], got'[c] = got[c],
         sent'[c] \in Nat, sent'[c] >= sent[c],
         link'[c] = link[c] \/ (link[c] = "open" /\ link'[c] = "fin"),
         op'[c] = op[c] \/ op'[c] # "write" \/ link[c] # "open"
  PROVE  StreamInv(c)' /\ OpenInv(c)'
BY DEF TypeOK, StreamInv, OpenInv

\* Every step keeps the types.
LEMMA TypeStep == TypeOK /\ [Next]_vars => TypeOK'
<1> SUFFICES ASSUME TypeOK, [Next]_vars PROVE TypeOK'
  OBVIOUS
<1>1. CASE start \/ handle_accept_error \/ run_returns
  BY <1>1 DEF start, handle_accept_error, run_returns, TypeOK, streams
<1>2. ASSUME NEW c \in Clients, handle_accept(c) PROVE TypeOK'
  BY <1>2 DEF handle_accept, session_start, TypeOK, streams
<1>3. ASSUME NEW c \in Clients, read_some(c) PROVE TypeOK'
  <2> DEFINE n == MinOf(Chunk, sent[c] - rd[c])
             b == [i \in 1..n |-> rd[c] + i]
  <2>1. n \in Nat
    BY <1>3, AsioAssumption DEF read_some, MinOf, TypeOK
  <2>2. \A i \in 1..n : rd[c] + i \in Nat
    BY <2>1 DEF TypeOK
  <2>3. b \in Seq(Nat)
    BY <2>1, <2>2, IsASeq
  <2>4. sbuf_[c] \o b \in Seq(Nat)
    BY <2>3, ConcatProperties DEF TypeOK
  <2>5. sbuf_' = [sbuf_ EXCEPT ![c] = sbuf_[c] \o b] /\ rd' = [rd EXCEPT ![c] = @ + n]
    BY <1>3 DEF read_some
  <2>6. UNCHANGED <<owned, pc, chain, op, conn, sent, link, got, out>>
    BY <1>3 DEF read_some
  <2>. HIDE DEF n, b
  <2>7. sbuf_' \in [Clients -> Seq(Nat)] /\ rd' \in [Clients -> Nat]
    BY <2>1, <2>4, <2>5 DEF TypeOK
  <2>. QED BY <2>6, <2>7 DEF TypeOK
<1>4. ASSUME NEW c \in Clients, handle_read(c) \/ handle_write(c) PROVE TypeOK'
  BY <1>4 DEF handle_read, handle_write, TypeOK, streams
<1>5. ASSUME NEW c \in Clients, write_some(c) PROVE TypeOK'
  <2> DEFINE n == MinOf(Len(sbuf_[c]), SndCap - Len(out[c]))
  <2>1. sbuf_[c] \in Seq(Nat) /\ out[c] \in Seq(Nat)
    BY DEF TypeOK
  <2>2. n \in 1..Len(sbuf_[c])
    <3>1. Len(sbuf_[c]) \in Nat /\ Len(out[c]) \in Nat
      BY <2>1, LenProperties
    <3>2. n > 0
      BY <1>5 DEF write_some
    <3>0. SndCap - Len(out[c]) \in Int
      BY <3>1, AsioAssumption DEF TypeOK
    <3>3. PICK x \in Nat, y \in Int : x = Len(sbuf_[c]) /\ y = SndCap - Len(out[c])
      BY <3>0, <3>1, Zenon
    <3>4. MinOf(x, y) \in Int /\ MinOf(x, y) <= x
      BY MinFacts
    <3>5. n \in Int /\ n <= Len(sbuf_[c])
      BY <3>3, <3>4
    <3>. HIDE DEF n
    <3>. QED BY <3>1, <3>2, <3>5
  <2>3. /\ SubSeq(sbuf_[c], 1, n) \in Seq(Nat)
        /\ SubSeq(sbuf_[c], n + 1, Len(sbuf_[c])) \in Seq(Nat)
    BY <2>1, <2>2, CutBytes
  <2>4. out[c] \o SubSeq(sbuf_[c], 1, n) \in Seq(Nat)
    BY <2>1, <2>3, ConcatProperties
  <2>5. /\ out' = [out EXCEPT ![c] = out[c] \o SubSeq(sbuf_[c], 1, n)]
        /\ sbuf_' = [sbuf_ EXCEPT ![c] = SubSeq(sbuf_[c], n + 1, Len(sbuf_[c]))]
    BY <1>5 DEF write_some
  <2>6. UNCHANGED <<owned, pc, chain, op, conn, sent, link, got, rd>>
    BY <1>5 DEF write_some
  <2>. HIDE DEF n
  <2>7. sbuf_' \in [Clients -> Seq(Nat)] /\ out' \in [Clients -> Seq(Nat)]
    BY <2>3, <2>4, <2>5 DEF TypeOK
  <2>. QED BY <2>6, <2>7 DEF TypeOK
<1>6. ASSUME NEW c \in Clients, Connect(c) \/ ArriveFin(c) PROVE TypeOK'
  BY <1>6 DEF Connect, ArriveFin, TypeOK, streams
<1>10. ASSUME NEW c \in Clients, ArriveRst(c) PROVE TypeOK'
  BY <1>10 DEF ArriveRst, TypeOK, streams
<1>7. ASSUME NEW c \in Clients, NEW n \in 1..MaxSend, Arrive(c, n) PROVE TypeOK'
  BY <1>7, AsioAssumption DEF Arrive, TypeOK, streams
<1>8. ASSUME NEW c \in Clients, NEW n \in 1..SndCap, Deliver(c, n) PROVE TypeOK'
  <2>1. n \in 1..Len(out[c]) /\ out[c] \in Seq(Nat) /\ got[c] \in Seq(Nat)
    BY <1>8 DEF Deliver, TypeOK
  <2>2. /\ SubSeq(out[c], 1, n) \in Seq(Nat)
        /\ SubSeq(out[c], n + 1, Len(out[c])) \in Seq(Nat)
    BY <2>1, CutBytes
  <2>3. got[c] \o SubSeq(out[c], 1, n) \in Seq(Nat)
    BY <2>1, <2>2, ConcatProperties
  <2>4. /\ got' = [got EXCEPT ![c] = got[c] \o SubSeq(out[c], 1, n)]
        /\ out' = [out EXCEPT ![c] = SubSeq(out[c], n + 1, Len(out[c]))]
    BY <1>8 DEF Deliver
  <2>. QED BY <1>8, <2>2, <2>3, <2>4 DEF Deliver, TypeOK
<1>9. CASE UNCHANGED vars
  BY <1>9 DEF vars, streams, TypeOK
<1>. QED BY <1>1, <1>2, <1>3, <1>4, <1>5, <1>6, <1>7, <1>8, <1>9, <1>10
       DEF Next, Session, Environment

\* Everything a step does to the streams of the client it is about.
LEMMA InvStep == AInv /\ [Next]_vars => AInv'
<1> SUFFICES ASSUME AInv, [Next]_vars PROVE AInv'
  OBVIOUS
<1> USE DEF AInv
<1>0. TypeOK'
  BY TypeStep
<1> SUFFICES ASSUME NEW d \in Clients PROVE StreamInv(d)' /\ OpenInv(d)'
  BY <1>0
<1>a. StreamInv(d) /\ OpenInv(d) /\ sent[d] \in Nat
  BY AsioAssumption DEF TypeOK
<1>1. CASE start \/ handle_accept_error \/ run_returns
  BY <1>1, <1>a, Untouched DEF start, handle_accept_error, run_returns, streams
<1>2. ASSUME NEW c \in Clients, handle_accept(c) PROVE StreamInv(d)' /\ OpenInv(d)'
  <2>1. op'[d] = op[d] \/ op'[d] # "write"
    BY <1>2 DEF handle_accept, session_start, TypeOK
  <2>. QED BY <1>2, <1>a, <2>1, Untouched DEF handle_accept, streams
<1>3. ASSUME NEW c \in Clients, read_some(c) PROVE StreamInv(d)' /\ OpenInv(d)'
  <2>1. CASE d # c
    BY <1>3, <1>a, <2>1, Untouched DEF read_some, TypeOK
  <2>2. CASE d = c
    <3>1. PICK g \in Seq(Nat), o \in Seq(Nat), q \in Seq(Nat), r \in Nat, t \in Nat :
            g = got[d] /\ o = out[d] /\ q = sbuf_[d] /\ r = rd[d] /\ t = sent[d]
      BY <1>a DEF TypeOK
    <3>2. /\ \A i \in 1..Len(q) : q[i] = (r - Len(q)) + i
          /\ Len(g) + Len(o) + Len(q) <= r
          /\ link[d] # "rst" => Len(g) + Len(o) + Len(q) = r
      BY <1>a, <3>1 DEF StreamInv
    <3>3. Len(g) \in Nat /\ Len(o) \in Nat /\ Len(q) \in Nat
      BY LenProperties
    <3>4. PICK n \in Nat : n = MinOf(Chunk, sent[d] - rd[d]) /\ n <= t - r
      <4>1. PICK y \in Int : y = t - r /\ y > 0
        BY <1>3, <2>2, <3>1 DEF read_some
      <4>2. MinOf(Chunk, y) \in Nat /\ MinOf(Chunk, y) <= y
        BY <4>1, AsioAssumption DEF MinOf
      <4>. QED BY <3>1, <4>1, <4>2
    <3>5. PICK b : b = [i \in 1..n |-> r + i]
      OBVIOUS
    <3>6. b \in Seq(Nat) /\ Len(b) = n /\ \A i \in 1..n : b[i] = r + i
      <4>1. \A i \in 1..n : r + i \in Nat
        OBVIOUS
      <4>2. b \in Seq(Nat)
        BY <3>5, <4>1, IsASeq
      <4>. QED BY <3>5, <4>2, LenProperties
    <3>7. PICK p \in Int : p = r - Len(q) /\ p + Len(q) = r
      <4>1. r - Len(q) \in Int /\ (r - Len(q)) + Len(q) = r
        BY <3>3
      <4>. QED BY <4>1, Zenon
    <3>8. PICK e : e = q \o b
      OBVIOUS
    <3>9. e \in Seq(Nat) /\ Len(e) = Len(q) + n /\ \A i \in 1..Len(e) : e[i] = p + i
      <4>1. \A i \in 1..Len(b) : b[i] = (p + Len(q)) + i
        BY <3>6, <3>7
      <4>2. \A i \in 1..Len(q) : q[i] = p + i
        BY <3>2, <3>7
      <4>. QED BY <3>6, <3>8, <4>1, <4>2, JoinNumbered
    <3>10. /\ sbuf_'[d] = e
           /\ rd'[d] = r + n
           /\ UNCHANGED <<op, sent, link, got, out>>
      BY <1>3, <2>2, <3>1, <3>4, <3>5, <3>8 DEF read_some, TypeOK
    <3>11. /\ p = (r + n) - Len(e)
           /\ Len(g) + Len(o) + Len(e) <= r + n
           /\ r + n <= t
           /\ link[d] # "rst" => Len(g) + Len(o) + Len(e) = r + n
      <4>1. PICK x \in Nat, y \in Nat, z \in Nat, w \in Nat :
                 x = Len(g) /\ y = Len(o) /\ z = Len(q) /\ w = Len(e) /\ w = z + n
        BY <3>3, <3>9
      <4>2. /\ p = r - z /\ x + y + z <= r /\ n <= t - r
            /\ link[d] # "rst" => x + y + z = r
        BY <3>2, <3>4, <3>7, <4>1
      <4>3. w = z + n
        BY <4>1
      <4>4. /\ p = (r + n) - w /\ x + y + w <= r + n /\ r + n <= t
            /\ link[d] # "rst" => x + y + w = r + n
        BY <4>2, <4>3
      <4>. QED BY <4>1, <4>4
    <3>12. StreamInv(d)'
      BY <1>a, <3>1, <3>9, <3>10, <3>11 DEF StreamInv
    <3>. QED BY <1>a, <3>10, <3>12 DEF OpenInv
  <2>. QED BY <2>1, <2>2
<1>4. ASSUME NEW c \in Clients, handle_read(c) \/ handle_write(c)
      PROVE  StreamInv(d)' /\ OpenInv(d)'
  <2>1. op'[d] = op[d] \/ op'[d] # "write" \/ link[d] # "open"
    BY <1>4 DEF handle_read, handle_write, TypeOK
  <2>. QED BY <1>4, <1>a, <2>1, Untouched DEF handle_read, handle_write, streams
<1>5. ASSUME NEW c \in Clients, write_some(c) PROVE StreamInv(d)' /\ OpenInv(d)'
  <2>1. CASE d # c
    BY <1>5, <1>a, <2>1, Untouched DEF write_some, TypeOK
  <2>2. CASE d = c
    <3>1. PICK g \in Seq(Nat), o \in Seq(Nat), q \in Seq(Nat), t \in Nat :
            g = got[d] /\ o = out[d] /\ q = sbuf_[d] /\ t = rd[d]
      BY DEF TypeOK
    <3>2. Len(g) \in Nat /\ Len(o) \in Nat /\ Len(q) \in Nat
      BY LenProperties
    <3>3. PICK n \in 1..Len(q) : n = MinOf(Len(sbuf_[d]), SndCap - Len(out[d]))
      <4>0. SndCap - Len(o) \in Int
        BY <3>2, AsioAssumption
      <4>1. PICK y \in Int : y = SndCap - Len(o)
        BY <4>0, Zenon
      <4>2. MinOf(Len(q), y) \in Int /\ MinOf(Len(q), y) <= Len(q)
        BY <3>2 DEF MinOf
      <4>3. MinOf(Len(q), y) > 0
        BY <1>5, <2>2, <3>1, <4>1 DEF write_some
      <4>. QED BY <3>1, <3>2, <4>1, <4>2, <4>3
    <3>4. link[d] # "rst" /\ op[d] = "write"
      BY <1>5, <2>2 DEF write_some
    <3>5. /\ \A i \in 1..Len(o) : o[i] = Len(g) + i
          /\ \A i \in 1..Len(q) : q[i] = (t - Len(q)) + i
          /\ Len(g) + Len(o) + Len(q) = t
      BY <1>a, <3>1, <3>4 DEF StreamInv
    <3>6. PICK p \in Int : p = Len(g) /\ p + Len(o) = t - Len(q)
      BY <3>2, <3>5
    <3>7. PICK e \in Seq(Nat), r \in Seq(Nat) :
            e = o \o SubSeq(q, 1, n) /\ r = SubSeq(q, n + 1, Len(q))
      <4>1. SubSeq(q, 1, n) \in Seq(Nat) /\ SubSeq(q, n + 1, Len(q)) \in Seq(Nat)
        BY <3>3, CutBytes
      <4>2. o \o SubSeq(q, 1, n) \in Seq(Nat)
        BY <4>1, ConcatProperties
      <4>. QED BY <4>1, <4>2, Zenon
    <3>8. /\ Len(e) = Len(o) + n
          /\ \A i \in 1..(Len(o) + n) : e[i] = p + i
          /\ Len(r) = Len(q) - n
          /\ \A i \in 1..(Len(q) - n) : r[i] = (p + Len(o) + n) + i
      <4>1. \A i \in 1..Len(o) : o[i] = p + i
        BY <3>5, <3>6
      <4>2. \A i \in 1..Len(q) : q[i] = (p + Len(o)) + i
        BY <3>5, <3>6
      <4>. QED BY <3>7, <4>1, <4>2, MoveNumbered
    <3>9. /\ out'[d] = e /\ sbuf_'[d] = r
          /\ UNCHANGED <<op, sent, link, got, rd>>
      BY <1>5, <2>2, <3>1, <3>3, <3>7 DEF write_some, TypeOK
    <3>10. /\ p + Len(o) + n = t - Len(r)
           /\ Len(g) + Len(e) + Len(r) = t /\ t <= t
      <4>1. Len(e) = Len(o) + n /\ Len(r) = Len(q) - n /\ Len(g) + Len(o) + Len(q) = t
        BY <3>5, <3>8
      <4>2. Len(e) \in Nat /\ Len(r) \in Nat /\ n \in Nat
        BY <3>3, LenProperties
      <4>3. p \in Nat
        BY <3>2, <3>6
      <4>. HIDE DEF AInv
      <4>4. PICK a \in Nat, b \in Nat, f \in Nat, h \in Nat, k \in Nat :
              a = Len(g) /\ b = Len(o) /\ f = Len(q) /\ h = Len(e) /\ k = Len(r)
        BY <3>2, <4>2, Zenon
      <4>5. h = b + n /\ k = f - n /\ a + b + f = t /\ p = a /\ n \in Nat
        BY <3>6, <4>1, <4>2, <4>4
      <4>6. p + b + n = t - k /\ a + h + k = t /\ t <= t
        BY <4>5
      <4>. QED BY <4>4, <4>6
    <3>11. StreamInv(d)'
      <4>1. \A i \in 1..Len(r) : r[i] = (t - Len(r)) + i
        BY <3>8, <3>10
      <4>2. \A i \in 1..Len(e) : e[i] = Len(g) + i
        BY <3>6, <3>8
      <4>. QED BY <1>a, <3>1, <3>4, <3>9, <3>10, <4>1, <4>2 DEF StreamInv
    <3>. QED BY <1>a, <3>4, <3>9, <3>11 DEF OpenInv
  <2>. QED BY <2>1, <2>2
<1>6. ASSUME NEW c \in Clients, Connect(c) \/ ArriveFin(c)
      PROVE  StreamInv(d)' /\ OpenInv(d)'
  <2>1. link'[d] = link[d] \/ (link[d] = "open" /\ link'[d] = "fin")
    BY <1>6 DEF Connect, ArriveFin, TypeOK
  <2>. QED BY <1>6, <1>a, <2>1, Untouched DEF Connect, ArriveFin, streams
<1>7. ASSUME NEW c \in Clients, NEW n \in 1..MaxSend, Arrive(c, n)
      PROVE  StreamInv(d)' /\ OpenInv(d)'
  <2>1. sent'[d] \in Nat /\ sent'[d] >= sent[d]
    BY <1>7, <1>a, AsioAssumption DEF Arrive, TypeOK
  <2>. QED BY <1>7, <1>a, <2>1, Untouched DEF Arrive, streams
<1>8. ASSUME NEW c \in Clients, ArriveRst(c) PROVE StreamInv(d)' /\ OpenInv(d)'
  <2>1. CASE d # c
    BY <1>8, <1>a, <2>1, Untouched DEF ArriveRst, TypeOK
  <2>2. CASE d = c
    <3>1. /\ link'[d] = "rst" /\ out'[d] = <<>>
          /\ UNCHANGED <<op, sent, got, sbuf_, rd>>
      BY <1>8, <2>2 DEF ArriveRst, TypeOK
    <3>2. /\ rd[d] \in Nat /\ Len(sbuf_[d]) \in Nat
          /\ Len(out[d]) \in Nat /\ Len(got[d]) \in Nat
      BY LenProperties DEF TypeOK
    <3>3. Len(out'[d]) = 0
      BY <3>1
    <3>4. Len(got[d]) + 0 + Len(sbuf_[d]) <= rd[d]
      BY <1>a, <3>2 DEF StreamInv, TypeOK
    <3>5. \A i \in 1..Len(out'[d]) : out'[d][i] = Len(got[d]) + i
      BY <3>3
    <3>. QED BY <1>a, <3>1, <3>3, <3>4, <3>5 DEF StreamInv, OpenInv
  <2>. QED BY <2>1, <2>2
<1>9. ASSUME NEW c \in Clients, NEW n \in 1..SndCap, Deliver(c, n)
      PROVE  StreamInv(d)' /\ OpenInv(d)'
  <2>1. CASE d # c
    BY <1>9, <1>a, <2>1, Untouched DEF Deliver, TypeOK
  <2>2. CASE d = c
    <3>1. PICK g \in Seq(Nat), o \in Seq(Nat), q \in Seq(Nat), t \in Nat :
            g = got[d] /\ o = out[d] /\ q = sbuf_[d] /\ t = rd[d]
      BY DEF TypeOK
    <3>2. Len(g) \in Nat /\ Len(o) \in Nat /\ Len(q) \in Nat
      BY LenProperties
    <3>3. n \in 1..Len(o)
      BY <1>9, <2>2, <3>1 DEF Deliver
    <3>4. link[d] # "rst" /\ link[d] # "open"
      <4>1. o # <<>>
        BY <3>3
      <4>. QED BY <1>a, <3>1, <4>1 DEF StreamInv, OpenInv
    <3>5. /\ \A i \in 1..Len(g) : g[i] = i
          /\ \A i \in 1..Len(o) : o[i] = Len(g) + i
          /\ Len(g) + Len(o) + Len(q) = t
      BY <1>a, <3>1, <3>4 DEF StreamInv
    <3>6. PICK p \in Int : p = 0
      OBVIOUS
    <3>7. PICK e \in Seq(Nat), r \in Seq(Nat) :
            e = g \o SubSeq(o, 1, n) /\ r = SubSeq(o, n + 1, Len(o))
      <4>1. SubSeq(o, 1, n) \in Seq(Nat) /\ SubSeq(o, n + 1, Len(o)) \in Seq(Nat)
        BY <3>3, CutBytes
      <4>2. g \o SubSeq(o, 1, n) \in Seq(Nat)
        BY <4>1, ConcatProperties
      <4>. QED BY <4>1, <4>2, Zenon
    <3>8. /\ Len(e) = Len(g) + n
          /\ \A i \in 1..(Len(g) + n) : e[i] = p + i
          /\ Len(r) = Len(o) - n
          /\ \A i \in 1..(Len(o) - n) : r[i] = (p + Len(g) + n) + i
      <4>1. \A i \in 1..Len(g) : g[i] = p + i
        BY <3>2, <3>5, <3>6
      <4>2. \A i \in 1..Len(o) : o[i] = (p + Len(g)) + i
        BY <3>2, <3>5, <3>6
      <4>. QED BY <3>3, <3>7, <4>1, <4>2, MoveNumbered
    <3>9. /\ got'[d] = e /\ out'[d] = r
          /\ UNCHANGED <<op, sent, link, sbuf_, rd>>
      BY <1>9, <2>2, <3>1, <3>7 DEF Deliver, TypeOK
    <3>10. /\ Len(e) + Len(r) + Len(q) = t /\ t <= t
           /\ p + Len(g) + n = Len(e)
      <4>1. Len(e) = Len(g) + n /\ Len(r) = Len(o) - n /\ Len(g) + Len(o) + Len(q) = t
        BY <3>5, <3>8
      <4>2. Len(e) \in Nat /\ Len(r) \in Nat /\ n \in Nat
        BY <3>3, LenProperties
      <4>3. p \in Nat
        BY <3>2, <3>6
      <4>. HIDE DEF AInv
      <4>4. PICK a \in Nat, b \in Nat, f \in Nat, h \in Nat, k \in Nat :
              a = Len(g) /\ b = Len(o) /\ f = Len(q) /\ h = Len(e) /\ k = Len(r)
        BY <3>2, <4>2, Zenon
      <4>5. h = a + n /\ k = b - n /\ a + b + f = t /\ p = 0 /\ n \in Nat
        BY <3>6, <4>1, <4>2, <4>4
      <4>6. h + k + f = t /\ t <= t /\ p + a + n = h
        BY <4>5
      <4>. QED BY <4>4, <4>6
    <3>11. StreamInv(d)'
      <4>1. \A i \in 1..Len(e) : e[i] = i
        BY <3>2, <3>6, <3>8
      <4>2. \A i \in 1..Len(r) : r[i] = Len(e) + i
        BY <3>8, <3>10
      <4>. QED BY <1>a, <3>1, <3>4, <3>9, <3>10, <4>1, <4>2 DEF StreamInv
    <3>. QED BY <3>4, <3>9, <3>11 DEF OpenInv
  <2>. QED BY <2>1, <2>2
<1>10. CASE UNCHANGED vars
  BY <1>10, <1>a, Untouched DEF vars, streams
<1>. QED BY <1>1, <1>2, <1>3, <1>4, <1>5, <1>6, <1>7, <1>8, <1>9, <1>10
       DEF Next, Session, Environment

(* Theorems ---------------------------------------------------------------*)

\* What a client received, the send buffer and sbuf_ always continue each
\* other, for any clients and buffers.
THEOREM Invariant == Spec => []AInv
<1>1. Init => AInv
  <2> SUFFICES ASSUME Init PROVE AInv
    OBVIOUS
  <2>1. TypeOK
    BY AsioAssumption DEF Init, TypeOK
  <2>2. ASSUME NEW c \in Clients PROVE StreamInv(c) /\ OpenInv(c)
    <3>1. /\ got[c] = <<>> /\ out[c] = <<>> /\ sbuf_[c] = <<>>
          /\ rd[c] = 0 /\ sent[c] = 0 /\ link[c] = "open" /\ op[c] = "none"
      BY DEF Init
    <3>. QED BY <3>1 DEF StreamInv, OpenInv
  <2>. QED BY <2>1, <2>2 DEF AInv
<1>. QED BY <1>1, InvStep, PTL DEF Spec

\* The variables of the server and its sockets keep their types.
THEOREM TypeCorrect == Spec => []TypeOK
<1>1. AInv => TypeOK
  BY DEF AInv
<1>. QED BY <1>1, Invariant, PTL

\* No client is answered before it has ended its stream (async_read without
\* a completion condition), for any clients and buffers.
THEOREM SilentWhileOpen == Spec => []NoEchoWhileOpen
<1>1. AInv => NoEchoWhileOpen
  BY DEF AInv, OpenInv, NoEchoWhileOpen
<1>. QED BY <1>1, Invariant, PTL

\* A step that neither takes up a connection nor ends an operation leaves
\* the connections without a session as they are.
LEMMA EndFrame ==
  ASSUME EndInv, Running, pc' = "run", UNCHANGED <<owned, chain>>,
         \A d \in Clients : conn'[d] = "accepted" <=> conn[d] = "accepted",
         \A d \in Clients : op'[d] = "none" <=> op[d] = "none"
  PROVE  EndInv'
<1>1. OpInv' /\ ChainInv'
  BY DEF EndInv, OpInv, ChainInv, Running
<1>2. Sessionless' = Sessionless
  BY DEF Sessionless
<1>. QED BY <1>1, <1>2 DEF EndInv, EndsAtAccept, Running

\* The handler of an accept begins a session or ends the server.
LEMMA AcceptEnds ==
  ASSUME TypeOK, EndInv, NEW c \in Clients, handle_accept(c)
  PROVE  EndInv'
<1>1. /\ Running /\ chain = "armed" /\ conn[c] # "accepted" /\ UNCHANGED <<owned, chain, link>>
      /\ conn' = [conn EXCEPT ![c] = "accepted"]
  BY DEF handle_accept
<1>2. conn'[c] = "accepted" /\ \A d \in Clients : d # c => conn'[d] = conn[d]
  BY <1>1 DEF TypeOK
<1>3. op[c] = "none" /\ Sessionless = {}
  BY <1>1 DEF EndInv, OpInv, EndsAtAccept
<1>4. CASE pc' = "terminate" /\ UNCHANGED op /\ (owned => link[c] = "rst")
  <2>1. Sessionless' = {c}
    BY <1>2, <1>3, <1>4 DEF Sessionless
  <2>2. OpInv' /\ ChainInv'
    BY <1>2, <1>4 DEF EndInv, OpInv, ChainInv, Running
  <2>3. EndsAtAccept'
    BY <1>1, <1>4, <2>1 DEF EndsAtAccept, Running
  <2>. QED BY <2>2, <2>3 DEF EndInv
<1>5. CASE op' = [op EXCEPT ![c] = "read"] /\ UNCHANGED pc
  <2>1. op'[c] = "read" /\ \A d \in Clients : d # c => op'[d] = op[d]
    BY <1>5 DEF TypeOK
  <2>2. Sessionless' = {}
    BY <1>2, <1>3, <2>1 DEF Sessionless
  <2>3. OpInv' /\ ChainInv'
    BY <1>1, <1>2, <1>5, <2>1 DEF EndInv, OpInv, ChainInv, Running
  <2>4. EndsAtAccept'
    BY <1>1, <1>5, <2>2 DEF EndsAtAccept, Running
  <2>. QED BY <2>3, <2>4 DEF EndInv
<1>. QED BY <1>4, <1>5 DEF handle_accept, session_start

\* The server ends at an accept or not at all, for any number of clients: a
\* session that has begun is never let go of, by any order of data, FIN and
\* RST, although its handlers ignore every error (echo_server.cpp:25-36), and
\* no exception is thrown but for a connection being taken up (:22, :60).
THEOREM EndsOnlyAtAccept == Spec => []EndsAtAccept
<1>1. Init => EndInv
  <2> SUFFICES ASSUME Init PROVE EndInv
    OBVIOUS
  <2>. QED BY DEF Init, EndInv, OpInv, ChainInv, EndsAtAccept, Running
<1>2. TypeOK /\ EndInv /\ [Next]_vars => EndInv'
  <2> SUFFICES ASSUME TypeOK, EndInv, [Next]_vars PROVE EndInv'
    OBVIOUS
  <2>1. CASE start
    <3>1. UNCHANGED <<conn, op>> /\ \A c \in Clients : conn[c] = "new"
      BY <2>1 DEF start, EndInv, ChainInv
    <3>2. Sessionless' = {}
      BY <3>1 DEF Sessionless
    <3>3. \/ pc' = "run" /\ chain' = "armed"
          \/ pc' = "terminate" /\ chain' = "none"
      BY <2>1 DEF start, EndInv, ChainInv
    <3>. QED BY <3>1, <3>2, <3>3 DEF EndInv, OpInv, ChainInv, EndsAtAccept, Running
  <2>2. CASE handle_accept_error
    <3>1. Sessionless' = Sessionless
      BY <2>2 DEF handle_accept_error, Sessionless
    <3>. QED BY <2>2, <3>1 DEF handle_accept_error, EndInv, OpInv, ChainInv, EndsAtAccept, Running
  <2>3. CASE run_returns
    <3>1. \A c \in Clients : conn[c] # "accepted"
      BY <2>3 DEF run_returns, EndInv, EndsAtAccept, Sessionless
    <3>. QED BY <2>3, <3>1 DEF run_returns, EndInv, OpInv, ChainInv, EndsAtAccept, Running
  <2>4. ASSUME NEW c \in Clients, handle_accept(c) PROVE EndInv'
    BY <2>4, AcceptEnds
  <2>5. ASSUME NEW c \in Clients, Session(c) PROVE EndInv'
    <3>1. Running /\ UNCHANGED <<owned, pc, chain, conn>>
      BY <2>5 DEF Session, read_some, handle_read, write_some, handle_write
    <3>2. \A d \in Clients : op'[d] = "none" <=> op[d] = "none"
      BY <2>5 DEF Session, read_some, handle_read, write_some, handle_write, TypeOK
    <3>. QED BY <3>1, <3>2, EndFrame DEF Running
  <2>6. ASSUME NEW c \in Clients, Environment(c) PROVE EndInv'
    <3>1. Running /\ UNCHANGED <<owned, pc, chain, op>>
      BY <2>6 DEF Environment, Connect, Arrive, ArriveFin, ArriveRst, Deliver
    <3>2. \A d \in Clients : conn'[d] = "accepted" <=> conn[d] = "accepted"
      BY <2>6 DEF Environment, Connect, Arrive, ArriveFin, ArriveRst, Deliver, TypeOK
    <3>. QED BY <3>1, <3>2, EndFrame DEF Running
  <2>7. CASE UNCHANGED vars
    BY <2>7 DEF vars, EndInv, OpInv, ChainInv, EndsAtAccept, Sessionless, Running
  <2>. QED BY <2>1, <2>2, <2>3, <2>4, <2>5, <2>6, <2>7 DEF Next
<1>3. EndInv => EndsAtAccept
  BY DEF EndInv
<1>. QED BY <1>1, <1>2, <1>3, TypeCorrect, PTL DEF Spec

\* A client of the server gets a beginning of what it sent and nothing else:
\* the server implements EchoService, with no client ever let loose.
THEOREM ServerEchoes == Spec => ImplementsEcho
<1>1. Init => E!Init
  BY DEF Init, E!Init
<1>2. AInv /\ [Next]_vars => [E!Next]_<<sent, got, {}>>
  <2> SUFFICES ASSUME AInv, [Next]_vars,
                      ~(UNCHANGED <<sent, got>>)
               PROVE  E!Next
    OBVIOUS
  <2>1. ASSUME NEW c \in Clients, NEW n \in 1..MaxSend, Arrive(c, n) PROVE E!Next
    <3>1. sent[c] + n \in (sent[c] + 1)..MaxSend
      BY <2>1, AsioAssumption DEF Arrive, AInv, TypeOK
    <3>2. sent' = [sent EXCEPT ![c] = sent[c] + n] /\ UNCHANGED <<got, {}>>
      BY <2>1 DEF Arrive
    <3>. QED BY <3>1, <3>2 DEF E!Next, E!Send
  <2>2. ASSUME NEW c \in Clients, NEW n \in 1..SndCap, Deliver(c, n) PROVE E!Next
    <3>1. StreamInv(c) /\ StreamInv(c)' /\ TypeOK /\ TypeOK'
      BY InvStep DEF AInv
    <3>2. PICK g \in Seq(Nat) : g = got'[c]
      BY <3>1 DEF TypeOK
    <3>3. g = [i \in 1..Len(g) |-> i]
      <4>1. \A i \in 1..Len(g) : g[i] = i
        BY <3>1, <3>2 DEF StreamInv
      <4>2. g = [i \in 1..Len(g) |-> g[i]]
        BY LenProperties
      <4>. QED BY <4>1, <4>2
    <3>4. Len(g) \in Len(got[c])..sent[c]
      <4>1. PICK b \in Seq(Nat), o \in Seq(Nat) : b = got[c] /\ o = out[c]
        BY <3>1 DEF TypeOK
      <4>2. n \in 1..Len(o) /\ g = b \o SubSeq(o, 1, n)
        BY <2>2, <3>1, <3>2, <4>1 DEF Deliver, TypeOK
      <4>3. SubSeq(o, 1, n) \in Seq(Nat) /\ Len(SubSeq(o, 1, n)) = n
        BY <4>2, CutBytes
      <4>4. Len(g) = Len(b) + n
        BY <4>2, <4>3, ConcatProperties
      <4>5. PICK x \in Nat, y \in Nat, z \in Nat :
              x = Len(out'[c]) /\ y = Len(sbuf_'[c]) /\ z = rd'[c]
        BY <3>1, LenProperties DEF TypeOK
      <4>6. Len(g) + x + y <= z /\ z <= sent'[c] /\ sent' = sent
        BY <2>2, <3>1, <3>2, <4>5 DEF StreamInv, Deliver
      <4>7. PICK w \in Nat : w = sent[c]
        BY <3>1, AsioAssumption DEF TypeOK
      <4>8. Len(b) \in Nat /\ Len(g) \in Nat
        BY LenProperties
      <4>9. Len(g) + x + y <= z /\ z <= w
        BY <4>6, <4>7
      <4>10. Len(g) \in Len(b)..w
        BY <4>4, <4>8, <4>9
      <4>. QED BY <4>1, <4>7, <4>10
    <3>5. got' = [got EXCEPT ![c] = g]
      BY <2>2, <3>1, <3>2 DEF Deliver, TypeOK
    <3>6. E!Echo(c)
      BY <2>2, <3>3, <3>4, <3>5 DEF E!Echo, Deliver
    <3>. QED BY <3>6 DEF E!Next
  <2>. QED BY <2>1, <2>2 DEF Next, Session, Environment, vars, streams, start,
         handle_accept, handle_accept_error, run_returns, session_start, read_some,
         handle_read, write_some, handle_write, Connect, ArriveFin, ArriveRst
<1>. QED BY <1>1, <1>2, Invariant, PTL DEF Spec, ImplementsEcho, E!Spec
=============================================================================
