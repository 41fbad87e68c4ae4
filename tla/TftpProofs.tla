----------------------------- MODULE TftpProofs -----------------------------
(***************************************************************************)
(* Theorems about TftpTransfer, for any set of clients and files and any   *)
(* width of the block numbers: as long as no file reaches the sign bit, a  *)
(* network that loses, repeats and reorders datagrams cannot shift a       *)
(* transfer, and cannot damage it either while only one file is asked for. *)
(* About TftpNetworks: what becomes of a transfer beyond the sign bit.     *)
(* About TftpMain: the program serves one request in its life, and that to *)
(* the client it is from.                                                  *)
(***************************************************************************)
EXTENDS TftpNetworks, TftpMain, SequenceTheorems, FiniteSetTheorems, TLAPS

(* Block numbers ----------------------------------------------------------*)

\* htons gives 16 bits, whatever the number (tftp_server.c:41).
LEMMA WireType ==
  ASSUME NEW k \in Int
  PROVE  ToWire(k) \in Wire
BY TftpAssumption DEF ToWire, Wire

\* A number without the sign bit goes over the wire unchanged.
LEMMA WireSmall ==
  ASSUME NEW k \in 0..Half
  PROVE  ToWire(k) = k /\ (k < Half => ToShort(k) = k)
BY TftpAssumption DEF ToWire, ToShort

\* What fread returns (tftp_server.c:120, :144).
LEMMA FreadType ==
  ASSUME NEW f \in Files, NEW p \in Nat
  PROVE  /\ fread(f, p) \in Chunks
         /\ fread(f, p).file = f /\ fread(f, p).at = p
         /\ fread(f, p).size = "full" <=> p < Full[f]
BY DEF fread, Chunks

\* The datagrams of clients and handlers are well formed.
LEMMA RequestTypes ==
  ASSUME NEW m \in Requests
  PROVE  /\ m.from \in Clients
         /\ m.op \in {"RRQ", "ACK", "ERROR"}
         /\ m.op = "RRQ" => m.name \in Files
         /\ m.op = "ACK" => m.block \in Wire
BY DEF Requests

LEMMA DatagramTypes ==
  /\ \A c \in Clients, f \in Files : rrq(c, f) \in Requests
  /\ \A c \in Clients, b \in Wire : ack(c, b) \in Requests
  /\ \A c \in Clients : error(c) \in Requests
  /\ \A c \in Clients, k \in Int, h \in Chunks : make_data(c, k, h) \in Data
BY WireType DEF rrq, ack, error, Requests, make_data, Data

(* Types ------------------------------------------------------------------*)

\* The handlers keep their state well typed; fclose is called on an open FILE.
LEMMA HandlerTypes ==
  ASSUME TypeOK, FileInv, NEW m \in reqs, NEW again, Serve(m, again)
  PROVE  HandlersTypeOK' /\ FileInv'
<1>1. m \in Requests
  BY DEF TypeOK
<1>2. m.from \in Clients /\ (m.op = "RRQ" => m.name \in Files) /\ (m.op = "ACK" => m.block \in Wire)
  BY <1>1, RequestTypes
<1>3. ASSUME NEW c \in Clients, NEW f \in Files, handle_RRQ(c, f) PROVE HandlersTypeOK' /\ FileInv'
  <2>1. CASE ~CanOpen(f)
    BY <1>3, <2>1 DEF handle_RRQ, TypeOK, HandlersTypeOK, FileInv
  <2>2. CASE CanOpen(f)
    <3>1. make_data(c, 1, fread(f, 0)) \in Data
      <4>1. fread(f, 0) \in Chunks
        BY FreadType
      <4>. QED BY <4>1, DatagramTypes
    <3>. QED BY <1>3, <2>2, <3>1 DEF handle_RRQ, CanOpen, TypeOK, HandlersTypeOK, FileInv
  <2>. QED BY <2>1, <2>2
<1>4. ASSUME NEW c \in Clients, NEW b \in Wire, handle_ACK(c, b) PROVE HandlersTypeOK' /\ FileInv'
  <2>1. CASE file = NoFile
    BY <1>4, <2>1 DEF handle_ACK, handlerVars, TypeOK, HandlersTypeOK, FileInv
  <2>2. CASE file # NoFile
    <3> DEFINE block == ToShort(b)
               at == IF block >= 0 THEN block ELSE pos
               chunk == fread(file, at)
    <3>1. block \in Int /\ at \in Nat /\ file \in Files
      BY <2>2, TftpAssumption DEF ToShort, Wire, TypeOK, HandlersTypeOK
    <3>2. make_data(c, block + 1, chunk) \in Data
      BY <3>1, FreadType, DatagramTypes
    <3>3. net' = net \cup {make_data(c, block + 1, chunk)} /\ nsock' = nsock /\ alive' = alive
      BY <1>4, <2>2 DEF handle_ACK
    <3>4. \/ pos' = at + 1 /\ file' = file /\ nfile' = nfile
          \/ pos' = at /\ file' = NoFile /\ nfile' = nfile - 1
      BY <1>4, <2>2 DEF handle_ACK
    <3>. HIDE DEF block, at, chunk
    <3>. QED BY <2>2, <3>1, <3>2, <3>3, <3>4 DEF TypeOK, HandlersTypeOK, FileInv
  <2>. QED BY <2>1, <2>2
<1>5. ASSUME UNCHANGED handlerVars PROVE HandlersTypeOK' /\ FileInv'
  BY <1>5 DEF handlerVars, TypeOK, HandlersTypeOK, FileInv
<1>. QED BY <1>2, <1>3, <1>4, <1>5 DEF Serve, handle_new_connection, handle_req, handle_WRQ

\* So do the steps of the server and of a client, whether or not a datagram
\* stays on its way.
LEMMA ServeTypes ==
  ASSUME TypeOK, FileInv, NEW m \in reqs, NEW again, Serve(m, again)
  PROVE  TypeOK' /\ FileInv'
<1>1. HandlersTypeOK' /\ FileInv'
  BY HandlerTypes
<1>2. reqs' \subseteq reqs /\ UNCHANGED clientVars
  BY DEF Serve, Left
<1>. QED BY <1>1, <1>2 DEF clientVars, TypeOK

LEMMA ReceiveTypes ==
  ASSUME TypeOK, FileInv, NEW m \in net, NEW again, Receive(m, again)
  PROVE  TypeOK' /\ FileInv'
<1>1. m \in Data /\ m.to \in Clients /\ m.block \in Wire /\ m.chunk \in Chunks
  BY DEF TypeOK, HandlersTypeOK, Data
<1>2. ack(m.to, m.block) \in Requests /\ error(m.to) \in Requests
  BY <1>1, DatagramTypes
<1>3. reqs' \subseteq Requests
  BY <1>2 DEF Receive, TypeOK
<1>4. recv' \in [Clients -> Seq(Chunks)] /\ done' \subseteq Clients
  <2>1. Append(recv[m.to], m.chunk) \in Seq(Chunks)
    BY <1>1, AppendProperties DEF TypeOK
  <2>. QED BY <1>1, <2>1 DEF Receive, TypeOK
<1>5. net' \subseteq net /\ UNCHANGED <<file, pos, nfile, nsock, alive, want>>
  BY DEF Receive, Left
<1>. QED BY <1>3, <1>4, <1>5 DEF TypeOK, HandlersTypeOK, FileInv

LEMMA TimeoutTypes ==
  ASSUME TypeOK, FileInv, NEW c \in Clients, Timeout(c)
  PROVE  TypeOK' /\ FileInv'
<1>1. Len(recv[c]) \in Int /\ want[c] \in Files
  BY DEF Timeout, TypeOK
<1>2. rrq(c, want[c]) \in Requests /\ ack(c, ToWire(Len(recv[c]))) \in Requests
  BY <1>1, WireType, DatagramTypes
<1>. QED BY <1>2 DEF Timeout, TypeOK, HandlersTypeOK, FileInv, handlerVars, clientVars

LEMMA AskTypes ==
  ASSUME TypeOK, FileInv, NEW c \in Clients, NEW f \in Files, Request(c, f)
  PROVE  TypeOK' /\ FileInv'
<1>1. rrq(c, f) \in Requests
  BY DatagramTypes
<1>. QED BY <1>1 DEF Request, TypeOK, HandlersTypeOK, FileInv, handlerVars

\* No step of the server or of a client leaves the types.
LEMMA TypeStep == TypeOK /\ FileInv /\ [Next]_vars => TypeOK' /\ FileInv'
<1> SUFFICES ASSUME TypeOK, FileInv, [Next]_vars PROVE TypeOK' /\ FileInv'
  OBVIOUS
<1>1. ASSUME NEW m \in reqs, Serve(m, TRUE) PROVE TypeOK' /\ FileInv'
  BY <1>1, ServeTypes
<1>2. ASSUME NEW m \in net, Receive(m, TRUE) PROVE TypeOK' /\ FileInv'
  BY <1>2, ReceiveTypes
<1>3. ASSUME NEW c \in Clients, Timeout(c) PROVE TypeOK' /\ FileInv'
  BY <1>3, TimeoutTypes
<1>4. ASSUME NEW c \in Clients, NEW f \in Files, Request(c, f) PROVE TypeOK' /\ FileInv'
  BY <1>4, AskTypes
<1>5. CASE UNCHANGED vars
  BY <1>5 DEF vars, handlerVars, clientVars, TypeOK, HandlersTypeOK, FileInv
<1>. QED BY <1>1, <1>2, <1>3, <1>4, <1>5 DEF Next

\* Nor does a step on either of the networks of TftpNetworks.
LEMMA NetTypeStep == TypeOK /\ FileInv /\ [NetNext]_netVars => TypeOK' /\ FileInv'
<1> SUFFICES ASSUME TypeOK, FileInv, [NetNext]_netVars PROVE TypeOK' /\ FileInv'
  OBVIOUS
<1>1. ASSUME NEW m \in reqs, NEW again, Serve(m, again) PROVE TypeOK' /\ FileInv'
  BY <1>1, ServeTypes
<1>2. ASSUME NEW m \in net, NEW again, Receive(m, again) PROVE TypeOK' /\ FileInv'
  BY <1>2, ReceiveTypes
<1>3. ASSUME NEW c \in Clients, Retry(c) PROVE TypeOK' /\ FileInv'
  BY <1>3, TimeoutTypes DEF Retry
<1>4. ASSUME NEW c \in Clients, NEW f \in Files, Request(c, f) PROVE TypeOK' /\ FileInv'
  BY <1>4, AskTypes
<1>5. ASSUME Lose PROVE TypeOK' /\ FileInv'
  <2>1. /\ net' \subseteq net /\ reqs' \subseteq reqs
        /\ UNCHANGED <<file, pos, nfile, nsock, alive, want, recv, done>>
    BY <1>5 DEF Lose, handlerVars, clientVars
  <2>. QED BY <2>1 DEF TypeOK, HandlersTypeOK, FileInv
<1>6. CASE UNCHANGED netVars
  BY <1>6 DEF netVars, vars, handlerVars, clientVars, TypeOK, HandlersTypeOK, FileInv
<1>. QED BY <1>1, <1>2, <1>3, <1>4, <1>5, <1>6 DEF NetNext

\* The program's and the clients' variables keep their types.
THEOREM TypeCorrect == Spec => []TypeOK
<1>1. Init => TypeOK /\ FileInv
  BY DEF Init, HandlersInit, TypeOK, HandlersTypeOK, FileInv
<1>. QED BY <1>1, TypeStep, PTL DEF Spec

(* The invariant ----------------------------------------------------------*)

\* What a client has got is far from the sign bit.
LEMMA RecvBound ==
  ASSUME TypeOK, Small, NEW c \in Clients, RecvInv(c)
  PROVE  /\ Len(recv[c]) \in Nat
         /\ c \notin done => Len(recv[c]) <= Half - 2
         /\ Len(recv[c]) <= Half - 1
<1> DEFINE n == Len(recv[c])
<1>1. recv[c] \in Seq(Chunks) /\ n \in Nat /\ (recv[c] = <<>> <=> n = 0)
  BY EmptySeq DEF TypeOK
<1>2. ASSUME NEW i \in 1..n, recv[c][i].size = "full" PROVE i <= Half - 2
  <2>1. recv[c][i].file \in Files /\ i - 1 \in Nat
    <3>1. recv[c][i] \in Chunks
      BY <1>1, ElementOfSeq
    <3>. QED BY <1>1, <3>1 DEF Chunks
  <2>2. recv[c][i] = fread(recv[c][i].file, i - 1)
    BY DEF RecvInv
  <2>3. i - 1 < Full[recv[c][i].file]
    BY <1>2, <2>1, <2>2, FreadType
  <2>4. Full[recv[c][i].file] \in Int /\ Full[recv[c][i].file] + 2 <= Half
    BY <2>1, TftpAssumption DEF Small
  <2>. QED BY <1>1, <2>3, <2>4, TftpAssumption
<1>. HIDE DEF n
<1>3. n > 0 /\ c \notin done => n <= Half - 2
  <2>. SUFFICES ASSUME n > 0, c \notin done PROVE n <= Half - 2
    OBVIOUS
  <2>1. recv[c][n].size = "full"
    BY <1>1 DEF RecvInv, n
  <2>. QED BY <1>1, <1>2, <2>1
<1>4. n > 1 => n - 1 <= Half - 2
  <2>. SUFFICES ASSUME n > 1 PROVE n - 1 <= Half - 2
    OBVIOUS
  <2>1. n - 1 \in 1..n /\ recv[c][n - 1].size = "full"
    BY <1>1 DEF RecvInv, n
  <2>. QED BY <1>2, <2>1
<1>. QED BY <1>1, <1>3, <1>4, TftpAssumption DEF n

\* The handlers answer with the block the request names.
LEMMA ServeInv ==
  ASSUME TInv, Small, NEW m \in reqs, Serve(m, TRUE)
  PROVE  DataInv'
<1>1. /\ m \in Requests /\ m.from \in Clients /\ want[m.from] # NoFile
      /\ (m.op = "RRQ" => m.name \in Files) /\ (m.op = "ACK" => m.block \in 1..(Half - 1))
  BY RequestTypes DEF TInv, TypeOK, ReqInv
<1>2. DataInv /\ want' = want
  BY DEF TInv, Serve, clientVars
<1>3. ASSUME NEW k \in 1..Half, NEW f \in Files, Full[f] >= 0,
             net' = net \cup {make_data(m.from, k, fread(f, k - 1))}
      PROVE  DataInv'
  <2> DEFINE d == make_data(m.from, k, fread(f, k - 1))
  <2>1. ToWire(k) = k
    BY WireSmall, TftpAssumption
  <2>2. d.to = m.from /\ d.block = k /\ d.chunk = fread(f, k - 1)
    BY <2>1 DEF make_data
  <2>3. d.chunk.file = f
    BY <2>2 DEF fread
  <2>. HIDE DEF d
  <2>. QED BY <1>1, <1>2, <1>3, <2>2, <2>3 DEF DataInv, d
<1>4. ASSUME NEW f \in Files, handle_RRQ(m.from, f) PROVE DataInv'
  <2>1. CASE net' = net
    BY <1>2, <2>1 DEF DataInv
  <2>2. CASE net' # net
    <3>1. net' = net \cup {make_data(m.from, 1, fread(f, 0))} /\ Full[f] >= 0
      BY <1>4, <2>2 DEF handle_RRQ, CanOpen
    <3>2. 1 \in 1..Half /\ 1 - 1 = 0
      BY TftpAssumption
    <3>. QED BY <1>3, <3>1, <3>2
  <2>. QED BY <2>1, <2>2
<1>5. ASSUME NEW b \in 1..(Half - 1), handle_ACK(m.from, b) PROVE DataInv'
  <2>1. CASE file = NoFile
    BY <1>2, <1>5, <2>1 DEF handle_ACK, handlerVars, DataInv
  <2>2. CASE file # NoFile
    <3>1. file \in Files /\ Full[file] >= 0
      BY <2>2 DEF TInv, TypeOK, HandlersTypeOK, FileInv
    <3>2. ToShort(b) = b /\ b >= 0 /\ b + 1 \in 1..Half /\ b + 1 - 1 = b
      BY WireSmall, TftpAssumption
    <3>3. net' = net \cup {make_data(m.from, b + 1, fread(file, b))}
      BY <1>5, <2>2, <3>2 DEF handle_ACK
    <3>. QED BY <1>3, <3>1, <3>2, <3>3
  <2>. QED BY <2>1, <2>2
<1>6. ASSUME UNCHANGED handlerVars PROVE DataInv'
  BY <1>2, <1>6 DEF handlerVars, DataInv
<1>. QED BY <1>1, <1>4, <1>5, <1>6 DEF Serve, handle_new_connection, handle_req, handle_WRQ

\* A client takes the next block and acknowledges what it has.
LEMMA ReceiveInv ==
  ASSUME TInv, Small, NEW m \in net, Receive(m, TRUE)
  PROVE  ReqInv' /\ \A c \in Clients : RecvInv(c)'
<1> DEFINE c == m.to
           n == Len(recv[c])
<1>1. /\ m \in Data /\ c \in Clients /\ m.chunk \in Chunks /\ want[c] # NoFile
      /\ m.block \in 1..Half /\ m.chunk = fread(m.chunk.file, m.block - 1)
      /\ Full[m.chunk.file] >= 0
      /\ RecvInv(c) /\ TypeOK /\ ReqInv /\ want' = want
  BY DEF TInv, TypeOK, HandlersTypeOK, Data, DataInv, Receive
<1>2. n \in Nat /\ (c \notin done => n <= Half - 2) /\ n <= Half - 1
  BY <1>1, RecvBound
<1>3. ToWire(n) = n /\ ToWire(n + 1) = n + 1
  BY <1>2, WireSmall, TftpAssumption
<1>4. /\ ack(c, m.block).from = c /\ ack(c, m.block).block = m.block
      /\ error(c).from = c /\ error(c).op = "ERROR"
  BY DEF ack, error
<1>5. ASSUME reqs' \subseteq reqs \cup {ack(c, m.block), error(c)},
             ack(c, m.block) \in reqs' => m.block <= Half - 1 \/ ack(c, m.block) \in reqs
      PROVE  ReqInv'
  BY <1>1, <1>4, <1>5, TftpAssumption DEF ReqInv
<1>6. ASSUME recv' = recv, done' = done PROVE \A d \in Clients : RecvInv(d)'
  BY <1>1, <1>6 DEF TInv, RecvInv
<1>7. CASE /\ c \notin done /\ m.block = ToWire(n + 1)
           /\ recv' = [recv EXCEPT ![c] = Append(@, m.chunk)]
           /\ done' = IF m.chunk.size = "full" THEN done ELSE done \cup {c}
           /\ reqs' = reqs \cup {ack(c, m.block)}
  <2>1. m.block = n + 1 /\ m.block <= Half - 1
    BY <1>2, <1>3, <1>7, TftpAssumption
  <2>2. ReqInv'
    BY <1>5, <1>7, <2>1
  <2>3. ASSUME NEW d \in Clients, d # c PROVE RecvInv(d)'
    <3>1. recv'[d] = recv[d] /\ (d \in done' <=> d \in done)
      BY <1>1, <1>7, <2>3 DEF TypeOK
    <3>. QED BY <1>1, <3>1 DEF TInv, RecvInv
  <2>4. RecvInv(c)'
    <3> DEFINE r == recv'[c]
    <3>1. r = Append(recv[c], m.chunk) /\ recv[c] \in Seq(Chunks)
      BY <1>1, <1>7 DEF TypeOK
    <3>2. /\ r # <<>> /\ Len(r) = n + 1
          /\ \A i \in 1..n : r[i] = recv[c][i]
          /\ r[n + 1] = m.chunk
      BY <1>1, <3>1, AppendProperties
    <3>3. recv[c] = <<>> <=> n = 0
      BY <3>1, EmptySeq
    <3>. HIDE DEF r, n
    <3>4. ASSUME NEW i \in 1..(n + 1)
          PROVE  r[i] = fread(r[i].file, i - 1) /\ Full[r[i].file] >= 0
      <4>1. CASE i = n + 1
        BY <1>1, <2>1, <3>2, <4>1
      <4>2. CASE i # n + 1
        <5>1. i \in 1..n
          BY <1>2, <4>2
        <5>. QED BY <1>1, <3>2, <5>1 DEF RecvInv, n
      <4>. QED BY <4>1, <4>2
    <3>5. ASSUME NEW i \in 1..n PROVE r[i].size = "full"
      <4>1. recv[c][i].size = "full"
        <5>1. CASE i = n
          BY <1>1, <1>2, <1>7, <3>3, <5>1 DEF RecvInv, n
        <5>2. CASE i # n
          <6>1. i \in 1..(n - 1)
            BY <1>2, <5>2
          <6>. QED BY <1>1, <6>1 DEF RecvInv, n
        <5>. QED BY <5>1, <5>2
      <4>. QED BY <3>2, <4>1
    <3>6. r[n + 1].size = "full" <=> c \notin done'
      BY <1>7, <3>2
    <3>7. Len(r) - 1 = n
      BY <1>2, <3>2
    <3>8. \A i \in 1..Len(r) : r[i] = fread(r[i].file, i - 1) /\ Full[r[i].file] >= 0
      BY <3>2, <3>4
    <3>9. \A i \in 1..(Len(r) - 1) : r[i].size = "full"
      BY <3>5, <3>7
    <3>10. r[Len(r)].size = "full" <=> c \notin done'
      BY <3>2, <3>6
    <3>11. want'[c] # NoFile
      BY <1>1
    <3>. QED BY <3>2, <3>8, <3>9, <3>10, <3>11 DEF RecvInv, r
  <2>. QED BY <2>2, <2>3, <2>4
<1>8. CASE n > 0 /\ m.block = ToWire(n) /\ reqs' = reqs \cup {ack(c, m.block)} /\ UNCHANGED <<recv, done>>
  <2>1. m.block <= Half - 1
    BY <1>2, <1>3, <1>8
  <2>. QED BY <1>5, <1>6, <1>8, <2>1
<1>9. CASE reqs' \in {reqs, reqs \cup {error(c)}} /\ UNCHANGED <<recv, done>>
  <2>1. ack(c, m.block) # error(c)
    BY DEF ack, error
  <2>. QED BY <1>5, <1>6, <1>9, <2>1
<1>. QED BY <1>7, <1>8, <1>9 DEF Receive

\* Each step of the server and of the clients keeps the invariant.
LEMMA InvStep == TInv /\ [Next]_vars => TInv'
<1> SUFFICES ASSUME TInv, [Next]_vars PROVE TInv'
  OBVIOUS
<1>1. TypeOK /\ TypeOK' /\ FileInv'
  BY TypeStep DEF TInv
<1>2. SUFFICES ASSUME Small PROVE DataInv' /\ ReqInv' /\ \A c \in Clients : RecvInv(c)'
  BY <1>1 DEF TInv, Small
<1>3. DataInv /\ ReqInv /\ \A c \in Clients : RecvInv(c)
  BY <1>2 DEF TInv
<1>4. ASSUME NEW m \in reqs, Serve(m, TRUE)
      PROVE  DataInv' /\ ReqInv' /\ \A c \in Clients : RecvInv(c)'
  <2>1. DataInv'
    BY <1>2, <1>4, ServeInv
  <2>. QED BY <1>3, <1>4, <2>1 DEF Serve, Left, clientVars, ReqInv, RecvInv
<1>5. ASSUME NEW m \in net, Receive(m, TRUE)
      PROVE  DataInv' /\ ReqInv' /\ \A c \in Clients : RecvInv(c)'
  <2>1. ReqInv' /\ \A c \in Clients : RecvInv(c)'
    BY <1>2, <1>5, ReceiveInv
  <2>. QED BY <1>3, <1>5, <2>1 DEF Receive, Left, DataInv
<1>6. ASSUME NEW c \in Clients, Timeout(c)
      PROVE  DataInv' /\ ReqInv' /\ \A d \in Clients : RecvInv(d)'
  <2> DEFINE n == Len(recv[c])
  <2>1. n \in Nat /\ n <= Half - 1
    BY <1>1, <1>2, <1>3, RecvBound
  <2>2. ToWire(n) = n
    BY <2>1, WireSmall, TftpAssumption
  <2>3. /\ rrq(c, want[c]).from = c /\ rrq(c, want[c]).op = "RRQ"
        /\ ack(c, n).from = c /\ ack(c, n).block = n
    BY DEF rrq, ack
  <2>4. want[c] # NoFile /\ reqs' = reqs \cup {IF n = 0 THEN rrq(c, want[c]) ELSE ack(c, n)}
    BY <1>6, <2>2 DEF Timeout
  <2>. HIDE DEF n
  <2>5. ReqInv'
    <3>1. want' = want
      BY <1>6 DEF Timeout, clientVars
    <3>. QED BY <1>3, <2>1, <2>3, <2>4, <3>1, TftpAssumption DEF ReqInv
  <2>. QED BY <1>3, <1>6, <2>5 DEF Timeout, handlerVars, clientVars, DataInv, RecvInv
<1>7. ASSUME NEW c \in Clients, NEW f \in Files, Request(c, f)
      PROVE  DataInv' /\ ReqInv' /\ \A d \in Clients : RecvInv(d)'
  <2>1. f # NoFile /\ \A d \in Clients : want[d] # NoFile => want'[d] # NoFile
    BY <1>1, <1>7, TftpAssumption DEF Request, TypeOK
  <2>2. want'[c] # NoFile
    BY <1>1, <1>7, <2>1 DEF Request, TypeOK
  <2>3. rrq(c, f).from = c /\ rrq(c, f).op = "RRQ"
    BY DEF rrq
  <2>4. /\ \A m \in reqs : m.from \in Clients
        /\ \A m \in net : m.to \in Clients
    BY <1>1, RequestTypes DEF TypeOK, HandlersTypeOK, Data
  <2>5. ReqInv'
    BY <1>3, <1>7, <2>1, <2>2, <2>3, <2>4 DEF Request, ReqInv
  <2>6. DataInv'
    BY <1>3, <1>7, <2>1, <2>4 DEF Request, handlerVars, DataInv
  <2>7. \A d \in Clients : RecvInv(d)'
    BY <1>3, <1>7, <2>1 DEF Request, RecvInv
  <2>. QED BY <2>5, <2>6, <2>7
<1>8. CASE UNCHANGED vars
  BY <1>3, <1>8 DEF vars, handlerVars, clientVars, DataInv, ReqInv, RecvInv
<1>. QED BY <1>4, <1>5, <1>6, <1>7, <1>8 DEF Next

\* The inductive invariant holds in every reachable state.
THEOREM Invariant == Spec => []TInv
<1>1. Init => TInv
  BY DEF Init, HandlersInit, TypeOK, HandlersTypeOK, FileInv, TInv, DataInv, ReqInv, RecvInv
<1>. QED BY <1>1, InvStep, PTL DEF Spec

\* Lost, repeated and reordered datagrams do not shift a transfer, for files
\* that stay clear of the sign bit of the block number (tftp_server.c:139-152).
THEOREM OffsetsAreRight == Spec => []OffsetRight
<1>1. TInv => OffsetRight
  <2> SUFFICES ASSUME TInv, Small, NEW c \in Clients, NEW i \in 1..Len(recv[c])
               PROVE  recv[c][i].at = i - 1
    BY DEF OffsetRight
  <2>1. recv[c][i] = fread(recv[c][i].file, i - 1)
    BY DEF TInv, RecvInv
  <2>. QED BY <2>1 DEF fread
<1>. QED BY <1>1, Invariant, PTL

\* The server opens and sends what requests name, and reads what is open.
LEMMA ServeAsked ==
  ASSUME TypeOK, AskedInv, NEW m \in reqs, Serve(m, TRUE)
  PROVE  (file' # NoFile => Asked(file')) /\ \A d \in net' : Asked(d.chunk.file)
<1>1. /\ m.from \in Clients /\ (m.op = "RRQ" => m.name \in Files)
      /\ (m.op = "RRQ" => Asked(m.name)) /\ (m.op = "ACK" => m.block \in Wire)
  BY RequestTypes DEF TypeOK, AskedInv
<1>2. (file # NoFile => Asked(file)) /\ \A d \in net : Asked(d.chunk.file)
  BY DEF AskedInv
<1>3. ASSUME NEW k, NEW f, NEW p, Asked(f),
             net' \subseteq net \cup {make_data(m.from, k, fread(f, p))}
      PROVE  \A d \in net' : Asked(d.chunk.file)
  <2>1. make_data(m.from, k, fread(f, p)).chunk.file = f
    BY DEF make_data, fread
  <2>. QED BY <1>2, <1>3, <2>1
<1>4. CASE m.op = "RRQ" /\ handle_RRQ(m.from, m.name)
  <2>1. /\ file' \in {NoFile, m.name}
        /\ net' \subseteq net \cup {make_data(m.from, 1, fread(m.name, 0))}
    BY <1>4 DEF handle_RRQ
  <2>. QED BY <1>1, <1>3, <1>4, <2>1
<1>5. CASE m.op = "ACK" /\ handle_ACK(m.from, m.block)
  <2>1. CASE file = NoFile
    BY <1>2, <1>5, <2>1 DEF handle_ACK, handlerVars
  <2>2. CASE file # NoFile
    <3>1. PICK k, p : net' = net \cup {make_data(m.from, k, fread(file, p))}
      BY <1>5, <2>2 DEF handle_ACK
    <3>2. file' \in {NoFile, file}
      BY <1>5, <2>2 DEF handle_ACK
    <3>. QED BY <1>2, <1>3, <2>2, <3>1, <3>2
  <2>. QED BY <2>1, <2>2
<1>6. CASE UNCHANGED handlerVars
  BY <1>2, <1>6 DEF handlerVars
<1>. QED BY <1>4, <1>5, <1>6 DEF Serve, handle_new_connection, handle_req, handle_WRQ

\* What was asked for stays asked for, and nothing else comes into play.
LEMMA AskedStep == TypeOK /\ AskedInv /\ [Next]_vars => AskedInv'
<1> SUFFICES ASSUME TypeOK, AskedInv, [Next]_vars PROVE AskedInv'
  OBVIOUS
<1>1. ASSUME NEW m \in reqs, Serve(m, TRUE) PROVE AskedInv'
  <2>1. (file' # NoFile => Asked(file')) /\ \A d \in net' : Asked(d.chunk.file)
    BY <1>1, ServeAsked
  <2>2. want' = want /\ recv' = recv /\ reqs' = reqs
    BY <1>1 DEF Serve, Left, clientVars
  <2>. QED BY <2>1, <2>2 DEF AskedInv, Asked
<1>2. ASSUME NEW m \in net, Receive(m, TRUE) PROVE AskedInv'
  <2>1. want' = want /\ file' = file /\ net' = net /\ Asked(m.chunk.file)
    BY <1>2 DEF Receive, Left, AskedInv
  <2>2. m.to \in Clients /\ m.chunk \in Chunks
    BY DEF TypeOK, HandlersTypeOK, Data
  <2>3. \A r \in reqs' : r.op = "RRQ" => r \in reqs
    BY <1>2 DEF Receive, ack, error
  <2>4. ASSUME NEW c \in Clients, NEW i \in 1..Len(recv'[c]) PROVE Asked(recv'[c][i].file)
    <3>1. CASE recv'[c] = recv[c]
      BY <2>4, <3>1 DEF AskedInv
    <3>2. CASE recv'[c] # recv[c]
      <4>1. recv'[c] = Append(recv[c], m.chunk) /\ recv[c] \in Seq(Chunks)
        BY <1>2, <3>2 DEF Receive, TypeOK
      <4>2. /\ Len(recv'[c]) = Len(recv[c]) + 1 /\ Len(recv[c]) \in Nat
            /\ \A j \in 1..Len(recv[c]) : recv'[c][j] = recv[c][j]
            /\ recv'[c][Len(recv[c]) + 1] = m.chunk
        BY <2>2, <4>1, AppendProperties
      <4>3. i \in 1..Len(recv[c]) \/ i = Len(recv[c]) + 1
        BY <2>4, <4>2
      <4>. QED BY <2>1, <4>2, <4>3 DEF AskedInv
    <3>. QED BY <3>1, <3>2
  <2>. QED BY <2>1, <2>3, <2>4 DEF AskedInv, Asked
<1>3. ASSUME NEW c \in Clients, Timeout(c) PROVE AskedInv'
  <2>1. \A m \in reqs' : m.op = "RRQ" => m \in reqs \/ m.name = want[c]
    BY <1>3 DEF Timeout, rrq, ack
  <2>2. UNCHANGED <<want, file, net, recv>>
    BY <1>3 DEF Timeout, handlerVars, clientVars
  <2>. QED BY <2>1, <2>2 DEF AskedInv, Asked
<1>4. ASSUME NEW c \in Clients, NEW f \in Files, Request(c, f) PROVE AskedInv'
  <2>1. want[c] = NoFile /\ want' = [want EXCEPT ![c] = f] /\ want'[c] = f
    BY <1>4 DEF Request, TypeOK
  <2>2. ASSUME NEW g \in Files, Asked(g) PROVE Asked(g)'
    BY <2>1, <2>2, TftpAssumption DEF Asked, TypeOK
  <2>3. \A m \in reqs' : m.op = "RRQ" => m \in reqs \/ m.name = f
    BY <1>4 DEF Request, rrq
  <2>4. UNCHANGED <<file, net, recv>>
    BY <1>4 DEF Request, handlerVars
  <2>5. /\ file # NoFile => file \in Files
        /\ \A m \in net : m.chunk.file \in Files
        /\ \A m \in reqs : m.op = "RRQ" => m.name \in Files
    BY RequestTypes DEF TypeOK, HandlersTypeOK, Data, Chunks
  <2>6. \A d \in Clients : \A i \in 1..Len(recv[d]) : recv[d][i].file \in Files
    <3>1. \A d \in Clients : \A i \in 1..Len(recv[d]) : recv[d][i] \in Chunks
      BY ElementOfSeq DEF TypeOK
    <3>. QED BY <3>1 DEF Chunks
  <2>7. Asked(f)'
    BY <2>1 DEF Asked
  <2>8. \A m \in reqs' : m.op = "RRQ" => \E d \in Clients : want'[d] = m.name
    BY <2>2, <2>3, <2>5, <2>7 DEF AskedInv, Asked
  <2>9. \A d \in Clients : \A i \in 1..Len(recv[d]) : \E e \in Clients : want'[e] = recv[d][i].file
    BY <2>2, <2>6 DEF AskedInv, Asked
  <2>10. file' # NoFile => \E e \in Clients : want'[e] = file'
    BY <2>2, <2>4, <2>5 DEF AskedInv, Asked
  <2>11. \A m \in net : \E e \in Clients : want'[e] = m.chunk.file
    BY <2>2, <2>5 DEF AskedInv, Asked
  <2>. QED BY <2>4, <2>8, <2>9, <2>10, <2>11 DEF AskedInv, Asked
<1>5. CASE UNCHANGED vars
  BY <1>5 DEF vars, handlerVars, clientVars, AskedInv, Asked
<1>. QED BY <1>1, <1>2, <1>3, <1>4, <1>5 DEF Next

\* While one file is asked for the clients get exactly that file, in order, and
\* are done exactly at its end (tftp_server.c:120-125, :139-154).
THEOREM ContentIsRight == Spec => []ContentRight
<1>1. TInv /\ AskedInv => ContentRight
  <2> SUFFICES ASSUME TInv, AskedInv, Small, OneAsked, NEW c \in Clients
               PROVE  /\ \A i \in 1..Len(recv[c]) : recv[c][i] = fread(want[c], i - 1)
                      /\ c \in done => Len(recv[c]) = Full[want[c]] + 1
    BY DEF ContentRight
  <2> DEFINE n == Len(recv[c])
  <2>1. RecvInv(c) /\ recv[c] \in Seq(Chunks) /\ n \in Nat /\ want[c] \in Files \cup {NoFile}
    BY DEF TInv, TypeOK
  <2>2. ASSUME NEW i \in 1..n
        PROVE  recv[c][i] = fread(want[c], i - 1) /\ i - 1 \in Nat /\ want[c] \in Files
    <3>1. recv[c][i] \in Chunks /\ recv[c] # <<>>
      BY <2>1, ElementOfSeq, EmptySeq
    <3>2. recv[c][i].file \in Files /\ want[c] \in Files
      BY <2>1, <3>1 DEF Chunks, RecvInv
    <3>3. recv[c][i].file = want[c]
      <4>1. PICK d \in Clients : want[d] = recv[c][i].file
        BY DEF AskedInv, Asked
      <4>. QED BY <3>2, <4>1, TftpAssumption DEF OneAsked
    <3>. QED BY <2>1, <3>2, <3>3 DEF RecvInv
  <2>3. ASSUME c \in done PROVE n = Full[want[c]] + 1
    <3>1. n > 0 /\ recv[c][n].size # "full"
      BY <2>1, <2>3, EmptySeq DEF RecvInv
    <3>2. Full[want[c]] \in Int /\ want[c] \in Files
      BY <2>1, <2>2, <3>1, TftpAssumption
    <3>. HIDE DEF n
    <3>3. n - 1 >= Full[want[c]]
      <4>1. n \in 1..n /\ n - 1 \in Nat
        BY <2>1, <3>1
      <4>2. ~(n - 1 < Full[want[c]])
        BY <2>2, <3>1, <3>2, <4>1, FreadType
      <4>. QED BY <3>2, <4>1, <4>2
    <3>4. n > 1 => n - 2 < Full[want[c]]
      <4>. SUFFICES ASSUME n > 1 PROVE n - 2 < Full[want[c]]
        OBVIOUS
      <4>1. n - 1 \in 1..n /\ n - 1 \in 1..(n - 1) /\ n - 2 \in Nat /\ n - 1 - 1 = n - 2
        BY <2>1
      <4>2. recv[c][n - 1].size = "full" /\ recv[c][n - 1] = fread(want[c], n - 2)
        BY <2>1, <2>2, <4>1 DEF RecvInv, n
      <4>. QED BY <3>2, <4>1, <4>2, FreadType
    <3>5. Full[want[c]] >= 0
      <4>1. n \in 1..n
        BY <2>1, <3>1
      <4>2. Full[recv[c][n].file] >= 0
        BY <2>1, <4>1 DEF RecvInv, n
      <4>3. recv[c][n] = fread(want[c], n - 1)
        BY <2>2, <4>1
      <4>4. fread(want[c], n - 1).file = want[c]
        BY DEF fread
      <4>. QED BY <4>2, <4>3, <4>4
    <3>. QED BY <2>1, <3>1, <3>2, <3>3, <3>4, <3>5
  <2>. QED BY <2>2, <2>3
<1>2. Init => AskedInv
  BY DEF Init, HandlersInit, AskedInv
<1>3. TInv => TypeOK
  BY DEF TInv
<1>. QED BY <1>1, <1>2, <1>3, AskedStep, Invariant, PTL DEF Spec

(* Descriptors ------------------------------------------------------------*)

\* handle_RRQ opens within the limit, and what the global pointer lets go of
\* stays open (tftp_server.c:108-118).
LEMMA RRQLeaks ==
  ASSUME TypeOK, FileInv, FdsInv, NEW c \in Clients, NEW f \in Files, handle_RRQ(c, f)
  PROVE  /\ FdsInv' /\ Leaked' >= Leaked
         /\ Leaked = MaxFds => file' = NoFile /\ net' = net
<1>1. nfile \in Nat /\ nsock \in Nat /\ MaxFds \in Nat /\ f # NoFile
  BY TftpAssumption DEF TypeOK, HandlersTypeOK
<1>2. CASE ~CanOpen(f) /\ file' = NoFile /\ UNCHANGED <<pos, nfile, nsock, net, alive>>
  BY <1>1, <1>2 DEF FdsInv, Leaked
<1>3. CASE CanOpen(f) /\ file' = f /\ nfile' = nfile + 1
  <2>1. nfile + nsock < MaxFds
    BY <1>3 DEF CanOpen
  <2>2. \/ nfile + 1 + nsock < MaxFds /\ nsock' = nsock + 1
        \/ nsock' = nsock
    BY <1>1, <1>3 DEF handle_RRQ
  <2>3. Leaked # MaxFds
    BY <1>1, <2>1 DEF Leaked
  <2>. QED BY <1>1, <1>3, <2>1, <2>2, <2>3 DEF FdsInv, Leaked
<1>. QED BY <1>2, <1>3 DEF handle_RRQ

\* handle_ACK gives back at most the FILE the pointer stands for.
LEMMA ACKLeaks ==
  ASSUME TypeOK, FileInv, FdsInv, NEW c \in Clients, NEW b \in Wire, handle_ACK(c, b)
  PROVE  /\ FdsInv' /\ Leaked' >= Leaked
         /\ Leaked = MaxFds => file' = NoFile /\ net' = net
<1>1. nfile \in Nat /\ nsock \in Nat /\ MaxFds \in Nat
  BY TftpAssumption DEF TypeOK, HandlersTypeOK
<1>2. CASE file = NoFile
  BY <1>1, <1>2 DEF handle_ACK, handlerVars, FdsInv, Leaked
<1>3. CASE file # NoFile
  <2>1. \/ file' = file /\ nfile' = nfile /\ nsock' = nsock
        \/ file' = NoFile /\ nfile' = nfile - 1 /\ nsock' = nsock
    BY <1>3 DEF handle_ACK
  <2>2. Leaked # MaxFds
    BY <1>1, <1>3 DEF FdsInv, Leaked
  <2>. QED BY <1>1, <1>3, <2>1, <2>2 DEF FdsInv, Leaked
<1>. QED BY <1>2, <1>3

\* A step never gets a leaked descriptor back.
LEMMA LeakStep ==
  TypeOK /\ FileInv /\ FdsInv /\ [Next]_vars =>
    /\ FdsInv' /\ Leaked' >= Leaked
    /\ Leaked = MaxFds => file' = NoFile /\ net' = net
<1> SUFFICES ASSUME TypeOK, FileInv, FdsInv, [Next]_vars
             PROVE  /\ FdsInv' /\ Leaked' >= Leaked
                    /\ Leaked = MaxFds => file' = NoFile /\ net' = net
  OBVIOUS
<1>1. nfile \in Nat /\ nsock \in Nat /\ MaxFds \in Nat
  BY TftpAssumption DEF TypeOK, HandlersTypeOK
<1>2. ASSUME UNCHANGED <<file, nfile, nsock, net>>
      PROVE  /\ FdsInv' /\ Leaked' >= Leaked
             /\ Leaked = MaxFds => file' = NoFile /\ net' = net
  BY <1>1, <1>2 DEF FdsInv, Leaked
<1>3. ASSUME NEW m \in reqs, Serve(m, TRUE)
      PROVE  /\ FdsInv' /\ Leaked' >= Leaked
             /\ Leaked = MaxFds => file' = NoFile /\ net' = net
  <2>1. m.from \in Clients /\ (m.op = "RRQ" => m.name \in Files) /\ (m.op = "ACK" => m.block \in Wire)
    BY RequestTypes DEF TypeOK
  <2>2. \/ m.op = "RRQ" /\ handle_RRQ(m.from, m.name)
        \/ m.op = "ACK" /\ handle_ACK(m.from, m.block)
        \/ UNCHANGED handlerVars
    BY <1>3 DEF Serve, handle_new_connection, handle_req, handle_WRQ
  <2>3. CASE m.op = "RRQ" /\ handle_RRQ(m.from, m.name)
    BY <2>1, <2>3, RRQLeaks
  <2>4. CASE m.op = "ACK" /\ handle_ACK(m.from, m.block)
    BY <2>1, <2>4, ACKLeaks
  <2>5. CASE UNCHANGED handlerVars
    BY <1>2, <2>5 DEF handlerVars
  <2>. QED BY <2>2, <2>3, <2>4, <2>5
<1>4. CASE (\E m \in net : Receive(m, TRUE)) \/ (\E c \in Clients : Timeout(c))
           \/ (\E c \in Clients, f \in Files : Request(c, f)) \/ UNCHANGED vars
  <2>1. UNCHANGED <<file, nfile, nsock, net>>
    BY <1>4 DEF Receive, Left, Timeout, Request, vars, handlerVars
  <2>. QED BY <1>2, <2>1
<1>. QED BY <1>3, <1>4 DEF Next

\* Repeated requests use up the descriptors, and from then on the server
\* opens nothing and answers nobody, whatever its limit (tftp_server.c:108).
THEOREM ExhaustionIsFinal == Spec => SilentWhenExhausted
<1>1. Init => FdsInv
  BY TftpAssumption DEF Init, HandlersInit, FdsInv
<1>2. TInv => TypeOK /\ FileInv
  BY DEF TInv
<1>3. TypeOK /\ FileInv /\ FdsInv /\ [Next]_vars =>
        [ /\ Leaked' >= Leaked
          /\ Leaked = MaxFds => file' = NoFile /\ net' = net ]_vars
  BY LeakStep
<1>. QED BY <1>1, <1>2, <1>3, LeakStep, Invariant, PTL DEF Spec, SilentWhenExhausted

(* Wrap-around ------------------------------------------------------------*)

\* Quotient and remainder, for block numbers of any width.
LEMMA DivMod ==
  ASSUME NEW n \in Int, NEW k \in Nat, k > 0
  PROVE  n \div k \in Int /\ n % k \in 0..(k - 1) /\ n = k * (n \div k) + (n % k)
OBVIOUS

LEMMA RemainderUnique ==
  ASSUME NEW k \in Nat, NEW q \in Int, NEW p \in Int,
         NEW r \in 0..(k - 1), NEW s \in 0..(k - 1), k * q + r = k * p + s
  PROVE  r = s
<1>1. k * (q - p) = s - r
  OBVIOUS
<1>2. q - p >= 1 => k * (q - p) >= k
  OBVIOUS
<1>3. p - q >= 1 => k * (p - q) >= k
  OBVIOUS
<1>4. k * (p - q) = 0 - k * (q - p)
  OBVIOUS
<1>5. q = p
  BY <1>1, <1>2, <1>3, <1>4
<1>. QED BY <1>1, <1>5

LEMMA RemainderIs ==
  ASSUME NEW k \in Nat, k > 0, NEW q \in Int, NEW r \in 0..(k - 1)
  PROVE  (k * q + r) % k = r
<1> DEFINE x == k * q + r
<1>1. x \in Int
  OBVIOUS
<1>2. x \div k \in Int /\ x % k \in 0..(k - 1) /\ x = k * (x \div k) + (x % k)
  BY <1>1, DivMod
<1>3. PICK p \in Int, s \in 0..(k - 1) : x % k = s /\ x = k * p + s
  BY <1>2
<1>4. k * q + r = k * p + s
  BY <1>3
<1>5. r = s
  BY <1>4, RemainderUnique
<1>. QED BY <1>3, <1>5

LEMMA RemainderSucc ==
  ASSUME NEW n \in Int, NEW k \in Nat, k > 0
  PROVE  (n + 1) % k = IF n % k = k - 1 THEN 0 ELSE (n % k) + 1
<1>1. PICK q \in Int, r \in 0..(k - 1) : n % k = r /\ n = k * q + r
  BY DivMod
<1>2. CASE r = k - 1
  <2>1. n + 1 = k * (q + 1) + 0
    BY <1>1, <1>2
  <2>2. q + 1 \in Int /\ 0 \in 0..(k - 1)
    OBVIOUS
  <2>3. (k * (q + 1) + 0) % k = 0
    BY <2>2, RemainderIs
  <2>. QED BY <1>1, <1>2, <2>1, <2>3
<1>3. CASE r # k - 1
  <2>1. n + 1 = k * q + (r + 1) /\ r + 1 \in 0..(k - 1)
    BY <1>1, <1>3
  <2>2. (k * q + (r + 1)) % k = r + 1
    BY <2>1, RemainderIs
  <2>. QED BY <1>1, <1>3, <2>1, <2>2
<1>. QED BY <1>2, <1>3

\* The number after n on the wire: it starts again at 0.
LEMMA WireSucc ==
  ASSUME NEW n \in Int
  PROVE  /\ ToWire(n) \in Wire
         /\ ToWire(n + 1) = IF ToWire(n) = 2 * Half - 1 THEN 0 ELSE ToWire(n) + 1
<1>1. 2 * Half \in Nat /\ 2 * Half > 0
  BY TftpAssumption
<1>. QED BY <1>1, WireType, RemainderSucc DEF ToWire

\* handle_ACK sends the number after the one in the request, on both sides of
\* the sign bit (tftp_server.c:139, :148).
LEMMA NextOnWire ==
  ASSUME NEW n \in Int
  PROVE  ToWire(ToShort(ToWire(n)) + 1) = ToWire(n + 1)
<1> DEFINE b == ToWire(n)
           k == 2 * Half
<1>1. k \in Nat /\ k > 0 /\ b \in 0..(k - 1) /\ Half \in Nat
  BY WireType, TftpAssumption DEF Wire
<1>2. ToWire(n + 1) = IF b = k - 1 THEN 0 ELSE b + 1
  BY WireSucc
<1>3. \A q \in Int, r \in 0..(k - 1) : ToWire(k * q + r) = r
  BY <1>1, RemainderIs DEF ToWire
<1>4. ToShort(b) = IF b < Half THEN b ELSE b - k
  BY DEF ToShort
<1>. HIDE DEF b, k
<1>5. ASSUME NEW r \in 0..(k - 1) PROVE ToWire(r) = r /\ ToWire(r - k) = r /\ ToWire(r + k) = r
  <2>1. ToWire(k * 0 + r) = r /\ ToWire(k * (0 - 1) + r) = r /\ ToWire(k * 1 + r) = r
    <3>1. 0 \in Int /\ 0 - 1 \in Int /\ 1 \in Int
      OBVIOUS
    <3>. QED BY <1>3, <3>1
  <2>2. k * 0 + r = r /\ k * (0 - 1) + r = r - k /\ k * 1 + r = r + k
    BY <1>1
  <2>. QED BY <2>1, <2>2
<1>6. CASE b = k - 1
  <2>1. ToWire(0) = 0 /\ ToWire(0 + k) = 0
    <3>1. 0 \in 0..(k - 1)
      BY <1>1
    <3>. QED BY <1>5, <3>1
  <2>2. ToShort(b) + 1 \in {0, 0 + k}
    BY <1>1, <1>4, <1>6
  <2>. QED BY <1>2, <1>6, <2>1, <2>2 DEF b
<1>7. CASE b # k - 1
  <2>1. PICK r \in 0..(k - 1) : r = b + 1
    BY <1>1, <1>7
  <2>2. ToWire(r) = r /\ ToWire(r - k) = r
    BY <1>5
  <2>3. ToShort(b) + 1 \in {r, r - k}
    BY <1>1, <1>4, <2>1
  <2>. QED BY <1>2, <1>7, <2>1, <2>2, <2>3 DEF b
<1>. QED BY <1>6, <1>7

\* The server answers the one datagram there is with the block the client
\* waits for, read from the block number or, beyond the sign bit, from where
\* it stopped reading (tftp_server.c:139-152).
LEMMA ServeTurns ==
  ASSUME TypeOK, NEW c, Clients = {c}, TurnsInv(c), NEW m \in reqs, Serve(m, FALSE)
  PROVE  TurnsInv(c)'
<1> DEFINE n == Len(recv[c])
<1>1. n \in Nat /\ want[c] \in Files \cup {NoFile}
  BY DEF TypeOK
<1>2. want' = want /\ recv' = recv /\ done' = done /\ reqs' = reqs \ {m}
  BY DEF Serve, Left, clientVars
<1>3. want[c] # NoFile /\ \A i \in 1..n : recv[c][i].at = ToWire(i - 1)
  BY DEF TurnsInv
<1>4. CASE c \in done
  BY <1>2, <1>3, <1>4 DEF TurnsInv
<1>5. CASE c \notin done
  <2>1. /\ m = Last(c) /\ reqs' = {} /\ net = {}
        /\ n > 0 /\ file # NoFile => pos = ToWire(n - 1) + 1
    BY <1>2, <1>5 DEF TurnsInv
  <2>2. SUFFICES \/ net' = {}
                 \/ \E d : /\ net' = {d}
                           /\ d.block = ToWire(n + 1) /\ d.chunk.at = ToWire(n)
                           /\ d.chunk.size = "full" => pos' = d.chunk.at + 1
    BY <1>2, <1>3, <1>5, <2>1 DEF TurnsInv
  <2>3. CASE n = 0
    <3>1. m = rrq(c, want[c])
      BY <2>1, <2>3 DEF Last
    <3>2. handle_RRQ(c, want[c])
      BY <3>1 DEF Serve, rrq, handle_new_connection
    <3> DEFINE d == make_data(c, 1, fread(want[c], 0))
    <3>3. d.block = ToWire(n + 1) /\ d.chunk = fread(want[c], 0)
      BY <2>3 DEF make_data
    <3>4. fread(want[c], 0).at = 0 /\ 0 = ToWire(n)
      BY <2>3, WireSmall, TftpAssumption DEF fread
    <3>5. \/ net' = {}
          \/ net' = {d} /\ (fread(want[c], 0).size = "full" => pos' = 1)
      BY <2>1, <3>2 DEF handle_RRQ
    <3>. HIDE DEF d
    <3>. QED BY <3>3, <3>4, <3>5
  <2>4. CASE n # 0
    <3>1. m = ack(c, ToWire(n))
      BY <2>1, <2>4 DEF Last
    <3>2. handle_ACK(c, ToWire(n))
      BY <3>1 DEF Serve, ack, handle_req
    <3>3. CASE file = NoFile
      BY <2>1, <3>2, <3>3 DEF handle_ACK, handlerVars
    <3>4. CASE file # NoFile
      <4> DEFINE block == ToShort(ToWire(n))
                 at == IF block >= 0 THEN block ELSE pos
                 d == make_data(c, block + 1, fread(file, at))
      <4>1. at = ToWire(n) /\ at \in Nat
        <5>1. n - 1 \in Int /\ n - 1 + 1 = n
          BY <1>1
        <5>2. ToWire(n) = IF ToWire(n - 1) = 2 * Half - 1 THEN 0 ELSE ToWire(n - 1) + 1
          BY <5>1, WireSucc
        <5>3. pos = ToWire(n - 1) + 1 /\ ToWire(n) \in Wire /\ ToWire(n - 1) \in Wire
          BY <1>1, <2>1, <2>4, <3>4, <5>1, WireType
        <5>. QED BY <5>2, <5>3, TftpAssumption DEF ToShort, Wire
      <4>2. d.block = ToWire(n + 1) /\ d.chunk = fread(file, at)
        BY <1>1, NextOnWire DEF make_data
      <4>3. fread(file, at).at = at
        BY DEF fread
      <4>4. net' = {d} /\ (fread(file, at).size = "full" => pos' = at + 1)
        BY <2>1, <3>2, <3>4 DEF handle_ACK
      <4>. HIDE DEF d, at, block
      <4>. QED BY <4>1, <4>2, <4>3, <4>4
    <3>. QED BY <3>3, <3>4
  <2>. QED BY <2>3, <2>4
<1>. QED BY <1>4, <1>5

\* The client takes the block it waits for and acknowledges it.
LEMMA ReceiveTurns ==
  ASSUME TypeOK, NEW c, Clients = {c}, TurnsInv(c), NEW m \in net, Receive(m, FALSE)
  PROVE  TurnsInv(c)'
<1> DEFINE n == Len(recv[c])
<1>1. n \in Nat /\ m.to = c /\ m.chunk \in Chunks /\ recv[c] \in Seq(Chunks)
  BY DEF TypeOK, HandlersTypeOK, Data
<1>2. want' = want /\ want[c] # NoFile /\ net' = net \ {m} /\ pos' = pos /\ file' = file
  BY DEF Receive, Left, TurnsInv
<1>3. \A i \in 1..n : recv[c][i].at = ToWire(i - 1)
  BY DEF TurnsInv
<1>4. CASE c \in done
  <2>1. recv' = recv /\ done' = done
    BY <1>1, <1>4 DEF Receive
  <2>. QED BY <1>2, <1>3, <1>4, <2>1 DEF TurnsInv
<1>5. CASE c \notin done
  <2>1. /\ net = {m} /\ reqs = {}
        /\ m.block = ToWire(n + 1) /\ m.chunk.at = ToWire(n)
        /\ m.chunk.size = "full" => pos = m.chunk.at + 1
    BY <1>5 DEF TurnsInv
  <2>2. ToWire(n + 1) # ToWire(n)
    <3>1. /\ n \in Int /\ ToWire(n) \in Wire
          /\ ToWire(n + 1) = IF ToWire(n) = 2 * Half - 1 THEN 0 ELSE ToWire(n) + 1
      BY <1>1, WireSucc
    <3>. QED BY <3>1, TftpAssumption DEF Wire
  <2>3. /\ recv' = [recv EXCEPT ![c] = Append(@, m.chunk)]
        /\ done' = IF m.chunk.size = "full" THEN done ELSE done \cup {c}
        /\ reqs' = reqs \cup {ack(c, m.block)}
    BY <1>1, <1>5, <2>1, <2>2 DEF Receive
  <2>4. net' = {} /\ reqs' = {ack(c, ToWire(n + 1))}
    BY <1>2, <2>1, <2>3
  <2>5. recv'[c] = Append(recv[c], m.chunk)
    BY <2>3 DEF TypeOK
  <2>6. /\ Len(recv'[c]) = n + 1
        /\ \A i \in 1..n : recv'[c][i] = recv[c][i]
        /\ recv'[c][n + 1] = m.chunk
    BY <1>1, <2>5, AppendProperties
  <2>. HIDE DEF n
  <2>7. \A i \in 1..(n + 1) : recv'[c][i].at = ToWire(i - 1)
    <3> SUFFICES ASSUME NEW i \in 1..(n + 1) PROVE recv'[c][i].at = ToWire(i - 1)
      OBVIOUS
    <3>1. CASE i = n + 1
      <4>1. i - 1 = n
        BY <1>1, <3>1
      <4>. QED BY <2>1, <2>6, <3>1, <4>1
    <3>2. CASE i # n + 1
      <4>1. i \in 1..n
        BY <1>1, <3>2
      <4>. QED BY <1>3, <2>6, <4>1
    <3>. QED BY <3>1, <3>2
  <2>8. Last(c)' = ack(c, ToWire(n + 1))
    BY <1>1, <2>6 DEF Last
  <2>9. c \notin done' => pos' = ToWire(n) + 1
    BY <1>2, <2>1, <2>3
  <2>10. want'[c] # NoFile
    BY <1>2
  <2>11. PICK r : r = n + 1
    OBVIOUS
  <2>12. Len(recv'[c]) = r /\ r - 1 = n
    BY <1>1, <2>6, <2>11
  <2>13. \A i \in 1..r : recv'[c][i].at = ToWire(i - 1)
    BY <2>7, <2>11
  <2>14. reqs' = {Last(c)'}
    BY <2>4, <2>8
  <2>15. c \notin done' => pos' = ToWire(r - 1) + 1
    BY <2>9, <2>12
  <2>. QED BY <2>4, <2>10, <2>12, <2>13, <2>14, <2>15 DEF TurnsInv
<1>. QED BY <1>4, <1>5

\* The client's request is the first datagram there is.
LEMMA RequestTurns ==
  ASSUME TypeOK, NEW c, Clients = {c}, TurnsInv(c), NEW f \in Files, Request(c, f)
  PROVE  TurnsInv(c)'
<1>1. reqs = {} /\ net = {} /\ Len(recv[c]) = 0
  BY DEF Request, TurnsInv
<1>2. want'[c] = f /\ f # NoFile /\ recv' = recv /\ reqs' = {rrq(c, f)} /\ net' = {}
  BY <1>1, TftpAssumption DEF Request, TypeOK, handlerVars
<1>3. Last(c)' = rrq(c, f)
  BY <1>1, <1>2 DEF Last
<1>. QED BY <1>1, <1>2, <1>3 DEF TurnsInv

\* One client on the reliable network: each step keeps the turns.
LEMMA WrapStep == TypeOK /\ WrapInv /\ [NetNext]_netVars => WrapInv'
<1> SUFFICES ASSUME TypeOK, WrapInv, [NetNext]_netVars PROVE WrapInv'
  OBVIOUS
<1>1. lossy' = lossy /\ lossy \in BOOLEAN
  BY DEF NetNext, netVars, WrapInv
<1>2. SUFFICES ASSUME ~lossy, OneClient, NEW c \in Clients
               PROVE  TurnsInv(c)'
  BY <1>1 DEF WrapInv
<1>3. TurnsInv(c)
  BY <1>2 DEF WrapInv
<1>4. Clients = {c}
  BY <1>2 DEF OneClient
<1>5. ASSUME NEW m \in reqs, Serve(m, FALSE) PROVE TurnsInv(c)'
  BY <1>3, <1>4, <1>5, ServeTurns
<1>6. ASSUME NEW m \in net, Receive(m, FALSE) PROVE TurnsInv(c)'
  BY <1>3, <1>4, <1>6, ReceiveTurns
<1>7. ASSUME NEW d \in Clients, NEW f \in Files, Request(d, f) PROVE TurnsInv(c)'
  <2>1. Request(c, f)
    BY <1>4, <1>7
  <2>. QED BY <1>3, <1>4, <2>1, RequestTurns
<1>8. CASE UNCHANGED netVars
  BY <1>3, <1>8 DEF netVars, vars, handlerVars, clientVars, TurnsInv, Last
<1>9. lossy = FALSE
  BY <1>1, <1>2
<1>. QED BY <1>5, <1>6, <1>7, <1>8, <1>9 DEF NetNext, Lose, Retry

\* The blocks a client gets one by one are those of the file up to 2 * Half
\* and from there on its beginning again, for block numbers of any width
\* (tftp_server.c:139-152).
THEOREM WrapIsExact == NetSpec => []WrapsAround
<1>1. NetInit => TypeOK /\ FileInv /\ WrapInv
  BY DEF NetInit, Init, HandlersInit, TypeOK, HandlersTypeOK, FileInv, WrapInv, TurnsInv
<1>2. TypeOK /\ WrapInv => WrapsAround
  BY DEF WrapInv, TurnsInv, WrapsAround, ToWire
<1>. QED BY <1>1, <1>2, NetTypeStep, WrapStep, PTL DEF NetSpec

(* The main loop ----------------------------------------------------------*)

\* The turn that opens a file or sends a block leaves the loop.
LEMMA TurnInv ==
  ASSUME MInv, Turn
  PROVE  MInv'
<1>1. net = {} /\ nfile = 0 /\ nsock = 0
  BY DEF MInv, Turn
<1>2. PICK d : handle_new_connection(d.from, in_buf')
  BY DEF Turn
<1>3. CASE UNCHANGED handlerVars
  BY <1>1, <1>3 DEF handlerVars, MInv
<1>4. CASE in_buf'.op = "RRQ" /\ handle_RRQ(d.from, in_buf'.name)
  <2>1. CASE ~CanOpen(in_buf'.name)
    BY <1>1, <1>4, <2>1 DEF handle_RRQ, MInv
  <2>2. CASE CanOpen(in_buf'.name)
    <3>1. nfile' = 1 /\ nsock' \in 0..1
      BY <1>1, <1>4, <2>2 DEF handle_RRQ
    <3>2. net' = {} \/ net' = {make_data(d.from, 1, fread(in_buf'.name, 0))}
      BY <1>1, <1>4, <2>2 DEF handle_RRQ
    <3>3. pc' = "exit"
      BY <1>4, <2>2 DEF Turn
    <3>. QED BY <3>1, <3>2, <3>3 DEF MInv
  <2>. QED BY <2>1, <2>2
<1>. QED BY <1>2, <1>3, <1>4 DEF handle_new_connection, handle_WRQ

\* The invariant that at most one transfer is made.
LEMMA MainStep == MInv /\ [MainNext]_mainVars => MInv'
<1> SUFFICES ASSUME MInv, [MainNext]_mainVars PROVE MInv'
  OBVIOUS
<1>1. CASE Setup
  BY <1>1 DEF Setup, handlerVars, MInv
<1>2. CASE Turn
  BY <1>2, TurnInv
<1>3. CASE \E d \in Datagrams : Arrive(d)
  BY <1>3 DEF Arrive, handlerVars, MInv
<1>4. CASE UNCHANGED mainVars
  BY <1>4 DEF mainVars, handlerVars, MInv
<1>. QED BY <1>1, <1>2, <1>3, <1>4 DEF MainNext

\* The epoll_ctl that names the wrong descriptor ends the program with its
\* first session: one block is all it ever sends (tftp_server.c:250-257).
THEOREM OneTransfer == MainSpec => []OneTransferEver
<1>1. MainInit => MInv
  BY DEF MainInit, HandlersInit, MInv
<1>2. MInv => OneTransferEver
  <2> SUFFICES ASSUME MInv PROVE Cardinality(net) <= 1
    BY DEF MInv, OneTransferEver
  <2>1. CASE net = {}
    BY <2>1, FS_EmptySet
  <2>2. CASE net # {}
    <3>1. PICK d : d \in net
      BY <2>2
    <3>2. net = {d}
      BY <3>1 DEF MInv
    <3>. QED BY <3>2, FS_Singleton
  <2>. QED BY <2>1, <2>2
<1>. QED BY <1>1, <1>2, MainStep, PTL DEF MainSpec

\* What the receive queue may hold.
LEMMA DatagramShape ==
  ASSUME NEW d \in Datagrams, d.body.op = "RRQ"
  PROVE  d = [from |-> d.from, body |-> [op |-> "RRQ", name |-> d.body.name]]
<1>1. PICK c \in Clients, b \in Contents \cup [op : {"empty"}] : d = [from |-> c, body |-> b]
  BY DEF Datagrams
<1>2. b \in [op : {"RRQ"}, name : Files]
  BY <1>1 DEF Contents
<1>3. b = [op |-> "RRQ", name |-> b.name]
  BY <1>2
<1>. QED BY <1>1, <1>3

\* A turn serves the sender's own request, or one that was in in_buf before
\* any request had been read.
LEMMA TurnServes ==
  ASSUME MInv, StaleInv, Turn
  PROVE  StaleInv' /\ ServedToAsker'
<1>1. net = {} /\ nfile = 0 /\ nsock = 0 /\ pc = "loop"
  BY DEF MInv, Turn
<1>2. PICK d \in Datagrams : d = Head(queue)
  BY HeadTailProperties DEF Turn, StaleInv
<1>3. /\ in_buf' = IF d.body.op = "empty" THEN in_buf ELSE d.body
      /\ handle_new_connection(d.from, in_buf')
      /\ seen' = seen \cup {d}
  BY <1>2 DEF Turn
<1>4. PICK b : b = in_buf'
  OBVIOUS
<1>5. queue' \in Seq(Datagrams) /\ pc' # "setup"
  BY HeadTailProperties DEF Turn, StaleInv
<1>6. pc' = "loop" => ~(b.op = "RRQ" /\ CanOpen(b.name))
  BY <1>4 DEF Turn
<1>7. CASE b.op # "RRQ"
  <2>1. UNCHANGED handlerVars
    BY <1>3, <1>4, <1>7 DEF handle_new_connection, handle_WRQ
  <2>. QED BY <1>1, <1>4, <1>5, <1>7, <2>1 DEF handlerVars, StaleInv, ServedToAsker
<1>8. CASE b.op = "RRQ" /\ ~CanOpen(b.name)
  <2>1. UNCHANGED <<nfile, nsock, net>>
    BY <1>3, <1>4, <1>8 DEF handle_new_connection, handle_RRQ
  <2>2. ~CanOpen(b.name)'
    BY <1>8, <2>1 DEF CanOpen
  <2>. QED BY <1>1, <1>4, <1>5, <2>1, <2>2 DEF StaleInv, ServedToAsker
<1>9. CASE b.op = "RRQ" /\ CanOpen(b.name)
  <2>1. StaleInv'
    BY <1>5, <1>6, <1>9 DEF StaleInv, Turn
  <2>2. \A e \in net' : e.to = d.from /\ e.chunk.file = b.name
    <3>1. net' \subseteq {make_data(d.from, 1, fread(b.name, 0))}
      BY <1>1, <1>3, <1>4, <1>9 DEF handle_new_connection, handle_RRQ
    <3>. QED BY <3>1 DEF make_data, fread
  <2>3. CASE d.body.op = "empty"
    <3>1. b = in_buf
      BY <1>3, <1>4, <2>3
    <3>2. \A e \in seen' : e.body.op = "empty"
      BY <1>1, <1>3, <1>9, <2>3, <3>1 DEF StaleInv
    <3>. QED BY <2>1, <3>2 DEF ServedToAsker
  <2>4. CASE d.body.op # "empty"
    <3>1. b = d.body /\ d \in seen'
      BY <1>3, <1>4, <2>4
    <3>2. d = [from |-> d.from, body |-> [op |-> "RRQ", name |-> b.name]]
      BY <1>9, <3>1, DatagramShape
    <3>. QED BY <2>1, <2>2, <3>1, <3>2 DEF ServedToAsker
  <2>. QED BY <2>3, <2>4
<1>. QED BY <1>7, <1>8, <1>9

\* Although recvfrom's result is not looked at (tftp_server.c:248), nobody is
\* sent a file that only another client asked for: a stale request is one that
\* failed, unless nothing has been read into in_buf yet.
THEOREM StaleRequestHarmless == MainSpec => []ServedToAsker
<1>1. MainInit => MInv /\ StaleInv /\ ServedToAsker
  BY DEF MainInit, HandlersInit, MInv, StaleInv, ServedToAsker
<1>2. MInv /\ StaleInv /\ ServedToAsker /\ [MainNext]_mainVars => StaleInv' /\ ServedToAsker'
  <2> SUFFICES ASSUME MInv, StaleInv, ServedToAsker, [MainNext]_mainVars
               PROVE  StaleInv' /\ ServedToAsker'
    OBVIOUS
  <2>1. CASE Setup
    BY <2>1 DEF Setup, handlerVars, StaleInv, ServedToAsker
  <2>2. CASE Turn
    BY <2>2, TurnServes
  <2>3. ASSUME NEW d \in Datagrams, Arrive(d) PROVE StaleInv' /\ ServedToAsker'
    <3>1. queue' \in Seq(Datagrams)
      BY <2>3, AppendProperties DEF Arrive, StaleInv
    <3>. QED BY <2>3, <3>1 DEF Arrive, handlerVars, StaleInv, ServedToAsker, CanOpen
  <2>4. CASE UNCHANGED mainVars
    BY <2>4 DEF mainVars, handlerVars, StaleInv, ServedToAsker, CanOpen
  <2>. QED BY <2>1, <2>2, <2>3, <2>4 DEF MainNext
<1>. QED BY <1>1, <1>2, MainStep, PTL DEF MainSpec
=============================================================================
