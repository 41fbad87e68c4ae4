---------------------------- MODULE TftpHandlers ----------------------------
(***************************************************************************)
(* The request handlers of tftp/tftp_server.c and the state they share:    *)
(* the one global FILE *file, the descriptors they open and the DATA       *)
(* datagrams they send.                                                    *)
(*                                                                         *)
(* A file is a number of full 512-byte blocks, followed by a shorter rest  *)
(* unless its length is a multiple of 512.  What fread returns is known by *)
(* the file, the block it starts at, and whether it is full, in part full  *)
(* or empty.  Block numbers on the wire have 16 bits; the program reads    *)
(* them into a signed short.                                               *)
(***************************************************************************)
EXTENDS Integers, FiniteSets

CONSTANTS
  Clients,   \* addresses requests come from
  Files,     \* names that can be asked for
  NoFile,    \* the null pointer
  Full,      \* Full[f]: number of full blocks of f; -1: f does not exist
  Rest,      \* files with a rest behind their full blocks
  Half,      \* 2^15 in the program: block numbers are -Half .. Half-1
  MaxFds     \* descriptors the process can open

ASSUME TftpAssumption ==
  /\ NoFile \notin Files
  /\ Full \in [Files -> Nat \cup {-1}]
  /\ Rest \subseteq Files
  /\ Half \in Nat /\ Half >= 2
  /\ MaxFds \in Nat

VARIABLES
  file,    \* the file behind the global pointer, or NoFile
  pos,     \* its position, in blocks
  nfile,   \* FILE objects that are open
  nsock,   \* session sockets that are open
  net,     \* DATA datagrams sent and not yet received or lost
  alive    \* the process has not been aborted

handlerVars == <<file, pos, nfile, nsock, net, alive>>

Wire == 0..(2 * Half - 1)
Chunks == [file : Files, at : Nat, size : {"full", "part", "empty"}]
Data == [to : Clients, block : Wire, chunk : Chunks]

\* short block = ntohs(...)
ToShort(b) == IF b < Half THEN b ELSE b - 2 * Half
\* htons(block)
ToWire(k) == k % (2 * Half)

\* fread(buf, 1, 512, f) at block p
fread(f, p) ==
  [file |-> f, at |-> p,
   size |-> IF p < Full[f] THEN "full"
            ELSE IF p = Full[f] /\ f \in Rest THEN "part" ELSE "empty"]

\* make_data: the DATA datagram for a client.
make_data(c, block, chunk) == [to |-> c, block |-> ToWire(block), chunk |-> chunk]

HandlersInit ==
  /\ file = NoFile
  /\ pos = 0
  /\ nfile = 0
  /\ nsock = 0
  /\ net = {}
  /\ alive = TRUE

HandlersTypeOK ==
  /\ file \in Files \cup {NoFile}
  /\ pos \in Nat
  /\ nfile \in Nat
  /\ nsock \in Nat
  /\ net \subseteq Data
  /\ alive \in BOOLEAN

-----------------------------------------------------------------------------
\* fopen finds the file and a descriptor.
CanOpen(f) == Full[f] >= 0 /\ nfile + nsock < MaxFds

\* handle_RRQ.  The file is opened over the global pointer, whatever that
\* points to.  out_buf is four bytes short for a full first block, and up to
\* three for one that is nearly full: the overflow goes unnoticed, or aborts
\* the process when the function returns.  The session's socket may fail, and
\* with it the sendto.
handle_RRQ(c, f) ==
  \/ /\ ~CanOpen(f)
     /\ file' = NoFile
     /\ UNCHANGED <<pos, nfile, nsock, net, alive>>
  \/ /\ CanOpen(f)
     /\ file' = f
     /\ nfile' = nfile + 1
     /\ LET chunk == fread(f, 0)
        IN  /\ pos' = IF chunk.size = "empty" THEN 0 ELSE 1
            /\ alive' \in IF chunk.size = "empty" THEN {alive} ELSE BOOLEAN
            /\ IF nfile' + nsock < MaxFds
               THEN /\ nsock' = nsock + 1
                    /\ net' = net \cup {make_data(c, 1, chunk)}
               ELSE UNCHANGED <<nsock, net>>

\* handle_WRQ does nothing.
handle_WRQ == UNCHANGED handlerVars

\* handle_new_connection.  RRQ falls through to WRQ.
handle_new_connection(c, m) ==
  \/ m.op = "RRQ" /\ handle_RRQ(c, m.name)
  \/ m.op # "RRQ" /\ handle_WRQ

\* (faulty variant: file is not set to NULL after fclose)
handle_ACKDangling(c, b) ==
  IF file = NoFile
  THEN UNCHANGED handlerVars
  ELSE LET chunk == fread(file, ToShort(b))
       IN  /\ nfile' = IF chunk.size = "full" THEN nfile ELSE nfile - 1
           /\ pos' = ToShort(b)
           /\ net' = net \cup {make_data(c, ToShort(b) + 1, chunk)}
           /\ UNCHANGED <<file, nsock, alive>>

\* (faulty variants of the position: no fseek at all, and the start of the
\* file for a negative block)
handle_ACKAt(c, b, at) ==
  IF file = NoFile
  THEN UNCHANGED handlerVars
  ELSE LET chunk == fread(file, at)
       IN  /\ IF chunk.size = "full"
              THEN pos' = at + 1 /\ UNCHANGED <<file, nfile>>
              ELSE file' = NoFile /\ nfile' = nfile - 1 /\ pos' = at
           /\ net' = net \cup {make_data(c, ToShort(b) + 1, chunk)}
           /\ UNCHANGED <<nsock, alive>>
handle_ACKReadsOn(c, b) == handle_ACKAt(c, b, pos)
handle_ACKRewinds(c, b) == handle_ACKAt(c, b, IF b < Half THEN b ELSE 0)

\* (faulty variant: a repeated ACK is ignored)
handle_ACKOnce(c, b) ==
  IF b # pos THEN UNCHANGED handlerVars ELSE handle_ACKAt(c, b, b)

\* (faulty variant: the short block that closes the file is not sent)
handle_ACKDropsLast(c, b) ==
  IF file = NoFile
  THEN UNCHANGED handlerVars
  ELSE LET at    == IF b < Half THEN b ELSE pos
           chunk == fread(file, at)
       IN  /\ IF chunk.size = "full"
              THEN /\ pos' = at + 1 /\ UNCHANGED <<file, nfile>>
                   /\ net' = net \cup {make_data(c, ToShort(b) + 1, chunk)}
              ELSE file' = NoFile /\ nfile' = nfile - 1 /\ pos' = at /\ UNCHANGED net
           /\ UNCHANGED <<nsock, alive>>

\* handle_ACK.  fseek fails for a negative block and leaves the position.
\* The block after it goes to the client; a short one closes the file.
handle_ACK(c, b) ==
  IF file = NoFile
  THEN UNCHANGED handlerVars
  ELSE LET block == ToShort(b)
           at    == IF block >= 0 THEN block ELSE pos
           chunk == fread(file, at)
       IN  /\ IF chunk.size = "full"
              THEN pos' = at + 1 /\ UNCHANGED <<file, nfile>>
              ELSE file' = NoFile /\ nfile' = nfile - 1 /\ pos' = at
           /\ net' = net \cup {make_data(c, block + 1, chunk)}
           /\ UNCHANGED <<nsock, alive>>

\* handle_req: only ACK has an effect.
handle_req(c, m) ==
  \/ m.op = "ACK" /\ handle_ACK(c, m.block)
  \/ m.op # "ACK" /\ UNCHANGED handlerVars
=============================================================================
