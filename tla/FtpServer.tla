------------------------------ MODULE FtpServer ------------------------------
(***************************************************************************)
(* ftp/main.c: lines typed at the terminal go to a client, and after each  *)
(* line the program waits for the client to say something.  All calls      *)
(* block.  A step is one call and the code up to the next one.             *)
(*                                                                         *)
(* A line is known by its number; 0 is the empty line that is sent when    *)
(* gets() finds no more input, or when sprintf has emptied buf.            *)
(***************************************************************************)
EXTENDS Integers, Sequences

CONSTANTS
  Clients,
  NoClient,   \* clifd is not the descriptor of a connection
  BufSize,    \* sizeof buf (255 in the code)
  Cap,        \* lines a socket's send buffer holds
  MaxTurns,   \* bound: lines typed
  MaxSend     \* bound: bytes a client sends

ASSUME FtpAssumption ==
  /\ NoClient \notin Clients
  /\ BufSize \in Nat /\ BufSize >= 3
  /\ Cap \in Nat \ {0}
  /\ MaxTurns \in Nat /\ MaxSend \in Nat

VARIABLES
  pc,       \* the call the program is in, or how it ended
  clifd,    \* the client it talks to
  line,     \* the line in buf
  said,     \* history: the line of each turn
  conn,     \* the connection's place in the server
  sent,     \* bytes the client's packets put into the receive buffer
  rd,       \* bytes read() took out of it
  link,     \* FIN and RST received
  err,      \* connections with an error not reported yet
  out,      \* lines in the send buffer
  got       \* lines the client received

sockets == <<conn, sent, rd, link, err, out, got>>
vars == <<pc, clifd, line, said, sockets>>

\* How often gets() has returned.
turn == Len(said)

MinOf(a, b) == IF a <= b THEN a ELSE b

Running == pc \in {"accept", "gets", "write", "read"}
Reset(c) == link[c] \in {"rst", "finrst"}

Init ==
  /\ pc = "setup"
  /\ clifd = NoClient
  /\ line = 0 /\ said = <<>>
  /\ conn = [c \in Clients |-> "new"]
  /\ sent = [c \in Clients |-> 0]
  /\ rd = [c \in Clients |-> 0]
  /\ link = [c \in Clients |-> "open"]
  /\ err = {}
  /\ out = [c \in Clients |-> <<>>]
  /\ got = [c \in Clients |-> <<>>]

-----------------------------------------------------------------------------
\* socket, bind and listen; a failure ends the program.
setup ==
  /\ pc = "setup"
  /\ pc' \in {"accept", "exit"}
  /\ UNCHANGED <<clifd, line, said, sockets>>

\* accept waits for a connection.  It may fail, which nobody looks at.
accept ==
  /\ pc = "accept"
  /\ \/ \E c \in Clients :
          /\ conn[c] = "backlog"
          /\ conn' = [conn EXCEPT ![c] = "accepted"]
          /\ clifd' = c
     \/ UNCHANGED <<conn, clifd>>
  /\ pc' = "gets"
  /\ UNCHANGED <<line, said, sent, rd, link, err, out, got>>

\* There is no more input; buf is empty, and sprintf adds the line's end.
gets_eof ==
  /\ pc = "gets" /\ turn < MaxTurns
  /\ line' = 0
  /\ said' = Append(said, 0)
  /\ pc' = "write"
  /\ UNCHANGED <<clifd, sockets>>

\* A line of n characters is typed.  With "\r\n" and the terminating 0 it
\* needs n + 3 bytes.  One that is too long runs over what is next to buf:
\* it may end the program, hit clifd, or do no harm.  sprintf from buf into
\* buf keeps the line, or (where it clears its target first) empties it.
gets(n) ==
  /\ pc = "gets" /\ turn < MaxTurns
  /\ line' \in {0, turn + 1}
  /\ said' = Append(said, line')
  /\ \/ pc' = "write" /\ UNCHANGED clifd
     \/ n + 3 > BufSize /\ pc' = "write" /\ clifd' = NoClient
     \/ n + 3 > BufSize /\ pc' = "segv" /\ UNCHANGED clifd
  /\ UNCHANGED sockets

\* (faulty variant: a socket that does not block, and a result ignored)
writeDrops ==
  /\ pc = "write" /\ clifd # NoClient /\ ~Reset(clifd)
  /\ out' = IF Len(out[clifd]) < Cap
            THEN [out EXCEPT ![clifd] = Append(@, line)] ELSE out
  /\ pc' = "read"
  /\ UNCHANGED <<clifd, line, said, conn, sent, rd, link, err, got>>

\* write waits until there is room.
write ==
  /\ pc = "write" /\ clifd # NoClient /\ ~Reset(clifd)
  /\ Len(out[clifd]) < Cap
  /\ out' = [out EXCEPT ![clifd] = Append(@, line)]
  /\ pc' = "read"
  /\ UNCHANGED <<clifd, line, said, conn, sent, rd, link, err, got>>

\* The result of write is not looked at: EBADF, or the news of a reset.  A
\* reset that is no news, or came after a FIN, raises SIGPIPE.
write_error ==
  /\ pc = "write"
  /\ \/ /\ clifd = NoClient
        /\ pc' = "read" /\ UNCHANGED err
     \/ /\ clifd # NoClient /\ Reset(clifd)
        /\ pc' = IF link[clifd] = "rst" /\ clifd \in err THEN "read" ELSE "sigpipe"
        /\ err' = err \ {clifd}
  /\ UNCHANGED <<clifd, line, said, conn, sent, rd, link, out, got>>

\* (faulty variant: the loop goes on without an answer)
readPolls ==
  /\ pc = "read" /\ clifd # NoClient
  /\ rd' = [rd EXCEPT ![clifd] = MinOf(@ + BufSize, sent[clifd])]
  /\ pc' = "gets"
  /\ UNCHANGED <<clifd, line, said, conn, sent, link, err, out, got>>

\* read waits for the client and takes what fits into buf.
read ==
  /\ pc = "read" /\ clifd # NoClient
  /\ sent[clifd] > rd[clifd]
  /\ rd' = [rd EXCEPT ![clifd] = MinOf(@ + BufSize, sent[clifd])]
  /\ pc' = "gets"
  /\ UNCHANGED <<clifd, line, said, conn, sent, link, err, out, got>>

\* (faulty variant: the end of the stream leaves the inner loop)
read_endLeaves ==
  /\ pc = "read"
  /\ clifd # NoClient => sent[clifd] = rd[clifd] /\ link[clifd] # "open"
  /\ err' = err \ {clifd}
  /\ pc' = "accept"
  /\ UNCHANGED <<clifd, line, said, conn, sent, rd, link, out, got>>

\* read returns at once with 0 or -1, which makes no difference to the loop.
read_end ==
  /\ pc = "read"
  /\ clifd # NoClient => sent[clifd] = rd[clifd] /\ link[clifd] # "open"
  /\ err' = err \ {clifd}
  /\ pc' = "gets"
  /\ UNCHANGED <<clifd, line, said, conn, sent, rd, link, out, got>>

-----------------------------------------------------------------------------
(* The clients and the network.                                            *)

Connect(c) ==
  /\ Running /\ conn[c] = "new"
  /\ conn' = [conn EXCEPT ![c] = "backlog"]
  /\ UNCHANGED <<pc, clifd, line, said, sent, rd, link, err, out, got>>

Arrive(c, n) ==
  /\ Running /\ conn[c] # "new" /\ link[c] = "open"
  /\ sent[c] + n <= MaxSend
  /\ sent' = [sent EXCEPT ![c] = @ + n]
  /\ UNCHANGED <<pc, clifd, line, said, conn, rd, link, err, out, got>>

ArriveFin(c) ==
  /\ Running /\ conn[c] # "new" /\ link[c] = "open"
  /\ link' = [link EXCEPT ![c] = "fin"]
  /\ UNCHANGED <<pc, clifd, line, said, conn, sent, rd, err, out, got>>

ArriveRst(c) ==
  /\ Running /\ conn[c] # "new" /\ ~Reset(c)
  /\ link' = [link EXCEPT ![c] = IF @ = "open" THEN "rst" ELSE "finrst"]
  /\ err' = err \cup {c}
  /\ out' = [out EXCEPT ![c] = <<>>]
  /\ UNCHANGED <<pc, clifd, line, said, conn, sent, rd, got>>

Deliver(c) ==
  /\ Running /\ out[c] # <<>>
  /\ got' = [got EXCEPT ![c] = Append(@, Head(out[c]))]
  /\ out' = [out EXCEPT ![c] = Tail(@)]
  /\ UNCHANGED <<pc, clifd, line, said, conn, sent, rd, link, err>>

Next ==
  \/ setup \/ accept
  \/ gets_eof \/ \E n \in 0..BufSize : gets(n)
  \/ write \/ write_error \/ read \/ read_end
  \/ \E c \in Clients :
       \/ Connect(c) \/ ArriveFin(c) \/ ArriveRst(c) \/ Deliver(c)
       \/ \E n \in 1..MaxSend : Arrive(c, n)

Spec == Init /\ [][Next]_vars

\* The program's own calls return once they can; whether a line is typed is
\* up to the user.
FairSpec ==
  /\ Spec
  /\ WF_vars(write \/ write_error \/ read \/ read_end)
  /\ \A c \in Clients : WF_vars(Deliver(c))

-----------------------------------------------------------------------------
\* The types of the variables of main.c and of its sockets.
TypeOK ==
  /\ pc \in {"setup", "accept", "gets", "write", "read", "exit", "sigpipe", "segv"}
  /\ clifd \in Clients \cup {NoClient}
  /\ line \in 0..MaxTurns
  /\ said \in Seq(0..MaxTurns) /\ turn <= MaxTurns
  /\ conn \in [Clients -> {"new", "backlog", "accepted"}]
  /\ sent \in [Clients -> 0..MaxSend]
  /\ rd \in [Clients -> 0..MaxSend]
  /\ link \in [Clients -> {"open", "fin", "rst", "finrst"}]
  /\ err \subseteq Clients
  /\ out \in [Clients -> Seq(0..MaxTurns)]
  /\ got \in [Clients -> Seq(0..MaxTurns)]

\* Line and answer alternate: a client that keeps its side open has been
\* sent at most one line more than it has answered with bytes.
InStep ==
  \A c \in Clients :
    link[c] = "open" => Len(got[c]) + Len(out[c]) <= rd[c] + (IF pc = "read" THEN 1 ELSE 0)

\* What a client has received is a beginning of what was in buf, turn by turn:
\* in order, none left out and none twice, however long lines wait in the send
\* buffer.  A line is empty only where the input had ended (main.c:45-47) or
\* sprintf had emptied it (main.c:48).
LinesInOrder ==
  \A c \in Clients :
    /\ Len(got[c]) <= turn
    /\ \A i \in 1..Len(got[c]) : got[c][i] = said[i]

\* The inner loop (main.c:42) has no exit: one client is all the program ever
\* serves, however long ago it went away.
OneClientEver ==
  \A c, d \in Clients : conn[c] = "accepted" /\ conn[d] = "accepted" => c = d

\* A line in buf reaches the client, although it may have to wait for room,
\* and although the client may have ended its own stream.  SIGPIPE is no
\* excuse: only a client's reset, or a line that overflows buf, keeps it away.
LineArrives ==
  \A c \in Clients : \A k \in 1..MaxTurns :
    clifd = c /\ pc = "write" /\ line = k
      ~> (\E i \in 1..Len(got[c]) : got[c][i] = k) \/ Reset(c) \/ pc = "segv"

-----------------------------------------------------------------------------
(* The inductive invariant behind InStep, LinesInOrder and OneClientEver.  *)

Handed(c) == Len(got[c]) + Len(out[c])

\* Received lines g and those in the send buffer o continue each other, as
\* the beginning of s.
InOrder(g, o, s) ==
  /\ Len(g) + Len(o) <= Len(s)
  /\ \A i \in 1..Len(g) : g[i] = s[i]
  /\ \A i \in 1..Len(o) : o[i] = s[Len(g) + i]

\* The program talks to the client it accepted, if to any.
LoopInv ==
  /\ pc \in {"setup", "accept"} =>
       turn = 0 /\ clifd = NoClient /\ \A c \in Clients : conn[c] # "accepted"
  /\ clifd # NoClient => conn[clifd] = "accepted"
  /\ pc = "write" => turn > 0 /\ line = said[turn]

\* A client that is not the one accepted gets nothing; a live one has been
\* handed one line per turn, and has answered all but the last.
ClientInv(c) ==
  /\ conn[c] # "accepted" => got[c] = <<>> /\ out[c] = <<>>
  /\ Reset(c) => out[c] = <<>>
  /\ InOrder(got[c], out[c], said)
  /\ clifd = c /\ ~Reset(c) =>
       /\ pc \in {"gets", "read"} => Handed(c) = turn
       /\ pc = "write" => Handed(c) = turn - 1
  /\ link[c] = "open" =>
       Handed(c) <= rd[c] + (IF pc = "read" /\ clifd = c THEN 1 ELSE 0)

FInv == TypeOK /\ LoopInv /\ OneClientEver /\ \A c \in Clients : ClientInv(c)
=============================================================================
