----------------------------- MODULE EchoService -----------------------------
(***************************************************************************)
(* What an echo server is for: a client gets back what it sent, from the   *)
(* first byte on, in order, and never more than it sent.  Nothing is said  *)
(* about when.  Bytes are numbered by their position in a client's stream. *)
(*                                                                         *)
(* A loose client is one the server may send anything from now on.         *)
(***************************************************************************)
EXTENDS Integers, Sequences

CONSTANTS
  Clients,
  MaxSend     \* bound: bytes a client sends

VARIABLES
  sent,    \* bytes sent by each client
  got,     \* what each client received
  loose    \* clients to whom nothing is promised any more

Init ==
  /\ sent = [c \in Clients |-> 0]
  /\ got = [c \in Clients |-> <<>>]
  /\ loose = {}

Send(c) ==
  /\ \E n \in (sent[c] + 1)..MaxSend : sent' = [sent EXCEPT ![c] = n]
  /\ UNCHANGED <<got, loose>>

Echo(c) ==
  /\ c \notin loose
  /\ \E m \in Len(got[c])..sent[c] : got' = [got EXCEPT ![c] = [i \in 1..m |-> i]]
  /\ UNCHANGED <<sent, loose>>

Loosen(c) ==
  /\ loose' = loose \cup {c}
  /\ UNCHANGED <<sent, got>>

\* A loose client receives something, of which no more is known.
Anything(c) ==
  /\ c \in loose
  /\ got' = [got EXCEPT ![c] = got'[c]]
  /\ UNCHANGED <<sent, loose>>

Next == \E c \in Clients : Send(c) \/ Echo(c) \/ Loosen(c) \/ Anything(c)

Spec == Init /\ [][Next]_<<sent, got, loose>>
=============================================================================
