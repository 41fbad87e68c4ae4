----------------------------- MODULE SessionSeq -----------------------------
(***************************************************************************)
(* What tftp/list.h promises: a list of sessions that grows at its front,  *)
(* loses the first occurrence of a session on demand, and knows its        *)
(* length.                                                                 *)
(***************************************************************************)
EXTENDS Naturals, Sequences

CONSTANT Sessions

VARIABLES
  list,   \* the sessions, the youngest first
  ret     \* what get_list_length returned last

\* Entry i of s is taken out.
Without(s, i) == [j \in 1..(Len(s) - 1) |-> IF j < i THEN s[j] ELSE s[j + 1]]

Init ==
  /\ list = <<>>
  /\ ret = 0

Insert(s) ==
  /\ list' = <<s>> \o list
  /\ UNCHANGED ret

Remove(s) ==
  /\ \E i \in 1..Len(list) :
       /\ list[i] = s
       /\ \A j \in 1..(i - 1) : list[j] # s
       /\ list' = Without(list, i)
  /\ UNCHANGED ret

Length ==
  /\ ret' = Len(list)
  /\ UNCHANGED list

Next == Length \/ \E s \in Sessions : Insert(s) \/ Remove(s)

Spec == Init /\ [][Next]_<<list, ret>>
=============================================================================
