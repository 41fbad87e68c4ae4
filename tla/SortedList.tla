----------------------------- MODULE SortedList -----------------------------
(***************************************************************************)
(* What the binary tree of algorithm/binary-tree is for: values go in, in  *)
(* any order and any number of times, and are printed in ascending order.  *)
(***************************************************************************)
EXTENDS Integers, Sequences

CONSTANT Values

VARIABLES
  list,   \* the values, in the order in which they are printed
  out     \* what was printed last

\* v goes between what is not larger and what is.
Insert(v) ==
  /\ \E k \in 0..Len(list) :
       /\ \A j \in 1..k : list[j] <= v
       /\ \A j \in (k + 1)..Len(list) : v < list[j]
       /\ list' = [j \in 1..(Len(list) + 1) |->
                     IF j <= k THEN list[j] ELSE IF j = k + 1 THEN v ELSE list[j - 1]]
  /\ UNCHANGED out

Show ==
  /\ out' = list
  /\ UNCHANGED list

Init ==
  /\ list = <<>>
  /\ out = <<>>

Next == Show \/ \E v \in Values : Insert(v)

Spec == Init /\ [][Next]_<<list, out>>
=============================================================================
