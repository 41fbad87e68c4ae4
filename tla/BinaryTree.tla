----------------------------- MODULE BinaryTree -----------------------------
(***************************************************************************)
(* algorithm/binary-tree/normal/binary-tree.cpp: nodes linked by left and  *)
(* right.  A call of push_data_aux is one step; its recursion is a tail    *)
(* call, so the node it stands at is all there is to remember.  The        *)
(* recursion of preorder_print_aux needs a stack: the nodes whose left     *)
(* subtree is being printed.                                               *)
(***************************************************************************)
EXTENDS Integers, Sequences

CONSTANTS
  Nodes,    \* addresses; a bound on the number of values
  Values,   \* values that can be pushed
  NULL      \* nullptr

ASSUME TreeAssumption == NULL \notin Nodes /\ Values \subseteq Int

VARIABLES
  pc,       \* the function that runs: "idle", "push" or "print"
  root,     \* BinaryTree::root
  left,     \* the fields of the nodes
  right,
  value,
  used,     \* nodes that exist
  pnode,    \* the argument of push_data_aux
  at,       \* the node a recursive function stands at
  stack,    \* the calls of preorder_print_aux that are not through
  printed,  \* the nodes whose value it has printed
  out,      \* the values the last complete print showed
  order     \* history: the nodes, each put next to the one it is linked to

tree == <<root, left, right, value, used, order>>
vars == <<pc, tree, pnode, at, stack, printed, out>>

ValuesOf(s) == [i \in 1..Len(s) |-> value[s[i]]]

S == INSTANCE SortedList WITH list <- ValuesOf(order)

Init ==
  /\ pc = "idle"
  /\ root = NULL
  /\ left = [n \in Nodes |-> NULL]
  /\ right = [n \in Nodes |-> NULL]
  /\ value \in [Nodes -> Values]
  /\ used = {}
  /\ pnode = NULL /\ at = NULL
  /\ stack = <<>> /\ printed = <<>> /\ out = <<>>
  /\ order = <<>>

\* Node n is put in front of (gap = 0) or behind (gap = 1) entry k of s.
Beside(s, k, gap, n) ==
  [j \in 1..(Len(s) + 1) |->
     IF j < k + gap THEN s[j] ELSE IF j = k + gap THEN n ELSE s[j - 1]]

-----------------------------------------------------------------------------
\* push_data: a new node, and push_data_aux for the root.  An empty tree
\* takes the node as it is.
push_data(n, v) ==
  /\ pc = "idle" /\ n \in Nodes \ used
  /\ used' = used \cup {n}
  /\ value' = [value EXCEPT ![n] = v]
  /\ IF root = NULL
     THEN /\ root' = n /\ order' = <<n>>
          /\ UNCHANGED <<pc, pnode, at>>
     ELSE /\ pc' = "push" /\ pnode' = n /\ at' = root
          /\ UNCHANGED <<root, order>>
  /\ UNCHANGED <<left, right, stack, printed, out>>

\* The new node becomes a child of the node where the descent ends.
Link(gap) ==
  /\ pc' = "idle" /\ pnode' = NULL /\ at' = NULL
  /\ order' = LET k == CHOOSE k \in DOMAIN order : order[k] = at
              IN  Beside(order, k, gap, pnode)

\* (faulty variant: root->left is assigned without a look at what it holds)
push_data_auxReplaces ==
  /\ pc = "push"
  /\ \/ /\ value[pnode] < value[at]
        /\ left' = [left EXCEPT ![at] = pnode]
        /\ Link(0) /\ UNCHANGED right
     \/ /\ value[pnode] >= value[at] /\ right[at] = NULL
        /\ right' = [right EXCEPT ![at] = pnode]
        /\ Link(1) /\ UNCHANGED left
     \/ /\ value[pnode] >= value[at] /\ right[at] # NULL
        /\ at' = right[at]
        /\ UNCHANGED <<pc, pnode, left, right, order>>
  /\ UNCHANGED <<root, value, used, stack, printed, out>>

\* (faulty variant: the call for the right child is made for root again)
push_data_auxStays ==
  /\ pc = "push"
  /\ \/ /\ value[pnode] < value[at] /\ left[at] = NULL
        /\ left' = [left EXCEPT ![at] = pnode]
        /\ Link(0) /\ UNCHANGED right
     \/ /\ value[pnode] >= value[at] /\ right[at] = NULL
        /\ right' = [right EXCEPT ![at] = pnode]
        /\ Link(1) /\ UNCHANGED left
     \/ /\ (value[pnode] < value[at] /\ left[at] # NULL)
          \/ (value[pnode] >= value[at] /\ right[at] # NULL)
        /\ at' = IF value[pnode] < value[at] THEN left[at] ELSE at
        /\ UNCHANGED <<pc, pnode, left, right, order>>
  /\ UNCHANGED <<root, value, used, stack, printed, out>>

\* push_data_aux: smaller values go to the left, all others to the right.
push_data_aux ==
  /\ pc = "push"
  /\ \/ /\ value[pnode] < value[at] /\ left[at] = NULL
        /\ left' = [left EXCEPT ![at] = pnode]
        /\ Link(0) /\ UNCHANGED right
     \/ /\ value[pnode] >= value[at] /\ right[at] = NULL
        /\ right' = [right EXCEPT ![at] = pnode]
        /\ Link(1) /\ UNCHANGED left
     \/ /\ at' = IF value[pnode] < value[at] THEN left[at] ELSE right[at]
        /\ at' # NULL
        /\ UNCHANGED <<pc, pnode, left, right, order>>
  /\ UNCHANGED <<root, value, used, stack, printed, out>>

-----------------------------------------------------------------------------
\* preorder_print, which despite its name prints a node between its subtrees.
preorder_print ==
  /\ pc = "idle"
  /\ pc' = "print" /\ at' = root
  /\ stack' = <<>> /\ printed' = <<>>
  /\ UNCHANGED <<tree, pnode, out>>

\* preorder_print_aux of a node: the call for its left child.
print_left ==
  /\ pc = "print" /\ at # NULL
  /\ stack' = Append(stack, at)
  /\ at' = left[at]
  /\ UNCHANGED <<pc, tree, pnode, printed, out>>

\* A call for no node returns: its caller prints and turns to the right.
print_value ==
  /\ pc = "print" /\ at = NULL /\ stack # <<>>
  /\ LET n == stack[Len(stack)]
     IN  /\ printed' = Append(printed, n)
         /\ at' = right[n]
  /\ stack' = SubSeq(stack, 1, Len(stack) - 1)
  /\ UNCHANGED <<pc, tree, pnode, out>>

\* The first call returns.
print_end ==
  /\ pc = "print" /\ at = NULL /\ stack = <<>>
  /\ pc' = "idle"
  /\ out' = ValuesOf(printed)
  /\ printed' = <<>>
  /\ UNCHANGED <<tree, pnode, at, stack>>

Next ==
  \/ \E n \in Nodes, v \in Values : push_data(n, v)
  \/ push_data_aux
  \/ preorder_print \/ print_left \/ print_value \/ print_end

Spec == Init /\ [][Next]_vars

\* A called function runs.
FairSpec ==
  /\ Spec
  /\ WF_vars(push_data_aux)
  /\ WF_vars(print_left \/ print_value \/ print_end)

-----------------------------------------------------------------------------
\* The types of the fields and locals of binary-tree.cpp.
TypeOK ==
  /\ pc \in {"idle", "push", "print"}
  /\ root \in Nodes \cup {NULL}
  /\ left \in [Nodes -> Nodes \cup {NULL}]
  /\ right \in [Nodes -> Nodes \cup {NULL}]
  /\ value \in [Nodes -> Values]
  /\ used \subseteq Nodes
  /\ pnode \in Nodes \cup {NULL}
  /\ at \in Nodes \cup {NULL}
  /\ stack \in Seq(Nodes)
  /\ printed \in Seq(Nodes)
  /\ out \in Seq(Values)
  /\ order \in Seq(Nodes)

\* The tree is a sorted list: a push inserts its value where it belongs,
\* duplicates included, and a print shows all values in ascending order.
ImplementsSorted == S!Spec

\* Every call returns: descents and the walk of the printer end.
CallsReturn == pc \in {"push", "print"} ~> pc = "idle"

\* Why the printer returns: it puts a node on its stack or prints one in every
\* step, and never has more on both than the tree has nodes, so that it needs
\* at most twice as many steps.
Walked == 2 * Len(printed) + Len(stack)
WalkAdvances ==
  [][ (pc = "print" /\ pc' # "idle") =>
        /\ order' = order /\ Walked' = Walked + 1
        /\ Len(printed') + Len(stack') <= Len(order) ]_vars

-----------------------------------------------------------------------------
(* The inductive invariant behind ImplementsSorted.  Every subtree is a    *)
(* stretch of order: pos[n] is the place of node n in it, lo[n] and hi[n]  *)
(* are the first and the last place of the subtree of n.                   *)

\* The nodes that are linked.
Placed == used \ {pnode}

\* order lists each linked node once.
PlaceInv(pos) ==
  /\ \A n \in Placed : pos[n] \in 1..Len(order) /\ order[pos[n]] = n
  /\ \A j \in 1..Len(order) : order[j] \in Placed /\ pos[order[j]] = j

\* The left subtree of a node ends right in front of it, the right one
\* begins right behind it.
SpanInv(pos, lo, hi) ==
  /\ \A n \in Placed : lo[n] <= pos[n] /\ pos[n] <= hi[n]
  /\ \A n \in Placed :
       /\ IF left[n] = NULL THEN lo[n] = pos[n]
          ELSE left[n] \in Placed /\ lo[left[n]] = lo[n] /\ hi[left[n]] = pos[n] - 1
       /\ IF right[n] = NULL THEN hi[n] = pos[n]
          ELSE right[n] \in Placed /\ lo[right[n]] = pos[n] + 1 /\ hi[right[n]] = hi[n]
  /\ \A n \in Nodes \ Placed : left[n] = NULL /\ right[n] = NULL
  /\ IF root = NULL THEN Placed = {}
     ELSE root \in Placed /\ lo[root] = 1 /\ hi[root] = Len(order)

SortedInv ==
  \A j, k \in 1..Len(order) : j <= k => value[order[j]] <= value[order[k]]

\* A descent has left behind what is not larger than the new value, and what
\* is, on the right sides of the subtree it stands at.
PushInv(lo, hi) ==
  /\ pc # "push" => pnode = NULL
  /\ pc = "push" =>
       /\ pnode \in used /\ at \in Placed
       /\ \A j \in 1..Len(order) :
            /\ j < lo[at] => value[order[j]] <= value[pnode]
            /\ j > hi[at] => value[pnode] < value[order[j]]

\* The last place before the node that the call stack[k] will print.
Limit(pos, k) == IF k = 0 THEN Len(order) ELSE pos[stack[k]] - 1

\* What is printed is the beginning of order; the subtree the printer stands
\* at comes next, and after it the nodes on the stack with their right
\* subtrees, the last one first.
PrintInv(pos, lo, hi) ==
  pc = "print" =>
    /\ Len(printed) <= Len(order)
    /\ \A j \in 1..Len(printed) : printed[j] = order[j]
    /\ \A j \in 1..Len(stack) : stack[j] \in Placed /\ hi[stack[j]] = Limit(pos, j - 1)
    /\ \A j \in 1..Len(stack) : pos[stack[j]] + j <= Len(order) + 1
    /\ IF at = NULL THEN Len(printed) = Limit(pos, Len(stack))
       ELSE at \in Placed /\ lo[at] = Len(printed) + 1 /\ hi[at] = Limit(pos, Len(stack))

ShapeInv(pos, lo, hi) ==
  PlaceInv(pos) /\ SpanInv(pos, lo, hi) /\ PushInv(lo, hi) /\ PrintInv(pos, lo, hi)

TreeInv ==
  /\ TypeOK
  /\ SortedInv
  /\ \E pos, lo, hi \in [Nodes -> Int] : ShapeInv(pos, lo, hi)

\* Why push_data_aux returns: whatever stretches describe the tree, they go on
\* doing so during a descent, and each further call stands at a shorter one.
PushNarrows ==
  [][ (pc = "push" /\ pc' # "idle") =>
        \A pos, lo, hi \in [Nodes -> Int] :
          ShapeInv(pos, lo, hi) =>
            /\ ShapeInv(pos, lo, hi)' /\ lo[at'] <= hi[at']
            /\ hi[at'] - lo[at'] < hi[at] - lo[at] ]_vars
=============================================================================
