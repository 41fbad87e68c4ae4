-------------------------- MODULE BinaryTreeProofs --------------------------
(***************************************************************************)
(* A theorem about BinaryTree, for any values and any number of nodes: the *)
(* tree implements SortedList.  No induction over trees is needed: TreeInv *)
(* knows a subtree as a stretch of order, and every step of a descent or a *)
(* walk is a statement about the two ends of one stretch.                  *)
(***************************************************************************)
EXTENDS BinaryTree, SequenceTheorems, TLAPS

(* Sequences --------------------------------------------------------------*)

\* t is s with one node more, at place g; what comes after it moves up.
Grown(t, s, g, n) ==
  /\ t \in Seq(Nodes) /\ Len(t) = Len(s) + 1
  /\ \A j \in 1..(Len(s) + 1) :
       t[j] = IF j < g THEN s[j] ELSE IF j = g THEN n ELSE s[j - 1]

\* Beside puts the node there.
LEMMA BesideFacts ==
  ASSUME NEW s \in Seq(Nodes), NEW k \in 1..Len(s), NEW gap \in {0, 1}, NEW n \in Nodes,
         NEW t, t = Beside(s, k, gap, n)
  PROVE  Grown(t, s, k + gap, n)
<1> DEFINE len == Len(s)
<1>1. len \in Nat /\ \A j \in 1..len : s[j] \in Nodes
  BY ElementOfSeq
<1>2. \A j \in 1..(len + 1) : j < k + gap => j \in 1..len
  BY <1>1
<1>3. \A j \in 1..(len + 1) : ~(j < k + gap) /\ j # k + gap => j - 1 \in 1..len
  BY <1>1
<1>4. t \in [1..(len + 1) -> Nodes]
  BY <1>1, <1>2, <1>3 DEF Beside
<1>5. t \in Seq(Nodes) /\ Len(t) = len + 1
  BY <1>1, <1>4, LenProperties, SeqDef
<1>. QED BY <1>5 DEF Beside, Grown

\* CHOOSE finds the one place of a linked node.
LEMMA PlaceOf ==
  ASSUME NEW pos, PlaceInv(pos), NEW n \in Placed, order \in Seq(Nodes)
  PROVE  (CHOOSE k \in DOMAIN order : order[k] = n) = pos[n]
<1>1. DOMAIN order = 1..Len(order)
  OBVIOUS
<1>2. pos[n] \in DOMAIN order /\ order[pos[n]] = n
  BY <1>1 DEF PlaceInv
<1>3. \A k \in DOMAIN order : order[k] = n => k = pos[n]
  BY <1>1 DEF PlaceInv
<1>. QED BY <1>2, <1>3

\* Values are compared as integers.
LEMMA ValueInt ==
  ASSUME NEW f \in [Nodes -> Values], NEW n \in Nodes
  PROVE  f[n] \in Int
<1>1. f[n] \in Values
  OBVIOUS
<1>. QED BY <1>1, TreeAssumption

(* push_data --------------------------------------------------------------*)

\* The first node is the tree; for another one a descent begins.
LEMMA PushDataInv ==
  ASSUME TreeInv, NEW n \in Nodes, NEW v \in Values, push_data(n, v)
  PROVE  TreeInv'
<1>1. PICK pos \in [Nodes -> Int], lo \in [Nodes -> Int], hi \in [Nodes -> Int] :
        ShapeInv(pos, lo, hi)
  BY DEF TreeInv
<1>2. /\ TypeOK /\ pc = "idle" /\ n \notin used /\ used' = used \cup {n}
      /\ value' = [value EXCEPT ![n] = v] /\ left' = left /\ right' = right
      /\ stack' = stack /\ printed' = printed /\ out' = out
  BY DEF TreeInv, push_data
<1>3. pnode = NULL /\ Placed = used /\ n # NULL
  BY <1>1, <1>2, TreeAssumption DEF ShapeInv, PushInv, Placed, TypeOK
<1>4. value' \in [Nodes -> Values] /\ used' \subseteq Nodes
  BY <1>2 DEF TypeOK
<1>5. CASE root = NULL
  <2>1. root' = n /\ order' = <<n>> /\ pc' = pc /\ pnode' = pnode /\ at' = at
    BY <1>5 DEF push_data
  <2>2. Placed = {} /\ Placed' = {n} /\ n \in Placed'
    BY <1>1, <1>2, <1>3, <1>5, <2>1 DEF ShapeInv, SpanInv, Placed
  <2>3. order' \in Seq(Nodes) /\ Len(order') = 1 /\ order'[1] = n
    BY <2>1
  <2>4. TypeOK'
    BY <1>2, <1>4, <2>1, <2>3 DEF TypeOK
  <2>5. SortedInv'
    <3>1. value'[n] \in Int /\ value'[n] <= value'[n]
      BY <1>4, ValueInt
    <3>2. \A j \in 1..Len(order') : order'[j] = n
      BY <2>3
    <3>. QED BY <3>1, <3>2 DEF SortedInv
  <2> DEFINE one == [m \in Nodes |-> 1]
  <2>6. one \in [Nodes -> Int] /\ one[n] = 1
    OBVIOUS
  <2>. HIDE DEF one
  <2>7. PlaceInv(one)'
    BY <2>2, <2>3, <2>6 DEF PlaceInv
  <2>8. SpanInv(one, one, one)'
    <3>1. \A m \in Nodes : left[m] = NULL /\ right[m] = NULL
      BY <1>1, <2>2 DEF ShapeInv, SpanInv
    <3>. QED BY <1>2, <1>3, <2>1, <2>2, <2>3, <2>6, <3>1 DEF SpanInv
  <2>9. PushInv(one, one)' /\ PrintInv(one, one, one)'
    BY <1>2, <1>3, <2>1 DEF PushInv, PrintInv
  <2>. QED BY <2>4, <2>5, <2>6, <2>7, <2>8, <2>9 DEF TreeInv, ShapeInv
<1>6. CASE root # NULL
  <2>1. pc' = "push" /\ pnode' = n /\ at' = root /\ root' = root /\ order' = order
    BY <1>6 DEF push_data
  <2>2. Placed' = Placed
    BY <1>2, <1>3, <2>1 DEF Placed
  <2>3. TypeOK'
    BY <1>2, <1>4, <2>1 DEF TypeOK
  <2>4. \A j \in 1..Len(order) : order[j] \in Nodes /\ order[j] # n
    BY <1>1, <1>2, <1>3 DEF ShapeInv, PlaceInv, TypeOK
  <2>5. \A j \in 1..Len(order) : value'[order[j]] = value[order[j]]
    BY <1>2, <2>4 DEF TypeOK
  <2>6. SortedInv'
    BY <2>1, <2>5 DEF TreeInv, SortedInv
  <2>7. PlaceInv(pos)' /\ SpanInv(pos, lo, hi)'
    BY <1>1, <1>2, <2>1, <2>2 DEF ShapeInv, PlaceInv, SpanInv
  <2>8. PushInv(lo, hi)'
    <3>1. root \in Placed /\ lo[root] = 1 /\ hi[root] = Len(order) /\ Len(order) \in Nat
      BY <1>1, <1>2, <1>6 DEF ShapeInv, SpanInv, TypeOK
    <3>2. \A j \in 1..Len(order) : ~(j < lo[root]) /\ ~(j > hi[root])
      BY <3>1
    <3>. QED BY <1>2, <2>1, <2>2, <3>1, <3>2 DEF PushInv
  <2>9. PrintInv(pos, lo, hi)'
    BY <2>1 DEF PrintInv
  <2>. QED BY <2>3, <2>6, <2>7, <2>8, <2>9 DEF TreeInv, ShapeInv
<1>. QED BY <1>5, <1>6

(* push_data_aux ----------------------------------------------------------*)

\* In a sorted tree a comparison with one node settles all on one side of it.
LEMMA DescendShape ==
  ASSUME TreeInv, push_data_aux,
         at' = IF value[pnode] < value[at] THEN left[at] ELSE right[at],
         at' # NULL, UNCHANGED <<pc, pnode, left, right, order>>,
         NEW pos \in [Nodes -> Int], NEW lo \in [Nodes -> Int], NEW hi \in [Nodes -> Int],
         ShapeInv(pos, lo, hi)
  PROVE  /\ TypeOK' /\ SortedInv' /\ ShapeInv(pos, lo, hi)'
         /\ lo[at'] <= hi[at'] /\ hi[at'] - lo[at'] < hi[at] - lo[at]
<1>1. ShapeInv(pos, lo, hi)
  OBVIOUS
<1>2. /\ TypeOK /\ SortedInv /\ pc = "push" /\ Placed' = Placed
      /\ UNCHANGED <<root, value, used, stack, printed, out>>
  BY DEF TreeInv, push_data_aux, Placed
<1>3. pnode \in Nodes /\ at \in Placed /\ at \in Nodes
  BY <1>1, <1>2 DEF ShapeInv, PushInv, Placed, TypeOK
<1>4. at' \in Placed
  BY <1>1, <1>3 DEF ShapeInv, SpanInv
<1>5. TypeOK'
  BY <1>2, <1>4 DEF TypeOK, Placed
<1>6. SortedInv' /\ PlaceInv(pos)' /\ SpanInv(pos, lo, hi)' /\ PrintInv(pos, lo, hi)'
  BY <1>1, <1>2 DEF SortedInv, ShapeInv, PlaceInv, SpanInv, PrintInv
<1>7. /\ pos[at] \in 1..Len(order) /\ order[pos[at]] = at /\ Len(order) \in Nat
      /\ value[pnode] \in Int /\ value[at] \in Int
      /\ \A j \in 1..Len(order) : value[order[j]] \in Int
  <2>1. \A j \in 1..Len(order) : order[j] \in Nodes
    BY <1>2, ElementOfSeq DEF TypeOK
  <2>2. value[pnode] \in Int /\ value[at] \in Int
    BY <1>2, <1>3, ValueInt DEF TypeOK
  <2>3. \A j \in 1..Len(order) : value[order[j]] \in Int
    BY <1>2, <2>1, ValueInt DEF TypeOK
  <2>4. Len(order) \in Nat
    BY <1>2 DEF TypeOK
  <2>5. pos[at] \in 1..Len(order) /\ order[pos[at]] = at
    BY <1>1, <1>3 DEF ShapeInv, PlaceInv
  <2>. QED BY <2>2, <2>3, <2>4, <2>5
<1>8. /\ lo[at] \in Int /\ hi[at] \in Int /\ lo[at'] \in Int /\ hi[at'] \in Int
       /\ lo[at] <= pos[at] /\ pos[at] <= hi[at] /\ lo[at'] <= hi[at']
  <2>1. at' \in Nodes
    BY <1>2, <1>4 DEF Placed, TypeOK
  <2>2. /\ lo[at] <= pos[at] /\ pos[at] <= hi[at]
        /\ lo[at'] <= pos[at'] /\ pos[at'] <= hi[at']
    BY <1>1, <1>3, <1>4 DEF ShapeInv, SpanInv
  <2>3. pos[at'] \in Int /\ lo[at'] \in Int /\ hi[at'] \in Int /\ lo[at] \in Int /\ hi[at] \in Int
    BY <1>3, <2>1
  <2>. QED BY <2>2, <2>3
<1>9. CASE value[pnode] < value[at]
  <2>1. lo[at'] = lo[at] /\ hi[at'] = pos[at] - 1
    BY <1>1, <1>3, <1>9 DEF ShapeInv, SpanInv
  <2>2. \A j \in 1..Len(order) : j < lo[at] => value[order[j]] <= value[pnode]
    BY <1>1, <1>2 DEF ShapeInv, PushInv
  <2>3. ASSUME NEW j \in 1..Len(order), j > pos[at] - 1
        PROVE  value[pnode] < value[order[j]]
    <3>1. pos[at] <= j
      BY <1>7, <2>3
    <3>2. value[at] <= value[order[j]]
      BY <1>2, <1>7, <3>1 DEF SortedInv
    <3>. QED BY <1>7, <1>9, <3>2
  <2>4. PushInv(lo, hi)'
    BY <1>1, <1>2, <1>4, <2>1, <2>2, <2>3 DEF ShapeInv, PushInv
  <2>5. hi[at'] - lo[at'] < hi[at] - lo[at]
    BY <1>7, <1>8, <2>1
  <2>. QED BY <1>5, <1>6, <1>8, <2>4, <2>5 DEF ShapeInv
<1>10. CASE ~(value[pnode] < value[at])
  <2>1. lo[at'] = pos[at] + 1 /\ hi[at'] = hi[at]
    BY <1>1, <1>3, <1>10 DEF ShapeInv, SpanInv
  <2>2. \A j \in 1..Len(order) : j > hi[at] => value[pnode] < value[order[j]]
    BY <1>1, <1>2 DEF ShapeInv, PushInv
  <2>3. ASSUME NEW j \in 1..Len(order), j < pos[at] + 1
        PROVE  value[order[j]] <= value[pnode]
    <3>1. j <= pos[at]
      BY <1>7, <2>3
    <3>2. value[order[j]] <= value[at]
      BY <1>2, <1>7, <3>1 DEF SortedInv
    <3>. QED BY <1>7, <1>10, <3>2
  <2>4. PushInv(lo, hi)'
    BY <1>1, <1>2, <1>4, <2>1, <2>2, <2>3 DEF ShapeInv, PushInv
  <2>5. hi[at'] - lo[at'] < hi[at] - lo[at]
    BY <1>7, <1>8, <2>1
  <2>. QED BY <1>5, <1>6, <1>8, <2>4, <2>5 DEF ShapeInv
<1>. QED BY <1>9, <1>10

LEMMA DescendInv ==
  ASSUME TreeInv, push_data_aux,
         at' = IF value[pnode] < value[at] THEN left[at] ELSE right[at],
         at' # NULL, UNCHANGED <<pc, pnode, left, right, order>>
  PROVE  TreeInv'
<1>1. PICK pos \in [Nodes -> Int], lo \in [Nodes -> Int], hi \in [Nodes -> Int] :
        ShapeInv(pos, lo, hi)
  BY DEF TreeInv
<1>2. TypeOK' /\ SortedInv' /\ ShapeInv(pos, lo, hi)'
  BY <1>1, DescendShape
<1>. QED BY <1>2 DEF TreeInv

\* What a node linked at the end of a descent finds: no larger value before
\* it, larger ones behind it.
LEMMA LinkPlace ==
  ASSUME TypeOK, SortedInv, pc = "push",
         NEW pos \in [Nodes -> Int], NEW lo \in [Nodes -> Int], NEW hi \in [Nodes -> Int],
         ShapeInv(pos, lo, hi), NEW gap \in {0, 1}, Link(gap),
         gap = 0 => value[pnode] < value[at] /\ left[at] = NULL,
         gap = 1 => value[pnode] >= value[at] /\ right[at] = NULL
  PROVE  /\ pnode \in Nodes /\ at \in Placed /\ at \in Nodes
         /\ pos[at] \in 1..Len(order) /\ Len(order) \in Nat
         /\ order' = Beside(order, pos[at], gap, pnode)
         /\ \A j \in 1..Len(order) :
              /\ j < pos[at] + gap => value[order[j]] <= value[pnode]
              /\ j >= pos[at] + gap => value[pnode] < value[order[j]]
<1>1. pnode \in Nodes /\ at \in Placed /\ at \in Nodes
  BY DEF ShapeInv, PushInv, Placed, TypeOK
<1>2. /\ pos[at] \in 1..Len(order) /\ order[pos[at]] = at /\ Len(order) \in Nat
      /\ pos[at] \in Int
  <2>1. Len(order) \in Nat
    BY DEF TypeOK
  <2>2. pos[at] \in 1..Len(order) /\ order[pos[at]] = at
    BY <1>1 DEF ShapeInv, PlaceInv
  <2>. QED BY <1>1, <2>1, <2>2
<1>3. order' = Beside(order, pos[at], gap, pnode)
  BY <1>1, PlaceOf DEF Link, ShapeInv, TypeOK
<1>4. \A j \in 1..Len(order) : value[order[j]] \in Int
  BY ElementOfSeq, ValueInt DEF TypeOK
<1>5. value[pnode] \in Int /\ value[at] \in Int
  BY <1>1, ValueInt DEF TypeOK
<1>6. ASSUME NEW j \in 1..Len(order), j < pos[at] + gap PROVE value[order[j]] <= value[pnode]
  <2>1. CASE gap = 0
    <3>1. lo[at] = pos[at]
      BY <1>1, <2>1 DEF ShapeInv, SpanInv
    <3>2. j < lo[at]
      BY <1>2, <1>6, <2>1, <3>1
    <3>. QED BY <3>2 DEF ShapeInv, PushInv
  <2>2. CASE gap = 1
    <3>1. j <= pos[at]
      BY <1>2, <1>6, <2>2
    <3>2. value[order[j]] <= value[at]
      BY <1>2, <3>1 DEF SortedInv
    <3>. QED BY <1>4, <1>5, <2>2, <3>2
  <2>. QED BY <2>1, <2>2
<1>7. ASSUME NEW j \in 1..Len(order), j >= pos[at] + gap PROVE value[pnode] < value[order[j]]
  <2>1. CASE gap = 0
    <3>1. pos[at] <= j
      BY <1>2, <1>7, <2>1
    <3>2. value[at] <= value[order[j]]
      BY <1>2, <3>1 DEF SortedInv
    <3>. QED BY <1>4, <1>5, <2>1, <3>2
  <2>2. CASE gap = 1
    <3>1. hi[at] = pos[at]
      BY <1>1, <2>2 DEF ShapeInv, SpanInv
    <3>2. j > hi[at]
      BY <1>2, <1>7, <2>2, <3>1
    <3>. QED BY <3>2 DEF ShapeInv, PushInv
  <2>. QED BY <2>1, <2>2
<1>. QED BY <1>1, <1>2, <1>3, <1>6, <1>7

\* The new leaf takes its place in order, and with it the stretches of all
\* subtrees around it grow by one.
LEMMA LinkInv ==
  ASSUME TreeInv, pc = "push", NEW gap \in {0, 1}, Link(gap),
         UNCHANGED <<root, value, used, stack, printed, out>>,
         gap = 0 => /\ value[pnode] < value[at] /\ left[at] = NULL
                    /\ left' = [left EXCEPT ![at] = pnode] /\ right' = right,
         gap = 1 => /\ value[pnode] >= value[at] /\ right[at] = NULL
                    /\ right' = [right EXCEPT ![at] = pnode] /\ left' = left
  PROVE  TreeInv'
<1>1. PICK pos \in [Nodes -> Int], lo \in [Nodes -> Int], hi \in [Nodes -> Int] :
        ShapeInv(pos, lo, hi)
  BY DEF TreeInv
<1>2. TypeOK /\ SortedInv
  BY DEF TreeInv
<1>3. /\ pnode \in Nodes /\ at \in Placed /\ at \in Nodes
      /\ pos[at] \in 1..Len(order) /\ Len(order) \in Nat
      /\ order' = Beside(order, pos[at], gap, pnode)
  BY <1>1, <1>2, LinkPlace
<1>4. \A j \in 1..Len(order) :
        /\ j < pos[at] + gap => value[order[j]] <= value[pnode]
        /\ j >= pos[at] + gap => value[pnode] < value[order[j]]
  BY <1>1, <1>2, LinkPlace
<1>5. PICK k \in Int : k = pos[at]
  BY <1>3
<1>6. PICK len \in Nat : len = Len(order)
  BY <1>3
<1>7. k \in 1..len
  BY <1>3, <1>5, <1>6
<1>8. /\ order' \in Seq(Nodes) /\ Len(order') = len + 1
      /\ \A j \in 1..(len + 1) :
           order'[j] = IF j < k + gap THEN order[j]
                       ELSE IF j = k + gap THEN pnode ELSE order[j - 1]
  <2>1. order \in Seq(Nodes) /\ k \in 1..Len(order) /\ pnode \in Nodes
    BY <1>2, <1>3, <1>5 DEF TypeOK
  <2>2. PICK t : t = order'
    OBVIOUS
  <2>3. t = Beside(order, k, gap, pnode)
    BY <1>3, <1>5, <2>2
  <2>4. Grown(t, order, k + gap, pnode)
    BY <2>1, <2>3, BesideFacts
  <2>. QED BY <1>6, <2>2, <2>4 DEF Grown
<1>9. /\ pc' = "idle" /\ pnode' = NULL /\ at' = NULL
      /\ Placed' = Placed \cup {pnode} /\ pnode \notin Placed /\ at # pnode
  <2>1. pc' = "idle" /\ pnode' = NULL /\ at' = NULL
    BY DEF Link
  <2>2. NULL \notin used /\ pnode \in used
    BY <1>1, <1>2, TreeAssumption DEF ShapeInv, PushInv, TypeOK
  <2>. QED BY <1>3, <2>1, <2>2 DEF Placed
<1>10. TypeOK'
  <2>1. left' \in [Nodes -> Nodes \cup {NULL}] /\ right' \in [Nodes -> Nodes \cup {NULL}]
    BY <1>2, <1>3 DEF TypeOK
  <2>. QED BY <1>2, <1>8, <1>9, <2>1 DEF TypeOK
<1>11. SortedInv'
  <2>1. ASSUME NEW j \in 1..(len + 1), NEW h \in 1..(len + 1), j <= h
        PROVE  value[order'[j]] <= value[order'[h]]
    <3>1. /\ \A i \in 1..len : value[order[i]] \in Int
          /\ value[pnode] \in Int
      BY <1>2, <1>3, <1>6, ElementOfSeq, ValueInt DEF TypeOK
    <3>2. \A a, b \in 1..len : a <= b => value[order[a]] <= value[order[b]]
      BY <1>2, <1>6 DEF SortedInv
    <3>3. CASE h < k + gap
      <4>1. j < k + gap /\ j \in 1..len /\ h \in 1..len
        BY <1>7, <2>1, <3>3
      <4>. QED BY <1>8, <2>1, <3>2, <3>3, <4>1
    <3>4. CASE h = k + gap /\ j < h
      <4>1. j < k + gap /\ j \in 1..len /\ ~(h < k + gap)
        BY <1>7, <2>1, <3>4
      <4>. QED BY <1>4, <1>5, <1>6, <1>8, <2>1, <3>4, <4>1
    <3>5. CASE h = j
      <4>1. value[order'[j]] \in Int
        <5>1. order'[j] \in Nodes
          BY <1>8, ElementOfSeq
        <5>. QED BY <1>2, <5>1, ValueInt DEF TypeOK
      <4>. QED BY <3>5, <4>1
    <3>6. CASE h > k + gap /\ j < k + gap
      <4>1. j \in 1..len /\ h - 1 \in 1..len /\ j <= h - 1 /\ ~(h < k + gap) /\ h # k + gap
        BY <1>7, <2>1, <3>6
      <4>. QED BY <1>8, <2>1, <3>2, <3>6, <4>1
    <3>7. CASE h > k + gap /\ j = k + gap
      <4>1. /\ h - 1 \in 1..len /\ h - 1 >= k + gap /\ ~(h < k + gap) /\ h # k + gap
            /\ ~(j < k + gap)
        BY <1>7, <2>1, <3>7
      <4>2. value[pnode] < value[order[h - 1]]
        BY <1>4, <1>5, <1>6, <4>1
      <4>3. order'[h] = order[h - 1] /\ order'[j] = pnode
        BY <1>8, <2>1, <3>7, <4>1
      <4>4. value[order[h - 1]] \in Int
        BY <3>1, <4>1
      <4>. QED BY <3>1, <4>2, <4>3, <4>4
    <3>8. CASE h > k + gap /\ j > k + gap
      <4>1. /\ j - 1 \in 1..len /\ h - 1 \in 1..len /\ j - 1 <= h - 1
            /\ ~(h < k + gap) /\ h # k + gap /\ ~(j < k + gap) /\ j # k + gap
        BY <1>7, <2>1, <3>8
      <4>. QED BY <1>8, <2>1, <3>2, <4>1
    <3>9. h < k + gap \/ (h = k + gap /\ j < h) \/ h = j \/ (h > k + gap)
      BY <1>7, <2>1
    <3>10. j < k + gap \/ j = k + gap \/ j > k + gap
      BY <1>7, <2>1
    <3>. QED BY <3>3, <3>4, <3>5, <3>6, <3>7, <3>8, <3>9, <3>10
  <2>. QED BY <1>8, <2>1 DEF SortedInv
<1> DEFINE pos2 == [m \in Nodes |-> IF m = pnode THEN k + gap
                                    ELSE IF pos[m] >= k + gap THEN pos[m] + 1 ELSE pos[m]]
           lo2 == [m \in Nodes |-> IF m = pnode THEN k + gap
                                   ELSE IF lo[m] > k THEN lo[m] + 1 ELSE lo[m]]
           hi2 == [m \in Nodes |-> IF m = pnode THEN k + gap
                                   ELSE IF hi[m] >= k THEN hi[m] + 1 ELSE hi[m]]
<1>12. PICK P \in [Nodes -> Int] : P = pos2
  <2>1. k + gap \in Int /\ \A m \in Nodes : pos[m] \in Int /\ pos[m] + 1 \in Int
    OBVIOUS
  <2>2. pos2 \in [Nodes -> Int]
    BY <2>1
  <2>. QED BY <2>2
<1>13. PICK L \in [Nodes -> Int] : L = lo2
  <2>1. k + gap \in Int /\ \A m \in Nodes : lo[m] \in Int /\ lo[m] + 1 \in Int
    OBVIOUS
  <2>2. lo2 \in [Nodes -> Int]
    BY <2>1
  <2>. QED BY <2>2
<1>14. PICK H \in [Nodes -> Int] : H = hi2
  <2>1. k + gap \in Int /\ \A m \in Nodes : hi[m] \in Int /\ hi[m] + 1 \in Int
    OBVIOUS
  <2>2. hi2 \in [Nodes -> Int]
    BY <2>1
  <2>. QED BY <2>2
<1>15. P[pnode] = k + gap /\ L[pnode] = k + gap /\ H[pnode] = k + gap
  BY <1>3, <1>12, <1>13, <1>14
<1>16. ASSUME NEW m \in Placed
       PROVE  /\ m \in Nodes /\ pos[m] \in Int /\ lo[m] \in Int /\ hi[m] \in Int
              /\ P[m] = IF pos[m] >= k + gap THEN pos[m] + 1 ELSE pos[m]
              /\ L[m] = IF lo[m] > k THEN lo[m] + 1 ELSE lo[m]
              /\ H[m] = IF hi[m] >= k THEN hi[m] + 1 ELSE hi[m]
  <2>1. m \in Nodes /\ m # pnode
    BY <1>2, <1>9 DEF Placed, TypeOK
  <2>. QED BY <1>12, <1>13, <1>14, <2>1
<1>. HIDE DEF pos2, lo2, hi2
<1>17. ASSUME NEW m \in Placed, m # at PROVE pos[m] # k
  <2>1. order[pos[m]] = m /\ order[pos[at]] = at
    BY <1>1, <1>3 DEF ShapeInv, PlaceInv
  <2>. QED BY <1>5, <1>17, <2>1
<1>18. PlaceInv(P)'
  <2>1. ASSUME NEW m \in Placed' PROVE P[m] \in 1..(len + 1) /\ order'[P[m]] = m
    <3>1. CASE m = pnode
      <4>1. k + gap \in 1..(len + 1) /\ ~(k + gap < k + gap)
        BY <1>7
      <4>. QED BY <1>8, <1>15, <3>1, <4>1
    <3>2. CASE m \in Placed
      <4>1. pos[m] \in 1..len /\ order[pos[m]] = m
        BY <1>1, <1>6, <3>2 DEF ShapeInv, PlaceInv
      <4>2. CASE pos[m] >= k + gap
        <5>1. P[m] = pos[m] + 1
          BY <1>16, <3>2, <4>2
        <5>2. /\ pos[m] + 1 \in 1..(len + 1) /\ ~(pos[m] + 1 < k + gap)
              /\ pos[m] + 1 # k + gap /\ pos[m] + 1 - 1 = pos[m]
          BY <1>7, <4>1, <4>2
        <5>3. PICK i \in 1..(len + 1) : i = pos[m] + 1
          BY <5>2
        <5>4. i - 1 = pos[m] /\ ~(i < k + gap) /\ i # k + gap
          BY <4>1, <5>2, <5>3
        <5>5. order'[i] = order[i - 1]
          BY <1>8, <5>4
        <5>. QED BY <4>1, <5>1, <5>2, <5>3, <5>4, <5>5
      <4>3. CASE pos[m] < k + gap
        <5>1. P[m] = pos[m]
          BY <1>7, <1>16, <3>2, <4>3
        <5>2. pos[m] \in 1..(len + 1)
          BY <4>1
        <5>. QED BY <1>8, <4>1, <4>3, <5>1, <5>2
      <4>4. pos[m] >= k + gap \/ pos[m] < k + gap
        BY <1>7, <4>1
      <4>. QED BY <4>2, <4>3, <4>4
    <3>. QED BY <1>9, <2>1, <3>1, <3>2
  <2>2. ASSUME NEW j \in 1..(len + 1) PROVE order'[j] \in Placed' /\ P[order'[j]] = j
    <3>0. \A i \in 1..len : order[i] \in Placed /\ pos[order[i]] = i
      BY <1>1, <1>6 DEF ShapeInv, PlaceInv
    <3>1. CASE j < k + gap
      <4>1. j \in 1..len /\ ~(j >= k + gap)
        BY <1>7, <3>1
      <4>2. order'[j] = order[j] /\ order[j] \in Placed /\ pos[order[j]] = j
        BY <1>8, <3>0, <3>1, <4>1
      <4>. QED BY <1>9, <1>16, <4>1, <4>2
    <3>2. CASE j = k + gap
      <4>1. ~(j < k + gap)
        BY <1>7, <3>2
      <4>. QED BY <1>8, <1>9, <1>15, <3>2, <4>1
    <3>3. CASE j > k + gap
      <4>1. j - 1 \in 1..len /\ ~(j < k + gap) /\ j # k + gap /\ j - 1 >= k + gap /\ j - 1 + 1 = j
        BY <1>7, <3>3
      <4>2. order'[j] = order[j - 1] /\ order[j - 1] \in Placed /\ pos[order[j - 1]] = j - 1
        BY <1>8, <3>0, <4>1
      <4>. QED BY <1>9, <1>16, <4>1, <4>2
    <3>. QED BY <1>7, <3>1, <3>2, <3>3
  <2>. QED BY <1>8, <2>1, <2>2 DEF PlaceInv
<1>19. ASSUME NEW m \in Placed'
       PROVE  /\ IF left'[m] = NULL THEN L[m] = P[m]
                 ELSE left'[m] \in Placed' /\ L[left'[m]] = L[m] /\ H[left'[m]] = P[m] - 1
              /\ IF right'[m] = NULL THEN H[m] = P[m]
                 ELSE right'[m] \in Placed' /\ L[right'[m]] = P[m] + 1 /\ H[right'[m]] = H[m]
  <2>1. CASE m = pnode
    <3>1. left[pnode] = NULL /\ right[pnode] = NULL
      BY <1>1, <1>3, <1>9 DEF ShapeInv, SpanInv
    <3>2. left'[pnode] = NULL /\ right'[pnode] = NULL
      BY <1>2, <1>3, <1>9, <3>1 DEF TypeOK
    <3>. QED BY <1>15, <2>1, <3>2
  <2>2. CASE m \in Placed
    <3>0. pnode \in Placed' /\ pnode # NULL /\ m \in Nodes
      BY <1>3, <1>9, <1>16, <2>2, TreeAssumption
    <3>1. /\ IF left[m] = NULL THEN lo[m] = pos[m]
             ELSE left[m] \in Placed /\ lo[left[m]] = lo[m] /\ hi[left[m]] = pos[m] - 1
          /\ IF right[m] = NULL THEN hi[m] = pos[m]
             ELSE right[m] \in Placed /\ lo[right[m]] = pos[m] + 1 /\ hi[right[m]] = hi[m]
      BY <1>1, <2>2 DEF ShapeInv, SpanInv
    <3>2. IF left'[m] = NULL THEN L[m] = P[m]
          ELSE left'[m] \in Placed' /\ L[left'[m]] = L[m] /\ H[left'[m]] = P[m] - 1
      <4>1. CASE gap = 0 /\ m = at
        <5>1. left'[m] = pnode /\ lo[m] = k /\ pos[m] = k
          BY <1>2, <1>3, <1>5, <3>1, <4>1 DEF TypeOK
        <5>2. L[m] = k /\ P[m] = k + 1
          BY <1>7, <1>16, <2>2, <4>1, <5>1
        <5>. QED BY <1>7, <1>15, <3>0, <4>1, <5>1, <5>2
      <4>2. CASE ~(gap = 0 /\ m = at)
        <5>1. left'[m] = left[m]
          BY <1>2, <3>0, <4>2 DEF TypeOK
        <5>2. pos[m] # k \/ gap = 1
          BY <1>17, <2>2, <4>2
        <5>3. CASE left[m] = NULL
          BY <1>7, <1>16, <2>2, <3>1, <5>1, <5>2, <5>3
        <5>4. CASE left[m] # NULL
          <6>1. left[m] \in Placed /\ lo[left[m]] = lo[m] /\ hi[left[m]] = pos[m] - 1
            BY <3>1, <5>4
          <6>2. L[left[m]] = L[m]
            BY <1>16, <2>2, <6>1
          <6>3. H[left[m]] = IF pos[m] - 1 >= k THEN pos[m] - 1 + 1 ELSE pos[m] - 1
            BY <1>16, <6>1
          <6>4. P[m] = (IF pos[m] >= k + gap THEN pos[m] + 1 ELSE pos[m]) /\ pos[m] \in Int
            BY <1>16, <2>2
          <6>5. H[left[m]] = P[m] - 1
            BY <1>7, <5>2, <6>3, <6>4
          <6>. QED BY <1>9, <5>1, <5>4, <6>1, <6>2, <6>5
        <5>. QED BY <5>3, <5>4
      <4>. QED BY <4>1, <4>2
    <3>3. IF right'[m] = NULL THEN H[m] = P[m]
          ELSE right'[m] \in Placed' /\ L[right'[m]] = P[m] + 1 /\ H[right'[m]] = H[m]
      <4>1. CASE gap = 1 /\ m = at
        <5>1. right'[m] = pnode /\ hi[m] = k /\ pos[m] = k
          BY <1>2, <1>3, <1>5, <3>1, <4>1 DEF TypeOK
        <5>2. H[m] = k + 1 /\ P[m] = k
          BY <1>7, <1>16, <2>2, <4>1, <5>1
        <5>. QED BY <1>7, <1>15, <3>0, <4>1, <5>1, <5>2
      <4>2. CASE ~(gap = 1 /\ m = at)
        <5>1. right'[m] = right[m]
          BY <1>2, <3>0, <4>2 DEF TypeOK
        <5>2. pos[m] # k \/ gap = 0
          BY <1>17, <2>2, <4>2
        <5>3. CASE right[m] = NULL
          BY <1>7, <1>16, <2>2, <3>1, <5>1, <5>2, <5>3
        <5>4. CASE right[m] # NULL
          <6>1. right[m] \in Placed /\ lo[right[m]] = pos[m] + 1 /\ hi[right[m]] = hi[m]
            BY <3>1, <5>4
          <6>2. H[right[m]] = H[m]
            BY <1>16, <2>2, <6>1
          <6>3. L[right[m]] = IF pos[m] + 1 > k THEN pos[m] + 1 + 1 ELSE pos[m] + 1
            BY <1>16, <6>1
          <6>4. P[m] = (IF pos[m] >= k + gap THEN pos[m] + 1 ELSE pos[m]) /\ pos[m] \in Int
            BY <1>16, <2>2
          <6>5. L[right[m]] = P[m] + 1
            BY <1>7, <5>2, <6>3, <6>4
          <6>. QED BY <1>9, <5>1, <5>4, <6>1, <6>2, <6>5
        <5>. QED BY <5>3, <5>4
      <4>. QED BY <4>1, <4>2
    <3>. QED BY <3>2, <3>3
  <2>. QED BY <1>9, <1>19, <2>1, <2>2
<1>20. SpanInv(P, L, H)'
  <2>3. ASSUME NEW m \in Placed' PROVE L[m] <= P[m] /\ P[m] <= H[m]
    <3>1. CASE m = pnode
      BY <1>7, <1>15, <3>1
    <3>2. CASE m \in Placed
      <4>1. lo[m] <= pos[m] /\ pos[m] <= hi[m]
        BY <1>1, <3>2 DEF ShapeInv, SpanInv
      <4>. QED BY <1>7, <1>16, <3>2, <4>1
    <3>. QED BY <1>9, <2>3, <3>1, <3>2
  <2>1. \A m \in Nodes \ Placed' : left'[m] = NULL /\ right'[m] = NULL
    <3>. SUFFICES ASSUME NEW m \in Nodes, m \notin Placed'
                  PROVE  left'[m] = NULL /\ right'[m] = NULL
      OBVIOUS
    <3>1. m \notin Placed /\ m # at
      BY <1>3, <1>9
    <3>2. left[m] = NULL /\ right[m] = NULL
      BY <1>1, <3>1 DEF ShapeInv, SpanInv
    <3>. QED BY <1>2, <3>1, <3>2 DEF TypeOK
  <2>2. root' \in Placed' /\ L[root'] = 1 /\ H[root'] = len + 1 /\ root' # NULL
    <3>1. root \in Placed /\ lo[root] = 1 /\ hi[root] = len /\ root # NULL
      BY <1>1, <1>3, <1>6 DEF ShapeInv, SpanInv
    <3>2. L[root] = 1 /\ H[root] = len + 1
      BY <1>7, <1>16, <3>1
    <3>. QED BY <1>9, <3>1, <3>2
  <2>. QED BY <1>8, <1>19, <2>1, <2>2, <2>3 DEF SpanInv
<1>21. PushInv(L, H)' /\ PrintInv(P, L, H)'
  BY <1>9 DEF PushInv, PrintInv
<1>. QED BY <1>10, <1>11, <1>18, <1>20, <1>21 DEF TreeInv, ShapeInv

\* push_data_aux goes down, or links the node to the left or to the right.
LEMMA PushAuxInv ==
  ASSUME TreeInv, push_data_aux
  PROVE  TreeInv'
<1>1. pc = "push" /\ UNCHANGED <<root, value, used, stack, printed, out>>
  BY DEF push_data_aux
<1>2. CASE /\ value[pnode] < value[at] /\ left[at] = NULL
           /\ left' = [left EXCEPT ![at] = pnode]
           /\ Link(0) /\ UNCHANGED right
  BY <1>1, <1>2, LinkInv
<1>3. CASE /\ value[pnode] >= value[at] /\ right[at] = NULL
           /\ right' = [right EXCEPT ![at] = pnode]
           /\ Link(1) /\ UNCHANGED left
  BY <1>1, <1>3, LinkInv
<1>4. CASE /\ at' = IF value[pnode] < value[at] THEN left[at] ELSE right[at]
           /\ at' # NULL
           /\ UNCHANGED <<pc, pnode, left, right, order>>
  BY <1>4, DescendInv
<1>. QED BY <1>2, <1>3, <1>4 DEF push_data_aux

(* preorder_print ---------------------------------------------------------*)

\* What a step of the printer leaves alone.
LEMMA PrintFrame ==
  ASSUME TypeOK, SortedInv, UNCHANGED <<tree, pnode>>, pc # "push", pc' # "push",
         NEW pos, NEW lo, NEW hi, ShapeInv(pos, lo, hi)
  PROVE  /\ SortedInv' /\ PlaceInv(pos)' /\ SpanInv(pos, lo, hi)' /\ PushInv(lo, hi)'
         /\ Placed' = Placed
<1>1. UNCHANGED <<root, left, right, value, used, order, pnode>> /\ Placed' = Placed
  BY DEF tree, Placed
<1>. QED BY <1>1 DEF ShapeInv, SortedInv, PlaceInv, SpanInv, PushInv

\* The walk begins with the whole of order before it.
LEMMA PrintBegins ==
  ASSUME TreeInv, preorder_print
  PROVE  TreeInv'
<1>1. PICK pos \in [Nodes -> Int], lo \in [Nodes -> Int], hi \in [Nodes -> Int] :
        ShapeInv(pos, lo, hi)
  BY DEF TreeInv
<1>2. /\ TypeOK /\ SortedInv /\ pc = "idle" /\ pc' = "print" /\ at' = root
      /\ stack' = <<>> /\ printed' = <<>> /\ UNCHANGED <<tree, pnode, out>>
      /\ order' = order
  BY DEF TreeInv, preorder_print, tree
<1>3. SortedInv' /\ PlaceInv(pos)' /\ SpanInv(pos, lo, hi)' /\ PushInv(lo, hi)' /\ Placed' = Placed
  BY <1>1, <1>2, PrintFrame
<1>4. TypeOK'
  BY <1>2 DEF TypeOK, tree
<1>5. Len(order) \in Nat /\ (root = NULL => Len(order) = 0)
  <2>1. Len(order) \in Nat
    BY <1>2 DEF TypeOK
  <2>2. ASSUME root = NULL PROVE ~(Len(order) >= 1)
    <3>1. Placed = {}
      BY <1>1, <2>2 DEF ShapeInv, SpanInv
    <3>2. Len(order) >= 1 => 1 \in 1..Len(order)
      BY <2>1
    <3>. QED BY <1>1, <3>1, <3>2 DEF ShapeInv, PlaceInv
  <2>. QED BY <2>1, <2>2
<1>6. Len(stack') = 0 /\ Len(printed') = 0
  BY <1>2
<1>7. Limit(pos, 0)' = Len(order)
  BY <1>2 DEF Limit
<1>8. root # NULL => root \in Placed /\ lo[root] = 1 /\ hi[root] = Len(order)
  BY <1>1 DEF ShapeInv, SpanInv
<1>9. PrintInv(pos, lo, hi)'
  <2>1. (\A j \in 1..0 : FALSE) /\ 0 <= Len(order)
    BY <1>5
  <2>2. Limit(pos, Len(stack))' = Len(order)
    BY <1>6, <1>7 DEF Limit
  <2>3. IF at' = NULL THEN Len(printed') = Limit(pos, Len(stack))'
        ELSE /\ at' \in Placed' /\ lo[at'] = Len(printed') + 1
             /\ hi[at'] = Limit(pos, Len(stack))'
    BY <1>2, <1>3, <1>5, <1>6, <1>8, <2>2
  <2>. QED BY <1>2, <1>6, <2>1, <2>3 DEF PrintInv
<1>. QED BY <1>3, <1>4, <1>9 DEF TreeInv, ShapeInv

\* The left subtree of a node comes before it, and starts where the node's
\* own stretch does.
LEMMA PrintLeftInv ==
  ASSUME TreeInv, print_left
  PROVE  TreeInv'
<1>1. PICK pos \in [Nodes -> Int], lo \in [Nodes -> Int], hi \in [Nodes -> Int] :
        ShapeInv(pos, lo, hi)
  BY DEF TreeInv
<1>2. /\ TypeOK /\ SortedInv /\ pc = "print" /\ pc' = pc /\ at # NULL /\ at' = left[at]
      /\ stack' = Append(stack, at) /\ printed' = printed
      /\ UNCHANGED <<tree, pnode, out>> /\ order' = order
  BY DEF TreeInv, print_left, tree
<1>3. SortedInv' /\ PlaceInv(pos)' /\ SpanInv(pos, lo, hi)' /\ PushInv(lo, hi)' /\ Placed' = Placed
  BY <1>1, <1>2, PrintFrame
<1>4. /\ at \in Placed /\ at \in Nodes /\ stack \in Seq(Nodes)
      /\ lo[at] = Len(printed) + 1 /\ hi[at] = Limit(pos, Len(stack))
  BY <1>1, <1>2 DEF ShapeInv, PrintInv, TypeOK
<1>5. PICK d \in Nat : d = Len(stack)
  BY <1>4
<1>6. /\ stack' \in Seq(Nodes) /\ Len(stack') = d + 1 /\ stack'[d + 1] = at
      /\ \A j \in 1..d : stack'[j] = stack[j]
  BY <1>2, <1>4, <1>5, AppendProperties
<1>7. TypeOK'
  BY <1>2, <1>4, <1>6 DEF TypeOK, tree
<1>8. Limit(pos, d + 1)' = pos[at] - 1
  <2>1. d + 1 # 0
    OBVIOUS
  <2>. QED BY <1>6, <2>1 DEF Limit
<1>9. \A j \in 0..d : Limit(pos, j)' = Limit(pos, j)
  <2>1. \A j \in 0..d : j # 0 => j \in 1..d
    OBVIOUS
  <2>. QED BY <1>2, <1>6, <2>1 DEF Limit
<1>10. \A j \in 1..(d + 1) : stack'[j] \in Placed' /\ hi[stack'[j]] = Limit(pos, j - 1)'
  <2>. SUFFICES ASSUME NEW j \in 1..(d + 1)
                PROVE  stack'[j] \in Placed' /\ hi[stack'[j]] = Limit(pos, j - 1)'
    OBVIOUS
  <2>1. CASE j = d + 1
    <3>1. j - 1 = d /\ d \in 0..d
      BY <2>1
    <3>. QED BY <1>3, <1>4, <1>5, <1>6, <1>9, <2>1, <3>1
  <2>2. CASE j # d + 1
    <3>1. j \in 1..d /\ j - 1 \in 0..d
      BY <2>2
    <3>2. stack[j] \in Placed /\ hi[stack[j]] = Limit(pos, j - 1)
      BY <1>1, <1>2, <1>5, <3>1 DEF ShapeInv, PrintInv
    <3>. QED BY <1>3, <1>6, <1>9, <3>1, <3>2
  <2>. QED BY <2>1, <2>2
<1>11. IF left[at] = NULL THEN Len(printed) = pos[at] - 1
       ELSE left[at] \in Placed /\ lo[left[at]] = Len(printed) + 1 /\ hi[left[at]] = pos[at] - 1
  <2>1. IF left[at] = NULL THEN lo[at] = pos[at]
        ELSE left[at] \in Placed /\ lo[left[at]] = lo[at] /\ hi[left[at]] = pos[at] - 1
    BY <1>1, <1>4 DEF ShapeInv, SpanInv
  <2>2. Len(printed) \in Nat
    BY <1>2 DEF TypeOK
  <2>. QED BY <1>4, <2>1, <2>2
<1>12. PrintInv(pos, lo, hi)'
  <2>3. \A j \in 1..(d + 1) : pos[stack'[j]] + j <= Len(order) + 1
    <3>. SUFFICES ASSUME NEW j \in 1..(d + 1) PROVE pos[stack'[j]] + j <= Len(order) + 1
      OBVIOUS
    <3>0. \A i \in 1..d : pos[stack[i]] + i <= Len(order) + 1
      BY <1>1, <1>2, <1>5 DEF ShapeInv, PrintInv
    <3>1. CASE j = d + 1
      <4>1. Len(order) \in Nat
        BY <1>2 DEF TypeOK
      <4>2. pos[at] <= hi[at] /\ hi[at] = Limit(pos, d)
        BY <1>1, <1>4, <1>5 DEF ShapeInv, SpanInv
      <4>3. pos[at] \in Int /\ hi[at] \in Int
        BY <1>4
      <4>4. CASE d = 0
        BY <1>6, <3>1, <4>1, <4>2, <4>3, <4>4 DEF Limit
      <4>5. CASE d # 0
        <5>1. d \in 1..d
          BY <4>5
        <5>2. PICK p \in Int : p = pos[stack[d]]
          <6>1. stack[d] \in Nodes
            BY <1>4, <1>5, <5>1, ElementOfSeq
          <6>. QED BY <6>1
        <5>3. p + d <= Len(order) + 1 /\ hi[at] = p - 1
          BY <3>0, <4>2, <4>5, <5>1, <5>2 DEF Limit
        <5>4. pos[at] + (d + 1) <= Len(order) + 1
          BY <4>1, <4>2, <4>3, <5>3
        <5>. QED BY <1>6, <3>1, <5>4
      <4>. QED BY <4>4, <4>5
    <3>2. CASE j # d + 1
      <4>1. j \in 1..d
        BY <3>2
      <4>. QED BY <1>6, <3>0, <4>1
    <3>. QED BY <3>1, <3>2
  <2>1. Len(printed) <= Len(order) /\ \A j \in 1..Len(printed) : printed[j] = order[j]
    BY <1>1, <1>2 DEF ShapeInv, PrintInv
  <2>2. Limit(pos, Len(stack))' = pos[at] - 1
    BY <1>6, <1>8 DEF Limit
  <2>. QED BY <1>2, <1>3, <1>6, <1>10, <1>11, <2>1, <2>2, <2>3 DEF PrintInv
<1>. QED BY <1>3, <1>7, <1>12 DEF TreeInv, ShapeInv

\* The node on top of the stack is the next one in order.
LEMMA PrintValueInv ==
  ASSUME TreeInv, print_value
  PROVE  TreeInv'
<1>1. PICK pos \in [Nodes -> Int], lo \in [Nodes -> Int], hi \in [Nodes -> Int] :
        ShapeInv(pos, lo, hi)
  BY DEF TreeInv
<1>2. /\ TypeOK /\ SortedInv /\ pc = "print" /\ pc' = pc /\ at = NULL /\ stack # <<>>
      /\ stack' = SubSeq(stack, 1, Len(stack) - 1)
      /\ UNCHANGED <<tree, pnode, out>> /\ order' = order
  BY DEF TreeInv, print_value, tree
<1>3. SortedInv' /\ PlaceInv(pos)' /\ SpanInv(pos, lo, hi)' /\ PushInv(lo, hi)' /\ Placed' = Placed
  BY <1>1, <1>2, PrintFrame
<1>4. PICK d \in Nat : d + 1 = Len(stack)
  <2>1. stack \in Seq(Nodes) /\ Len(stack) \in Nat /\ Len(stack) # 0
    BY <1>2, EmptySeq DEF TypeOK
  <2>2. PICK e \in Nat : e = Len(stack) /\ e # 0
    BY <2>1
  <2>3. e - 1 \in Nat /\ e - 1 + 1 = e
    BY <2>2
  <2>. QED BY <2>2, <2>3
<1>5. PICK n : n = stack[d + 1]
  OBVIOUS
<1>6. printed' = Append(printed, n) /\ at' = right[n]
  BY <1>4, <1>5 DEF print_value
<1>7. /\ \A j \in 1..(d + 1) : stack[j] \in Placed /\ hi[stack[j]] = Limit(pos, j - 1)
      /\ Len(printed) = Limit(pos, d + 1)
      /\ Len(printed) <= Len(order) /\ \A j \in 1..Len(printed) : printed[j] = order[j]
  BY <1>1, <1>2, <1>4 DEF ShapeInv, PrintInv
<1>8. d + 1 \in 1..(d + 1) /\ d + 1 - 1 = d /\ d + 1 # 0
  OBVIOUS
<1>9. n \in Placed /\ n \in Nodes /\ hi[n] = Limit(pos, d) /\ Len(printed) = pos[n] - 1
  <2>1. n \in Placed /\ hi[n] = Limit(pos, d)
    BY <1>5, <1>7, <1>8
  <2>2. Len(printed) = pos[n] - 1
    BY <1>5, <1>7, <1>8 DEF Limit
  <2>. QED BY <1>2, <2>1, <2>2 DEF Placed, TypeOK
<1>10. pos[n] \in 1..Len(order) /\ order[pos[n]] = n /\ Len(order) \in Nat
  <2>1. Len(order) \in Nat
    BY <1>2 DEF TypeOK
  <2>. QED BY <1>1, <1>9, <2>1 DEF ShapeInv, PlaceInv
<1>11. PICK q \in Nat : q = Len(printed)
  BY <1>2 DEF TypeOK
<1>12. pos[n] = q + 1 /\ q + 1 <= Len(order)
  BY <1>9, <1>10, <1>11
<1>13. /\ printed' \in Seq(Nodes) /\ Len(printed') = q + 1 /\ printed'[q + 1] = n
       /\ \A j \in 1..q : printed'[j] = printed[j]
  <2>1. printed \in Seq(Nodes)
    BY <1>2 DEF TypeOK
  <2>2. /\ Append(printed, n) \in Seq(Nodes) /\ Len(Append(printed, n)) = Len(printed) + 1
        /\ Append(printed, n)[Len(printed) + 1] = n
        /\ \A j \in 1..Len(printed) : Append(printed, n)[j] = printed[j]
    BY <1>9, <2>1, AppendProperties
  <2>. QED BY <1>6, <1>11, <2>2
<1>14. /\ stack' \in Seq(Nodes) /\ Len(stack') = d
       /\ \A j \in 1..d : stack'[j] = stack[j]
  <2>1. stack \in Seq(Nodes) /\ Len(stack) - 1 = d
    BY <1>2, <1>4 DEF TypeOK
  <2>2. /\ SubSeq(stack, 1, d) \in Seq(Nodes) /\ Len(SubSeq(stack, 1, d)) = d
        /\ \A j \in 1..d : SubSeq(stack, 1, d)[j] = stack[j]
    BY <1>4, <2>1
  <2>. QED BY <1>2, <2>1, <2>2
<1>15. TypeOK'
  <2>1. at' \in Nodes \cup {NULL}
    BY <1>2, <1>6, <1>9 DEF TypeOK
  <2>. QED BY <1>2, <1>13, <1>14, <2>1 DEF TypeOK, tree
<1>16. \A j \in 0..d : Limit(pos, j)' = Limit(pos, j)
  <2>1. \A j \in 0..d : j # 0 => j \in 1..d
    OBVIOUS
  <2>. QED BY <1>2, <1>14, <2>1 DEF Limit
<1>17. \A j \in 1..d : stack'[j] \in Placed' /\ hi[stack'[j]] = Limit(pos, j - 1)'
  <2>1. \A j \in 1..d : j \in 1..(d + 1) /\ j - 1 \in 0..d
    OBVIOUS
  <2>. QED BY <1>3, <1>7, <1>14, <1>16, <2>1
<1>18. \A j \in 1..(q + 1) : printed'[j] = order[j]
  <2>. SUFFICES ASSUME NEW j \in 1..(q + 1) PROVE printed'[j] = order[j]
    OBVIOUS
  <2>1. CASE j = q + 1
    BY <1>10, <1>12, <1>13, <2>1
  <2>2. CASE j # q + 1
    <3>1. j \in 1..q
      BY <2>2
    <3>. QED BY <1>7, <1>11, <1>13, <3>1
  <2>. QED BY <2>1, <2>2
<1>19. IF right[n] = NULL THEN q + 1 = Limit(pos, d)
       ELSE right[n] \in Placed /\ lo[right[n]] = q + 2 /\ hi[right[n]] = Limit(pos, d)
  <2>1. IF right[n] = NULL THEN hi[n] = pos[n]
        ELSE right[n] \in Placed /\ lo[right[n]] = pos[n] + 1 /\ hi[right[n]] = hi[n]
    BY <1>1, <1>9 DEF ShapeInv, SpanInv
  <2>2. q + 1 + 1 = q + 2
    OBVIOUS
  <2>. QED BY <1>9, <1>12, <2>1, <2>2
<1>20. PrintInv(pos, lo, hi)'
  <2>1. Limit(pos, Len(stack))' = Limit(pos, d)
    <3>1. d \in 0..d
      OBVIOUS
    <3>2. Limit(pos, Len(stack))' = Limit(pos, d)'
      BY <1>14 DEF Limit
    <3>. QED BY <1>16, <3>1, <3>2
  <2>2. q + 1 + 1 = q + 2
    OBVIOUS
  <2>3. IF at' = NULL THEN Len(printed') = Limit(pos, Len(stack))'
        ELSE /\ at' \in Placed' /\ lo[at'] = Len(printed') + 1
             /\ hi[at'] = Limit(pos, Len(stack))'
    BY <1>3, <1>6, <1>13, <1>19, <2>1, <2>2
  <2>4. \A j \in 1..d : pos[stack'[j]] + j <= Len(order) + 1
    <3>1. \A j \in 1..(d + 1) : pos[stack[j]] + j <= Len(order) + 1
      BY <1>1, <1>2, <1>4 DEF ShapeInv, PrintInv
    <3>2. \A j \in 1..d : j \in 1..(d + 1)
      OBVIOUS
    <3>. QED BY <1>14, <3>1, <3>2
  <2>. QED BY <1>2, <1>12, <1>13, <1>14, <1>17, <1>18, <2>3, <2>4 DEF PrintInv
<1>. QED BY <1>3, <1>15, <1>20 DEF TreeInv, ShapeInv

(* The invariant and the refinement ---------------------------------------*)

\* The abstract list, entry by entry.
LEMMA ListFacts ==
  ASSUME NEW f \in [Nodes -> Values], NEW s \in Seq(Nodes),
         NEW l, l = [i \in 1..Len(s) |-> f[s[i]]]
  PROVE  /\ l \in Seq(Values) /\ Len(l) = Len(s)
         /\ \A j \in 1..Len(s) : l[j] = f[s[j]]
<1>1. Len(s) \in Nat /\ \A j \in 1..Len(s) : s[j] \in Nodes
  BY ElementOfSeq
<1>2. l \in [1..Len(s) -> Values]
  BY <1>1
<1>. QED BY <1>1, <1>2, LenProperties, SeqDef

\* A finished walk has printed order.
LEMMA PrintEnds ==
  ASSUME TreeInv, print_end
  PROVE  TreeInv' /\ printed = order
<1>1. PICK pos \in [Nodes -> Int], lo \in [Nodes -> Int], hi \in [Nodes -> Int] :
        ShapeInv(pos, lo, hi)
  BY DEF TreeInv
<1>2. /\ TypeOK /\ SortedInv /\ pc = "print" /\ pc' = "idle" /\ at = NULL /\ stack = <<>>
      /\ out' = ValuesOf(printed) /\ printed' = <<>>
      /\ UNCHANGED <<tree, pnode, at, stack>>
  BY DEF TreeInv, print_end
<1>3. SortedInv' /\ PlaceInv(pos)' /\ SpanInv(pos, lo, hi)' /\ PushInv(lo, hi)' /\ Placed' = Placed
  BY <1>1, <1>2, PrintFrame
<1>4. PrintInv(pos, lo, hi)'
  BY <1>2 DEF PrintInv
<1>5. TypeOK'
  <2>1. ValuesOf(printed) \in Seq(Values)
    BY <1>2, ListFacts DEF TypeOK, ValuesOf
  <2>. QED BY <1>2, <2>1 DEF TypeOK, tree
<1>6. printed = order
  <2>1. Len(stack) = 0
    BY <1>2
  <2>2. Len(printed) = Len(order) /\ \A j \in 1..Len(printed) : printed[j] = order[j]
    BY <1>1, <1>2, <2>1 DEF ShapeInv, PrintInv, Limit
  <2>. QED BY <1>2, <2>2, SeqEqual DEF TypeOK
<1>. QED BY <1>3, <1>4, <1>5, <1>6 DEF TreeInv, ShapeInv

\* The inductive invariant holds in every reachable state.
THEOREM Invariant == Spec => []TreeInv
<1>1. Init => TreeInv
  <2> SUFFICES ASSUME Init PROVE TreeInv
    OBVIOUS
  <2>1. TypeOK
    BY DEF Init, TypeOK
  <2>2. Placed = {} /\ Len(order) = 0
    BY DEF Init, Placed
  <2> DEFINE one == [m \in Nodes |-> 1]
  <2>3. one \in [Nodes -> Int]
    OBVIOUS
  <2>. HIDE DEF one
  <2>4. SortedInv /\ ShapeInv(one, one, one)
    BY <2>2 DEF Init, SortedInv, ShapeInv, PlaceInv, SpanInv, PushInv, PrintInv
  <2>. QED BY <2>1, <2>3, <2>4 DEF TreeInv
<1>2. TreeInv /\ [Next]_vars => TreeInv'
  <2> SUFFICES ASSUME TreeInv, [Next]_vars PROVE TreeInv'
    OBVIOUS
  <2>1. CASE \E n \in Nodes, v \in Values : push_data(n, v)
    BY <2>1, PushDataInv
  <2>2. CASE push_data_aux
    BY <2>2, PushAuxInv
  <2>3. CASE preorder_print
    BY <2>3, PrintBegins
  <2>4. CASE print_left
    BY <2>4, PrintLeftInv
  <2>5. CASE print_value
    BY <2>5, PrintValueInv
  <2>6. CASE print_end
    BY <2>6, PrintEnds
  <2>7. CASE UNCHANGED vars
    <3>1. PICK pos \in [Nodes -> Int], lo \in [Nodes -> Int], hi \in [Nodes -> Int] :
            ShapeInv(pos, lo, hi)
      BY DEF TreeInv
    <3>2. TypeOK' /\ SortedInv' /\ Placed' = Placed
      BY <2>7 DEF vars, tree, TreeInv, TypeOK, SortedInv, Placed
    <3>3. PlaceInv(pos)' /\ SpanInv(pos, lo, hi)' /\ PushInv(lo, hi)'
      BY <2>7, <3>1, <3>2 DEF vars, tree, ShapeInv, PlaceInv, SpanInv, PushInv
    <3>4. PrintInv(pos, lo, hi)'
      BY <2>7, <3>1, <3>2 DEF vars, tree, ShapeInv, PrintInv, Limit
    <3>. QED BY <3>2, <3>3, <3>4 DEF TreeInv, ShapeInv
  <2>. QED BY <2>1, <2>2, <2>3, <2>4, <2>5, <2>6, <2>7 DEF Next
<1>. QED BY <1>1, <1>2, PTL DEF Spec

\* Linking a node inserts its value into the list.
LEMMA LinkInserts ==
  ASSUME TreeInv, pc = "push", NEW gap \in {0, 1}, Link(gap), UNCHANGED <<value, out>>,
         gap = 0 => value[pnode] < value[at] /\ left[at] = NULL,
         gap = 1 => value[pnode] >= value[at] /\ right[at] = NULL
  PROVE  S!Next
<1>1. PICK pos \in [Nodes -> Int], lo \in [Nodes -> Int], hi \in [Nodes -> Int] :
        ShapeInv(pos, lo, hi)
  BY DEF TreeInv
<1>2. TypeOK /\ SortedInv
  BY DEF TreeInv
<1>3. /\ pnode \in Nodes /\ pos[at] \in 1..Len(order) /\ Len(order) \in Nat
      /\ order' = Beside(order, pos[at], gap, pnode)
  BY <1>1, <1>2, LinkPlace
<1>4. \A j \in 1..Len(order) :
        /\ j < pos[at] + gap => value[order[j]] <= value[pnode]
        /\ j >= pos[at] + gap => value[pnode] < value[order[j]]
  BY <1>1, <1>2, LinkPlace
<1>5. PICK len \in Nat : len = Len(order)
  BY <1>3
<1>6. PICK g \in Int : g = pos[at] + gap
  BY <1>3
<1>7. g - 1 \in 0..len
  BY <1>3, <1>5, <1>6
<1>8. PICK t : t = order'
  OBVIOUS
<1>9. Grown(t, order, g, pnode)
  <2>1. order \in Seq(Nodes)
    BY <1>2 DEF TypeOK
  <2>2. Grown(t, order, pos[at] + gap, pnode)
    BY <1>3, <1>8, <2>1, BesideFacts
  <2>. QED BY <1>6, <2>2
<1>10. /\ t \in Seq(Nodes) /\ Len(t) = len + 1
       /\ \A j \in 1..(len + 1) :
            t[j] = IF j < g THEN order[j] ELSE IF j = g THEN pnode ELSE order[j - 1]
  BY <1>5, <1>9 DEF Grown
<1>11. PICK l : l = ValuesOf(order)
  OBVIOUS
<1>12. l \in Seq(Values) /\ Len(l) = len /\ \A j \in 1..len : l[j] = value[order[j]]
  <2>1. value \in [Nodes -> Values] /\ order \in Seq(Nodes)
    BY <1>2 DEF TypeOK
  <2>2. l = [i \in 1..Len(order) |-> value[order[i]]]
    BY <1>11 DEF ValuesOf
  <2>3. l \in Seq(Values) /\ Len(l) = Len(order) /\ \A j \in 1..Len(order) : l[j] = value[order[j]]
    BY <2>1, <2>2, ListFacts
  <2>. QED BY <1>5, <2>3
<1>13. PICK v \in Values : v = value[pnode]
  BY <1>2, <1>3 DEF TypeOK
<1>14. /\ \A j \in 1..(g - 1) : l[j] <= v
       /\ \A j \in (g - 1 + 1)..Len(l) : v < l[j]
  <2>1. \A j \in 1..(g - 1) : j \in 1..len /\ j < g
    BY <1>7
  <2>2. \A j \in (g - 1 + 1)..len : j \in 1..len /\ j >= g
    BY <1>7
  <2>. QED BY <1>4, <1>5, <1>6, <1>12, <1>13, <2>1, <2>2
<1>15. ValuesOf(order)' = [j \in 1..(Len(l) + 1) |->
                             IF j <= g - 1 THEN l[j] ELSE IF j = g - 1 + 1 THEN v ELSE l[j - 1]]
  <2>1. ValuesOf(order)' = [j \in 1..(len + 1) |-> value[t[j]]]
    BY <1>8, <1>10 DEF ValuesOf
  <2>2. ASSUME NEW j \in 1..(len + 1)
        PROVE  value[t[j]] = IF j <= g - 1 THEN l[j] ELSE IF j = g - 1 + 1 THEN v ELSE l[j - 1]
    <3>1. CASE j < g
      <4>1. j \in 1..len /\ j <= g - 1
        BY <1>7, <3>1
      <4>. QED BY <1>10, <1>12, <3>1, <4>1
    <3>2. CASE j = g
      <4>1. ~(j <= g - 1) /\ j = g - 1 + 1 /\ ~(j < g)
        BY <3>2
      <4>. QED BY <1>10, <1>13, <3>2, <4>1
    <3>3. CASE j > g
      <4>1. ~(j <= g - 1) /\ j # g - 1 + 1 /\ ~(j < g) /\ j # g /\ j - 1 \in 1..len
        BY <1>7, <3>3
      <4>2. t[j] = order[j - 1]
        BY <1>10, <4>1
      <4>3. l[j - 1] = value[order[j - 1]]
        BY <1>12, <4>1
      <4>. QED BY <4>1, <4>2, <4>3
    <3>. QED BY <3>1, <3>2, <3>3
  <2>. QED BY <1>12, <2>1, <2>2
<1>16. S!Insert(v)
  <2>1. g - 1 \in 0..Len(l)
    BY <1>7, <1>12
  <2>. QED BY <1>11, <1>14, <1>15, <2>1 DEF S!Insert
<1>. QED BY <1>16 DEF S!Next

\* The tree implements the sorted list: a push inserts where the list would,
\* duplicates included, whatever the shape of the tree, and a complete print
\* shows the list (binary-tree.cpp:33-67).
THEOREM TreeImplementsSorted == Spec => ImplementsSorted
<1>1. Init => S!Init
  BY DEF Init, S!Init, ValuesOf
<1>2. TreeInv /\ [Next]_vars => [S!Next]_<<ValuesOf(order), out>>
  <2> SUFFICES ASSUME TreeInv, [Next]_vars
               PROVE  S!Next \/ (ValuesOf(order)' = ValuesOf(order) /\ out' = out)
    OBVIOUS
  <2>0. TypeOK
    BY DEF TreeInv
  <2>1. ASSUME order' = order, value' = value PROVE ValuesOf(order)' = ValuesOf(order)
    BY <2>1 DEF ValuesOf
  <2>2. ASSUME NEW n \in Nodes, NEW v \in Values, push_data(n, v)
        PROVE  S!Next \/ (ValuesOf(order)' = ValuesOf(order) /\ out' = out)
    <3>1. PICK pos \in [Nodes -> Int], lo \in [Nodes -> Int], hi \in [Nodes -> Int] :
            ShapeInv(pos, lo, hi)
      BY DEF TreeInv
    <3>2. n \notin used /\ value' = [value EXCEPT ![n] = v] /\ out' = out
      BY <2>2 DEF push_data
    <3>3. Len(order) \in Nat /\ \A j \in 1..Len(order) : order[j] \in Nodes /\ order[j] # n
      <4>1. Len(order) \in Nat
        BY <2>0 DEF TypeOK
      <4>. QED BY <2>0, <3>1, <3>2, <4>1 DEF ShapeInv, PlaceInv, Placed, TypeOK
    <3>4. CASE root # NULL
      <4>1. order' = order
        BY <2>2, <3>4 DEF push_data
      <4>2. \A j \in 1..Len(order) : value'[order[j]] = value[order[j]]
        BY <2>0, <3>2, <3>3 DEF TypeOK
      <4>. QED BY <3>2, <4>1, <4>2 DEF ValuesOf
    <3>5. CASE root = NULL
      <4>1. Placed = {} /\ order' = <<n>>
        BY <2>2, <3>1, <3>5 DEF ShapeInv, SpanInv, push_data
      <4>2. Len(order) = 0
        <5>1. ~(1 \in 1..Len(order))
          BY <3>1, <4>1 DEF ShapeInv, PlaceInv
        <5>. QED BY <3>3, <5>1
      <4>3. PICK l : l = ValuesOf(order)
        OBVIOUS
      <4>4. Len(l) = 0
        <5>1. value \in [Nodes -> Values] /\ order \in Seq(Nodes)
          BY <2>0 DEF TypeOK
        <5>. QED BY <4>2, <4>3, <5>1, ListFacts DEF ValuesOf
      <4>5. ValuesOf(order)' = [j \in 1..1 |-> v]
        <5>1. value'[n] = v
          BY <2>0, <3>2 DEF TypeOK
        <5>2. Len(order') = 1 /\ order'[1] = n
          BY <4>1
        <5>3. \A j \in 1..1 : j = 1
          OBVIOUS
        <5>. QED BY <5>1, <5>2, <5>3 DEF ValuesOf
      <4>6. [j \in 1..1 |-> v] = [j \in 1..(0 + 1) |->
               IF j <= 0 THEN l[j] ELSE IF j = 0 + 1 THEN v ELSE l[j - 1]]
        <5>1. \A j \in 1..1 : ~(j <= 0) /\ j = 0 + 1
          OBVIOUS
        <5>. QED BY <5>1
      <4>7. 0 \in 0..Len(l) /\ (\A j \in 1..0 : FALSE) /\ (\A j \in (0 + 1)..Len(l) : FALSE)
        BY <4>4
      <4>8. S!Insert(v)
        BY <3>2, <4>3, <4>4, <4>5, <4>6, <4>7 DEF S!Insert
      <4>. QED BY <4>8 DEF S!Next
    <3>. QED BY <3>4, <3>5
  <2>3. CASE push_data_aux
    <3>1. pc = "push" /\ UNCHANGED <<value, out>>
      BY <2>3 DEF push_data_aux
    <3>2. CASE value[pnode] < value[at] /\ left[at] = NULL /\ Link(0)
      BY <3>1, <3>2, LinkInserts
    <3>3. CASE value[pnode] >= value[at] /\ right[at] = NULL /\ Link(1)
      BY <3>1, <3>3, LinkInserts
    <3>4. CASE order' = order
      BY <2>1, <3>1, <3>4
    <3>. QED BY <2>3, <3>2, <3>3, <3>4 DEF push_data_aux
  <2>4. CASE preorder_print \/ print_left \/ print_value \/ UNCHANGED vars
    <3>1. order' = order /\ value' = value /\ out' = out
      BY <2>4 DEF preorder_print, print_left, print_value, vars, tree
    <3>. QED BY <2>1, <3>1
  <2>5. CASE print_end
    <3>1. order' = order /\ value' = value /\ out' = ValuesOf(printed)
      BY <2>5 DEF print_end, tree
    <3>2. printed = order
      BY <2>5, PrintEnds
    <3>3. S!Show
      BY <2>1, <3>1, <3>2 DEF S!Show
    <3>. QED BY <3>3 DEF S!Next
  <2>. QED BY <2>2, <2>3, <2>4, <2>5 DEF Next
<1>. QED BY <1>1, <1>2, Invariant, PTL DEF Spec, ImplementsSorted, S!Spec

(* Termination ------------------------------------------------------------*)

\* The printer is through after two steps for each node of the tree
\* (binary-tree.cpp:26-35).
THEOREM PrinterAdvances == Spec => WalkAdvances
<1>1. TreeInv /\ TreeInv' /\ [Next]_vars =>
        [ (pc = "print" /\ pc' # "idle") =>
            /\ order' = order /\ Walked' = Walked + 1
            /\ Len(printed') + Len(stack') <= Len(order) ]_vars
  <2> SUFFICES ASSUME TreeInv, TreeInv', Next, pc = "print", pc' # "idle"
               PROVE  /\ order' = order /\ Walked' = Walked + 1
                      /\ Len(printed') + Len(stack') <= Len(order)
    OBVIOUS
  <2>1. print_left \/ print_value
    BY DEF Next, push_data, push_data_aux, preorder_print, print_end
  <2>2. order' = order /\ pc' = "print"
    BY <2>1 DEF print_left, print_value, tree
  <2>3. PICK d \in Nat, q \in Nat : d = Len(stack) /\ q = Len(printed)
    BY DEF TreeInv, TypeOK
  <2>4. PICK e \in Nat, r \in Nat : e = Len(stack') /\ r = Len(printed')
    BY DEF TreeInv, TypeOK
  <2>5. 2 * r + e = 2 * q + d + 1
    <3>1. CASE print_left
      <4>1. stack \in Seq(Nodes) /\ at \in Nodes /\ stack' = Append(stack, at) /\ printed' = printed
        BY <3>1 DEF print_left, TreeInv, TypeOK
      <4>2. e = d + 1 /\ r = q
        BY <2>3, <2>4, <4>1, AppendProperties
      <4>. QED BY <4>2
    <3>2. CASE print_value
      <4>1. stack \in Seq(Nodes) /\ stack # <<>> /\ printed \in Seq(Nodes)
        BY <3>2 DEF print_value, TreeInv, TypeOK
      <4>2. d # 0
        BY <2>3, <4>1, EmptySeq
      <4>3. stack[d] \in Nodes
        BY <2>3, <4>1, <4>2, ElementOfSeq
      <4>4. printed' = Append(printed, stack[d]) /\ stack' = SubSeq(stack, 1, d - 1)
        BY <2>3, <3>2 DEF print_value
      <4>5. r = q + 1
        BY <2>3, <2>4, <4>1, <4>3, <4>4, AppendProperties
      <4>6. e = d - 1
        BY <2>3, <2>4, <4>1, <4>2, <4>4
      <4>. QED BY <4>2, <4>5, <4>6
    <3>. QED BY <2>1, <3>1, <3>2
  <2>6. r + e <= Len(order)
    <3>1. PICK pos \in [Nodes -> Int], lo \in [Nodes -> Int], hi \in [Nodes -> Int] :
            ShapeInv(pos, lo, hi)'
      BY DEF TreeInv
    <3>2. PICK len \in Nat : len = Len(order')
      BY DEF TreeInv, TypeOK
    <3>3. r <= len /\ \A j \in 1..e : pos[stack'[j]] + j <= len + 1
      BY <2>2, <2>4, <3>1, <3>2 DEF ShapeInv, PrintInv
    <3>4. CASE e = 0
      BY <2>2, <3>2, <3>3, <3>4
    <3>5. CASE e # 0
      <4>1. e \in 1..e
        BY <3>5
      <4>2. stack'[e] \in Nodes
        <5>1. stack' \in Seq(Nodes)
          BY DEF TreeInv, TypeOK
        <5>. QED BY <2>4, <4>1, <5>1, ElementOfSeq
      <4>3. PICK p \in Int : p = pos[stack'[e]]
        BY <4>2
      <4>4. p + e <= len + 1
        BY <3>3, <4>1, <4>3
      <4>5. r <= p - 1
        <5>1. IF at' = NULL THEN r = Limit(pos, Len(stack))'
              ELSE /\ at' \in Placed' /\ lo[at'] = r + 1 /\ hi[at'] = Limit(pos, Len(stack))'
          BY <2>2, <2>4, <3>1 DEF ShapeInv, PrintInv
        <5>2. Limit(pos, Len(stack))' = p - 1
          BY <2>4, <3>5, <4>3 DEF Limit
        <5>3. CASE at' = NULL
          BY <5>1, <5>2, <5>3
        <5>4. CASE at' # NULL
          <6>1. at' \in Placed' /\ lo[at'] <= pos[at'] /\ pos[at'] <= hi[at']
            BY <3>1, <5>1, <5>4 DEF ShapeInv, SpanInv
          <6>2. at' \in Nodes
            BY <6>1 DEF TreeInv, TypeOK, Placed
          <6>3. pos[at'] \in Int
            BY <6>2
          <6>. QED BY <5>1, <5>2, <5>4, <6>1, <6>3
        <5>. QED BY <5>3, <5>4
      <4>. QED BY <2>2, <3>2, <4>4, <4>5
    <3>. QED BY <3>4, <3>5
  <2>. QED BY <2>2, <2>3, <2>4, <2>5, <2>6 DEF Walked
<1>. QED BY <1>1, Invariant, PTL DEF Spec, WalkAdvances

\* A descent stands at a narrower stretch of the tree after every call that
\* does not link the node (binary-tree.cpp:36-67).
THEOREM DescentNarrows == Spec => PushNarrows
<1>1. TreeInv /\ [Next]_vars =>
        [ (pc = "push" /\ pc' # "idle") =>
            \A pos, lo, hi \in [Nodes -> Int] :
              ShapeInv(pos, lo, hi) =>
                /\ ShapeInv(pos, lo, hi)' /\ lo[at'] <= hi[at']
                /\ hi[at'] - lo[at'] < hi[at] - lo[at] ]_vars
  <2> SUFFICES ASSUME TreeInv, Next, pc = "push", pc' # "idle",
                      NEW pos \in [Nodes -> Int], NEW lo \in [Nodes -> Int],
                      NEW hi \in [Nodes -> Int], ShapeInv(pos, lo, hi)
               PROVE  /\ ShapeInv(pos, lo, hi)' /\ lo[at'] <= hi[at']
                      /\ hi[at'] - lo[at'] < hi[at] - lo[at]
    OBVIOUS
  <2>1. push_data_aux
    BY DEF Next, push_data, preorder_print, print_left, print_value, print_end
  <2>2. /\ at' = IF value[pnode] < value[at] THEN left[at] ELSE right[at]
        /\ at' # NULL /\ UNCHANGED <<pc, pnode, left, right, order>>
    BY <2>1 DEF push_data_aux, Link
  <2>. QED BY <2>1, <2>2, DescendShape
<1>. QED BY <1>1, Invariant, PTL DEF Spec, PushNarrows
=============================================================================
