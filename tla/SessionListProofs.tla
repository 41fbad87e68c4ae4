-------------------------- MODULE SessionListProofs --------------------------
(***************************************************************************)
(* Proofs about SessionList, for any number of nodes and sessions: the     *)
(* list stays well formed, no call touches memory it does not own, and     *)
(* list.c implements SessionSeq.                                           *)
(***************************************************************************)
EXTENDS SessionList, TLAPS

\* Taking element k out of a chain of nodes leaves a chain one shorter.
LEMMA WithoutShape ==
  ASSUME NEW S, NEW s \in Seq(S), NEW k \in 1..Len(s)
  PROVE  /\ L!Without(s, k) \in Seq(S)
         /\ Len(L!Without(s, k)) = Len(s) - 1
         /\ \A j \in 1..(Len(s) - 1) :
              L!Without(s, k)[j] = IF j < k THEN s[j] ELSE s[j + 1]
<1> DEFINE n == Len(s)
           w == [j \in 1..(n - 1) |-> IF j < k THEN s[j] ELSE s[j + 1]]
<1>1. n \in Nat /\ n >= 1 /\ n - 1 \in Nat /\ k \in 1..n
  OBVIOUS
<1>2. \A j \in 1..n : s[j] \in S
  OBVIOUS
<1>3. L!Without(s, k) = w
  BY DEF L!Without
<1> HIDE DEF n
<1>4. \A j \in 1..(n - 1) : (IF j < k THEN s[j] ELSE s[j + 1]) \in S
  BY <1>1, <1>2
<1>5. w \in [1..(n - 1) -> S]
  BY <1>4
<1>6. w \in Seq(S) /\ Len(w) = n - 1
  BY <1>1, <1>5
<1> QED
  BY <1>3, <1>6 DEF n

\* A chain with a node put in front of it.
LEMMA ConsShape ==
  ASSUME NEW S, NEW s \in Seq(S), NEW x \in S
  PROVE  /\ <<x>> \o s \in Seq(S)
         /\ Len(<<x>> \o s) = Len(s) + 1
         /\ (<<x>> \o s)[1] = x
         /\ \A j \in 2..(Len(s) + 1) : (<<x>> \o s)[j] = s[j - 1]
  OBVIOUS

\* What a well-formed list says of its nodes, one fact for each use.
LEMMA ChainFacts ==
  ASSUME ListInv, head # NULL
  PROVE  /\ head \in nodes /\ head \in Nodes
         /\ Len(chain) \in Nat
         /\ \A i \in 0..Len(chain) : At(i) \in nodes
         /\ \A i \in 1..Len(chain) : At(i) = chain[i]
         /\ At(0) = head
         /\ At(Len(chain) + 1) = NULL
<1>1. Len(chain) \in Nat
  BY DEF ListInv, TypeOK
<1>2. At(0) = head /\ At(Len(chain) + 1) = NULL
  BY <1>1 DEF At
<1>3. \A i \in 0..Len(chain) : At(i) \in nodes
  BY DEF ListInv, WellFormed
<1>4. head \in nodes
  BY <1>1, <1>2, <1>3
<1> QED
  BY <1>1, <1>2, <1>3, <1>4 DEF ListInv, TypeOK, At

-----------------------------------------------------------------------------
\* The first list is empty.
LEMMA CreateStep ==
  ASSUME ListInv, create_session_list
  PROVE  ListInv'
<1> USE ListAssumption DEF ListInv
<1>0. head = NULL /\ chain = <<>> /\ nodes = {} /\ pc = "start"
  BY DEF create_session_list, StartInv
<1>1. CASE pc' = "exit" /\ UNCHANGED <<head, nodes, value, next>>
  BY <1>0, <1>1 DEF create_session_list, locals, TypeOK, StartInv, WellFormed,
                    OwnInv, LoopInv, MemorySafe
<1>2. ASSUME NEW n \in Nodes \ nodes,
             head' = n, nodes' = nodes \cup {n},
             value' = [value EXCEPT ![n] = NULL],
             next' = [next EXCEPT ![n] = NULL], pc' = "idle"
      PROVE  ListInv'
  <2>0. chain' = <<>> /\ Len(chain') = 0 /\ UNCHANGED <<heap, locals, ret>>
    BY <1>0 DEF create_session_list
  <2>1. TypeOK'
    BY <1>2, <2>0 DEF TypeOK, locals
  <2>2. StartInv' /\ OwnInv' /\ LoopInv' /\ MemorySafe'
    BY <1>2, <2>0 DEF StartInv, OwnInv, LoopInv, MemorySafe
  <2>3. At(0)' = n /\ At(1)' = NULL
    BY <1>2, <2>0 DEF At
  <2>4. next'[n] = NULL /\ nodes' = {n}
    BY <1>0, <1>2 DEF TypeOK
  <2>5. WellFormed'
    <3>1. 0..Len(chain') = {0} /\ 0 + 1 = 1
      BY <2>0
    <3> QED
      BY <3>1, <2>3, <2>4 DEF WellFormed
  <2> QED
    BY <2>1, <2>2, <2>5
<1> QED
  BY <1>1, <1>2 DEF create_session_list

\* A node that was not allocated goes in front of the chain.
LEMMA InsertStep ==
  ASSUME ListInv, NEW s \in Sessions, insert_to_session_list(s)
  PROVE  ListInv'
<1> USE ListAssumption DEF ListInv
<1>0. head # NULL /\ pc = "idle" /\ s \in heap \ Listed
      /\ UNCHANGED <<head, heap, locals, ret>>
  BY DEF insert_to_session_list, StartInv
<1>1. CASE pc' = "segv" /\ UNCHANGED <<next, value, nodes, chain>>
  BY <1>0, <1>1 DEF locals, TypeOK, StartInv, WellFormed, OwnInv, LoopInv, MemorySafe, At
<1>2. ASSUME NEW n \in Nodes \ nodes,
             nodes' = nodes \cup {n},
             next' = [next EXCEPT ![n] = next[head], ![head] = n],
             value' = [value EXCEPT ![n] = s],
             chain' = <<n>> \o chain, pc' = pc
      PROVE  ListInv'
  <2>0. PICK m \in Nat : m = Len(chain)
    BY DEF TypeOK
  <2>1. m \in Nat /\ chain' \in Seq(Nodes) /\ Len(chain') = m + 1 /\ chain'[1] = n
        /\ \A j \in 2..(m + 1) : chain'[j] = chain[j - 1]
    BY <1>2, <2>0, ConsShape DEF TypeOK
  <2>2. /\ head \in nodes /\ head \in Nodes /\ At(0) = head /\ At(m + 1) = NULL
        /\ \A i \in 0..m : At(i) \in nodes
        /\ \A i \in 1..m : At(i) = chain[i]
    BY <1>0, <2>0, ChainFacts
  <2>3. /\ \A i \in 0..m : next[At(i)] = At(i + 1)
        /\ \A i, j \in 0..m : At(i) = At(j) => i = j
        /\ nodes = {At(i) : i \in 0..m}
    BY <1>0, <2>0 DEF WellFormed
  <2>4. /\ At(0)' = head /\ At(1)' = n
        /\ \A i \in 2..(m + 2) : At(i)' = At(i - 1)
    <3>1. At(0)' = head /\ At(1)' = n
      BY <1>0, <2>1 DEF At
    <3>2. ASSUME NEW i \in 2..(m + 1) PROVE At(i)' = At(i - 1)
      <4>1. i - 1 \in 1..m /\ i <= m + 1 /\ i # 0
        BY <2>1
      <4> QED
        BY <4>1, <2>1, <2>2 DEF At
    <3>3. At(m + 2)' = At(m + 1)
      <4>1. ~(m + 2 <= m + 1) /\ m + 2 # 0
        BY <2>1
      <4>2. At(m + 2)' = NULL
        BY <4>1, <2>1 DEF At
      <4> QED
        BY <4>2, <2>2
    <3>4. \A i \in 2..(m + 2) : i \in 2..(m + 1) \/ (i = m + 2 /\ i - 1 = m + 1)
      OBVIOUS
    <3> QED
      BY <3>1, <3>2, <3>3, <3>4
  <2>5. TypeOK'
    BY <1>0, <1>2, <2>1, <2>2 DEF TypeOK, locals
  <2>6. StartInv' /\ LoopInv' /\ MemorySafe'
    BY <1>0, <1>2 DEF StartInv, LoopInv, MemorySafe
  <2>7. OwnInv'
    <3>1. \A i \in 1..m : chain[i] \in nodes /\ chain[i] \in Nodes /\ chain[i] # n
      BY <1>2, <2>1, <2>2 DEF TypeOK
    <3>2. value'[n] = s /\ \A i \in 1..m : value'[chain[i]] = value[chain[i]]
      BY <1>2, <3>1 DEF TypeOK
    <3>3. \A i \in 1..m : value[chain[i]] # s
      BY <1>0, <2>0 DEF Listed
    <3>4. /\ \A i \in 1..m : value[chain[i]] \in heap
          /\ \A i, j \in 1..m : value[chain[i]] = value[chain[j]] => i = j
      BY <2>0 DEF OwnInv
    <3>5. /\ value'[chain'[1]] = s
          /\ \A i \in 2..(m + 1) : i - 1 \in 1..m
                                   /\ value'[chain'[i]] = value[chain[i - 1]]
      <4>1. \A i \in 2..(m + 1) : i - 1 \in 1..m
        BY <2>1
      <4> QED
        BY <4>1, <2>1, <3>2
    <3>6. \A i \in 1..(m + 1) : i = 1 \/ i \in 2..(m + 1)
      BY <2>1
    <3>7. \A i \in 1..(m + 1) : value'[chain'[i]] \in heap'
      BY <1>0, <3>4, <3>5, <3>6
    <3>8. ASSUME NEW i \in 1..(m + 1), NEW j \in 1..(m + 1),
                 value'[chain'[i]] = value'[chain'[j]]
          PROVE  i = j
      <4>1. CASE i = 1 /\ j = 1
        BY <4>1
      <4>2. CASE i = 1 /\ j \in 2..(m + 1)
        BY <4>2, <3>3, <3>5, <3>8
      <4>3. CASE i \in 2..(m + 1) /\ j = 1
        BY <4>3, <3>3, <3>5, <3>8
      <4>4. CASE i \in 2..(m + 1) /\ j \in 2..(m + 1)
        <5>1. i - 1 = j - 1
          BY <4>4, <3>4, <3>5, <3>8
        <5> QED
          BY <5>1, <2>1
      <4> QED
        BY <4>1, <4>2, <4>3, <4>4, <3>6
    <3> QED
      BY <2>1, <3>7, <3>8 DEF OwnInv
  <2>8. WellFormed'
    <3>1. \A i \in 0..(m + 1) : i = 0 \/ i = 1 \/ i \in 2..(m + 1)
      BY <2>1
    <3>2. \A i \in 2..(m + 1) : i - 1 \in 1..m /\ i - 1 \in 0..m /\ i \in 2..(m + 2)
                               /\ i + 1 \in 2..(m + 2) /\ (i + 1) - 1 = (i - 1) + 1
      BY <2>1
    <3>3. /\ next'[head] = n /\ next'[n] = next[head]
          /\ \A x \in nodes : x # head => next'[x] = next[x]
      BY <1>2, <2>2 DEF TypeOK
    <3>4. \A i \in 0..(m + 1) : next'[At(i)'] = At(i + 1)'
      <4>1. next'[At(0)'] = At(0 + 1)'
        BY <2>4, <3>3
      <4>2. next'[At(1)'] = At(1 + 1)'
        <5>1. 1 + 1 = 2 /\ 2 \in 2..(m + 2) /\ 2 - 1 = 1 /\ 0 \in 0..m /\ 0 + 1 = 1
          BY <2>1
        <5>2. At(2)' = At(1) /\ next[head] = At(1)
          BY <5>1, <2>2, <2>3, <2>4
        <5> QED
          BY <5>1, <5>2, <2>4, <3>3
      <4>3. ASSUME NEW i \in 2..(m + 1) PROVE next'[At(i)'] = At(i + 1)'
        <5>1. At(i)' = At(i - 1) /\ At(i + 1)' = At((i - 1) + 1)
          BY <2>4, <3>2
        <5>2. At(i - 1) \in nodes /\ next[At(i - 1)] = At((i - 1) + 1)
          BY <2>2, <2>3, <3>2
        <5>3. At(i - 1) # head
          <6>1. 0 \in 0..m /\ i - 1 # 0
            BY <2>1
          <6> QED
            BY <6>1, <2>2, <2>3, <3>2
        <5> QED
          BY <5>1, <5>2, <5>3, <3>3
      <4> QED
        BY <4>1, <4>2, <4>3, <3>1
    <3>5. ASSUME NEW i \in 0..(m + 1), NEW j \in 0..(m + 1), At(i)' = At(j)'
          PROVE  i = j
      <4>1. \A k \in 2..(m + 1) : At(k)' \in nodes /\ At(k)' # head
        <5>1. \A k \in 2..(m + 1) : 0 \in 0..m /\ k - 1 # 0
          BY <2>1
        <5> QED
          BY <5>1, <2>2, <2>3, <2>4, <3>2
      <4>2. n # head /\ n \notin nodes
        BY <2>2
      <4>3. CASE i \in 2..(m + 1) /\ j \in 2..(m + 1)
        <5>1. i - 1 = j - 1
          BY <4>3, <3>5, <2>3, <2>4, <3>2
        <5> QED
          BY <5>1, <2>1
      <4> QED
        BY <4>1, <4>2, <4>3, <3>1, <2>4, <3>5
    <3>6. nodes' = {At(i)' : i \in 0..(m + 1)}
      <4>1. ASSUME NEW x \in nodes' PROVE \E i \in 0..(m + 1) : x = At(i)'
        <5>1. 0 \in 0..(m + 1) /\ 1 \in 0..(m + 1)
          BY <2>1
        <5>2. CASE x = n
          BY <5>1, <5>2, <2>4
        <5>3. CASE x \in nodes
          <6>1. PICK i \in 0..m : x = At(i)
            BY <5>3, <2>3
          <6>2. CASE i = 0
            BY <6>1, <6>2, <5>1, <2>2, <2>4
          <6>3. CASE i # 0
            <7>1. i + 1 \in 0..(m + 1) /\ i + 1 \in 2..(m + 2) /\ (i + 1) - 1 = i
              BY <6>3, <2>1
            <7> QED
              BY <7>1, <6>1, <2>4
          <6> QED
            BY <6>2, <6>3
        <5> QED
          BY <5>2, <5>3, <1>2
      <4>2. ASSUME NEW i \in 0..(m + 1) PROVE At(i)' \in nodes'
        BY <3>1, <3>2, <2>2, <2>4, <1>2
      <4> QED
        BY <4>1, <4>2
    <3> QED
      BY <2>1, <3>4, <3>5, <3>6 DEF WellFormed
  <2> QED
    BY <2>5, <2>6, <2>7, <2>8
<1> QED
  BY <1>0, <1>1, <1>2 DEF insert_to_session_list

\* Steps that leave the list alone and enter or leave no loop in between.
LEMMA WalkStep ==
  ASSUME ListInv,
         \/ get_list_length \/ length_loop
         \/ \E s \in Sessions : remove_from_list(s) \/ new_session(s)
         \/ remove_loop /\ pindex = NULL
         \/ remove_loop /\ pindex \in nodes /\ value[pindex] # session
         \/ remove_loop /\ pindex \notin nodes \cup {NULL}
  PROVE  ListInv' /\ chain' = chain /\ value' = value
<1> USE ListAssumption DEF ListInv
<1>0. PICK m \in Nat : m = Len(chain)
  BY DEF TypeOK
<1>1. ASSUME UNCHANGED memory, pc # "start", pc' # "start", head # NULL
      PROVE  /\ StartInv' /\ WellFormed' /\ OwnInv'
             /\ chain' = chain /\ value' = value /\ Len(chain') = m
             /\ \A i : At(i)' = At(i)
  BY <1>0, <1>1 DEF memory, StartInv, WellFormed, OwnInv, At
<1>2. ASSUME head # NULL
      PROVE  /\ \A i \in 0..m : At(i) \in nodes /\ At(i) \in Nodes
             /\ \A i \in 0..m : next[At(i)] = At(i + 1)
             /\ \A i \in 1..m : At(i) = chain[i]
             /\ At(0) = head /\ At(m + 1) = NULL
  BY <1>0, <1>2, ChainFacts DEF WellFormed, TypeOK
<1>3. pc \in {"idle", "length", "remove"} => head # NULL
  BY DEF StartInv
<1>4. CASE get_list_length /\ pc = "start"
  BY <1>4 DEF get_list_length, memory, locals, TypeOK, StartInv, WellFormed,
              OwnInv, LoopInv, MemorySafe, At
<1>5. ASSUME pc = "idle", UNCHANGED <<memory, ret>>, NEW f \in {"length", "remove"},
             NEW s \in Sessions \cup {NULL}, f = "remove" => s \in Sessions,
             NEW prev \in {NULL, head}, f = "remove" => prev = head,
             Enter(f, s, prev)
      PROVE  ListInv' /\ chain' = chain /\ value' = value
  <2>1. StartInv' /\ WellFormed' /\ OwnInv' /\ chain' = chain /\ value' = value
        /\ Len(chain') = m /\ \A i : At(i)' = At(i)
    BY <1>1, <1>3, <1>5 DEF Enter
  <2>2. next[head] = At(0 + 1) /\ 0 + 1 = 1 /\ 0 \in 0..m /\ At(0) = head
    BY <1>2, <1>3, <1>5
  <2>3. LoopInv' /\ MemorySafe'
    BY <1>5, <2>1, <2>2 DEF Enter, LoopInv, MemorySafe
  <2>4. TypeOK'
    BY <1>3, <1>5 DEF Enter, memory, TypeOK
  <2> QED
    BY <2>1, <2>3, <2>4
<1>6. ASSUME UNCHANGED memory, Return, pc \in {"length", "remove"}, ret' \in Nat
      PROVE  ListInv' /\ chain' = chain /\ value' = value
  <2>1. StartInv' /\ WellFormed' /\ OwnInv' /\ chain' = chain /\ value' = value
    BY <1>1, <1>3, <1>6 DEF Return
  <2>2. TypeOK' /\ LoopInv' /\ MemorySafe'
    BY <1>6 DEF Return, memory, TypeOK, LoopInv, MemorySafe
  <2> QED
    BY <2>1, <2>2
<1>7. ASSUME UNCHANGED <<memory, ret, session>>, pindex \in nodes,
             pc \in {"length", "remove"}, pc' = pc,
             length' = length + 1, pindex' = next[pindex],
             pprev' \in {pprev, pindex},
             pc = "remove" => pprev' = pindex /\ value[pindex] # session
      PROVE  ListInv' /\ chain' = chain /\ value' = value
  <2>1. StartInv' /\ WellFormed' /\ OwnInv' /\ chain' = chain /\ value' = value
        /\ Len(chain') = m /\ \A i : At(i)' = At(i)
    BY <1>1, <1>3, <1>7
  <2>2. length \in 0..m /\ pindex = At(length + 1) /\ head # NULL
    BY <1>0, <1>3, <1>7 DEF LoopInv
  <2>3. pindex # NULL
    BY <1>7 DEF TypeOK
  <2>4. length # m
    BY <1>2, <2>2, <2>3
  <2>5. length + 1 \in 0..m /\ length + 1 \in 1..m /\ length \in Nat
    BY <2>2, <2>4
  <2>6. next[pindex] = At((length + 1) + 1) /\ pindex = chain[length + 1]
    BY <1>2, <2>2, <2>5
  <2>7. LoopInv'
    <3>1. pc = "remove" =>
            session \in Sessions /\ \A j \in 1..length : value[chain[j]] # session
      BY DEF LoopInv
    <3>2. \A j \in 1..(length + 1) : j \in 1..length \/ j = length + 1
      BY <2>5
    <3>3. pc = "remove" => \A j \in 1..(length + 1) : value[chain[j]] # session
      BY <1>7, <2>6, <3>1, <3>2
    <3>4. length' \in 0..Len(chain') /\ pindex' = At(length + 1)'
      BY <1>7, <2>1, <2>5, <2>6
    <3>5. pc = "remove" => pprev' = At(length)'
      BY <1>7, <2>1, <2>2
    <3> QED
      BY <1>7, <2>1, <3>1, <3>3, <3>4, <3>5 DEF LoopInv
  <2>8. TypeOK' /\ MemorySafe'
    BY <1>7, <2>5 DEF memory, TypeOK, MemorySafe
  <2> QED
    BY <2>1, <2>7, <2>8
<1>8. pc \in {"length", "remove"} => pindex \in nodes \cup {NULL}
  <2>1. SUFFICES ASSUME pc \in {"length", "remove"}
                 PROVE  pindex \in nodes \cup {NULL}
    OBVIOUS
  <2>2. length \in 0..m /\ pindex = At(length + 1)
    BY <1>0, <2>1 DEF LoopInv
  <2>3. length + 1 \in 0..m \/ length + 1 = m + 1
    BY <2>2
  <2> QED
    BY <1>2, <1>3, <2>1, <2>2, <2>3
<1>9. CASE get_list_length /\ pc = "idle"
  BY <1>5, <1>9 DEF get_list_length
<1>10. CASE length_loop
  <2>1. CASE pindex = NULL
    BY <1>6, <1>10, <2>1 DEF length_loop, TypeOK
  <2>2. CASE pindex \in nodes
    BY <1>7, <1>10, <2>2 DEF length_loop, TypeOK
  <2> QED
    BY <1>8, <1>10, <2>1, <2>2 DEF length_loop
<1>11. CASE \E s \in Sessions : remove_from_list(s)
  BY <1>5, <1>11 DEF remove_from_list
<1>12. CASE \E s \in Sessions : new_session(s)
  BY <1>12 DEF new_session, locals, TypeOK, StartInv, WellFormed, OwnInv, LoopInv,
               MemorySafe, At
<1>13. CASE remove_loop /\ pindex = NULL
  BY <1>6, <1>13 DEF remove_loop, TypeOK
<1>14. CASE remove_loop /\ pindex \in nodes /\ value[pindex] # session
  BY <1>7, <1>14 DEF remove_loop, TypeOK
<1>15. CASE remove_loop /\ pindex \notin nodes \cup {NULL}
  BY <1>8, <1>15 DEF remove_loop
<1> QED
  BY <1>4, <1>9, <1>10, <1>11, <1>12, <1>13, <1>14, <1>15 DEF get_list_length

\* The node that is found is unlinked: node k of the chain, behind node k - 1.
LEMMA RemoveStep ==
  ASSUME ListInv, remove_loop, pindex \in nodes, value[pindex] = session
  PROVE  /\ ListInv'
         /\ length + 1 \in 1..Len(chain)
         /\ session = value[chain[length + 1]]
         /\ chain' = L!Without(chain, length + 1)
         /\ value' = [value EXCEPT ![chain[length + 1]] = NULL]
<1> USE ListAssumption DEF ListInv
<1>0. PICK m \in Nat : m = Len(chain)
  BY DEF TypeOK
<1>1. pc = "remove" /\ remove_found /\ ret' = ret /\ pindex # NULL /\ head # NULL
  BY DEF remove_loop, TypeOK, StartInv
<1>2. /\ \A i \in 0..m : At(i) \in nodes /\ At(i) \in Nodes
      /\ \A i \in 0..m : next[At(i)] = At(i + 1)
      /\ \A i, j \in 0..m : At(i) = At(j) => i = j
      /\ nodes = {At(i) : i \in 0..m}
      /\ \A i \in 1..m : At(i) = chain[i]
      /\ At(0) = head /\ At(m + 1) = NULL
  BY <1>0, <1>1, ChainFacts DEF WellFormed, TypeOK
<1>3. PICK k \in 1..m : k = length + 1 /\ pindex = At(k) /\ pprev = At(k - 1)
  <2>1. length \in 0..m /\ pindex = At(length + 1) /\ pprev = At(length)
    BY <1>0, <1>1 DEF LoopInv
  <2>2. length # m
    BY <1>1, <1>2, <2>1
  <2>3. length + 1 \in 1..m /\ (length + 1) - 1 = length
    BY <2>1, <2>2
  <2> QED
    BY <2>1, <2>3
<1>4. /\ k \in Nat /\ k \in 0..m /\ k - 1 \in 0..m /\ m - 1 \in Nat
      /\ \A i \in 0..(m - 1) : i \in 0..m /\ i + 1 \in 1..m /\ i + 1 \in 0..m
  OBVIOUS
<1>5. pindex = chain[k] /\ session = value[chain[k]]
  BY <1>2, <1>3
<1>6. session \in heap
  BY <1>0, <1>5 DEF OwnInv
<1>7. /\ chain' = L!Without(chain, k)
      /\ heap' = heap \ {session} /\ nodes' = nodes \ {pindex}
      /\ value' = [value EXCEPT ![pindex] = NULL]
      /\ next' = [next EXCEPT ![pprev] = next[pindex], ![pindex] = NULL]
      /\ Return /\ head' = head
  BY <1>1, <1>3, <1>6 DEF remove_found, free
<1>8. /\ chain' \in Seq(Nodes) /\ Len(chain') = m - 1
      /\ \A j \in 1..(m - 1) : chain'[j] = IF j < k THEN chain[j] ELSE chain[j + 1]
  BY <1>0, <1>7, WithoutShape DEF TypeOK
<1>9. TypeOK' /\ StartInv' /\ LoopInv' /\ MemorySafe'
  BY <1>1, <1>7, <1>8 DEF Return, TypeOK, StartInv, LoopInv, MemorySafe
<1>10. \A i \in 0..m : At(i)' = IF i < k THEN At(i) ELSE At(i + 1)
  <2>1. At(0)' = At(0) /\ 0 < k
    BY <1>7 DEF At
  <2>2. ASSUME NEW i \in 1..(m - 1) PROVE At(i)' = IF i < k THEN At(i) ELSE At(i + 1)
    <3>1. i # 0 /\ i <= m - 1 /\ i \in 1..m /\ i + 1 \in 1..m
      OBVIOUS
    <3>2. At(i)' = chain'[i]
      BY <3>1, <1>8 DEF At
    <3> QED
      BY <3>1, <3>2, <1>2, <1>8
  <2>3. At(m)' = At(m + 1) /\ ~(m < k)
    <3>1. ~(m <= m - 1) /\ m # 0
      OBVIOUS
    <3>2. At(m)' = NULL
      BY <3>1, <1>8 DEF At
    <3> QED
      BY <3>2, <1>2
  <2>4. \A i \in 0..m : i = 0 \/ i \in 1..(m - 1) \/ i = m
    OBVIOUS
  <2> QED
    BY <2>1, <2>2, <2>3, <2>4
<1>11. \A i \in 0..(m - 1) : \E j \in 0..m : At(i)' = At(j) /\ j # k
                                          /\ (j = i \/ j = i + 1) /\ (i < k <=> j = i)
  <2>1. ASSUME NEW i \in 0..(m - 1), i < k
        PROVE  At(i)' = At(i) /\ i # k /\ i \in 0..m
    BY <1>4, <1>10, <2>1
  <2>2. ASSUME NEW i \in 0..(m - 1), ~(i < k)
        PROVE  At(i)' = At(i + 1) /\ i + 1 # k /\ i + 1 \in 0..m /\ i + 1 # i
    BY <1>4, <1>10, <2>2
  <2> QED
    BY <2>1, <2>2
<1>12. /\ next'[At(k - 1)] = At(k + 1)
       /\ \A x \in nodes : x # At(k) /\ x # At(k - 1) => next'[x] = next[x]
  <2>1. At(k) # At(k - 1) /\ At(k) \in Nodes /\ At(k - 1) \in Nodes
    BY <1>2, <1>4
  <2> QED
    BY <1>2, <1>3, <1>4, <1>7, <2>1 DEF TypeOK
<1>13. WellFormed'
  <2>1. ASSUME NEW i \in 0..(m - 1) PROVE next'[At(i)'] = At(i + 1)'
    <3>1. CASE i < k - 1
      <4>1. i < k /\ i + 1 < k /\ i \in 0..m /\ i + 1 \in 0..m /\ i # k /\ i # k - 1
        BY <3>1
      <4>2. At(i)' = At(i) /\ At(i + 1)' = At(i + 1)
        BY <4>1, <1>10
      <4>3. At(i) # At(k) /\ At(i) # At(k - 1)
        BY <4>1, <1>2, <1>4
      <4> QED
        BY <4>1, <4>2, <4>3, <1>2, <1>12
    <3>2. CASE i = k - 1
      <4>1. i < k /\ ~(i + 1 < k) /\ i \in 0..m /\ i + 1 \in 0..m /\ i + 1 = k
        BY <3>2
      <4>2. At(i)' = At(k - 1) /\ At(i + 1)' = At(k + 1)
        BY <3>2, <4>1, <1>10
      <4> QED
        BY <4>2, <1>12
    <3>3. CASE i >= k
      <4>1. /\ ~(i < k) /\ ~(i + 1 < k) /\ i \in 0..m /\ i + 1 \in 0..m
            /\ i + 1 # k /\ i + 1 # k - 1
        BY <3>3
      <4>2. At(i)' = At(i + 1) /\ At(i + 1)' = At((i + 1) + 1)
        BY <4>1, <1>10
      <4>3. At(i + 1) # At(k) /\ At(i + 1) # At(k - 1)
        BY <4>1, <1>2, <1>4
      <4> QED
        BY <4>1, <4>2, <4>3, <1>2, <1>12
    <3>4. i < k - 1 \/ i = k - 1 \/ i >= k
      OBVIOUS
    <3> QED
      BY <3>1, <3>2, <3>3, <3>4
  <2>2. ASSUME NEW i \in 0..(m - 1), NEW j \in 0..(m - 1), At(i)' = At(j)'
        PROVE  i = j
    <3>1. PICK a \in 0..m : At(i)' = At(a) /\ a # k /\ (a = i \/ a = i + 1) /\ (i < k <=> a = i)
      BY <1>11
    <3>2. PICK b \in 0..m : At(j)' = At(b) /\ b # k /\ (b = j \/ b = j + 1) /\ (j < k <=> b = j)
      BY <1>11
    <3>3. a = b
      BY <2>2, <3>1, <3>2, <1>2
    <3> QED
      BY <3>1, <3>2, <3>3
  <2>3. nodes' = {At(i)' : i \in 0..(m - 1)}
    <3>1. ASSUME NEW i \in 0..(m - 1) PROVE At(i)' \in nodes'
      BY <1>2, <1>3, <1>4, <1>7, <1>11
    <3>2. ASSUME NEW x \in nodes' PROVE \E i \in 0..(m - 1) : x = At(i)'
      <4>1. PICK j \in 0..m : x = At(j)
        BY <1>2, <1>7
      <4>2. j # k
        BY <4>1, <1>3, <1>7
      <4>3. CASE j < k
        <5>1. j \in 0..(m - 1)
          BY <4>3
        <5> QED
          BY <5>1, <4>1, <4>3, <1>10
      <4>4. CASE j > k
        <5>1. j - 1 \in 0..(m - 1) /\ j - 1 \in 0..m /\ ~(j - 1 < k) /\ (j - 1) + 1 = j
          BY <4>4
        <5>2. At(j - 1)' = At(j)
          BY <5>1, <1>10
        <5> QED
          BY <5>1, <5>2, <4>1
      <4>5. j < k \/ j > k
        BY <4>2
      <4> QED
        BY <4>3, <4>4, <4>5
    <3> QED
      BY <3>1, <3>2
  <2> QED
    BY <1>8, <2>1, <2>2, <2>3 DEF WellFormed
<1>14. OwnInv'
  <2>1. \A i \in 1..m : chain[i] \in Nodes
    BY <1>0 DEF TypeOK
  <2>2. \A i \in 1..m : i # k => chain[i] # pindex
    BY <1>2, <1>3, <1>4
  <2>3. \A i \in 1..m : i # k => value'[chain[i]] = value[chain[i]]
    BY <1>7, <2>1, <2>2 DEF TypeOK
  <2>4. /\ \A i \in 1..m : value[chain[i]] \in heap
        /\ \A i, j \in 1..m : value[chain[i]] = value[chain[j]] => i = j
    BY <1>0 DEF OwnInv
  <2>5. \A i \in 1..(m - 1) : \E j \in 1..m : chain'[i] = chain[j] /\ j # k
                                          /\ (j = i \/ j = i + 1) /\ (i < k <=> j = i)
    <3>1. ASSUME NEW i \in 1..(m - 1), i < k
          PROVE  chain'[i] = chain[i] /\ i # k /\ i \in 1..m
      BY <1>8, <3>1
    <3>2. ASSUME NEW i \in 1..(m - 1), ~(i < k)
          PROVE  chain'[i] = chain[i + 1] /\ i + 1 # k /\ i + 1 \in 1..m /\ i + 1 # i
      BY <1>8, <3>2
    <3> QED
      BY <3>1, <3>2
  <2>6. ASSUME NEW i \in 1..(m - 1) PROVE value'[chain'[i]] \in heap'
    <3>1. PICK j \in 1..m : chain'[i] = chain[j] /\ j # k
      BY <2>5
    <3>2. value[chain[j]] # session
      BY <1>5, <2>4, <3>1
    <3> QED
      BY <1>7, <2>3, <2>4, <3>1, <3>2
  <2>7. ASSUME NEW i \in 1..(m - 1), NEW j \in 1..(m - 1),
               value'[chain'[i]] = value'[chain'[j]]
        PROVE  i = j
    <3>1. PICK a \in 1..m : chain'[i] = chain[a] /\ a # k /\ (a = i \/ a = i + 1) /\ (i < k <=> a = i)
      BY <2>5
    <3>2. PICK b \in 1..m : chain'[j] = chain[b] /\ b # k /\ (b = j \/ b = j + 1) /\ (j < k <=> b = j)
      BY <2>5
    <3>3. value[chain[a]] = value[chain[b]]
      BY <2>3, <2>7, <3>1, <3>2
    <3>4. a = b
      BY <2>4, <3>3
    <3> QED
      BY <3>1, <3>2, <3>4
  <2> QED
    BY <1>8, <2>6, <2>7 DEF OwnInv
<1> QED
  BY <1>0, <1>3, <1>5, <1>7, <1>9, <1>13, <1>14

-----------------------------------------------------------------------------
LEMMA ListInit == Init => ListInv
  BY ListAssumption
     DEF Init, ListInv, TypeOK, StartInv, WellFormed, OwnInv, LoopInv, MemorySafe

LEMMA ListStep == ListInv /\ [Next]_vars => ListInv'
<1> SUFFICES ASSUME ListInv, [Next]_vars
             PROVE  ListInv'
  OBVIOUS
<1>1. CASE UNCHANGED vars
  BY <1>1 DEF vars, memory, locals, ListInv, TypeOK, StartInv, WellFormed, OwnInv,
              LoopInv, MemorySafe, At
<1>2. CASE create_session_list
  BY <1>2, CreateStep
<1>3. CASE \E s \in Sessions : insert_to_session_list(s)
  BY <1>3, InsertStep
<1>4. CASE get_list_length \/ length_loop
           \/ \E s \in Sessions : remove_from_list(s) \/ new_session(s)
  BY <1>4, WalkStep
<1>5. CASE remove_loop
  <2>1. CASE pindex \in nodes /\ value[pindex] = session
    BY <1>5, <2>1, RemoveStep
  <2>2. CASE ~(pindex \in nodes /\ value[pindex] = session)
    BY <1>5, <2>2, WalkStep
  <2> QED
    BY <2>1, <2>2
<1> QED
  BY <1>1, <1>2, <1>3, <1>4, <1>5 DEF Next

\* The fields and locals of list.c keep their types, and the invariant that
\* ties the nodes in memory to the history of the list always holds.
THEOREM Invariant == Spec => []ListInv
<1> QED
  BY ListInit, ListStep, PTL DEF Spec

\* Following next from head visits every allocated node once and ends.
THEOREM ListWellFormed == Spec => []WellFormed
<1>1. ListInv => WellFormed
  BY DEF ListInv
<1> QED
  BY <1>1, Invariant, PTL

\* No call of list.c touches freed memory or frees anything twice.
THEOREM ListMemorySafe == Spec => []MemorySafe
<1>1. ListInv => MemorySafe
  BY DEF ListInv
<1> QED
  BY <1>1, Invariant, PTL

\* The loops of get_list_length and remove_from_list pass a node of the list
\* in every round that does not end the call, so they end (list.c:25-30, :45-57).
THEOREM LoopsAdvance == Spec => WalksForward
<1>1. ListInv /\ ListInv' /\ [Next]_vars =>
        [ (pc \in {"length", "remove"} /\ pc' # "idle") =>
            pc' = pc /\ chain' = chain /\ length' = length + 1 /\ length' <= Len(chain) ]_vars
  <2> SUFFICES ASSUME ListInv, ListInv', Next, pc \in {"length", "remove"}, pc' # "idle"
               PROVE  pc' = pc /\ chain' = chain /\ length' = length + 1 /\ length' <= Len(chain)
    OBVIOUS
  <2>1. MemorySafe' /\ (pc' = pc => length' \in 0..Len(chain'))
    BY DEF ListInv, LoopInv
  <2>2. CASE length_loop
    <3>1. pc' = pc /\ chain' = chain /\ length' = length + 1
      BY <2>1, <2>2 DEF length_loop, Return, Fault, MemorySafe, memory
    <3> QED
      BY <2>1, <3>1 DEF ListInv, TypeOK
  <2>3. CASE remove_loop
    <3>1. pc' = pc /\ chain' = chain /\ length' = length + 1
      BY <2>1, <2>3 DEF remove_loop, remove_found, Return, Fault, MemorySafe, memory
    <3> QED
      BY <2>1, <3>1 DEF ListInv, TypeOK
  <2> QED
    BY <2>2, <2>3 DEF Next, create_session_list, get_list_length, new_session,
                      insert_to_session_list, remove_from_list
<1> QED
  BY <1>1, Invariant, PTL DEF Spec, WalksForward

-----------------------------------------------------------------------------
(* list.c implements SessionSeq.                                           *)

\* The list of sessions the chain stands for.
contents == [i \in 1..Len(chain) |-> value[chain[i]]]

LEMMA ContentsType ==
  ASSUME ListInv
  PROVE  /\ Len(chain) \in Nat
         /\ contents \in Seq(Sessions)
         /\ Len(contents) = Len(chain)
         /\ \A i \in 1..Len(chain) : contents[i] = value[chain[i]]
<1>0. PICK m \in Nat : m = Len(chain)
  BY DEF ListInv, TypeOK
<1>1. \A i \in 1..m : value[chain[i]] \in Sessions
  BY <1>0 DEF ListInv, TypeOK, OwnInv
<1>2. contents \in [1..m -> Sessions]
  BY <1>0, <1>1 DEF contents
<1>3. contents \in Seq(Sessions) /\ Len(contents) = m
  BY <1>2
<1> QED
  BY <1>0, <1>3 DEF contents

LEMMA InsertImplements ==
  ASSUME ListInv, NEW s \in Sessions, insert_to_session_list(s), pc' # "segv"
  PROVE  L!Insert(s)
<1>0. PICK m \in Nat : m = Len(chain)
  BY DEF ListInv, TypeOK
<1>1. PICK n \in Nodes \ nodes : value' = [value EXCEPT ![n] = s] /\ chain' = <<n>> \o chain
  BY DEF insert_to_session_list
<1>2. chain \in Seq(Nodes) /\ head # NULL
  BY DEF ListInv, TypeOK, StartInv, insert_to_session_list
<1>3. /\ Len(chain') = m + 1 /\ chain'[1] = n
      /\ \A j \in 2..(m + 1) : chain'[j] = chain[j - 1]
  BY <1>0, <1>1, <1>2, ConsShape
<1>4. /\ value'[n] = s
      /\ \A i \in 1..m : value'[chain[i]] = value[chain[i]]
  <2>1. \A i \in 1..m : i \in 0..m
    OBVIOUS
  <2>2. \A i \in 1..m : chain[i] \in nodes /\ chain[i] \in Nodes
    BY <2>1, <1>0, <1>2, ChainFacts DEF ListInv, TypeOK
  <2> QED
    BY <1>1, <2>2 DEF ListInv, TypeOK
<1>5. /\ contents \in Seq(Sessions) /\ Len(contents) = m
      /\ \A i \in 1..m : contents[i] = value[chain[i]]
  BY <1>0, ContentsType
<1>6. <<s>> \o contents \in Seq(Sessions) /\ Len(<<s>> \o contents) = m + 1
      /\ (<<s>> \o contents)[1] = s
      /\ \A j \in 2..(m + 1) : (<<s>> \o contents)[j] = contents[j - 1]
  BY <1>5, ConsShape
<1>7. \A j \in 1..(m + 1) : value'[chain'[j]] = (<<s>> \o contents)[j]
  <2>1. \A j \in 1..(m + 1) : j = 1 \/ (j \in 2..(m + 1) /\ j - 1 \in 1..m)
    OBVIOUS
  <2> QED
    BY <2>1, <1>3, <1>4, <1>5, <1>6
<1>8. <<s>> \o contents = [j \in 1..(m + 1) |-> (<<s>> \o contents)[j]]
  <2> DEFINE c == <<s>> \o contents
  <2> HIDE DEF c
  <2>1. c \in Seq(Sessions) /\ Len(c) = m + 1
    BY <1>6 DEF c
  <2>2. c = [j \in 1..(m + 1) |-> c[j]]
    BY <2>1
  <2> QED
    BY <2>2 DEF c
<1>9. contents' = [j \in 1..(m + 1) |-> value'[chain'[j]]]
  BY <1>3 DEF contents
<1>10. contents' = <<s>> \o contents
  BY <1>7, <1>8, <1>9
<1>11. ret' = ret
  BY DEF insert_to_session_list
<1> QED
  BY <1>10, <1>11 DEF L!Insert, contents

LEMMA RemoveImplements ==
  ASSUME ListInv, remove_loop, pindex \in nodes, value[pindex] = session
  PROVE  \E s \in Sessions : L!Remove(s)
<1>0. PICK m \in Nat : m = Len(chain)
  BY DEF ListInv, TypeOK
<1>1. PICK k \in 1..m :
        /\ k = length + 1 /\ session = value[chain[k]]
        /\ chain' = L!Without(chain, k)
        /\ value' = [value EXCEPT ![chain[k]] = NULL]
  BY <1>0, RemoveStep
<1>2. pc = "remove" /\ chain \in Seq(Nodes) /\ head # NULL /\ ret' = ret
  BY DEF remove_loop, ListInv, TypeOK, StartInv
<1>3. /\ Len(chain') = m - 1 /\ m - 1 \in Nat
      /\ \A j \in 1..(m - 1) : chain'[j] = IF j < k THEN chain[j] ELSE chain[j + 1]
  <2>1. m - 1 \in Nat
    OBVIOUS
  <2> QED
    BY <2>1, <1>0, <1>1, <1>2, WithoutShape
<1>4. /\ contents \in Seq(Sessions) /\ Len(contents) = m
      /\ \A i \in 1..m : contents[i] = value[chain[i]]
  BY <1>0, ContentsType
<1>5. \A i \in 1..m : i # k => value'[chain[i]] = value[chain[i]]
  <2>1. \A i, j \in 1..m : value[chain[i]] = value[chain[j]] => i = j
    BY <1>0 DEF ListInv, OwnInv
  <2>2. \A i \in 1..m : chain[i] \in Nodes
    BY <1>0, <1>2
  <2>3. \A i \in 1..m : i # k => chain[i] # chain[k]
    BY <2>1
  <2> QED
    BY <1>1, <2>2, <2>3 DEF ListInv, TypeOK
<1>6. \A j \in 1..(m - 1) :
        value'[chain'[j]] = IF j < k THEN contents[j] ELSE contents[j + 1]
  <2>1. ASSUME NEW j \in 1..(m - 1), j < k
        PROVE  value'[chain'[j]] = contents[j]
    <3>1. j \in 1..m /\ j # k
      BY <2>1
    <3> QED
      BY <3>1, <2>1, <1>3, <1>4, <1>5
  <2>2. ASSUME NEW j \in 1..(m - 1), ~(j < k)
        PROVE  value'[chain'[j]] = contents[j + 1]
    <3>1. j + 1 \in 1..m /\ j + 1 # k
      BY <2>2
    <3> QED
      BY <3>1, <2>2, <1>3, <1>4, <1>5
  <2> QED
    BY <2>1, <2>2
<1>7. contents' = L!Without(contents, k)
  <2>1. contents' = [j \in 1..(m - 1) |-> value'[chain'[j]]]
    BY <1>3 DEF contents
  <2>2. L!Without(contents, k) =
          [j \in 1..(m - 1) |-> IF j < k THEN contents[j] ELSE contents[j + 1]]
    BY <1>4 DEF L!Without
  <2> QED
    BY <2>1, <2>2, <1>6
<1>8. contents[k] = session /\ \A j \in 1..(k - 1) : contents[j] # session
  <2>1. \A j \in 1..length : value[chain[j]] # session
    BY <1>2 DEF ListInv, LoopInv
  <2>2. length \in Nat /\ k - 1 = length
    BY <1>1 DEF ListInv, TypeOK
  <2>3. \A j \in 1..(k - 1) : j \in 1..m /\ j \in 1..length
    BY <2>2
  <2> QED
    BY <1>1, <1>4, <2>1, <2>3
<1>9. PICK s \in Sessions : s = session
  BY <1>4, <1>8
<1>10. L!Remove(s)
  BY <1>2, <1>4, <1>7, <1>8, <1>9 DEF L!Remove, contents
<1> QED
  BY <1>10

\* Every step of list.c is a step of the list of list.h, or none.
LEMMA StepImplements == ListInv /\ [Next]_vars => [L!Next]_<<contents, ret>>
<1> SUFFICES ASSUME ListInv, [Next]_vars
             PROVE  [L!Next]_<<contents, ret>>
  OBVIOUS
<1>1. ASSUME chain' = chain, value' = value PROVE contents' = contents
  BY <1>1 DEF contents
<1>2. CASE UNCHANGED vars
  BY <1>1, <1>2 DEF vars, memory
<1>3. CASE create_session_list
  <2>1. chain = <<>> /\ chain' = <<>> /\ ret' = ret
    BY <1>3 DEF create_session_list, ListInv, StartInv
  <2> QED
    BY <2>1 DEF contents
<1>4. ASSUME NEW s \in Sessions, insert_to_session_list(s)
      PROVE  [L!Next]_<<contents, ret>>
  <2>1. CASE pc' = "segv"
    <3>1. chain' = chain /\ value' = value /\ ret' = ret
      BY <1>4, <2>1 DEF insert_to_session_list
    <3> QED
      BY <1>1, <3>1
  <2>2. CASE pc' # "segv"
    BY <1>4, <2>2, InsertImplements DEF L!Next
  <2> QED
    BY <2>1, <2>2
<1>5. CASE \E s \in Sessions : remove_from_list(s) \/ new_session(s)
  BY <1>1, <1>5, WalkStep DEF remove_from_list, new_session
<1>6. CASE remove_loop
  <2>1. CASE pindex \in nodes /\ value[pindex] = session
    BY <1>6, <2>1, RemoveImplements DEF L!Next
  <2>2. CASE ~(pindex \in nodes /\ value[pindex] = session)
    BY <1>1, <1>6, <2>2, WalkStep DEF remove_loop
  <2> QED
    BY <2>1, <2>2
<1>7. CASE get_list_length \/ length_loop
  <2>1. contents' = contents
    BY <1>1, <1>7, WalkStep
  <2>2. Len(contents) = Len(chain)
    BY ContentsType
  <2>3. CASE get_list_length
    <3>1. ret' = ret \/ (ret' = 0 /\ chain = <<>>)
      BY <2>3 DEF get_list_length, ListInv, StartInv
    <3> QED
      BY <2>1, <2>2, <3>1 DEF L!Next, L!Length, contents
  <2>4. CASE length_loop
    <3>1. CASE pindex = NULL
      <4>1. length \in 0..Len(chain) /\ pindex = At(length + 1) /\ head # NULL
        BY <2>4 DEF length_loop, ListInv, LoopInv, StartInv
      <4>2. \A i \in 0..Len(chain) : At(i) # NULL
        BY <4>1, ChainFacts, ListAssumption DEF ListInv, TypeOK
      <4>3. Len(chain) \in Nat
        BY ContentsType
      <4>4. length = Len(chain)
        BY <3>1, <4>1, <4>2, <4>3
      <4>5. ret' = length
        BY <2>4, <3>1, ListAssumption DEF length_loop, ListInv, TypeOK
      <4> QED
        BY <2>1, <2>2, <4>4, <4>5 DEF L!Next, L!Length, contents
    <3>2. CASE pindex # NULL
      BY <2>1, <2>4, <3>2 DEF length_loop
    <3> QED
      BY <3>1, <3>2
  <2> QED
    BY <1>7, <2>3, <2>4
<1> QED
  BY <1>2, <1>3, <1>4, <1>5, <1>6, <1>7 DEF Next

\* list.c implements the list of sessions that list.h promises, whatever
\* addresses malloc hands out again.
THEOREM ListImplementsSeq == Spec => ImplementsSeq
<1>1. Init => L!Init
  BY DEF Init, L!Init
<1>2. ListInv /\ [Next]_vars => [L!Next]_<<[i \in 1..Len(chain) |-> value[chain[i]]], ret>>
  BY StepImplements DEF contents
<1> QED
  BY <1>1, <1>2, Invariant, PTL DEF Spec, ImplementsSeq, L!Spec
=============================================================================
