----------------------------- MODULE SessionList -----------------------------
(***************************************************************************)
(* The linked list of tftp/list.c in memory: nodes that malloc hands out,  *)
(* that free takes back and that malloc may hand out again.  A loop of the *)
(* program is one step per round.                                          *)
(*                                                                         *)
(* The callers keep to the rule of list_test.cc: a session is allocated,   *)
(* given to the list once, and from then on belongs to the list, whose     *)
(* remove_from_list frees it.                                              *)
(***************************************************************************)
EXTENDS Naturals, Sequences

CONSTANTS
  Nodes,     \* addresses of SESSION_LIST objects
  Sessions,  \* addresses of SESSION objects
  NULL       \* the null pointer

ASSUME ListAssumption == NULL \notin Nodes /\ NULL \notin Sessions

VARIABLES
  pc,      \* the function that runs ("idle": none), or how the program ended
  head,    \* the list, or NULL before it is created
  next,    \* the fields of the nodes
  value,
  nodes,   \* the nodes that are allocated
  heap,    \* the sessions that are allocated
  session, \* the argument of remove_from_list
  pprev,   \* locals of the loops
  pindex,
  length,  \* rounds of the loop; a variable of the program in get_list_length
  ret,     \* what get_list_length returned last
  chain    \* history: the nodes in the list, in order

memory == <<head, next, value, nodes, heap, chain>>
locals == <<session, pprev, pindex, length>>
vars == <<pc, memory, locals, ret>>

Listed == {value[chain[i]] : i \in 1..Len(chain)}

\* The list of list.h, seen through the nodes of the chain.
L == INSTANCE SessionSeq WITH list <- [i \in 1..Len(chain) |-> value[chain[i]]]

Init ==
  /\ pc = "start"
  /\ head = NULL
  /\ next = [n \in Nodes |-> NULL]
  /\ value = [n \in Nodes |-> NULL]
  /\ nodes = {}
  /\ heap = {}
  /\ session = NULL /\ pprev = NULL /\ pindex = NULL /\ length = 0
  /\ ret = 0
  /\ chain = <<>>

\* create_session_list; without memory the program ends.
create_session_list ==
  /\ pc = "start"
  /\ \/ \E n \in Nodes \ nodes :
          /\ head' = n
          /\ nodes' = nodes \cup {n}
          /\ value' = [value EXCEPT ![n] = NULL]
          /\ next' = [next EXCEPT ![n] = NULL]
          /\ pc' = "idle"
     \/ /\ pc' = "exit"
        /\ UNCHANGED <<head, nodes, value, next>>
  /\ UNCHANGED <<heap, chain, locals, ret>>

\* The caller allocates a session, at an address that may have been used.
new_session(s) ==
  /\ pc = "idle"
  /\ s \notin heap
  /\ heap' = heap \cup {s}
  /\ UNCHANGED <<pc, head, next, value, nodes, chain, locals, ret>>

\* (faulty variant: head is linked to the new node first)
insert_to_session_listSwapped(s) ==
  /\ pc = "idle"
  /\ s \in heap \ Listed
  /\ \E n \in Nodes \ nodes :
       /\ nodes' = nodes \cup {n}
       /\ next' = [next EXCEPT ![head] = n, ![n] = n]
       /\ value' = [value EXCEPT ![n] = s]
       /\ chain' = <<n>> \o chain
  /\ UNCHANGED <<pc, head, heap, locals, ret>>

\* insert_to_session_list.  The result of malloc is used unseen: without
\* memory the program faults.
insert_to_session_list(s) ==
  /\ pc = "idle"
  /\ s \in heap \ Listed
  /\ \/ \E n \in Nodes \ nodes :
          /\ nodes' = nodes \cup {n}
          /\ next' = [next EXCEPT ![n] = next[head], ![head] = n]
          /\ value' = [value EXCEPT ![n] = s]
          /\ chain' = <<n>> \o chain
          /\ UNCHANGED pc
     \/ /\ pc' = "segv"
        /\ UNCHANGED <<next, value, nodes, chain>>
  /\ UNCHANGED <<head, heap, locals, ret>>

\* A loop over the list is entered, with the two pointers it may use.
Enter(f, s, prev) ==
  /\ pc' = f
  /\ session' = s
  /\ pprev' = prev
  /\ pindex' = next[head]
  /\ length' = 0

\* A function returns; its locals are gone.
Return ==
  /\ pc' = "idle"
  /\ session' = NULL /\ pprev' = NULL /\ pindex' = NULL /\ length' = 0

\* The program uses memory that is not its own.
Fault ==
  /\ pc' = "fault"
  /\ UNCHANGED <<memory, locals>>

\* get_list_length: without a list the answer is 0.
get_list_length ==
  \/ /\ pc = "start"
     /\ ret' = 0
     /\ UNCHANGED <<pc, memory, locals>>
  \/ /\ pc = "idle"
     /\ Enter("length", NULL, NULL)
     /\ UNCHANGED <<memory, ret>>

length_loop ==
  /\ pc = "length"
  /\ \/ /\ pindex = NULL
        /\ ret' = length
        /\ Return
        /\ UNCHANGED memory
     \/ /\ pindex \in nodes
        /\ length' = length + 1
        /\ pindex' = next[pindex]
        /\ UNCHANGED <<pc, memory, session, pprev, ret>>
     \/ /\ pindex \notin nodes \cup {NULL}
        /\ Fault
        /\ UNCHANGED ret

\* remove_from_list is called with a pointer, of which there need not be
\* anything in the list or even in memory.
remove_from_list(s) ==
  /\ pc = "idle"
  /\ Enter("remove", s, head)
  /\ UNCHANGED <<memory, ret>>

\* free(pindex->value); free(pindex).  Freed memory has no contents.
free ==
  /\ heap' = heap \ {session}
  /\ nodes' = nodes \ {pindex}
  /\ value' = [value EXCEPT ![pindex] = NULL]

\* (faulty variant: the loop goes on instead of returning)
remove_foundGoesOn ==
  /\ next' = [next EXCEPT ![pprev] = next[pindex], ![pindex] = NULL]
  /\ chain' = L!Without(chain, length + 1)
  /\ free
  /\ UNCHANGED <<pc, head, locals>>

\* (faulty variant: the node stays allocated)
remove_foundLeaks ==
  /\ next' = [next EXCEPT ![pprev] = next[pindex], ![pindex] = NULL]
  /\ chain' = L!Without(chain, length + 1)
  /\ heap' = heap \ {session}
  /\ Return
  /\ UNCHANGED <<head, value, nodes>>

\* (faulty variant: what precedes the node is cut off)
remove_foundCuts ==
  /\ next' = [next EXCEPT ![head] = next[pindex]]
  /\ chain' = SubSeq(chain, length + 2, Len(chain))
  /\ free
  /\ Return
  /\ UNCHANGED head

\* The node at pindex is unlinked and freed together with its session.
remove_found ==
  IF session \in heap
  THEN /\ next' = [next EXCEPT ![pprev] = next[pindex], ![pindex] = NULL]
       /\ chain' = L!Without(chain, length + 1)
       /\ free
       /\ Return
       /\ UNCHANGED head
  ELSE Fault                                     \* double free

remove_loop ==
  /\ pc = "remove"
  /\ \/ /\ pindex = NULL
        /\ Return
        /\ UNCHANGED memory
     \/ /\ pindex \in nodes /\ value[pindex] = session
        /\ remove_found
     \/ /\ pindex \in nodes /\ value[pindex] # session
        /\ pprev' = pindex
        /\ pindex' = next[pindex]
        /\ length' = length + 1
        /\ UNCHANGED <<pc, memory, session>>
     \/ /\ pindex \notin nodes \cup {NULL}
        /\ Fault
  /\ UNCHANGED ret

Next ==
  \/ create_session_list
  \/ get_list_length \/ length_loop \/ remove_loop
  \/ \E s \in Sessions :
       new_session(s) \/ insert_to_session_list(s) \/ remove_from_list(s)

Spec == Init /\ [][Next]_vars

\* A called function runs.
FairSpec == Spec /\ WF_vars(length_loop) /\ WF_vars(remove_loop)

-----------------------------------------------------------------------------
\* The types of the fields, locals and addresses of list.c.
TypeOK ==
  /\ pc \in {"start", "idle", "length", "remove", "exit", "segv", "fault"}
  /\ head \in Nodes \cup {NULL}
  /\ next \in [Nodes -> Nodes \cup {NULL}]
  /\ value \in [Nodes -> Sessions \cup {NULL}]
  /\ nodes \subseteq Nodes
  /\ heap \subseteq Sessions
  /\ session \in Sessions \cup {NULL}
  /\ pprev \in Nodes \cup {NULL}
  /\ pindex \in Nodes \cup {NULL}
  /\ length \in Nat
  /\ ret \in Nat
  /\ chain \in Seq(Nodes)

\* Node i of the list, with head as node 0 and NULL behind the last one.
At(i) == IF i = 0 THEN head ELSE IF i <= Len(chain) THEN chain[i] ELSE NULL

\* The next pointers lead from head through every allocated node once and
\* end: unlinking and freeing (list.c:46-51) leave neither a node that is
\* out of reach nor a way into freed memory, whatever address malloc reuses.
WellFormed ==
  head # NULL =>
    /\ \A i \in 0..Len(chain) : next[At(i)] = At(i + 1)
    /\ \A i, j \in 0..Len(chain) : At(i) = At(j) => i = j
    /\ nodes = {At(i) : i \in 0..Len(chain)}

\* No call follows a pointer into freed memory or frees a session twice.
MemorySafe == pc # "fault"

\* list.c implements the list of sessions list.h promises: every call has
\* its effect in one step and get_list_length counts the sessions.
ImplementsSeq == L!Spec

\* Every call that walks the list returns: the pointers never form a cycle.
CallsReturn == pc \in {"length", "remove"} ~> pc = "idle"

\* Why they return: a round of a loop ends the call, or leaves the list as it
\* is and passes one of its nodes, of which there are Len(chain)
\* (list.c:25-30, :45-57).
WalksForward ==
  [][ (pc \in {"length", "remove"} /\ pc' # "idle") =>
        pc' = pc /\ chain' = chain /\ length' = length + 1 /\ length' <= Len(chain) ]_vars

-----------------------------------------------------------------------------
(* The inductive invariant behind WellFormed, MemorySafe and L!Spec.       *)

\* Before there is a list there is nothing.
StartInv ==
  /\ head = NULL => pc \in {"start", "exit"} /\ chain = <<>> /\ nodes = {}
  /\ pc = "start" => head = NULL

\* The list owns its sessions, each once.
OwnInv ==
  /\ \A i \in 1..Len(chain) : value[chain[i]] \in heap
  /\ \A i, j \in 1..Len(chain) : value[chain[i]] = value[chain[j]] => i = j

\* A loop has passed as many nodes as it has gone rounds, none of them with
\* the session it looks for.
LoopInv ==
  /\ pc \in {"length", "remove"} =>
       length \in 0..Len(chain) /\ pindex = At(length + 1)
  /\ pc = "remove" =>
       /\ pprev = At(length)
       /\ session \in Sessions
       /\ \A j \in 1..length : value[chain[j]] # session

ListInv ==
  TypeOK /\ StartInv /\ WellFormed /\ OwnInv /\ LoopInv /\ MemorySafe
=============================================================================
