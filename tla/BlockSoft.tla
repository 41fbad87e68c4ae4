------------------------------ MODULE BlockSoft ------------------------------
(***************************************************************************)
(* go/custom/block_soft.go.  initSoftMap reads the software of every       *)
(* category from Redis, one command per category, while others change the  *)
(* lists; getBlockedCates deletes the blocked software from the lists in   *)
(* place and reports the categories with nothing left.  main calls it      *)
(* once, the benchmark again and again with the same arguments.            *)
(***************************************************************************)
EXTENDS Integers, Sequences

CONSTANTS
  Keys,       \* the keys cloud_cate_children:*
  Cates,      \* categories
  NoCate,     \* what ParseInt gives for a key without a number
  cate_of,    \* cate_of[k]: the category in key k; several keys may name one
  Softs,      \* software
  Lists,      \* the lists a key may have; a key that does not exist has <<>>
  MaxChanges  \* bound on changes to the database while it is read

ASSUME BlockSoftAssumption ==
  /\ NoCate \notin Cates
  /\ cate_of \in [Keys -> Cates \cup {NoCate}]
  /\ Lists \subseteq Seq(Softs) /\ <<>> \in Lists
  /\ MaxChanges \in Nat

VARIABLES
  pc,            \* where the program is
  db,            \* db[k]: the list in the database
  changes,       \* changes so far
  listed,        \* what KEYS returned
  keys,          \* those of them not yet handled
  softMap,       \* the map from categories to their software
  blocked,       \* blockedSofts, as a set: blockMap
  todo,          \* categories the range over softMap has not visited
  cate, softs, i,\* the loop over one category
  blockedCates,  \* the result
  was,           \* history: was[k] is every list k had since KEYS
  loaded         \* history: softMap as initSoftMap left it

loop == <<todo, cate, softs, i>>
vars == <<pc, db, changes, listed, keys, softMap, blocked, loop, blockedCates, was, loaded>>

SoftsOf(s) == {s[k] : k \in DOMAIN s}

Init ==
  /\ pc = "dial"
  /\ db \in [Keys -> Lists]
  /\ changes = 0
  /\ listed = {} /\ keys = {}
  /\ softMap = [c \in {} |-> <<>>]
  /\ blocked \in SUBSET Softs
  /\ todo = {} /\ cate = NoCate /\ softs = <<>> /\ i = 0
  /\ blockedCates = {}
  /\ was = [k \in Keys |-> {}]
  /\ loaded = softMap

-----------------------------------------------------------------------------
(* initSoftMap.  On an error it returns what it has.                       *)

\* Another client of the database changes a list.  After the last LRANGE
\* nobody looks at it.
Change(k, l) ==
  /\ pc = "lrange" /\ changes < MaxChanges /\ db[k] # l
  /\ db' = [db EXCEPT ![k] = l]
  /\ was' = [was EXCEPT ![k] = @ \cup {l}]
  /\ changes' = changes + 1
  /\ UNCHANGED <<pc, listed, keys, softMap, blocked, loop, blockedCates, loaded>>

\* Dial and KEYS succeed.
initSoftMap ==
  /\ pc = "dial"
  /\ pc' = "lrange"
  /\ listed' = {k \in Keys : db[k] # <<>>}
  /\ keys' = listed'
  /\ was' = [k \in Keys |-> {db[k]}]
  /\ UNCHANGED <<db, changes, softMap, blocked, loop, blockedCates, loaded>>

\* (faulty variant: the category gets its entry before LRANGE is known to work)
init_errorAfterEntry ==
  /\ pc = "lrange"
  /\ pc' = "ready"
  /\ \E k \in keys :
       /\ cate_of[k] # NoCate
       /\ softMap' = [c \in DOMAIN softMap \cup {cate_of[k]} |->
                        IF c = cate_of[k] THEN <<>> ELSE softMap[c]]
  /\ loaded' = softMap'
  /\ UNCHANGED <<db, changes, listed, keys, blocked, loop, blockedCates, was>>

\* Dial, KEYS or an LRANGE fails, or a list holds something but numbers.
init_error ==
  /\ pc = "dial" \/ (pc = "lrange" /\ \E k \in keys : cate_of[k] # NoCate)
  /\ pc' = "ready"
  /\ UNCHANGED <<db, changes, listed, keys, softMap, blocked, loop, blockedCates, was, loaded>>

\* One round for key k.  A key without a number is passed over.
init_key(k) ==
  /\ pc = "lrange" /\ k \in keys
  /\ keys' = keys \ {k}
  /\ softMap' =
       IF cate_of[k] = NoCate THEN softMap
       ELSE [c \in DOMAIN softMap \cup {cate_of[k]} |->
               IF c = cate_of[k] THEN db[k] ELSE softMap[c]]
  /\ loaded' = softMap'
  /\ UNCHANGED <<pc, db, changes, listed, blocked, loop, blockedCates, was>>

init_return ==
  /\ pc = "lrange" /\ keys = {}
  /\ pc' = "ready"
  /\ UNCHANGED <<db, changes, listed, keys, softMap, blocked, loop, blockedCates, was, loaded>>

-----------------------------------------------------------------------------
(* getBlockedCates.                                                        *)

load == <<db, changes, listed, keys, blocked, was, loaded>>

\* The call, and every further one of the benchmark.
getBlockedCates ==
  /\ pc \in {"ready", "done"}
  /\ pc' = "cates"
  /\ todo' = DOMAIN softMap
  /\ blockedCates' = {}
  /\ UNCHANGED <<load, softMap, cate, softs, i>>

\* The range over softMap, which visits the categories in any order.
next_cate(c) ==
  /\ pc = "cates" /\ c \in todo
  /\ pc' = "softs"
  /\ todo' = todo \ {c}
  /\ cate' = c /\ softs' = softMap[c] /\ i' = 0
  /\ UNCHANGED <<load, softMap, blockedCates>>

\* (faulty variant: without i--)
soft_blockedSkips ==
  /\ pc = "softs" /\ i < Len(softs) /\ softs[i + 1] \in blocked
  /\ softs' = [k \in 1 .. Len(softs) - 1 |-> IF k <= i THEN softs[k] ELSE softs[k + 1]]
  /\ i' = i + 1
  /\ UNCHANGED <<load, pc, softMap, todo, cate, blockedCates>>

\* append(softs[:i], softs[i+1:]...): the rest moves up, and i-- and i++
\* leave i where it is.
soft_blocked ==
  /\ pc = "softs" /\ i < Len(softs) /\ softs[i + 1] \in blocked
  /\ softs' = [k \in 1 .. Len(softs) - 1 |-> IF k <= i THEN softs[k] ELSE softs[k + 1]]
  /\ UNCHANGED <<load, pc, softMap, todo, cate, i, blockedCates>>

\* (faulty variant: i-- outside the condition)
soft_keptStays ==
  /\ pc = "softs" /\ i < Len(softs) /\ softs[i + 1] \notin blocked
  /\ UNCHANGED vars

soft_kept ==
  /\ pc = "softs" /\ i < Len(softs) /\ softs[i + 1] \notin blocked
  /\ i' = i + 1
  /\ UNCHANGED <<load, pc, softMap, todo, cate, softs, blockedCates>>

\* The loop over the category is over; the shortened slice goes into the map.
softs_end ==
  /\ pc = "softs" /\ i >= Len(softs)
  /\ pc' = "cates"
  /\ softMap' = [softMap EXCEPT ![cate] = softs]
  /\ UNCHANGED <<load, loop, blockedCates>>

\* The second range: the categories with nothing left.
report ==
  /\ pc = "cates" /\ todo = {}
  /\ pc' = "done"
  /\ blockedCates' = {c \in DOMAIN softMap : Len(softMap[c]) = 0}
  /\ UNCHANGED <<load, softMap, loop>>

Program ==
  \/ initSoftMap \/ init_error \/ init_return \/ \E k \in Keys : init_key(k)
  \/ getBlockedCates \/ \E c \in Cates : next_cate(c)
  \/ soft_blocked \/ soft_kept \/ softs_end \/ report

Next == Program \/ \E k \in Keys, l \in Lists : Change(k, l)

Spec == Init /\ [][Next]_vars

\* The program runs; the database answers or the connection fails.
FairSpec == Spec /\ WF_vars(Program)

-----------------------------------------------------------------------------
\* The types of the variables of block_soft.go.
TypeOK ==
  /\ pc \in {"dial", "lrange", "ready", "cates", "softs", "done"}
  /\ db \in [Keys -> Lists]
  /\ listed \subseteq Keys /\ keys \subseteq listed
  /\ DOMAIN softMap \subseteq Cates
  /\ softMap \in [DOMAIN softMap -> Seq(Softs)]
  /\ blocked \subseteq Softs
  /\ todo \subseteq DOMAIN softMap
  /\ softs \in Seq(Softs)
  /\ i \in 0 .. Len(softs)
  /\ was \in [Keys -> SUBSET Lists]
  /\ DOMAIN loaded \subseteq Cates
  /\ loaded \in [DOMAIN loaded -> Seq(Softs)]

Hidden(l) == SoftsOf(l) \subseteq blocked

\* What the comment of getBlockedCates defines: the categories all of whose
\* software is blocked.  Every call of the benchmark returns the same,
\* although each works on the lists the one before it has shortened.
ReportsBlocked ==
  pc = "done" => blockedCates = {c \in DOMAIN loaded : Hidden(loaded[c])}

\* In terms of the database, whose lists change between KEYS and the LRANGEs
\* of initSoftMap and whose connection may fail at any of them: a category is
\* reported only if one of its keys that were read had nothing but blocked
\* software at some time, and left out only if one had something else.
ReportFresh ==
  pc = "done" =>
    LET read(c) == {k \in listed \ keys : cate_of[k] = c}
    IN  /\ \A c \in blockedCates : \E k \in read(c) : \E l \in was[k] : Hidden(l)
        /\ \A c \in Cates \ blockedCates :
             read(c) # {} => \E k \in read(c) : \E l \in was[k] : ~Hidden(l)

\* Every call of getBlockedCates returns, although the loop over a category
\* steps back whenever it deletes.
CallReturns == pc = "cates" ~> pc = "done"

\* Why they return: the loop over a category ends or has less in front of it,
\* the deletion that steps back included, and the range over the map, which
\* no step of the loop makes longer, has a category fewer to visit.
CallShrinks ==
  [][ /\ pc = "softs" =>
           /\ todo' = todo
           /\ \/ pc' = "cates"
              \/ pc' = "softs" /\ Len(softs') - i' = Len(softs) - i - 1 /\ i' <= Len(softs')
      /\ pc = "cates" =>
           \/ pc' = "done"
           \/ pc' = "softs" /\ \E c \in todo : todo' = todo \ {c} ]_vars

-----------------------------------------------------------------------------
(* The inductive invariant behind the two.                                 *)

\* What was loaded was in the database after KEYS.
LoadInv ==
  /\ pc = "dial" => listed = {} /\ DOMAIN loaded = {}
  /\ pc = "lrange" => \A k \in Keys : db[k] \in was[k]
  /\ \A c \in DOMAIN loaded : \E k \in listed \ keys : cate_of[k] = c /\ loaded[c] \in was[k]
  /\ \A k \in listed \ keys : cate_of[k] # NoCate => cate_of[k] \in DOMAIN loaded

Kept(s) == SoftsOf(s) \ blocked
Clean(s) == SoftsOf(s) \cap blocked = {}

\* The lists in the map lose nothing but blocked software.
MapInv ==
  /\ DOMAIN softMap = DOMAIN loaded
  /\ pc \in {"dial", "lrange"} => softMap = loaded
  /\ \A c \in DOMAIN loaded : Kept(softMap[c]) = Kept(loaded[c])

\* Categories the range has left behind are clean.
DoneInv ==
  /\ pc = "cates" => \A c \in DOMAIN loaded \ todo : Clean(softMap[c])
  /\ pc = "softs" => \A c \in DOMAIN loaded \ (todo \cup {cate}) : Clean(softMap[c])

\* The list in the loop has lost nothing else, and is clean below i.
LoopInv ==
  pc = "softs" =>
    /\ cate \in DOMAIN loaded
    /\ Kept(softs) = Kept(loaded[cate])
    /\ \A k \in 1 .. i : softs[k] \notin blocked

BInv == TypeOK /\ LoadInv /\ MapInv /\ DoneInv /\ LoopInv /\ ReportsBlocked
=============================================================================
