---------------------------- MODULE RedisProofs ----------------------------
(***************************************************************************)
(* Proofs about the two programs that work on Redis.                       *)
(*                                                                         *)
(* BlockSoft, for any keys, categories, software and lists: every call     *)
(* reports what the comment of getBlockedCates defines, and what it        *)
(* reports was in the database.                                            *)
(*                                                                         *)
(* RedisChurn, for any instances and keys: a failed run leaves at most one *)
(* key behind.                                                             *)
(***************************************************************************)
EXTENDS BlockSoft, RedisChurn, FiniteSetTheorems, TLAPS

(* BlockSoft --------------------------------------------------------------*)

\* The rest of a list after append(softs[:n], softs[n+1:]...).
Cut(s, n) == [k \in 1 .. Len(s) - 1 |-> IF k <= n THEN s[k] ELSE s[k + 1]]

\* A function on 1..m is a list of length m.
LEMMA ListFacts ==
  ASSUME NEW S, NEW m \in Nat, NEW t \in [1 .. m -> S]
  PROVE  t \in Seq(S) /\ Len(t) = m /\ DOMAIN t = 1 .. m
  OBVIOUS

\* Deleting one element leaves a list of the others.
LEMMA CutFacts ==
  ASSUME NEW S, NEW s \in Seq(S), NEW n \in Nat, n < Len(s)
  PROVE  /\ Cut(s, n) \in Seq(S) /\ Len(Cut(s, n)) = Len(s) - 1
         /\ \A k \in 1 .. n : Cut(s, n)[k] = s[k]
         /\ SoftsOf(s) = SoftsOf(Cut(s, n)) \cup {s[n + 1]}
<1> DEFINE t == Cut(s, n)
<1>1. Len(s) \in Nat /\ DOMAIN s = 1 .. Len(s) /\ Len(s) - 1 \in Nat
  OBVIOUS
<1>2. \A k \in 1 .. Len(s) - 1 : k \in 1 .. Len(s) /\ k + 1 \in 1 .. Len(s)
  BY <1>1
<1>3. t \in [1 .. Len(s) - 1 -> S]
  BY <1>2 DEF Cut
<1>4. t \in Seq(S) /\ Len(t) = Len(s) - 1 /\ DOMAIN t = 1 .. Len(s) - 1
  BY <1>1, <1>3, ListFacts
<1>5. \A k \in 1 .. Len(s) - 1 : t[k] = IF k <= n THEN s[k] ELSE s[k + 1]
  BY DEF Cut
<1>6. \A k \in 1 .. n : t[k] = s[k]
  BY <1>1, <1>5
<1> HIDE DEF t
<1>7. SoftsOf(t) \cup {s[n + 1]} \subseteq SoftsOf(s)
  <2>1. ASSUME NEW k \in DOMAIN t PROVE t[k] \in SoftsOf(s)
    BY <1>1, <1>2, <1>4, <1>5 DEF SoftsOf
  <2>2. s[n + 1] \in SoftsOf(s)
    BY <1>1 DEF SoftsOf
  <2> QED
    BY <2>1, <2>2 DEF SoftsOf
<1>8. ASSUME NEW k \in DOMAIN s PROVE s[k] \in SoftsOf(t) \cup {s[n + 1]}
  <2>0. k \in 1 .. Len(s)
    BY <1>1
  <2>1. CASE k <= n
    <3>1. k \in DOMAIN t /\ t[k] = s[k]
      BY <1>1, <1>4, <1>6, <2>0, <2>1
    <3> QED
      BY <3>1 DEF SoftsOf
  <2>2. CASE k > n + 1
    <3>1. k - 1 \in DOMAIN t /\ ~(k - 1 <= n) /\ (k - 1) + 1 = k
      BY <1>1, <1>4, <2>0, <2>2
    <3>2. t[k - 1] = s[k]
      BY <1>4, <1>5, <3>1
    <3> QED
      BY <3>1, <3>2 DEF SoftsOf
  <2>3. CASE k = n + 1
    BY <2>3
  <2> QED
    BY <2>0, <2>1, <2>2, <2>3
<1> QED
  BY <1>4, <1>6, <1>7, <1>8 DEF SoftsOf, t

\* An empty list is one without elements.
LEMMA EmptyFacts ==
  ASSUME NEW S, NEW s \in Seq(S)
  PROVE  Len(s) = 0 <=> SoftsOf(s) = {}
<1>1. DOMAIN s = 1 .. Len(s) /\ Len(s) \in Nat
  OBVIOUS
<1>2. Len(s) # 0 => 1 \in DOMAIN s
  BY <1>1
<1>3. Len(s) = 0 => DOMAIN s = {}
  BY <1>1
<1> QED
  BY <1>2, <1>3 DEF SoftsOf

-----------------------------------------------------------------------------
\* Nothing is loaded before KEYS.
LEMMA BInvInit == Init => BInv
<1> SUFFICES ASSUME Init PROVE BInv
  OBVIOUS
<1>1. DOMAIN softMap = {} /\ loaded = softMap /\ softMap \in [{} -> Seq(Softs)]
  BY DEF Init
<1>2. <<>> \in Seq(Softs) /\ Len(<<>>) = 0
  OBVIOUS
<1>3. TypeOK
  BY <1>1, <1>2, BlockSoftAssumption DEF Init, TypeOK
<1>4. LoadInv /\ MapInv /\ DoneInv /\ LoopInv /\ ReportsBlocked
  BY <1>1 DEF Init, LoadInv, MapInv, DoneInv, LoopInv, ReportsBlocked
<1> QED
  BY <1>3, <1>4 DEF BInv

\* The rounds of initSoftMap keep the invariant.
LEMMA LoadStep ==
  ASSUME BInv,
         \/ \E k \in Keys, l \in Lists : Change(k, l)
         \/ initSoftMap \/ init_error \/ init_return \/ \E k \in Keys : init_key(k)
  PROVE  BInv'
<1> USE BlockSoftAssumption
<1>0. TypeOK /\ LoadInv /\ MapInv
  BY DEF BInv
<1>1. ASSUME NEW k \in Keys, NEW l \in Lists, Change(k, l) PROVE BInv'
  <2>1. pc = "lrange" /\ UNCHANGED <<pc, listed, keys, softMap, blocked, todo, cate, softs, i, loaded>>
    BY <1>1 DEF Change, loop
  <2>2. db' \in [Keys -> Lists] /\ was' \in [Keys -> SUBSET Lists]
    BY <1>0, <1>1 DEF Change, TypeOK
  <2>3. \A x \in Keys : was[x] \subseteq was'[x] /\ (db[x] \in was[x] => db'[x] \in was'[x])
    BY <1>0, <1>1 DEF Change, TypeOK
  <2>4. TypeOK'
    BY <1>0, <2>1, <2>2 DEF TypeOK
  <2>5. LoadInv'
    BY <1>0, <2>1, <2>3 DEF LoadInv, TypeOK
  <2>6. MapInv' /\ DoneInv' /\ LoopInv' /\ ReportsBlocked'
    BY <1>0, <2>1 DEF MapInv, DoneInv, LoopInv, ReportsBlocked, Kept
  <2> QED
    BY <2>4, <2>5, <2>6 DEF BInv
<1>2. CASE initSoftMap
  <2>1. /\ pc = "dial" /\ pc' = "lrange" /\ listed' \subseteq Keys /\ keys' = listed'
        /\ was' = [k \in Keys |-> {db[k]}]
        /\ UNCHANGED <<db, softMap, blocked, todo, cate, softs, i, loaded>>
    BY <1>2 DEF initSoftMap, loop
  <2>2. TypeOK'
    BY <1>0, <2>1 DEF TypeOK
  <2>3. LoadInv'
    BY <1>0, <2>1 DEF LoadInv
  <2>4. MapInv' /\ DoneInv' /\ LoopInv' /\ ReportsBlocked'
    BY <1>0, <2>1 DEF MapInv, DoneInv, LoopInv, ReportsBlocked, Kept
  <2> QED
    BY <2>2, <2>3, <2>4 DEF BInv
<1>3. CASE init_error \/ init_return
  <2>1. /\ pc' = "ready"
        /\ UNCHANGED <<db, listed, keys, softMap, blocked, todo, cate, softs, i, was, loaded>>
    BY <1>3 DEF init_error, init_return, loop
  <2>2. TypeOK'
    BY <1>0, <2>1 DEF TypeOK
  <2>3. LoadInv' /\ MapInv' /\ DoneInv' /\ LoopInv' /\ ReportsBlocked'
    BY <1>0, <2>1 DEF LoadInv, MapInv, DoneInv, LoopInv, ReportsBlocked, Kept
  <2> QED
    BY <2>2, <2>3 DEF BInv
<1>4. ASSUME NEW k \in Keys, init_key(k) PROVE BInv'
  <2>1. /\ pc = "lrange" /\ k \in keys /\ keys' = keys \ {k} /\ loaded' = softMap'
        /\ UNCHANGED <<pc, db, listed, blocked, todo, cate, softs, i, was>>
    BY <1>4 DEF init_key, loop
  <2>2. softMap = loaded /\ db[k] \in was[k] /\ db[k] \in Seq(Softs) /\ k \in listed
    BY <1>0, <2>1 DEF MapInv, LoadInv, TypeOK
  <2>3. CASE cate_of[k] = NoCate
    <3>1. softMap' = softMap
      BY <1>4, <2>3 DEF init_key
    <3>2. TypeOK'
      BY <1>0, <2>1, <2>2, <3>1 DEF TypeOK
    <3>3. LoadInv'
      BY <1>0, <2>1, <2>2, <2>3, <3>1 DEF LoadInv
    <3>4. MapInv' /\ DoneInv' /\ LoopInv' /\ ReportsBlocked'
      BY <2>1 DEF MapInv, DoneInv, LoopInv, ReportsBlocked
    <3> QED
      BY <3>2, <3>3, <3>4 DEF BInv
  <2>4. CASE cate_of[k] # NoCate
    <3>1. PICK d \in Cates : d = cate_of[k]
      BY <2>4
    <3>2. softMap' = [c \in DOMAIN softMap \cup {d} |-> IF c = d THEN db[k] ELSE softMap[c]]
      BY <1>4, <2>4, <3>1 DEF init_key
    <3>3. /\ DOMAIN softMap' = DOMAIN softMap \cup {d}
          /\ softMap'[d] = db[k]
          /\ \A c \in DOMAIN softMap : c # d => softMap'[c] = softMap[c]
          /\ softMap' \in [DOMAIN softMap' -> Seq(Softs)]
      BY <1>0, <2>2, <3>2 DEF TypeOK
    <3>4. TypeOK'
      BY <1>0, <2>1, <3>3 DEF TypeOK
    <3>5. LoadInv'
      <4>1. pc' = "lrange" /\ \A x \in Keys : db'[x] \in was'[x]
        BY <1>0, <2>1 DEF LoadInv
      <4>2. ASSUME NEW c \in DOMAIN loaded'
            PROVE  \E x \in listed' \ keys' : cate_of[x] = c /\ loaded'[c] \in was'[x]
        <5>1. CASE c = d
          BY <1>0, <2>1, <2>2, <3>1, <3>3, <5>1
        <5>2. CASE c # d
          <6>1. c \in DOMAIN loaded /\ loaded'[c] = loaded[c]
            BY <2>1, <2>2, <3>3, <5>2
          <6> QED
            BY <1>0, <2>1, <6>1 DEF LoadInv
        <5> QED
          BY <5>1, <5>2
      <4>3. ASSUME NEW x \in listed' \ keys', cate_of[x] # NoCate
            PROVE  cate_of[x] \in DOMAIN loaded'
        BY <1>0, <2>1, <2>2, <3>1, <3>3, <4>3 DEF LoadInv
      <4> QED
        BY <4>1, <4>2, <4>3 DEF LoadInv
    <3>6. MapInv' /\ DoneInv' /\ LoopInv' /\ ReportsBlocked'
      BY <2>1 DEF MapInv, DoneInv, LoopInv, ReportsBlocked
    <3> QED
      BY <3>4, <3>5, <3>6 DEF BInv
  <2> QED
    BY <2>3, <2>4
<1> QED
  BY <1>1, <1>2, <1>3, <1>4

\* The steps of getBlockedCates keep the invariant.
LEMMA CallStep ==
  ASSUME BInv,
         \/ getBlockedCates \/ \E c \in Cates : next_cate(c)
         \/ soft_blocked \/ soft_kept \/ softs_end \/ report
  PROVE  BInv'
<1>0. TypeOK /\ LoadInv /\ MapInv /\ DoneInv /\ LoopInv
  BY DEF BInv
<1>1. /\ UNCHANGED <<db, listed, keys, blocked, was, loaded>>
      /\ pc \notin {"dial", "lrange"} /\ pc' \notin {"dial", "lrange"}
  BY DEF getBlockedCates, next_cate, soft_blocked, soft_kept, softs_end, report, load
<1>2. LoadInv'
  BY <1>0, <1>1 DEF LoadInv
<1>3. CASE getBlockedCates
  <2>1. pc' = "cates" /\ todo' = DOMAIN softMap /\ UNCHANGED <<softMap, cate, softs, i>>
    BY <1>3 DEF getBlockedCates
  <2>2. TypeOK'
    BY <1>0, <1>1, <2>1 DEF TypeOK
  <2>3. MapInv' /\ DoneInv' /\ LoopInv' /\ ReportsBlocked'
    BY <1>0, <1>1, <2>1 DEF MapInv, DoneInv, LoopInv, ReportsBlocked, Kept
  <2> QED
    BY <1>2, <2>2, <2>3 DEF BInv
<1>4. ASSUME NEW c \in Cates, next_cate(c) PROVE BInv'
  <2>1. /\ pc = "cates" /\ c \in todo /\ pc' = "softs" /\ todo' = todo \ {c}
        /\ cate' = c /\ softs' = softMap[c] /\ i' = 0 /\ softMap' = softMap
    BY <1>4 DEF next_cate
  <2>2. c \in DOMAIN softMap /\ softMap[c] \in Seq(Softs) /\ Len(softMap[c]) \in Nat
    BY <1>0, <2>1 DEF TypeOK
  <2>3. TypeOK'
    BY <1>0, <1>1, <2>1, <2>2 DEF TypeOK
  <2>4. MapInv' /\ DoneInv' /\ ReportsBlocked'
    BY <1>0, <1>1, <2>1 DEF MapInv, DoneInv, ReportsBlocked, Kept, Clean
  <2>5. LoopInv'
    BY <1>0, <1>1, <2>1, <2>2 DEF LoopInv, MapInv, Kept
  <2> QED
    BY <1>2, <2>3, <2>4, <2>5 DEF BInv
<1>5. CASE soft_blocked
  <2>1. /\ pc = "softs" /\ i < Len(softs) /\ softs[i + 1] \in blocked /\ softs' = Cut(softs, i)
        /\ UNCHANGED <<pc, softMap, todo, cate, i>>
    BY <1>5 DEF soft_blocked, Cut
  <2>2. softs \in Seq(Softs) /\ i \in Nat
    BY <1>0 DEF TypeOK
  <2>3. /\ softs' \in Seq(Softs) /\ Len(softs') = Len(softs) - 1
        /\ \A k \in 1 .. i : softs'[k] = softs[k]
        /\ SoftsOf(softs) = SoftsOf(softs') \cup {softs[i + 1]}
    BY <2>1, <2>2, CutFacts
  <2>4. i' \in 0 .. Len(softs')
    BY <2>1, <2>2, <2>3
  <2>5. TypeOK'
    BY <1>0, <1>1, <2>1, <2>3, <2>4 DEF TypeOK
  <2>6. MapInv' /\ DoneInv' /\ ReportsBlocked'
    BY <1>0, <1>1, <2>1 DEF MapInv, DoneInv, ReportsBlocked, Kept, Clean
  <2>7. SoftsOf(softs') \ blocked = SoftsOf(softs) \ blocked
    BY <2>1, <2>3
  <2>8. LoopInv'
    BY <1>0, <1>1, <2>1, <2>3, <2>7 DEF LoopInv, Kept
  <2> QED
    BY <1>2, <2>5, <2>6, <2>8 DEF BInv
<1>6. CASE soft_kept
  <2>1. /\ pc = "softs" /\ i < Len(softs) /\ softs[i + 1] \notin blocked /\ i' = i + 1
        /\ UNCHANGED <<pc, softMap, todo, cate, softs>>
    BY <1>6 DEF soft_kept
  <2>2. i \in Nat /\ Len(softs) \in Nat /\ i' \in 0 .. Len(softs)
    BY <1>0, <2>1 DEF TypeOK
  <2>3. TypeOK'
    BY <1>0, <1>1, <2>1, <2>2 DEF TypeOK
  <2>4. MapInv' /\ DoneInv' /\ ReportsBlocked'
    BY <1>0, <1>1, <2>1 DEF MapInv, DoneInv, ReportsBlocked, Kept, Clean
  <2>5. \A k \in 1 .. i' : k \in 1 .. i \/ k = i + 1
    BY <2>1, <2>2
  <2>6. LoopInv'
    BY <1>0, <1>1, <2>1, <2>5 DEF LoopInv, Kept
  <2> QED
    BY <1>2, <2>3, <2>4, <2>6 DEF BInv
<1>7. CASE softs_end
  <2>1. /\ pc = "softs" /\ i >= Len(softs) /\ pc' = "cates"
        /\ softMap' = [softMap EXCEPT ![cate] = softs]
        /\ UNCHANGED <<todo, cate, softs, i>>
    BY <1>7 DEF softs_end, loop
  <2>2. softs \in Seq(Softs) /\ cate \in DOMAIN softMap /\ DOMAIN softMap = DOMAIN loaded
    BY <1>0, <2>1 DEF TypeOK, LoopInv, MapInv
  <2>3. /\ DOMAIN softMap' = DOMAIN softMap /\ softMap'[cate] = softs
        /\ \A c \in DOMAIN softMap : c # cate => softMap'[c] = softMap[c]
        /\ softMap' \in [DOMAIN softMap' -> Seq(Softs)]
    BY <1>0, <2>1, <2>2 DEF TypeOK
  <2>4. Clean(softs)
    <3>1. DOMAIN softs = 1 .. i
      BY <1>0, <2>1, <2>2 DEF TypeOK
    <3> QED
      BY <1>0, <2>1, <3>1 DEF LoopInv, Clean, SoftsOf
  <2>5. TypeOK'
    BY <1>0, <1>1, <2>1, <2>3 DEF TypeOK
  <2>6. MapInv'
    <3>1. ASSUME NEW c \in DOMAIN loaded PROVE Kept(softMap'[c]) = Kept(loaded[c])
      BY <1>0, <2>1, <2>2, <2>3 DEF MapInv, LoopInv
    <3> QED
      BY <1>1, <2>2, <2>3, <3>1 DEF MapInv, Kept
  <2>7. DoneInv'
    <3>1. ASSUME NEW c \in DOMAIN loaded \ todo PROVE Clean(softMap'[c])
      BY <1>0, <2>1, <2>2, <2>3, <2>4 DEF DoneInv
    <3> QED
      BY <1>1, <2>1, <3>1 DEF DoneInv, Clean
  <2>8. LoopInv' /\ ReportsBlocked'
    BY <2>1 DEF LoopInv, ReportsBlocked
  <2> QED
    BY <1>2, <2>5, <2>6, <2>7, <2>8 DEF BInv
<1>8. CASE report
  <2>1. /\ pc = "cates" /\ todo = {} /\ pc' = "done"
        /\ blockedCates' = {c \in DOMAIN softMap : Len(softMap[c]) = 0}
        /\ UNCHANGED <<softMap, todo, cate, softs, i>>
    BY <1>8 DEF report, loop
  <2>2. TypeOK'
    BY <1>0, <1>1, <2>1 DEF TypeOK
  <2>3. MapInv' /\ DoneInv' /\ LoopInv'
    BY <1>0, <1>1, <2>1 DEF MapInv, DoneInv, LoopInv, Kept
  <2>4. ASSUME NEW c \in DOMAIN loaded
        PROVE  Len(softMap[c]) = 0 <=> SoftsOf(loaded[c]) \subseteq blocked
    <3>1. softMap[c] \in Seq(Softs)
      BY <1>0 DEF TypeOK, MapInv
    <3>2. Len(softMap[c]) = 0 <=> SoftsOf(softMap[c]) = {}
      BY <3>1, EmptyFacts
    <3>3. /\ SoftsOf(softMap[c]) \cap blocked = {}
          /\ SoftsOf(softMap[c]) \ blocked = SoftsOf(loaded[c]) \ blocked
      BY <1>0, <2>1 DEF DoneInv, MapInv, Clean, Kept
    <3> QED
      BY <3>2, <3>3
  <2>5. DOMAIN softMap = DOMAIN loaded
    BY <1>0 DEF MapInv
  <2>6. ReportsBlocked'
    BY <1>1, <2>1, <2>4, <2>5 DEF ReportsBlocked, Hidden
  <2> QED
    BY <1>2, <2>2, <2>3, <2>6 DEF BInv
<1> QED
  BY <1>3, <1>4, <1>5, <1>6, <1>7, <1>8

\* Every step keeps the inductive invariant.
LEMMA BInvStep == BInv /\ [Next]_vars => BInv'
<1> SUFFICES ASSUME BInv, [Next]_vars PROVE BInv'
  OBVIOUS
<1>1. CASE UNCHANGED vars
  <2>1. UNCHANGED <<pc, db, listed, keys, softMap, blocked, todo, cate, softs, i,
                    blockedCates, was, loaded>>
    BY <1>1 DEF vars, loop
  <2>2. TypeOK' /\ LoadInv' /\ MapInv'
    BY <2>1 DEF BInv, TypeOK, LoadInv, MapInv, Kept
  <2>3. DoneInv' /\ LoopInv' /\ ReportsBlocked'
    BY <2>1 DEF BInv, DoneInv, LoopInv, ReportsBlocked, Kept, Clean, Hidden
  <2> QED
    BY <2>2, <2>3 DEF BInv
<1> QED
  BY <1>1, LoadStep, CallStep DEF Next, Program

-----------------------------------------------------------------------------
\* The inductive invariant holds in every reachable state.
THEOREM Invariant == Spec => []BInv
  BY BInvInit, BInvStep, PTL DEF Spec

\* Every call returns the categories all of whose software is blocked, however
\* many calls have shortened the lists before (block_soft.go:25-47).
THEOREM ReportIsRight == Spec => []ReportsBlocked
<1>1. BInv => ReportsBlocked
  BY DEF BInv
<1> QED
  BY <1>1, Invariant, PTL

\* What is reported was so in the database at some time after KEYS, whatever
\* changed or failed meanwhile (block_soft.go:49-80).
THEOREM ReportIsFresh == Spec => []ReportFresh
<1>1. BInv => ReportFresh
  <2> SUFFICES ASSUME BInv, pc = "done"
               PROVE  LET read(c) == {k \in listed \ keys : cate_of[k] = c}
                      IN  /\ \A c \in blockedCates : \E k \in read(c) : \E l \in was[k] : Hidden(l)
                          /\ \A c \in Cates \ blockedCates :
                               read(c) # {} => \E k \in read(c) : \E l \in was[k] : ~Hidden(l)
    BY DEF ReportFresh
  <2>1. blockedCates = {c \in DOMAIN loaded : Hidden(loaded[c])}
    BY DEF BInv, ReportsBlocked
  <2>2. \A c \in DOMAIN loaded : \E k \in listed \ keys : cate_of[k] = c /\ loaded[c] \in was[k]
    BY DEF BInv, LoadInv
  <2>3. \A k \in listed \ keys : cate_of[k] # NoCate => cate_of[k] \in DOMAIN loaded
    BY DEF BInv, LoadInv
  <2> QED
    BY <2>1, <2>2, <2>3, BlockSoftAssumption
<1> QED
  BY <1>1, Invariant, PTL

\* The loop that deletes while it walks comes nearer to the end of its list in
\* every round, and the range over the map to its own (block_soft.go:25-47).
THEOREM CallGetsShorter == Spec => CallShrinks
<1>1. BInv /\ [Next]_vars =>
        [ /\ pc = "softs" =>
               /\ todo' = todo
               /\ \/ pc' = "cates"
                  \/ pc' = "softs" /\ Len(softs') - i' = Len(softs) - i - 1 /\ i' <= Len(softs')
          /\ pc = "cates" =>
               \/ pc' = "done"
               \/ pc' = "softs" /\ \E c \in todo : todo' = todo \ {c} ]_vars
  <2> SUFFICES ASSUME BInv, Next
               PROVE  /\ pc = "softs" =>
                           /\ todo' = todo
                           /\ \/ pc' = "cates"
                              \/ pc' = "softs" /\ Len(softs') - i' = Len(softs) - i - 1 /\ i' <= Len(softs')
                      /\ pc = "cates" =>
                           \/ pc' = "done"
                           \/ pc' = "softs" /\ \E c \in todo : todo' = todo \ {c}
    OBVIOUS
  <2>1. i \in Nat /\ Len(softs) \in Nat
    BY DEF BInv, TypeOK
  <2>2. CASE pc = "cates"
    <3>1. report \/ \E c \in Cates : next_cate(c)
      BY <2>2 DEF Next, Program, Change, initSoftMap, init_error, init_key, init_return,
                  getBlockedCates, soft_blocked, soft_kept, softs_end
    <3> QED
      BY <2>2, <3>1 DEF report, next_cate
  <2>3. CASE pc = "softs"
    <3>1. soft_blocked \/ soft_kept \/ softs_end
      BY <2>3 DEF Next, Program, Change, initSoftMap, init_error, init_key, init_return,
                  getBlockedCates, next_cate, report
    <3>2. CASE soft_blocked
      <4>1. i < Len(softs) /\ pc' = pc /\ todo' = todo /\ i' = i
            /\ softs' = [k \in 1 .. Len(softs) - 1 |-> IF k <= i THEN softs[k] ELSE softs[k + 1]]
        BY <3>2 DEF soft_blocked
      <4>2. Len(softs') = Len(softs) - 1
        BY <2>1, <4>1
      <4> QED
        BY <2>1, <2>3, <4>1, <4>2
    <3>3. CASE soft_kept
      BY <2>1, <2>3, <3>3 DEF soft_kept
    <3>4. CASE softs_end
      BY <2>3, <3>4 DEF softs_end, loop
    <3> QED
      BY <3>1, <3>2, <3>3, <3>4
  <2> QED
    BY <2>2, <2>3
<1> QED
  BY <1>1, Invariant, PTL DEF Spec, CallShrinks

(* RedisChurn -------------------------------------------------------------*)

\* No step of an instance or of the database leaves the types (main.go:12-35).
LEMMA ChurnTypeStep == ChurnTypeOK /\ [ChurnNext]_churnVars => ChurnTypeOK'
<1> SUFFICES ASSUME ChurnTypeOK, [ChurnNext]_churnVars PROVE ChurnTypeOK'
  OBVIOUS
<1>. USE RedisAssumption DEF ChurnTypeOK
<1>1. ASSUME NEW p \in Procs, Dial(p) PROVE ChurnTypeOK'
  BY <1>1 DEF Dial
<1>2. ASSUME NEW p \in Procs, NEW k \in RandKeys, Set(p, k) PROVE ChurnTypeOK'
  BY <1>2 DEF Set
<1>3. ASSUME NEW p \in Procs, Del(p) PROVE ChurnTypeOK'
  BY <1>3 DEF Del
<1>4. ASSUME NEW p \in Procs, NextRound(p) PROVE ChurnTypeOK'
  BY <1>4 DEF NextRound
<1>5. ASSUME NEW p \in Procs, Return(p) PROVE ChurnTypeOK'
  BY <1>5 DEF Return
<1>6. ASSUME NEW p \in Procs, Error(p) PROVE ChurnTypeOK'
  <2>1. state[p] \in {"SET", "DEL"} => <<state[p], keyStr[p], failed>> \in Commands
    BY DEF Commands
  <2>. QED BY <1>6, <2>1 DEF Error
<1>7. ASSUME NEW p \in Procs, Execute(p) PROVE ChurnTypeOK'
  BY <1>7 DEF Execute, Executed
<1>8. ASSUME NEW cmd \in late, ExecuteLate(cmd) PROVE ChurnTypeOK'
  <2>1. cmd[2] \in RandKeys
    BY DEF Commands
  <2>. QED BY <1>8, <2>1 DEF ExecuteLate, Executed
<1>9. CASE UNCHANGED churnVars
  BY <1>9 DEF churnVars
<1>. QED BY <1>1, <1>2, <1>3, <1>4, <1>5, <1>6, <1>7, <1>8, <1>9 DEF ChurnNext, Step

\* Only a failure adds a key to those nobody answers for, and only one.
LEMMA RemainStep ==
  ASSUME ChurnTypeOK, [ChurnNext]_churnVars
  PROVE  \/ Remains' \subseteq Remains /\ failed' = failed
         \/ \E x : Remains' \subseteq Remains \cup {x} /\ failed' = failed + 1
<1>1. ASSUME NEW p \in Procs, Dial(p)
      PROVE  Remains' \subseteq Remains /\ failed' = failed
  BY <1>1 DEF Dial, Remains, Owners, ToCome, ChurnTypeOK
<1>2. ASSUME NEW p \in Procs, NEW k \in RandKeys, Set(p, k)
      PROVE  Remains' \subseteq Remains /\ failed' = failed
  <2>1. p \notin Owners /\ p \notin Owners'
    BY <1>2 DEF Set, Owners, ChurnTypeOK
  <2>2. \A q \in Procs : q # p => (q \in Owners <=> q \in Owners') /\ keyStr'[q] = keyStr[q]
    BY <1>2 DEF Set, Owners, ChurnTypeOK
  <2>. QED BY <1>2, <2>1, <2>2 DEF Set, Remains, ToCome, Owners
<1>3. ASSUME NEW p \in Procs, Del(p)
      PROVE  Remains' \subseteq Remains /\ failed' = failed
  BY <1>3 DEF Del, Remains, Owners, ToCome, ChurnTypeOK
<1>4. ASSUME NEW p \in Procs, NextRound(p) \/ Return(p)
      PROVE  Remains' \subseteq Remains /\ failed' = failed
  <2>1. Owners' = Owners
    BY <1>4 DEF NextRound, Return, Owners, ChurnTypeOK
  <2>. QED BY <1>4, <2>1 DEF NextRound, Return, Remains, ToCome
<1>5. ASSUME NEW p \in Procs, Error(p)
      PROVE  Remains' \subseteq Remains \cup {keyStr[p]} /\ failed' = failed + 1
  <2>1. \A q \in Owners : q # p => q \in Owners'
    BY <1>5 DEF Error, Owners, ChurnTypeOK
  <2>2. ToCome' \subseteq ToCome \cup {keyStr[p]}
    BY <1>5 DEF Error, ToCome
  <2>. QED BY <1>5, <2>1, <2>2 DEF Error, Remains
<1>6. ASSUME NEW p \in Procs, Execute(p)
      PROVE  Remains' \subseteq Remains /\ failed' = failed
  <2>1. \A q \in Procs : q # p => (q \in Owners <=> q \in Owners')
    BY <1>6 DEF Execute, Owners, ChurnTypeOK
  <2>2. CASE state[p] = "SET"
    <3>1. p \in Owners' /\ p \notin Owners /\ dbKeys' = dbKeys \cup {keyStr[p]}
      BY <1>6, <2>2 DEF Execute, Executed, Owners, ChurnTypeOK
    <3>. QED BY <1>6, <2>1, <3>1 DEF Execute, Remains, ToCome, Owners
  <2>3. CASE state[p] = "DEL"
    <3>1. p \notin Owners' /\ dbKeys' = dbKeys \ {keyStr[p]}
      BY <1>6, <2>3 DEF Execute, Executed, Owners, ChurnTypeOK
    <3>. QED BY <1>6, <2>1, <3>1 DEF Execute, Remains, ToCome, Owners
  <2>. QED BY <1>6, <2>2, <2>3 DEF Execute
<1>7. ASSUME NEW cmd \in late, ExecuteLate(cmd)
      PROVE  Remains' \subseteq Remains /\ failed' = failed
  <2>1. Owners' = Owners /\ keyStr' = keyStr /\ ToCome' \subseteq ToCome
    BY <1>7 DEF ExecuteLate, Owners, ToCome
  <2>2. dbKeys' \subseteq dbKeys \cup ToCome
    BY <1>7 DEF ExecuteLate, Executed, ToCome
  <2>. QED BY <1>7, <2>1, <2>2 DEF ExecuteLate, Remains
<1>8. CASE UNCHANGED churnVars
  BY <1>8 DEF churnVars, Remains, Owners, ToCome
<1>. QED BY <1>1, <1>2, <1>3, <1>4, <1>5, <1>6, <1>7, <1>8 DEF ChurnNext, Step

\* One element more makes a set larger by one at most.
LEMMA OneMore ==
  ASSUME NEW R, IsFiniteSet(R), NEW n \in Nat, Cardinality(R) <= n, NEW T
  PROVE  /\ T \subseteq R => IsFiniteSet(T) /\ Cardinality(T) <= n
         /\ \A x : T \subseteq R \cup {x} => IsFiniteSet(T) /\ Cardinality(T) <= n + 1
<1>1. Cardinality(R) \in Nat
  BY FS_CardinalityType
<1>2. ASSUME T \subseteq R PROVE IsFiniteSet(T) /\ Cardinality(T) <= n
  <2>1. IsFiniteSet(T) /\ Cardinality(T) <= Cardinality(R)
    BY <1>2, FS_Subset
  <2>2. Cardinality(T) \in Nat
    BY <2>1, FS_CardinalityType
  <2>. QED BY <1>1, <2>1, <2>2
<1>3. ASSUME NEW x, T \subseteq R \cup {x} PROVE IsFiniteSet(T) /\ Cardinality(T) <= n + 1
  <2>1. IsFiniteSet(R \cup {x}) /\ Cardinality(R \cup {x}) <= Cardinality(R) + 1
    BY <1>1, FS_AddElement
  <2>2. IsFiniteSet(T) /\ Cardinality(T) <= Cardinality(R \cup {x})
    BY <1>3, <2>1, FS_Subset
  <2>3. Cardinality(T) \in Nat /\ Cardinality(R \cup {x}) \in Nat
    BY <2>1, <2>2, FS_CardinalityType
  <2>. QED BY <1>1, <2>1, <2>2, <2>3
<1>. QED BY <1>2, <1>3

\* However many instances run, whatever keys they draw and whenever commands
\* are executed, a failed run leaves at most one key behind (main.go:22-31).
THEOREM ChurnLeavesLittle == ChurnSpec => []OneKeyPerFailure
<1>1. ChurnInit => ChurnTypeOK /\ RemainInv
  <2> SUFFICES ASSUME ChurnInit PROVE ChurnTypeOK /\ RemainInv
    OBVIOUS
  <2>1. ChurnTypeOK
    BY RedisAssumption DEF ChurnInit, ChurnTypeOK
  <2>2. Remains = {} /\ failed = 0
    BY DEF ChurnInit, Remains, ToCome
  <2>. QED BY <2>1, <2>2, FS_EmptySet DEF RemainInv
<1>2. ChurnTypeOK /\ RemainInv /\ [ChurnNext]_churnVars => RemainInv'
  <2> SUFFICES ASSUME ChurnTypeOK, RemainInv, [ChurnNext]_churnVars PROVE RemainInv'
    OBVIOUS
  <2>1. IsFiniteSet(Remains) /\ Cardinality(Remains) <= failed /\ failed \in Nat
    BY DEF RemainInv, ChurnTypeOK
  <2>2. PICK T : T = Remains'
    OBVIOUS
  <2>3. CASE Remains' \subseteq Remains /\ failed' = failed
    <3>1. IsFiniteSet(T) /\ Cardinality(T) <= failed
      BY <2>1, <2>2, <2>3, OneMore
    <3>. QED BY <2>2, <2>3, <3>1 DEF RemainInv
  <2>4. CASE \E x : Remains' \subseteq Remains \cup {x} /\ failed' = failed + 1
    <3>1. IsFiniteSet(T) /\ Cardinality(T) <= failed + 1
      BY <2>1, <2>2, <2>4, OneMore
    <3>. QED BY <2>2, <2>4, <3>1 DEF RemainInv
  <2>. QED BY <2>3, <2>4, RemainStep
<1>3. ChurnTypeOK /\ RemainInv => OneKeyPerFailure
  <2> SUFFICES ASSUME ChurnTypeOK, RemainInv PROVE OneKeyPerFailure
    OBVIOUS
  <2>1. (dbKeys \cup ToCome) \ {keyStr[p] : p \in Busy} \subseteq Remains
    BY DEF Remains, Owners, Busy
  <2>. QED BY <2>1, OneMore DEF RemainInv, OneKeyPerFailure, ChurnTypeOK
<1>. QED BY <1>1, <1>2, <1>3, ChurnTypeStep, PTL DEF ChurnSpec
=============================================================================
