----------------------------- MODULE RedisChurn -----------------------------
(***************************************************************************)
(* go/redis/main.go: set a random key, delete it, and so on, until the     *)
(* loop is through or a command fails.  Several instances may run, and be  *)
(* started again.                                                          *)
(*                                                                         *)
(* A command is sent, executed and answered in three steps; a connection   *)
(* can fail between any two, and a command whose sender has given up may   *)
(* still be executed later.  The database is external.                     *)
(***************************************************************************)
EXTENDS Integers, FiniteSets

CONSTANTS
  Procs,    \* instances of the program
  RandKeys, \* what RandStringRunes can return
  Rounds,   \* rounds of the loop (10^8 in the code)
  MaxRuns   \* bound: runs of the program

ASSUME RedisAssumption == Rounds \in Nat /\ MaxRuns \in Nat

VARIABLES
  state,    \* state[p]: "off", "loop", or the command p waits for
  iter,     \* iter[p]: the i of main, rounds done
  keyStr,   \* keyStr[p]: the key of the round
  req,      \* req[p]: what became of the command: "sent" or "done"
  late,     \* commands under way whose sender has given up, with the number
            \* of its failure: equal commands are told apart
  dbKeys,   \* the keys in the database
  runs,     \* runs begun
  failed    \* runs that a command ended

churnVars == <<state, iter, keyStr, req, late, dbKeys, runs, failed>>

Commands == {"SET", "DEL"} \X RandKeys \X Nat

\* The database after a command.
Executed(cmd) == IF cmd[1] = "SET" THEN dbKeys \cup {cmd[2]} ELSE dbKeys \ {cmd[2]}

ChurnInit ==
  /\ state = [p \in Procs |-> "off"]
  /\ iter = [p \in Procs |-> 0]
  /\ keyStr \in [Procs -> RandKeys]
  /\ req = [p \in Procs |-> "done"]
  /\ late = {}
  /\ dbKeys = {}
  /\ runs = 0 /\ failed = 0

\* redis.Dial; without a connection the program returns.
Dial(p) ==
  /\ state[p] = "off" /\ runs < MaxRuns
  /\ runs' = runs + 1
  /\ iter' = [iter EXCEPT ![p] = 0]
  /\ state' \in {state, [state EXCEPT ![p] = "loop"]}
  /\ UNCHANGED <<keyStr, req, late, dbKeys, failed>>

\* The next round: a key, and SET is sent.
Set(p, k) ==
  /\ state[p] = "loop" /\ iter[p] < Rounds
  /\ keyStr' = [keyStr EXCEPT ![p] = k]
  /\ state' = [state EXCEPT ![p] = "SET"]
  /\ req' = [req EXCEPT ![p] = "sent"]
  /\ UNCHANGED <<iter, late, dbKeys, runs, failed>>

\* (faulty variant: the key is drawn again for DEL)
DelOther(p) ==
  /\ state[p] = "SET" /\ req[p] = "done"
  /\ keyStr' \in [Procs -> RandKeys]
  /\ \A q \in Procs \ {p} : keyStr'[q] = keyStr[q]
  /\ state' = [state EXCEPT ![p] = "DEL"]
  /\ req' = [req EXCEPT ![p] = "sent"]
  /\ UNCHANGED <<iter, late, dbKeys, runs, failed>>

\* The answer to SET is there, and DEL is sent.
Del(p) ==
  /\ state[p] = "SET" /\ req[p] = "done"
  /\ state' = [state EXCEPT ![p] = "DEL"]
  /\ req' = [req EXCEPT ![p] = "sent"]
  /\ UNCHANGED <<iter, keyStr, late, dbKeys, runs, failed>>

\* The answer to DEL is there.
NextRound(p) ==
  /\ state[p] = "DEL" /\ req[p] = "done"
  /\ iter' = [iter EXCEPT ![p] = @ + 1]
  /\ state' = [state EXCEPT ![p] = "loop"]
  /\ UNCHANGED <<keyStr, req, late, dbKeys, runs, failed>>

\* The loop is through.
Return(p) ==
  /\ state[p] = "loop" /\ iter[p] = Rounds
  /\ state' = [state EXCEPT ![p] = "off"]
  /\ UNCHANGED <<iter, keyStr, req, late, dbKeys, runs, failed>>

\* Do reports an error and the program returns.  A command that was not
\* executed yet is lost, or on its way.
Error(p) ==
  /\ state[p] \in {"SET", "DEL"}
  /\ state' = [state EXCEPT ![p] = "off"]
  /\ failed' = failed + 1
  /\ late' \in {late} \cup
       IF req[p] = "sent" THEN {late \cup {<<state[p], keyStr[p], failed>>}} ELSE {}
  /\ UNCHANGED <<iter, keyStr, req, dbKeys, runs>>

\* The database executes the command of p.
Execute(p) ==
  /\ state[p] \in {"SET", "DEL"} /\ req[p] = "sent"
  /\ req' = [req EXCEPT ![p] = "done"]
  /\ dbKeys' = Executed(<<state[p], keyStr[p]>>)
  /\ UNCHANGED <<state, iter, keyStr, late, runs, failed>>

\* It executes a command nobody waits for any more, or never gets it.
ExecuteLate(cmd) ==
  /\ late' = late \ {cmd}
  /\ dbKeys' \in {dbKeys, Executed(cmd)}
  /\ UNCHANGED <<state, iter, keyStr, req, runs, failed>>

Step(p) ==
  \/ \E k \in RandKeys : Set(p, k)
  \/ Del(p) \/ NextRound(p) \/ Return(p) \/ Error(p) \/ Execute(p)

ChurnNext ==
  \/ \E p \in Procs : Dial(p) \/ Step(p)
  \/ \E cmd \in late : ExecuteLate(cmd)

ChurnSpec == ChurnInit /\ [][ChurnNext]_churnVars

-----------------------------------------------------------------------------
\* The types of the variables of main.go, and of the database.
ChurnTypeOK ==
  /\ state \in [Procs -> {"off", "loop", "SET", "DEL"}]
  /\ iter \in [Procs -> 0..Rounds]
  /\ \A p \in Procs : state[p] \in {"SET", "DEL"} => iter[p] < Rounds
  /\ keyStr \in [Procs -> RandKeys]
  /\ req \in [Procs -> {"sent", "done"}]
  /\ late \subseteq Commands
  /\ dbKeys \subseteq RandKeys
  /\ runs \in 0..MaxRuns /\ failed \in Nat

\* Instances between SET and the answer to DEL: their keys may be there.
Busy == {p \in Procs : state[p] \in {"SET", "DEL"}}

\* The keys of commands SET that may still be executed.
ToCome == {cmd[2] : cmd \in {d \in late : d[1] = "SET"}}

\* The program cleans up after itself as well as it can: apart from the keys
\* of rounds under way, each failed run leaves at most one key behind, even
\* counting those still to come, and even if keys happen to be drawn twice.
OneKeyPerFailure ==
  Cardinality((dbKeys \cup ToCome) \ {keyStr[p] : p \in Busy}) <= failed

-----------------------------------------------------------------------------
\* Behind OneKeyPerFailure.  An instance answers for its key from the moment
\* SET is executed until DEL is.
Owners ==
  {p \in Procs : \/ state[p] = "SET" /\ req[p] = "done"
                 \/ state[p] = "DEL" /\ req[p] = "sent"}

\* The keys nobody answers for, and those that a late SET may bring back even
\* while somebody does: each was left by a failed run of its own.
Remains == ToCome \cup (dbKeys \ {keyStr[p] : p \in Owners})

RemainInv == IsFiniteSet(Remains) /\ Cardinality(Remains) <= failed
=============================================================================
