------------------------------ MODULE SyncTest ------------------------------
(***************************************************************************)
(* The benchmark driver of src/sync_test.c as it meets the list            *)
(* protocols: the half fill of the set before the run, and the loop of     *)
(* sync_test_thread, which counts each update as a success when the        *)
(* registered insert/delete returns 0 and as an abort otherwise.  What a   *)
(* protocol's list function returns, and what its hash_list wrapper turns *)
(* that into, is translated from rcu-hash-list.c and rcx-hash-list.c; the  *)
(* outcome of an operation on the set (inserted, present, a conflict ...)  *)
(* is the one the protocol modules show it can have.  Every thread keeps   *)
(* its own counters and they are only summed after all have finished, so   *)
(* one thread's loop is modelled.                                          *)
(***************************************************************************)
EXTENDS Integers, FiniteSets

CONSTANTS
    Benchmarks,  \* the values of the benchmark= module parameter checked
    Range,       \* the range= module parameter: keys are 0 .. range-1
    MaxIter      \* iterations of the measured loop

RcuNames == {"rcu", "rcu-forgive", "rcu-fglock", "rcu-numa"}
RcxNames == {"rcuhtm", "forgive", "retry", "hwa", "rcx-htmlock",
             "rcx-hhtmlock", "rcx"}

ASSUME Benchmarks \subseteq RcuNames \cup RcxNames
ASSUME Range \in Nat \ {0} /\ MaxIter \in Nat

Keys == 0 .. Range - 1

(* The outcomes an update can have in a protocol: the one the set         *)
(* dictates, or a failure the protocol reports instead.                   *)
Failures == {"conflict", "abort", "timeout"}

UpdateOutcomes(b, o, k, set) ==
    LET effect == IF o = "add" THEN (IF k \in set THEN "present" ELSE "inserted")
                               ELSE (IF k \in set THEN "removed" ELSE "absent")
        changes == effect \in {"inserted", "removed"}
    IN  {effect} \cup
        CASE b = "rcu-forgive" -> {"conflict"}      \* spin_trylock fails first
          [] b = "forgive" /\ changes -> {"abort"}  \* only an update runs _xbegin
          [] b = "retry" /\ changes -> {"timeout"}  \* aborts until the deadline
          [] OTHER -> {}

(* What rcu_list_* / rcx_list_* return for an outcome. *)
ListResult(b, outcome) ==
    CASE b = "rcu" -> 0
      [] b = "rcu-forgive" -> IF outcome = "conflict" THEN 2 ELSE 0
      [] outcome \in {"inserted", "removed"} -> 1
      [] outcome \in {"present", "absent"} -> 0
      [] OTHER -> 2

(* mutant: the rcx try wrappers return the list function's result as is *)
HashListReturnRaw(b, outcome) ==
    CASE b \in RcuNames -> ListResult(b, outcome)
      [] b = "retry" -> IF outcome = "timeout" THEN -1 ELSE 0
      [] OTHER -> ListResult(b, outcome)

(* What the registered insert/delete returns: rcu_hash_list_* pass the     *)
(* list result through; rcx_hash_list_try_* turn 2 into -1 and anything    *)
(* else into 0; rcx_hash_list_retry_* return -1 only at the deadline; the  *)
(* other rcx wrappers return 0.                                           *)
HashListReturn(b, outcome) ==
    CASE b \in RcuNames -> ListResult(b, outcome)
      [] b = "forgive" -> IF ListResult(b, outcome) = 2 THEN -1 ELSE 0
      [] b = "retry" -> IF outcome = "timeout" THEN -1 ELSE 0
      [] OTHER -> 0

(* The set after an update with this outcome. *)
Apply(set, k, outcome) ==
    CASE outcome = "inserted" -> set \cup {k}
      [] outcome = "removed" -> set \ {k}
      [] OTHER -> set

VARIABLES
    bench,   \* the registered benchmark
    phase,   \* "fill" (the half fill in sync_test_init) or "run"
    filled,  \* i of the fill loop
    set,     \* the keys in the hash list
    cnt,     \* the counters of bench->ops
    iter,    \* iterations of the measured loop so far
    fails    \* history: updates whose outcome was a failure

vars == <<bench, phase, filled, set, cnt, iter, fails>>

Counters == {"nb_lookup", "nb_insert", "nb_delete", "nb_ins_abort", "nb_del_abort"}

Init ==
    /\ bench \in Benchmarks
    /\ phase = "fill"
    /\ filled = 0
    /\ set = {}
    /\ cnt = [c \in Counters |-> 0]
    /\ iter = 0
    /\ fails = 0

(* One iteration of the fill loop, for the random key k: "rcu-" names    *)
(* call rcu_hash_list_add() once; the others call bench->insert(), whose  *)
(* list function has the outcome out, and go on to a new key when it      *)
(* returns 0.                                                              *)
FillBy(k, out) ==
    /\ phase = "fill"
    /\ filled < Range \div 2
    /\ IF bench \in RcuNames
       THEN /\ set' = set \cup {k}
            /\ filled' = filled + 1
       ELSE /\ set' = Apply(set, k, out)
            /\ filled' = IF HashListReturn(bench, out) = 0
                         THEN filled + 1 ELSE filled
    /\ UNCHANGED <<bench, phase, cnt, iter, fails>>

FillStep ==
    \E k \in Keys : \E out \in UpdateOutcomes(bench, "add", k, set) : FillBy(k, out)

(* The fill loop ends and the threads start. *)
StartRun ==
    /\ phase = "fill"
    /\ filled = Range \div 2
    /\ phase' = "run"
    /\ UNCHANGED <<bench, filled, set, cnt, iter, fails>>

(* One iteration of sync_test_thread: a lookup, or an insert or delete    *)
(* counted by the return value of bench->insert / bench->delete.          *)
Lookup ==
    /\ phase = "run" /\ iter < MaxIter
    /\ cnt' = [cnt EXCEPT !["nb_lookup"] = @ + 1]
    /\ iter' = iter + 1
    /\ UNCHANGED <<bench, phase, filled, set, fails>>

UpdateBy(o, ok, ab, k, out) ==
    /\ phase = "run" /\ iter < MaxIter
    /\ set' = Apply(set, k, out)
    /\ cnt' = [cnt EXCEPT ![IF HashListReturn(bench, out) = 0 THEN ok ELSE ab] = @ + 1]
    /\ fails' = fails + IF out \in Failures THEN 1 ELSE 0
    /\ iter' = iter + 1
    /\ UNCHANGED <<bench, phase, filled>>

Update(o, ok, ab) ==
    \E k \in Keys : \E out \in UpdateOutcomes(bench, o, k, set) :
        UpdateBy(o, ok, ab, k, out)

Next ==
    \/ FillStep
    \/ StartRun
    \/ Lookup
    \/ Update("add", "nb_insert", "nb_ins_abort")
    \/ Update("remove", "nb_delete", "nb_del_abort")

Spec == Init /\ [][Next]_vars

-----------------------------------------------------------------------------

TypeOK ==
    /\ bench \in Benchmarks
    /\ phase \in {"fill", "run"}
    /\ set \subseteq Keys
    /\ cnt \in [Counters -> 0 .. MaxIter]
    /\ fails \in 0 .. MaxIter

(* Spec sections 4.5 and 8: the driver's abort count is the number of      *)
(* updates the protocol could not carry out (a conflict, a transaction     *)
(* abort it forgave, the deadline of retry), so that inserts + removes +   *)
(* aborts is the number of updates issued and every update that did its   *)
(* work, or found the key already there or absent, is a success.           *)
AbortsAreFailures == cnt["nb_ins_abort"] + cnt["nb_del_abort"] = fails

(* Spec sections 2 and 8: before the threads start, the fill has put       *)
(* range/2 keys in the set ("Ensure the success of insertion").           *)
FilledToHalf == phase = "run" => Cardinality(set) = Range \div 2
=============================================================================
