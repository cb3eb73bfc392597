----------------------------- MODULE SortedList -----------------------------
(***************************************************************************)
(* One bucket of the hash list: the list_t of hash-list.h, a singly-linked *)
(* list of node_t cells bounded by a LIST_VAL_MIN head sentinel and a      *)
(* LIST_VAL_MAX tail sentinel, kept sorted by val.                         *)
(*                                                                         *)
(* This module holds what every synchronization protocol shares:           *)
(*   - the heap of node_t cells (val, p_next, removed) and their life      *)
(*     cycle: kmalloc'd ("live"), handed to kfree_rcu ("retired"), and     *)
(*     given back to the allocator once the grace period has ended         *)
(*     ("free"), after which kmalloc may hand the same cell out again;     *)
(*   - the RCU grace periods: gp[n] is the set of threads that were in a   *)
(*     read-side critical section when n was retired and have not yet      *)
(*     passed a quiescent state;                                           *)
(*   - the lock-free traversal of rcu_list_contains/rcx_list_contains and  *)
(*     of every writer, one node per step;                                 *)
(*   - the lookup itself, which is the same in both source files.          *)
(*                                                                         *)
(* The writer protocols are in the modules that extend this one.  Keys of  *)
(* other buckets never touch this list (HASH_VALUE is fixed per key and    *)
(* the bucket array is read-only), so one bucket is modelled.              *)
(***************************************************************************)
EXTENDS Integers, SequencesExt

CONSTANTS
    Keys,         \* values of [0, range) that hash to this bucket
    Threads,      \* the benchmark kthreads
    Pool,         \* node_t cells kmalloc can hand out
    PHead,         \* the LIST_VAL_MIN sentinel, p_list->p_head
    PTail,         \* the LIST_VAL_MAX sentinel
    NULL,
    Preemptible,  \* TRUE: CONFIG_PREEMPT; FALSE: a kthread is only off the
                  \* CPU when it sleeps or calls cond_resched()
    MaxOps,       \* operations each thread performs; 0 = no bound
    InitKeys      \* the sets of this bucket's keys the half fill can leave

ASSUME Keys \subseteq Nat /\ Keys # {}
ASSUME {PHead, PTail, NULL} \cap Pool = {} /\ PHead # PTail
ASSUME Preemptible \in BOOLEAN /\ MaxOps \in Nat
ASSUME InitKeys \subseteq SUBSET Keys /\ InitKeys # {}

(* LIST_VAL_MIN and LIST_VAL_MAX: INT_MIN and INT_MAX lie outside [0, range). *)
ValMin == -1
ValMax == Max(Keys) + 1

Nodes == {PHead, PTail} \cup Pool

VARIABLES
    val,      \* node->val
    nxt,      \* node->p_next
    removed,  \* node->removed
    mem,      \* "live" | "retired" (passed to kfree_rcu) | "free"
    gp,       \* gp[n]: readers the grace period of retired n still waits for
    pc,       \* where each thread is in its current operation
    op,       \* "contains" | "add" | "remove"
    key,      \* the val argument
    prev,     \* p_prev
    cur,      \* p_next of the traversal (p_node)
    res,      \* outcome of the last operation
    ops,      \* operations started (counted only when MaxOps > 0)
    seen      \* history: whether key was in the set, over the op's states

heapVars == <<val, nxt, removed, mem, gp>>
threadVars == <<pc, op, key, prev, cur, res, ops>>

-----------------------------------------------------------------------------
(* The list a reader starting now would walk, and the set it represents.  *)

RECURSIVE ChainFrom(_, _)
ChainFrom(n, k) ==
    IF n = NULL \/ k = 0 THEN <<>> ELSE <<n>> \o ChainFrom(nxt[n], k - 1)

List == ChainFrom(PHead, Cardinality(Nodes) + 1)

Reachable == ToSet(List)

AbsSet == {val[n] : n \in Reachable} \cap Keys

-----------------------------------------------------------------------------
(* RCU.  rcu_read_lock() only matters to grace periods.  A thread is in a  *)
(* read-side critical section during a lookup (rcu_read_lock ..            *)
(* rcu_read_unlock).  Writers never call rcu_read_lock(): without          *)
(* CONFIG_PREEMPT a kthread that does not sleep is still implicitly in one *)
(* until the cond_resched() that ends each iteration of the benchmark      *)
(* loop; with CONFIG_PREEMPT it is not protected at all.                   *)

InReadSide(t) ==
    /\ pc[t] # "idle"
    /\ ~Preemptible \/ op[t] = "contains"

ReadSide == {t \in Threads : InReadSide(t)}

(* kfree_rcu of the nodes in R in this step, while the threads of Q pass   *)
(* a quiescent state (return to the benchmark loop, or sleep).             *)
Retiring(R) == mem' = [n \in Nodes |-> IF n \in R THEN "retired" ELSE mem[n]]

(* mutant: kfree instead of kfree_rcu, no reader is waited for *)
GracePeriodsNoWait(R, Q) ==
    gp' = [n \in Nodes |-> IF n \in R THEN {} ELSE gp[n] \ Q]

GracePeriods(R, Q) ==
    gp' = [n \in Nodes |-> IF n \in R THEN ReadSide \ Q ELSE gp[n] \ Q]

(* The RCU callback of kfree_rcu: the cell goes back to the allocator     *)
(* once every reader its grace period waited for has left.  What a freed  *)
(* cell holds is not modelled (any read of it violates NoUseAfterFree),   *)
(* so its fields take the values of a never-used cell.                    *)
Free(n) ==
    /\ mem' = [mem EXCEPT ![n] = "free"]
    /\ val' = [val EXCEPT ![n] = ValMax]
    /\ nxt' = [nxt EXCEPT ![n] = NULL]
    /\ removed' = [removed EXCEPT ![n] = FALSE]

Reclaim(n) ==
    /\ mem[n] = "retired"
    /\ gp[n] = {}
    /\ Free(n)
    /\ UNCHANGED gp
    /\ UNCHANGED threadVars

-----------------------------------------------------------------------------
(* Operation entry and exit, shared by all protocols.                      *)

CanInvoke(t) == pc[t] = "idle" /\ (MaxOps = 0 \/ ops[t] < MaxOps)

Invoke(t, o, k) ==
    /\ op' = [op EXCEPT ![t] = o]
    /\ key' = [key EXCEPT ![t] = k]
    /\ ops' = [ops EXCEPT ![t] = IF MaxOps = 0 THEN 0 ELSE @ + 1]

Goto(t, p) == pc' = [pc EXCEPT ![t] = p]

(* p_prev = p_list->p_head; p_next = p_prev->p_next *)
StartWalk(t) ==
    /\ prev' = [prev EXCEPT ![t] = PHead]
    /\ cur' = [cur EXCEPT ![t] = nxt[PHead]]
    /\ Goto(t, "walk")

(* The operation returns r; its local pointers are dead from here on. *)
Return(t, r) ==
    /\ Goto(t, "idle")
    /\ res' = [res EXCEPT ![t] = r]
    /\ prev' = [prev EXCEPT ![t] = NULL]
    /\ cur' = [cur EXCEPT ![t] = NULL]

(* One iteration of the traversal loop: v = p_node->val is below the key, *)
(* so p_prev = p_next; p_next = p_prev->p_next.                           *)
Walk(t) ==
    /\ pc[t] = "walk"
    /\ val[cur[t]] < key[t]
    /\ prev' = [prev EXCEPT ![t] = cur[t]]
    /\ cur' = [cur EXCEPT ![t] = nxt[cur[t]]]
    /\ UNCHANGED heapVars
    /\ UNCHANGED <<pc, op, key, res, ops>>

(* The loop has stopped at the first node whose val is >= the key. *)
Stopped(t) == pc[t] = "walk" /\ val[cur[t]] >= key[t]

(* mutant: the lookup tests v >= val instead of v == val *)
HitGE(t) == val[cur[t]] >= key[t]

Hit(t) == val[cur[t]] = key[t]

-----------------------------------------------------------------------------
(* rcu_list_contains / rcx_list_contains                                  *)

ContainsBegin(t, k) ==
    /\ CanInvoke(t)
    /\ Invoke(t, "contains", k)
    /\ StartWalk(t)
    /\ UNCHANGED heapVars
    /\ UNCHANGED res

ContainsDone(t) ==
    /\ op[t] = "contains"
    /\ Stopped(t)
    /\ Return(t, IF Hit(t) THEN "found" ELSE "notfound")
    /\ GracePeriods({}, {t})
    /\ UNCHANGED <<val, nxt, removed, mem>>
    /\ UNCHANGED <<op, key, ops>>

-----------------------------------------------------------------------------
(* The history variable seen: for a thread inside an operation, whether   *)
(* its key was in the set in each state since the operation began.        *)
Observe ==
    seen' = [t \in Threads |->
                IF pc'[t] = "idle" THEN {}
                ELSE seen[t] \cup {key'[t] \in AbsSet'}]

(* The bucket the half fill of sync_test_init() leaves when the kthreads   *)
(* start: it inserts one key at a time before any of them runs, so the     *)
(* keys S of the bucket sit in increasing order, each in its own live cell *)
(* with removed = 0, from the head sentinel to the tail sentinel.  The    *)
(* cells are the first free ones, taken in a fixed order.                 *)
Prefilled(S) ==
    LET cell == CHOOSE f \in [S -> Pool] : IsInjective(f)
        cells == Range(cell)
        keyOf(n) == CHOOSE k \in S : cell[k] = n
        above(k) == {j \in S : j > k}
        linkAfter(k) == IF above(k) = {} THEN PTail ELSE cell[Min(above(k))]
    IN  /\ val = [n \in Nodes |-> CASE n = PHead -> ValMin
                                    [] n \in cells -> keyOf(n)
                                    [] OTHER -> ValMax]
        /\ nxt = [n \in Nodes |-> CASE n = PHead -> linkAfter(ValMin)
                                    [] n \in cells -> linkAfter(keyOf(n))
                                    [] OTHER -> NULL]
        /\ mem = [n \in Nodes |-> IF n \in Pool \ cells THEN "free" ELSE "live"]

InitList ==
    /\ \E S \in InitKeys : Prefilled(S)
    /\ removed = [n \in Nodes |-> FALSE]
    /\ gp = [n \in Nodes |-> {}]
    /\ pc = [t \in Threads |-> "idle"]
    /\ op = [t \in Threads |-> "contains"]
    /\ key = [t \in Threads |-> Min(Keys)]
    /\ prev = [t \in Threads |-> NULL]
    /\ cur = [t \in Threads |-> NULL]
    /\ res = [t \in Threads |-> "none"]
    /\ ops = [t \in Threads |-> 0]
    /\ seen = [t \in Threads |-> {}]

-----------------------------------------------------------------------------
(* Properties every protocol must have.                                   *)

(* The shape of the list (hash-list.h): the chain from the head sentinel   *)
(* ends at the tail sentinel, vals strictly increase along it (so no key   *)
(* appears twice), and every node on it is a live cell, never one handed   *)
(* to kfree_rcu.  A writer that commits a pointer swing on a stale         *)
(* (p_prev, p_next) pair breaks this.                                      *)
ListShape ==
    /\ List[Len(List)] = PTail
    /\ nxt[PTail] = NULL
    /\ IsSorted([i \in 1..Len(List) |-> val[List[i]]], <)
    /\ \A n \in Reachable : mem[n] = "live"

(* The spec's list invariant (section 3): the shape above, and a node is   *)
(* reachable from the head only while its removed flag is clear, the      *)
(* flag that validation relies on to tell an unlinked node apart.          *)
ListIntegrity ==
    /\ ListShape
    /\ \A n \in Reachable : ~removed[n]

(* A read-only outcome is linearizable: a lookup that reports the key      *)
(* present, or an add that finds it already there, saw a state inside the  *)
(* operation where the key was in the set; "notfound" and a remove that    *)
(* finds nothing saw one where it was not.                                 *)
ResultOK(t, r) ==
    CASE r \in {"found", "present"}  -> TRUE \in seen[t]
      [] r \in {"notfound", "absent"} -> FALSE \in seen[t]
      [] OTHER -> TRUE
=============================================================================
