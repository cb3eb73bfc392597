----------------------------- MODULE RcuHashList -----------------------------
(***************************************************************************)
(* The writer protocols of src/rcu-hash-list.c on one bucket, next to the  *)
(* lock-free lookup of SortedList:                                         *)
(*   "rcu"         rcu_list_add/remove: the bucket spinlock p_list->rcuspin *)
(*                 serialises writers;                                     *)
(*   "rcu-forgive" rcu_list_try_add/try_remove: spin_trylock, and return 2 *)
(*                 (a conflict) when the lock is taken;                    *)
(*   "rcu-fglock"  rcu_list_fg_add/fg_remove: traverse without locks, lock *)
(*                 p_prev, p_next (and n) node by node, validate, commit   *)
(*                 or unlock and restart;                                  *)
(*   "rcu-numa"    rcu_list_numa_add/numa_remove: the same, taking the     *)
(*                 per-NUMA-node spinlocks pnd_slocks[numa_node_id()] of   *)
(*                 the nodes first and their global_lock after.            *)
(***************************************************************************)
EXTENDS SortedList

CONSTANTS
    Protocols,      \* the benchmarks a run checks
    NumaIds,        \* NUMA nodes with CPUs
    NumaOf,         \* numa_node_id() of the CPU each kthread is bound to
    AllocMaySleep   \* kmalloc(GFP_KERNEL) may block: a quiescent state

ASSUME Protocols \subseteq {"rcu", "rcu-forgive", "rcu-fglock", "rcu-numa"}
ASSUME NumaOf \in [Threads -> NumaIds] /\ AllocMaySleep \in BOOLEAN

VARIABLES
    Protocol, \* the benchmark= module parameter, fixed when the module loads
    rcuspin,  \* the thread holding p_list->rcuspin, or NULL
    glock,    \* glock[n]: the thread holding n->global_lock, or NULL
    pndlock,  \* pndlock[<<n, i>>]: holder of n->pnd_slocks[i].lock
    succ,     \* n = p_next->p_next of a remove
    newn,     \* p_new_node of an add
    nlk       \* node locks the current locking phase has taken

lockVars == <<rcuspin, glock, pndlock>>
localVars == <<succ, newn, nlk>>
vars == <<heapVars, threadVars, seen, lockVars, localVars, Protocol>>

Coarse == Protocol \in {"rcu", "rcu-forgive"}
Fine == Protocol \in {"rcu-fglock", "rcu-numa"}

PCs == {"idle", "lock", "walk", "alloc", "succ", "pnd", "glk", "validate",
        "commit", "unlock"}

Results == {"none", "found", "notfound", "inserted", "present", "removed",
            "absent", "conflict"}

SleepChoice == IF AllocMaySleep THEN BOOLEAN ELSE {FALSE}

(* kmalloc of rcu_new_node: a thread that sleeps in it passes a quiescent *)
(* state.                                                                 *)
AllocQS(t) == \E s \in SleepChoice : GracePeriods({}, IF s THEN {t} ELSE {})

(* rcu_new_node initialises the node's spinlocks. *)
InitLocks(n) ==
    /\ glock' = [glock EXCEPT ![n] = NULL]
    /\ pndlock' = [s \in DOMAIN pndlock |-> IF s[1] = n THEN NULL ELSE pndlock[s]]

(* mutant: the NUMA locks are not released, only the global_locks *)
ReleaseAllGlobalOnly(t) ==
    /\ glock' = [n \in Nodes |-> IF glock[n] = t THEN NULL ELSE glock[n]]
    /\ UNCHANGED pndlock

ReleaseAll(t) ==
    /\ glock' = [n \in Nodes |-> IF glock[n] = t THEN NULL ELSE glock[n]]
    /\ pndlock' = [s \in DOMAIN pndlock |->
                      IF pndlock[s] = t THEN NULL ELSE pndlock[s]]

-----------------------------------------------------------------------------
(* "rcu" and "rcu-forgive": the bucket lock.                              *)

CoarseBegin(t, o, k) ==
    /\ Protocol = "rcu"
    /\ CanInvoke(t)
    /\ Invoke(t, o, k)
    /\ Goto(t, "lock")
    /\ res' = [res EXCEPT ![t] = "none"]
    /\ UNCHANGED <<heapVars, prev, cur, lockVars, localVars>>

(* RCU_WRITER_LOCK(p_list->rcuspin), then the traversal starts. *)
CoarseLock(t) ==
    /\ pc[t] = "lock"
    /\ rcuspin = NULL
    /\ rcuspin' = t
    /\ StartWalk(t)
    /\ UNCHANGED <<heapVars, op, key, res, ops, glock, pndlock, localVars>>

(* if (!spin_trylock(&p_list->rcuspin)) return 2; *)
TryBegin(t, o, k) ==
    /\ Protocol = "rcu-forgive"
    /\ CanInvoke(t)
    /\ Invoke(t, o, k)
    /\ \/ /\ rcuspin # NULL
          /\ res' = [res EXCEPT ![t] = "conflict"]
          /\ UNCHANGED <<pc, prev, cur, rcuspin>>
       \/ /\ rcuspin = NULL
          /\ rcuspin' = t
          /\ StartWalk(t)
          /\ res' = [res EXCEPT ![t] = "none"]
    /\ UNCHANGED <<heapVars, glock, pndlock, localVars>>

(* result = (v != val): link a new node between p_prev and p_next. *)
CoarseAdd(t) ==
    /\ Coarse
    /\ op[t] = "add"
    /\ Stopped(t)
    /\ \/ /\ Hit(t)
          /\ res' = [res EXCEPT ![t] = "present"]
          /\ UNCHANGED <<heapVars, glock, pndlock>>
       \/ /\ ~Hit(t)
          /\ \E n \in Pool :
                /\ mem[n] = "free"
                /\ mem' = [mem EXCEPT ![n] = "live"]
                /\ val' = [val EXCEPT ![n] = key[t]]
                /\ removed' = [removed EXCEPT ![n] = FALSE]
                /\ nxt' = [nxt EXCEPT ![n] = cur[t], ![prev[t]] = n]
                /\ InitLocks(n)
          /\ AllocQS(t)
          /\ res' = [res EXCEPT ![t] = "inserted"]
    /\ Goto(t, "unlock")
    /\ UNCHANGED <<op, key, prev, cur, ops, rcuspin, localVars>>

(* result = (p_node->val == val): p_prev->p_next = p_next->p_next. *)
CoarseRemove(t) ==
    /\ Coarse
    /\ op[t] = "remove"
    /\ Stopped(t)
    /\ \/ /\ Hit(t)
          /\ nxt' = [nxt EXCEPT ![prev[t]] = nxt[cur[t]]]
          /\ res' = [res EXCEPT ![t] = "removed"]
       \/ /\ ~Hit(t)
          /\ res' = [res EXCEPT ![t] = "absent"]
          /\ UNCHANGED nxt
    /\ Goto(t, "unlock")
    /\ UNCHANGED <<val, removed, mem, gp, op, key, prev, cur, ops>>
    /\ UNCHANGED <<lockVars, localVars>>

(* RCU_WRITER_UNLOCK, then rcu_free_node(p_next) of a removal. *)
CoarseUnlock(t) ==
    /\ Coarse
    /\ pc[t] = "unlock"
    /\ rcuspin' = NULL
    /\ LET R == IF op[t] = "remove" /\ res[t] = "removed" THEN {cur[t]} ELSE {}
       IN  Retiring(R) /\ GracePeriods(R, {t})
    /\ Return(t, res[t])
    /\ UNCHANGED <<val, nxt, removed, op, key, ops>>
    /\ UNCHANGED <<glock, pndlock, localVars>>

-----------------------------------------------------------------------------
(* "rcu-fglock" and "rcu-numa": validate under per-node locks.            *)

FineBegin(t, o, k) ==
    /\ Fine
    /\ CanInvoke(t)
    /\ Invoke(t, o, k)
    /\ StartWalk(t)
    /\ res' = [res EXCEPT ![t] = "none"]
    /\ UNCHANGED <<heapVars, lockVars, localVars>>

FirstLockPc == IF Protocol = "rcu-numa" THEN "pnd" ELSE "glk"

(* p_prev, p_next for an add; p_prev, p_next, n for a remove. *)
LockTargets(t) ==
    IF op[t] = "add" THEN <<prev[t], cur[t]>> ELSE <<prev[t], cur[t], succ[t]>>

NextTarget(t) == LockTargets(t)[nlk[t] + 1]

FineAdd(t) ==
    /\ Fine
    /\ op[t] = "add"
    /\ Stopped(t)
    /\ \/ /\ Hit(t)
          /\ Return(t, "present")
          /\ GracePeriods({}, {t})
       \/ /\ ~Hit(t)
          /\ Goto(t, "alloc")
          /\ UNCHANGED <<res, gp, prev, cur>>
    /\ UNCHANGED <<val, nxt, removed, mem, op, key, ops>>
    /\ UNCHANGED <<lockVars, localVars>>

(* p_new_node = rcu_new_node(); ->val = val; ->p_next = p_next *)
FineAlloc(t) ==
    /\ pc[t] = "alloc"
    /\ \E n \in Pool :
          /\ mem[n] = "free"
          /\ mem' = [mem EXCEPT ![n] = "live"]
          /\ val' = [val EXCEPT ![n] = key[t]]
          /\ removed' = [removed EXCEPT ![n] = FALSE]
          /\ nxt' = [nxt EXCEPT ![n] = cur[t]]
          /\ InitLocks(n)
          /\ newn' = [newn EXCEPT ![t] = n]
    /\ AllocQS(t)
    /\ Goto(t, FirstLockPc)
    /\ nlk' = [nlk EXCEPT ![t] = 0]
    /\ UNCHANGED <<op, key, prev, cur, res, ops, rcuspin, succ>>

FineRemove(t) ==
    /\ Fine
    /\ op[t] = "remove"
    /\ Stopped(t)
    /\ \/ /\ Hit(t)
          /\ Goto(t, "succ")
          /\ UNCHANGED <<res, gp, prev, cur>>
       \/ /\ ~Hit(t)
          /\ Return(t, "absent")
          /\ GracePeriods({}, {t})
    /\ UNCHANGED <<val, nxt, removed, mem, op, key, ops>>
    /\ UNCHANGED <<lockVars, localVars>>

(* n = p_next->p_next *)
FineSucc(t) ==
    /\ pc[t] = "succ"
    /\ succ' = [succ EXCEPT ![t] = nxt[cur[t]]]
    /\ nlk' = [nlk EXCEPT ![t] = 0]
    /\ Goto(t, FirstLockPc)
    /\ UNCHANGED <<heapVars, op, key, prev, cur, res, ops, lockVars, newn>>

(* The next lock of the phase is taken; after the last, go on to p. *)
Advance(t, p) ==
    IF nlk[t] + 1 = Len(LockTargets(t))
    THEN nlk' = [nlk EXCEPT ![t] = 0] /\ Goto(t, p)
    ELSE nlk' = [nlk EXCEPT ![t] = @ + 1] /\ UNCHANGED pc

(* spin_lock(&pndslock(node)) with numa_node_id() of the thread's CPU. *)
AcquirePnd(t) ==
    /\ pc[t] = "pnd"
    /\ LET slot == <<NextTarget(t), NumaOf[t]>>
       IN  /\ pndlock[slot] = NULL
           /\ pndlock' = [pndlock EXCEPT ![slot] = t]
    /\ Advance(t, "glk")
    /\ UNCHANGED <<heapVars, op, key, prev, cur, res, ops>>
    /\ UNCHANGED <<rcuspin, glock, succ, newn>>

(* spin_lock(&node->global_lock) *)
AcquireGlk(t) ==
    /\ pc[t] = "glk"
    /\ glock[NextTarget(t)] = NULL
    /\ glock' = [glock EXCEPT ![NextTarget(t)] = t]
    /\ Advance(t, "validate")
    /\ UNCHANGED <<heapVars, op, key, prev, cur, res, ops>>
    /\ UNCHANGED <<rcuspin, pndlock, succ, newn>>

(* mutant: the add does not check p_prev->removed (line 307) *)
AddValidNoPrev(t) == nxt[prev[t]] = cur[t] /\ ~removed[cur[t]]

AddValid(t) ==
    /\ nxt[prev[t]] = cur[t]
    /\ ~removed[prev[t]] /\ ~removed[cur[t]]

(* mutant: the remove does not check p_prev->removed *)
RemoveValidNoPrev(t) ==
    /\ ~removed[cur[t]] /\ ~removed[succ[t]]
    /\ nxt[prev[t]] = cur[t] /\ nxt[cur[t]] = succ[t]

RemoveValid(t) ==
    /\ ~removed[prev[t]] /\ ~removed[cur[t]] /\ ~removed[succ[t]]
    /\ nxt[prev[t]] = cur[t] /\ nxt[cur[t]] = succ[t]

Valid(t) == IF op[t] = "add" THEN AddValid(t) ELSE RemoveValid(t)

(* Under the node locks the link and removed checks pass. *)
FineValidated(t) ==
    /\ pc[t] = "validate"
    /\ Valid(t)
    /\ Goto(t, "commit")
    /\ UNCHANGED <<heapVars, op, key, prev, cur, res, ops, lockVars, localVars>>

(* RCU_ASSIGN_PTR(p_prev->p_next, p_new_node) *)
FineCommitAdd(t) ==
    /\ pc[t] = "commit"
    /\ op[t] = "add"
    /\ nxt' = [nxt EXCEPT ![prev[t]] = newn[t]]
    /\ res' = [res EXCEPT ![t] = "inserted"]
    /\ Goto(t, "unlock")
    /\ UNCHANGED <<val, removed, mem, gp, op, key, prev, cur, ops>>
    /\ UNCHANGED <<lockVars, localVars>>

(* mutant: p_prev->p_next = n->p_next, one node too far *)
FineCommitRemoveSkip(t) ==
    /\ pc[t] = "commit"
    /\ op[t] = "remove"
    /\ nxt' = [nxt EXCEPT ![prev[t]] = nxt[succ[t]]]
    /\ removed' = [removed EXCEPT ![cur[t]] = TRUE]
    /\ Retiring({cur[t]})
    /\ GracePeriods({cur[t]}, {})
    /\ res' = [res EXCEPT ![t] = "removed"]
    /\ Goto(t, "unlock")
    /\ UNCHANGED <<val, op, key, prev, cur, ops, lockVars, localVars>>

(* RCU_ASSIGN_PTR(p_prev->p_next, n); p_next->removed = 1;             *)
(* rcu_free_node(p_next): all before the locks are released.           *)
FineCommitRemove(t) ==
    /\ pc[t] = "commit"
    /\ op[t] = "remove"
    /\ nxt' = [nxt EXCEPT ![prev[t]] = succ[t]]
    /\ removed' = [removed EXCEPT ![cur[t]] = TRUE]
    /\ Retiring({cur[t]})
    /\ GracePeriods({cur[t]}, {})
    /\ res' = [res EXCEPT ![t] = "removed"]
    /\ Goto(t, "unlock")
    /\ UNCHANGED <<val, op, key, prev, cur, ops, lockVars, localVars>>

(* mutant: goto retry without unlocking *)
FineRetryKeepLocks(t) ==
    /\ pc[t] = "validate"
    /\ ~Valid(t)
    /\ IF op[t] = "add" THEN Free(newn[t]) ELSE UNCHANGED <<val, nxt, removed, mem>>
    /\ succ' = [succ EXCEPT ![t] = NULL]
    /\ newn' = [newn EXCEPT ![t] = NULL]
    /\ StartWalk(t)
    /\ UNCHANGED <<gp, op, key, res, ops, lockVars, nlk>>

(* unlock_retry: release the locks, kfree(p_new_node), goto retry *)
FineRetry(t) ==
    /\ pc[t] = "validate"
    /\ ~Valid(t)
    /\ ReleaseAll(t)
    /\ IF op[t] = "add" THEN Free(newn[t]) ELSE UNCHANGED <<val, nxt, removed, mem>>
    /\ succ' = [succ EXCEPT ![t] = NULL]
    /\ newn' = [newn EXCEPT ![t] = NULL]
    /\ StartWalk(t)
    /\ UNCHANGED <<gp, op, key, res, ops, rcuspin, nlk>>

FineUnlock(t) ==
    /\ Fine
    /\ pc[t] = "unlock"
    /\ ReleaseAll(t)
    /\ Return(t, res[t])
    /\ GracePeriods({}, {t})
    /\ succ' = [succ EXCEPT ![t] = NULL]
    /\ newn' = [newn EXCEPT ![t] = NULL]
    /\ UNCHANGED <<val, nxt, removed, mem, op, key, ops, rcuspin, nlk>>

-----------------------------------------------------------------------------

Init ==
    /\ Protocol \in Protocols
    /\ InitList
    /\ rcuspin = NULL
    /\ glock = [n \in Nodes |-> NULL]
    /\ pndlock = [s \in Nodes \X NumaIds |-> NULL]
    /\ succ = [t \in Threads |-> NULL]
    /\ newn = [t \in Threads |-> NULL]
    /\ nlk = [t \in Threads |-> 0]

Invocation(t) ==
    \E k \in Keys :
        \/ ContainsBegin(t, k) /\ UNCHANGED <<lockVars, localVars>>
        \/ \E o \in {"add", "remove"} :
              CoarseBegin(t, o, k) \/ TryBegin(t, o, k) \/ FineBegin(t, o, k)

Step(t) ==
    \/ Walk(t) /\ UNCHANGED <<lockVars, localVars>>
    \/ ContainsDone(t) /\ UNCHANGED <<lockVars, localVars>>
    \/ CoarseLock(t) \/ CoarseAdd(t) \/ CoarseRemove(t) \/ CoarseUnlock(t)
    \/ FineAdd(t) \/ FineAlloc(t) \/ FineRemove(t) \/ FineSucc(t)
    \/ AcquirePnd(t) \/ AcquireGlk(t)
    \/ FineValidated(t) \/ FineRetry(t)
    \/ FineCommitAdd(t) \/ FineCommitRemove(t) \/ FineUnlock(t)

ReclaimStep == \E n \in Pool : Reclaim(n) /\ UNCHANGED <<lockVars, localVars>>

Next ==
    /\ \/ \E t \in Threads : Invocation(t) \/ Step(t)
       \/ ReclaimStep
    /\ Observe
    /\ UNCHANGED Protocol

Spec == Init /\ [][Next]_vars

(* Each kthread keeps running (queued spinlocks are FIFO, so a thread     *)
(* spinning on a lock that is released again and again gets it), and     *)
(* every RCU grace period whose readers have left eventually ends.        *)
FairSpec ==
    /\ Spec
    /\ \A t \in Threads : SF_vars(Step(t) /\ Observe /\ UNCHANGED Protocol)
    /\ WF_vars(ReclaimStep /\ Observe /\ UNCHANGED Protocol)


-----------------------------------------------------------------------------
(* Properties.                                                            *)

TypeOK ==
    /\ val \in [Nodes -> ValMin..ValMax]
    /\ nxt \in [Nodes -> Nodes \cup {NULL}]
    /\ removed \in [Nodes -> BOOLEAN]
    /\ mem \in [Nodes -> {"live", "retired", "free"}]
    /\ gp \in [Nodes -> SUBSET Threads]
    /\ pc \in [Threads -> PCs]
    /\ op \in [Threads -> {"contains", "add", "remove"}]
    /\ key \in [Threads -> Keys]
    /\ res \in [Threads -> Results]
    /\ rcuspin \in Threads \cup {NULL}
    /\ glock \in [Nodes -> Threads \cup {NULL}]
    /\ pndlock \in [Nodes \X NumaIds -> Threads \cup {NULL}]
    /\ newn \in [Threads -> Nodes \cup {NULL}]
    /\ nlk \in [Threads -> 0..2]
    \* a traversal never runs past the tail: p_next is never NULL
    /\ \A t \in Threads : pc[t] \notin {"idle", "lock"} => cur[t] \in Nodes

(* The nodes thread t dereferences in its next step. *)
Derefs(t) ==
    CASE pc[t] = "walk" ->
             {cur[t]} \cup (IF Coarse /\ op[t] # "contains" THEN {prev[t]} ELSE {})
      [] pc[t] = "succ" -> {cur[t]}
      [] pc[t] \in {"pnd", "glk"} -> {NextTarget(t)}
      [] pc[t] \in {"validate", "commit"} -> ToSet(LockTargets(t))
      [] pc[t] = "unlock" /\ Fine -> ToSet(LockTargets(t))
      [] OTHER -> {}

(* No thread reads or locks a node_t that kfree_rcu has already given back *)
(* to the allocator: every pointer a lookup or a writer follows was        *)
(* protected by the grace period of the remove that unlinked it.  Writers  *)
(* traverse without rcu_read_lock(); this holds only while nothing ends    *)
(* their implicit read-side section between the traversal and the locks.   *)
NoUseAfterFree == \A t \in Threads : \A n \in Derefs(t) : mem[n] # "free"

(* The update thread t has started and not yet applied. *)
Busy(t) ==
    IF \/ pc[t] = "idle"
       \/ op[t] = "contains"
       \/ res[t] \in {"inserted", "removed"}
    THEN NULL
    ELSE [op |-> op[t], key |-> key[t]]

(* The update of t has applied and reports a change: the result of an    *)
(* add or a remove that the caller counts as done (the hash_list wrappers *)
(* return 0 for it and sync_test.c counts it in nb_insert / nb_delete).   *)
Told(t) ==
    /\ Busy(t) = NULL
    /\ op[t] # "contains"
    /\ res[t] \in {"inserted", "removed"}

OS == INSTANCE OrderedSet
        WITH set <- AbsSet, busy <- [t \in Threads |-> Busy(t)],
             told <- [t \in Threads |-> Told(t)], NoOp <- NULL

(* The bucket implements the abstract ordered set: every add or remove     *)
(* changes the set of keys reachable from p_head in one step, at most      *)
(* once, only while it runs, and only as its result says (a new key in,    *)
(* a present key out); no other step changes the set.                      *)
RefinesOrderedSet == OS!Spec

(* Every operation that returns a read-only outcome (found, notfound,      *)
(* present, absent) saw a state, while it ran, in which that outcome was   *)
(* the truth: the unlocked traversal never misses a key that stays in the  *)
(* set, nor reports one that never was.                                    *)
ReturnsLinearizable ==
    [][\A t \in Threads : pc[t] # "idle" /\ pc'[t] = "idle" => ResultOK(t, res'[t])]_vars

(* Every operation a kthread starts returns: no lock is left held, no      *)
(* validation retries forever, no thread waits on a lock order cycle.      *)
OpCompletes == \A t \in Threads : pc[t] # "idle" ~> pc[t] = "idle"

(* Spec section 8, scenarios 2 and 4, for the RCU protocols: whenever     *)
(* every kthread is between operations, after any mix of commits,         *)
(* failed validations and retries, no bucket spinlock, global_lock or     *)
(* pnd_slocks entry is still held, and under rcu-fglock and rcu-numa a    *)
(* node is marked removed exactly while it is unlinked and waiting for    *)
(* its grace period (rcu_list_remove never sets the flag, spec open       *)
(* question (i)).                                                         *)
QuiescentClean ==
    (\A t \in Threads : pc[t] = "idle") =>
        /\ rcuspin = NULL
        /\ \A n \in Nodes : glock[n] = NULL
        /\ \A s \in DOMAIN pndlock : pndlock[s] = NULL
        /\ Fine => \A n \in Nodes : removed[n] <=> mem[n] = "retired"

(* A free cell is available to kmalloc (pool exhaustion is not a          *)
(* behaviour of the code).                                                 *)
PoolAvailable == \E n \in Pool : mem[n] = "free"

=============================================================================
