----------------------------- MODULE RcxHashList -----------------------------
(***************************************************************************)
(* The writer protocols of src/rcx-hash-list.c on one bucket, next to the  *)
(* lock-free lookup of SortedList.  An RTM transaction (_xbegin .. _xend)  *)
(* is one atomic step: strong isolation aborts it on any conflicting      *)
(* access, so it either commits as a whole or changes nothing.  It may     *)
(* also abort for no reason the code controls (interrupt, capacity), when  *)
(* the setup allows spurious aborts.                                       *)
(*   "forgive"  rcx_list_add/remove: traverse, then one transaction that   *)
(*              validates and commits; an abort returns 2;                 *)
(*   "retry"    rcx_hash_list_retry_*: call again until the benchmark      *)
(*              deadline, then return -1;                                  *)
(*   "rcuhtm"   rcx_list_lf_*: after LF_RETRY_LIMIT aborts, run the        *)
(*              operation under the bucket spinlock p_list->rcuspin, which *)
(*              every transaction reads and aborts on;                     *)
(*   "hwa"      rcx_list_fb1_*: the same fallback, taken when the abort    *)
(*              status has no _XABORT_RETRY bit;                           *)
(*   "rcx-htmlock"  rcx_list_htmlock_*: a transaction only sets the        *)
(*              global_htmlock flags of the nodes; validation and commit   *)
(*              are plain code under the flags;                            *)
(*   "rcx-hhtmlock" rcx_list_hhtmlock_*: first the flags pnode_locks of    *)
(*              the caller's NUMA node, then the global flags;             *)
(*   "rcx"      rcx_list_numa_*: the per-NUMA flags by transaction, then   *)
(*              the global_lock spinlocks node by node.                    *)
(***************************************************************************)
EXTENDS SortedList

CONSTANTS
    Setups,          \* triples <<benchmark name, NUMA node of each kthread,
                     \*          whether transactions abort spuriously>>
    NumaIds,         \* NUMA nodes with CPUs
    AllocMaySleep,   \* kmalloc(GFP_KERNEL) may block: a quiescent state
    LF_RETRY_LIMIT   \* the #define of rcx-hash-list.c (10 in the code)

ASSUME Setups \subseteq {"forgive", "retry", "rcuhtm", "hwa",
                         "rcx-htmlock", "rcx-hhtmlock", "rcx"}
                        \X [Threads -> NumaIds] \X BOOLEAN
ASSUME AllocMaySleep \in BOOLEAN
ASSUME LF_RETRY_LIMIT \in Nat

VARIABLES
    Protocol, \* the benchmark= module parameter, fixed when the module loads
    NumaOf,   \* numa_node_id() of the CPU each kthread is bound to
    SpuriousAborts, \* a transaction may abort whatever it reads
    rcuspin,  \* the thread holding p_list->rcuspin, or NULL
    htmflag,  \* htmflag[n]: htmlock(n), the node's global_htmlock byte
    pflag,    \* pflag[n]: the NUMA nodes i whose pnodelockof(n, i) is 1
    glock,    \* glock[n]: the thread holding n->global_lock, or NULL
    succ,     \* n = p_next->p_next of a remove
    newn,     \* p_new_node of an add
    nlk,      \* global_locks the rcx numa phase has taken
    retries,  \* the retries counter of rcx_list_lf_*
    fb,       \* the thread is on the locking path of rcuhtm / hwa
    ended     \* benchmark_endtime() has passed

lockVars == <<rcuspin, htmflag, pflag, glock>>
localVars == <<succ, newn, nlk, retries, fb>>
setup == <<Protocol, NumaOf, SpuriousAborts>>
vars == <<heapVars, threadVars, seen, lockVars, localVars, ended, setup>>

(* The protocols whose transaction validates and commits the update. *)
TxCommit == Protocol \in {"forgive", "retry", "rcuhtm", "hwa"}
(* The protocols with the rcuspin locking fallback. *)
Fallback == Protocol \in {"rcuhtm", "hwa"}
(* The protocols whose transactions only take flag locks. *)
FlagLock == Protocol \in {"rcx-htmlock", "rcx-hhtmlock", "rcx"}

PCs == {"idle", "lock", "walk", "alloc", "spin", "succ", "tx", "pwait",
        "ptx", "gwait", "gtx", "glk", "validate", "commit", "unlock"}

Results == {"none", "found", "notfound", "inserted", "present", "removed",
            "absent", "abort", "timeout"}

SleepChoice == IF AllocMaySleep THEN BOOLEAN ELSE {FALSE}

AllocQS(t) == \E s \in SleepChoice : GracePeriods({}, IF s THEN {t} ELSE {})

(* The _XABORT_RETRY bit of an abort status: an explicit _xabort never     *)
(* has it; a hardware abort may or may not.                                *)
RetryBits == IF SpuriousAborts THEN BOOLEAN ELSE {FALSE}

(* p_prev, p_next for an add; p_prev, p_next, n for a remove. *)
LockTargets(t) ==
    IF op[t] = "add" THEN <<prev[t], cur[t]>> ELSE <<prev[t], cur[t], succ[t]>>

Targets(t) == ToSet(LockTargets(t))

NextTarget(t) == LockTargets(t)[nlk[t] + 1]

(* rcx_new_node() with ->val = val and ->p_next = p_next: removed = 0, the *)
(* per-NUMA and global flags 0, global_lock unlocked.  The caller sets    *)
(* nxt'.                                                                  *)
NewNode(t, n) ==
    /\ mem[n] = "free"
    /\ mem' = [mem EXCEPT ![n] = "live"]
    /\ val' = [val EXCEPT ![n] = key[t]]
    /\ removed' = [removed EXCEPT ![n] = FALSE]
    /\ htmflag' = [htmflag EXCEPT ![n] = FALSE]
    /\ pflag' = [pflag EXCEPT ![n] = {}]
    /\ glock' = [glock EXCEPT ![n] = NULL]

(* kfree(p_new_node) of an add that gives up its attempt. *)
DropNew(t) ==
    /\ IF op[t] = "add" THEN Free(newn[t]) ELSE UNCHANGED <<val, nxt, removed, mem>>
    /\ newn' = [newn EXCEPT ![t] = NULL]
    /\ succ' = [succ EXCEPT ![t] = NULL]

(* The thread returns r after retiring the nodes R (none, or p_next), and *)
(* passes a quiescent state; its locals are dead from here on.            *)
Finish(t, r, R) ==
    /\ Return(t, r)
    /\ GracePeriods(R, {t})
    /\ newn' = [newn EXCEPT ![t] = NULL]
    /\ succ' = [succ EXCEPT ![t] = NULL]
    /\ retries' = [retries EXCEPT ![t] = 0]
    /\ fb' = [fb EXCEPT ![t] = FALSE]

(* mutant: both limits one higher *)
LfRetryLate(t, r) ==
    IF \/ op[t] = "add" /\ r > LF_RETRY_LIMIT + 1
       \/ op[t] = "remove" /\ r >= LF_RETRY_LIMIT + 1
    THEN /\ retries' = [retries EXCEPT ![t] = 0]
         /\ Goto(t, "lock")
         /\ prev' = [prev EXCEPT ![t] = NULL]
         /\ cur' = [cur EXCEPT ![t] = NULL]
    ELSE /\ retries' = [retries EXCEPT ![t] = r + 1]
         /\ StartWalk(t)

(* mutant: the retries++ is missing *)
LfRetryNoCount(t, r) ==
    IF \/ op[t] = "add" /\ r > LF_RETRY_LIMIT
       \/ op[t] = "remove" /\ r >= LF_RETRY_LIMIT
    THEN /\ retries' = [retries EXCEPT ![t] = 0]
         /\ Goto(t, "lock")
         /\ prev' = [prev EXCEPT ![t] = NULL]
         /\ cur' = [cur EXCEPT ![t] = NULL]
    ELSE /\ retries' = [retries EXCEPT ![t] = r]
         /\ StartWalk(t)

(* The retry: label of rcx_list_lf_add (retries++ > LF_RETRY_LIMIT) and of *)
(* rcx_list_lf_remove (retries++ >= LF_RETRY_LIMIT), with r = retries.     *)
LfRetry(t, r) ==
    IF \/ op[t] = "add" /\ r > LF_RETRY_LIMIT
       \/ op[t] = "remove" /\ r >= LF_RETRY_LIMIT
    THEN /\ retries' = [retries EXCEPT ![t] = 0]
         /\ Goto(t, "lock")
         /\ prev' = [prev EXCEPT ![t] = NULL]
         /\ cur' = [cur EXCEPT ![t] = NULL]
    ELSE /\ retries' = [retries EXCEPT ![t] = r + 1]
         /\ StartWalk(t)

-----------------------------------------------------------------------------
(* Entry and the decision after the traversal, common to all protocols.   *)

Begin(t, o, k) ==
    /\ Protocol # "rcuhtm"
    /\ CanInvoke(t)
    /\ Invoke(t, o, k)
    /\ StartWalk(t)
    /\ res' = [res EXCEPT ![t] = "none"]
    /\ UNCHANGED <<heapVars, lockVars, localVars, ended>>

LfBegin(t, o, k) ==
    /\ Protocol = "rcuhtm"
    /\ CanInvoke(t)
    /\ Invoke(t, o, k)
    /\ LfRetry(t, 0)
    /\ res' = [res EXCEPT ![t] = "none"]
    /\ UNCHANGED <<heapVars, lockVars, succ, newn, nlk, fb, ended>>

(* result = (v != val): present, or allocate the new node. *)
AddResult(t) ==
    /\ op[t] = "add"
    /\ ~fb[t]
    /\ Stopped(t)
    /\ \/ /\ Hit(t)
          /\ Finish(t, "present", {})
       \/ /\ ~Hit(t)
          /\ Goto(t, "alloc")
          /\ UNCHANGED <<res, gp, prev, cur, newn, succ, retries, fb>>
    /\ UNCHANGED <<val, nxt, removed, mem, op, key, ops, lockVars, nlk, ended>>

(* result = (p_node->val == val): absent, or go on to read n; the rcuspin *)
(* fallbacks first wait while spin_is_locked(&p_list->rcuspin).            *)
RemoveResult(t) ==
    /\ op[t] = "remove"
    /\ ~fb[t]
    /\ Stopped(t)
    /\ \/ /\ Hit(t)
          /\ Goto(t, IF Fallback THEN "spin" ELSE "succ")
          /\ UNCHANGED <<res, gp, prev, cur, newn, succ, retries, fb>>
       \/ /\ ~Hit(t)
          /\ Finish(t, "absent", {})
    /\ UNCHANGED <<val, nxt, removed, mem, op, key, ops, lockVars, nlk, ended>>

(* Where an add goes once p_new_node is ready, a remove once n is read.   *)
AfterAlloc ==
    CASE Protocol \in {"forgive", "retry"} -> "tx"
      [] Fallback -> "spin"
      [] Protocol = "rcx-htmlock" -> "gwait"
      [] OTHER -> "pwait"

AfterSucc == CASE TxCommit -> "tx"
               [] Protocol = "rcx-htmlock" -> "gwait"
               [] OTHER -> "pwait"

(* p_new_node = rcx_new_node(); ->val = val; ->p_next = p_next *)
Alloc(t) ==
    /\ pc[t] = "alloc"
    /\ \E n \in Pool :
          /\ NewNode(t, n)
          /\ nxt' = [nxt EXCEPT ![n] = cur[t]]
          /\ newn' = [newn EXCEPT ![t] = n]
    /\ AllocQS(t)
    /\ Goto(t, AfterAlloc)
    /\ UNCHANGED <<op, key, prev, cur, res, ops, rcuspin, succ, nlk, retries, fb, ended>>

(* while (spin_is_locked(&p_list->rcuspin)) ; *)
SpinWait(t) ==
    /\ pc[t] = "spin"
    /\ rcuspin = NULL
    /\ Goto(t, IF op[t] = "add" THEN "tx" ELSE "succ")
    /\ UNCHANGED <<heapVars, op, key, prev, cur, res, ops, lockVars, localVars, ended>>

(* n = p_next->p_next *)
ReadSucc(t) ==
    /\ pc[t] = "succ"
    /\ succ' = [succ EXCEPT ![t] = nxt[cur[t]]]
    /\ Goto(t, AfterSucc)
    /\ UNCHANGED <<heapVars, op, key, prev, cur, res, ops, lockVars>>
    /\ UNCHANGED <<newn, nlk, retries, fb, ended>>

-----------------------------------------------------------------------------
(* "forgive", "retry", "rcuhtm", "hwa": the transaction validates and     *)
(* commits.  Inside it: spin_is_locked(&p_list->rcuspin) aborts with       *)
(* ABORT_LF_CONFLICT (fallback protocols only), a changed link with        *)
(* ABORT_CONFLICT, a removed node with ABORT_DOUBLE_FREE.                  *)

LinkValid(t) ==
    IF op[t] = "add"
    THEN /\ nxt[prev[t]] = cur[t]
         /\ ~removed[prev[t]] /\ ~removed[cur[t]]
    ELSE /\ ~removed[prev[t]] /\ ~removed[cur[t]] /\ ~removed[succ[t]]
         /\ nxt[prev[t]] = cur[t] /\ nxt[cur[t]] = succ[t]

HtmValid(t) == ~(Fallback /\ rcuspin # NULL) /\ LinkValid(t)

(* RCU_ASSIGN_PTR(p_prev->p_next, p_new_node); _xend(); return result *)
HtmCommitAdd(t) ==
    /\ pc[t] = "tx" /\ TxCommit /\ op[t] = "add"
    /\ HtmValid(t)
    /\ nxt' = [nxt EXCEPT ![prev[t]] = newn[t]]
    /\ Finish(t, "inserted", {})
    /\ UNCHANGED <<val, removed, mem, op, key, ops, lockVars, nlk, ended>>

HtmCommitRemove(t) ==
    /\ pc[t] = "tx" /\ TxCommit /\ op[t] = "remove"
    /\ HtmValid(t)
    /\ nxt' = [nxt EXCEPT ![prev[t]] = succ[t]]
    /\ removed' = [removed EXCEPT ![cur[t]] = TRUE]
    /\ Retiring({cur[t]})
    /\ Finish(t, "removed", {cur[t]})
    /\ UNCHANGED <<val, op, key, ops, lockVars, nlk, ended>>

(* The transaction aborts: explicitly when a check fails, or spuriously.  *)
(* record_abort(tx_stat) and kfree(p_new_node) follow in every protocol.  *)
HtmAborted(t) ==
    /\ pc[t] = "tx"
    /\ ~HtmValid(t) \/ SpuriousAborts

(* rcx_list_add/remove return 2, which the wrapper turns into -1. *)
ForgiveAbort(t) ==
    /\ Protocol = "forgive"
    /\ HtmAborted(t)
    /\ DropNew(t)
    /\ Finish(t, "abort", {})
    /\ UNCHANGED <<op, key, ops, lockVars, nlk, ended>>

(* rcx_hash_list_retry_*: if (benchmark_endtime() != 1) continue;          *)
(* return -1;  the next call starts a new traversal.                       *)
RetryAbort(t) ==
    /\ Protocol = "retry"
    /\ HtmAborted(t)
    /\ DropNew(t)
    /\ \/ /\ ended
          /\ Finish(t, "timeout", {})
       \/ /\ ~ended
          /\ StartWalk(t)
          /\ UNCHANGED <<gp, res, retries, fb>>
    /\ UNCHANGED <<op, key, ops, lockVars, nlk, ended>>

(* goto retry, where the retries counter picks HTM or the fallback. *)
LfAbort(t) ==
    /\ Protocol = "rcuhtm"
    /\ HtmAborted(t)
    /\ DropNew(t)
    /\ LfRetry(t, retries[t])
    /\ UNCHANGED <<gp, op, key, res, ops, lockVars, nlk, fb, ended>>

(* if (tx_stat & _XABORT_RETRY) goto htm_path; else goto locking_path; *)
HwaAbort(t) ==
    /\ Protocol = "hwa"
    /\ HtmAborted(t)
    /\ DropNew(t)
    /\ \E r \in RetryBits :
          IF r THEN StartWalk(t)
          ELSE /\ Goto(t, "lock")
               /\ prev' = [prev EXCEPT ![t] = NULL]
               /\ cur' = [cur EXCEPT ![t] = NULL]
    /\ UNCHANGED <<gp, op, key, res, ops, lockVars, nlk, retries, fb, ended>>

(* The benchmark's wall clock passes bench_start_time + duration. *)
Deadline ==
    /\ Protocol = "retry"
    /\ ~ended
    /\ ended' = TRUE
    /\ UNCHANGED <<heapVars, threadVars, lockVars, localVars>>

-----------------------------------------------------------------------------
(* The locking path of "rcuhtm" and "hwa": the coarse algorithm under     *)
(* RCU_WRITER_LOCK(p_list->rcuspin).                                      *)

FbLock(t) ==
    /\ pc[t] = "lock"
    /\ rcuspin = NULL
    /\ rcuspin' = t
    /\ fb' = [fb EXCEPT ![t] = TRUE]
    /\ StartWalk(t)
    /\ UNCHANGED <<heapVars, op, key, res, ops, htmflag, pflag, glock>>
    /\ UNCHANGED <<succ, newn, nlk, retries, ended>>

(* if (result) { rcx_new_node(); ...; RCU_ASSIGN_PTR(p_prev->p_next, .) } *)
FbAdd(t) ==
    /\ fb[t] /\ op[t] = "add"
    /\ Stopped(t)
    /\ \/ /\ Hit(t)
          /\ res' = [res EXCEPT ![t] = "present"]
          /\ UNCHANGED <<heapVars, htmflag, pflag, glock>>
       \/ /\ ~Hit(t)
          /\ \E n \in Pool :
                /\ NewNode(t, n)
                /\ nxt' = [nxt EXCEPT ![n] = cur[t], ![prev[t]] = n]
          /\ AllocQS(t)
          /\ res' = [res EXCEPT ![t] = "inserted"]
    /\ Goto(t, "unlock")
    /\ UNCHANGED <<op, key, prev, cur, ops, rcuspin, localVars, ended>>

(* n = p_next->p_next; RCU_ASSIGN_PTR(p_prev->p_next, n); n->removed = 1; *)
(* the code marks n, the node that stays in the list, not p_next.        *)
FbRemove(t) ==
    /\ fb[t] /\ op[t] = "remove"
    /\ Stopped(t)
    /\ \/ /\ Hit(t)
          /\ nxt' = [nxt EXCEPT ![prev[t]] = nxt[cur[t]]]
          /\ removed' = [removed EXCEPT ![nxt[cur[t]]] = TRUE]
          /\ res' = [res EXCEPT ![t] = "removed"]
       \/ /\ ~Hit(t)
          /\ res' = [res EXCEPT ![t] = "absent"]
          /\ UNCHANGED <<nxt, removed>>
    /\ Goto(t, "unlock")
    /\ UNCHANGED <<val, mem, gp, op, key, prev, cur, ops, lockVars, localVars, ended>>

(* RCU_WRITER_UNLOCK(p_list->rcuspin); rcx_free_node(p_next) of a removal *)
FbUnlock(t) ==
    /\ pc[t] = "unlock" /\ fb[t]
    /\ rcuspin' = NULL
    /\ LET R == IF op[t] = "remove" /\ res[t] = "removed" THEN {cur[t]} ELSE {}
       IN  Retiring(R) /\ Finish(t, res[t], R)
    /\ UNCHANGED <<val, nxt, removed, op, key, ops, htmflag, pflag, glock, nlk, ended>>

-----------------------------------------------------------------------------
(* "rcx-htmlock", "rcx-hhtmlock", "rcx": transactions that only take flag *)
(* locks; validation and commit run as plain code under them.             *)

PFree(t) == \A n \in Targets(t) : NumaOf[t] \notin pflag[n]
GFree(t) == \A n \in Targets(t) : ~htmflag[n]

(* mutant: the per-NUMA flags are not cleared *)
ReleaseKeepPflag(t) ==
    /\ htmflag' = [n \in Nodes |-> IF n \in Targets(t) THEN FALSE ELSE htmflag[n]]
    /\ pflag' = pflag
    /\ glock' = [n \in Nodes |-> IF n \in Targets(t) THEN NULL ELSE glock[n]]

(* unlock_retry and the unlock of a finished update: the flags of the     *)
(* targets are cleared by plain stores, pnodelock() with the caller's     *)
(* numa_node_id(), and the global_locks are released.                     *)
Release(t) ==
    /\ htmflag' = [n \in Nodes |-> IF n \in Targets(t) THEN FALSE ELSE htmflag[n]]
    /\ pflag' = [n \in Nodes |->
                   IF n \in Targets(t) THEN pflag[n] \ {NumaOf[t]} ELSE pflag[n]]
    /\ glock' = [n \in Nodes |-> IF n \in Targets(t) THEN NULL ELSE glock[n]]

(* goto retry: kfree(p_new_node) and traverse again. *)
Restart(t) ==
    /\ DropNew(t)
    /\ StartWalk(t)
    /\ nlk' = [nlk EXCEPT ![t] = 0]

(* while (pnodelock(p_prev) == 1 || pnodelock(p_next) == 1 ...) *)
PWait(t) ==
    /\ pc[t] = "pwait"
    /\ PFree(t)
    /\ Goto(t, "ptx")
    /\ UNCHANGED <<heapVars, op, key, prev, cur, res, ops, lockVars, localVars, ended>>

(* The transaction sets pnodelock() of every target. *)
PTxCommit(t) ==
    /\ pc[t] = "ptx"
    /\ PFree(t)
    /\ pflag' = [n \in Nodes |->
                   IF n \in Targets(t) THEN pflag[n] \cup {NumaOf[t]} ELSE pflag[n]]
    /\ Goto(t, IF Protocol = "rcx-hhtmlock" THEN "gwait" ELSE "glk")
    /\ nlk' = [nlk EXCEPT ![t] = 0]
    /\ UNCHANGED <<heapVars, op, key, prev, cur, res, ops, rcuspin, htmflag, glock>>
    /\ UNCHANGED <<succ, newn, retries, fb, ended>>

(* _xabort(ABORT_CONFLICT) on a flag that is set, or a spurious abort:    *)
(* record_abort, kfree(p_new_node), goto retry.                           *)
PTxAbort(t) ==
    /\ pc[t] = "ptx"
    /\ ~PFree(t) \/ SpuriousAborts
    /\ Restart(t)
    /\ UNCHANGED <<gp, op, key, res, ops, lockVars, retries, fb, ended>>

(* while (htmlock(p_prev) == 1 || htmlock(p_next) == 1 ...) *)
GWait(t) ==
    /\ pc[t] = "gwait"
    /\ GFree(t)
    /\ Goto(t, "gtx")
    /\ UNCHANGED <<heapVars, op, key, prev, cur, res, ops, lockVars, localVars, ended>>

(* The transaction sets htmlock() of every target. *)
GTxCommit(t) ==
    /\ pc[t] = "gtx"
    /\ GFree(t)
    /\ htmflag' = [n \in Nodes |-> IF n \in Targets(t) THEN TRUE ELSE htmflag[n]]
    /\ Goto(t, "validate")
    /\ UNCHANGED <<heapVars, op, key, prev, cur, res, ops, rcuspin, pflag, glock>>
    /\ UNCHANGED <<localVars, ended>>

(* rcx-htmlock: record_abort, kfree(p_new_node), goto retry. *)
GTxAbort(t) ==
    /\ Protocol = "rcx-htmlock"
    /\ pc[t] = "gtx"
    /\ ~GFree(t) \/ SpuriousAborts
    /\ Restart(t)
    /\ UNCHANGED <<gp, op, key, res, ops, lockVars, retries, fb, ended>>

(* rcx-hhtmlock: record_abort, goto retry_global_lock, keeping the        *)
(* per-NUMA flags and p_new_node.                                         *)
GTxRetryGlobal(t) ==
    /\ Protocol = "rcx-hhtmlock"
    /\ pc[t] = "gtx"
    /\ ~GFree(t) \/ SpuriousAborts
    /\ Goto(t, "gwait")
    /\ UNCHANGED <<heapVars, op, key, prev, cur, res, ops, lockVars, localVars, ended>>

(* rcx: RCU_WRITER_LOCK(p_prev, p_next[, n]->global_lock), one per step. *)
AcquireGlk(t) ==
    /\ pc[t] = "glk"
    /\ glock[NextTarget(t)] = NULL
    /\ glock' = [glock EXCEPT ![NextTarget(t)] = t]
    /\ IF nlk[t] + 1 = Len(LockTargets(t))
       THEN nlk' = [nlk EXCEPT ![t] = 0] /\ Goto(t, "validate")
       ELSE nlk' = [nlk EXCEPT ![t] = @ + 1] /\ UNCHANGED pc
    /\ UNCHANGED <<heapVars, op, key, prev, cur, res, ops, rcuspin, htmflag, pflag>>
    /\ UNCHANGED <<succ, newn, retries, fb, ended>>

(* Under the flags (or the global_locks) the link and removed checks pass. *)
Validated(t) ==
    /\ pc[t] = "validate"
    /\ LinkValid(t)
    /\ Goto(t, "commit")
    /\ UNCHANGED <<heapVars, op, key, prev, cur, res, ops, lockVars, localVars, ended>>

(* record_abort(ABORT_CONFLICT or ABORT_DOUBLE_FREE); goto unlock_retry:  *)
(* clear the flags, unlock, kfree(p_new_node), goto retry.                *)
Invalid(t) ==
    /\ pc[t] = "validate"
    /\ ~LinkValid(t)
    /\ Release(t)
    /\ Restart(t)
    /\ UNCHANGED <<gp, op, key, res, ops, rcuspin, retries, fb, ended>>

(* RCU_ASSIGN_PTR(p_prev->p_next, p_new_node) *)
CommitAdd(t) ==
    /\ pc[t] = "commit" /\ op[t] = "add"
    /\ nxt' = [nxt EXCEPT ![prev[t]] = newn[t]]
    /\ res' = [res EXCEPT ![t] = "inserted"]
    /\ Goto(t, "unlock")
    /\ UNCHANGED <<val, removed, mem, gp, op, key, prev, cur, ops>>
    /\ UNCHANGED <<lockVars, localVars, ended>>

(* RCU_ASSIGN_PTR(p_prev->p_next, n); p_next->removed = 1;                *)
(* rcx_free_node(p_next): all before the flags are cleared.               *)
CommitRemove(t) ==
    /\ pc[t] = "commit" /\ op[t] = "remove"
    /\ nxt' = [nxt EXCEPT ![prev[t]] = succ[t]]
    /\ removed' = [removed EXCEPT ![cur[t]] = TRUE]
    /\ Retiring({cur[t]})
    /\ GracePeriods({cur[t]}, {})
    /\ res' = [res EXCEPT ![t] = "removed"]
    /\ Goto(t, "unlock")
    /\ UNCHANGED <<val, op, key, prev, cur, ops, lockVars, localVars, ended>>

(* Clear htmlock() and pnodelock() of the targets (and unlock the         *)
(* global_locks), then return result.                                     *)
FlagUnlock(t) ==
    /\ pc[t] = "unlock" /\ ~fb[t]
    /\ Release(t)
    /\ Finish(t, res[t], {})
    /\ UNCHANGED <<val, nxt, removed, mem, op, key, ops, rcuspin, nlk, ended>>

-----------------------------------------------------------------------------

Init ==
    /\ \E s \in Setups :
          Protocol = s[1] /\ NumaOf = s[2] /\ SpuriousAborts = s[3]
    /\ InitList
    /\ rcuspin = NULL
    /\ htmflag = [n \in Nodes |-> FALSE]
    /\ pflag = [n \in Nodes |-> {}]
    /\ glock = [n \in Nodes |-> NULL]
    /\ succ = [t \in Threads |-> NULL]
    /\ newn = [t \in Threads |-> NULL]
    /\ nlk = [t \in Threads |-> 0]
    /\ retries = [t \in Threads |-> 0]
    /\ fb = [t \in Threads |-> FALSE]
    /\ ended = FALSE

Invocation(t) ==
    \E k \in Keys :
        \/ ContainsBegin(t, k) /\ UNCHANGED <<lockVars, localVars, ended>>
        \/ \E o \in {"add", "remove"} : Begin(t, o, k) \/ LfBegin(t, o, k)

Step(t) ==
    \/ Walk(t) /\ UNCHANGED <<lockVars, localVars, ended>>
    \/ ContainsDone(t) /\ UNCHANGED <<lockVars, localVars, ended>>
    \/ AddResult(t) \/ RemoveResult(t) \/ Alloc(t) \/ SpinWait(t) \/ ReadSucc(t)
    \/ HtmCommitAdd(t) \/ HtmCommitRemove(t)
    \/ ForgiveAbort(t) \/ RetryAbort(t) \/ LfAbort(t) \/ HwaAbort(t)
    \/ FbLock(t) \/ FbAdd(t) \/ FbRemove(t) \/ FbUnlock(t)
    \/ PWait(t) \/ PTxCommit(t) \/ PTxAbort(t)
    \/ GWait(t) \/ GTxCommit(t) \/ GTxAbort(t) \/ GTxRetryGlobal(t)
    \/ AcquireGlk(t) \/ Validated(t) \/ Invalid(t)
    \/ CommitAdd(t) \/ CommitRemove(t) \/ FlagUnlock(t)

ReclaimStep ==
    \E n \in Pool : Reclaim(n) /\ UNCHANGED <<lockVars, localVars, ended>>

Next ==
    /\ \/ \E t \in Threads : Invocation(t) \/ Step(t)
       \/ ReclaimStep
       \/ Deadline
    /\ Observe
    /\ UNCHANGED setup

Spec == Init /\ [][Next]_vars

(* Each kthread keeps running (a queued spinlock that is free again and   *)
(* again is eventually taken, a wait loop that sees its lock free again   *)
(* and again eventually leaves), every grace period whose readers have    *)
(* left eventually ends, and the benchmark's wall clock runs out.  Nothing *)
(* makes a transaction eventually commit: the hardware gives no such      *)
(* promise.                                                                *)
FairSpec ==
    /\ Spec
    /\ \A t \in Threads : SF_vars(Step(t) /\ Observe /\ UNCHANGED setup)
    /\ WF_vars(ReclaimStep /\ Observe /\ UNCHANGED setup)
    /\ WF_vars(Deadline /\ Observe /\ UNCHANGED setup)

-----------------------------------------------------------------------------
(* Properties.                                                            *)

TypeOK ==
    /\ val \in [Nodes -> ValMin..ValMax]
    /\ nxt \in [Nodes -> Nodes \cup {NULL}]
    /\ removed \in [Nodes -> BOOLEAN]
    /\ mem \in [Nodes -> {"live", "retired", "free"}]
    /\ gp \in [Nodes -> SUBSET Threads]
    /\ pc \in [Threads -> PCs]
    /\ res \in [Threads -> Results]
    /\ rcuspin \in Threads \cup {NULL}
    /\ htmflag \in [Nodes -> BOOLEAN]
    /\ pflag \in [Nodes -> SUBSET NumaIds]
    /\ glock \in [Nodes -> Threads \cup {NULL}]
    /\ newn \in [Threads -> Pool \cup {NULL}]
    /\ retries \in [Threads -> 0..LF_RETRY_LIMIT + 1]
    \* a traversal never runs past the tail: p_next is never NULL
    /\ \A t \in Threads : pc[t] \notin {"idle", "lock"} => cur[t] \in Nodes

(* The nodes thread t reads or writes in its next step. *)
Derefs(t) ==
    CASE pc[t] \in {"walk", "succ"} -> {cur[t]}
      [] pc[t] = "glk" -> {NextTarget(t)}
      [] pc[t] \in {"tx", "pwait", "ptx", "gwait", "gtx", "validate", "commit"}
            -> Targets(t)
      [] pc[t] = "unlock" /\ ~fb[t] -> Targets(t)
      [] OTHER -> {}

(* No thread reads, flags or locks a node_t that kfree_rcu has given back  *)
(* to the allocator: writers traverse without rcu_read_lock() and rely on *)
(* not leaving their implicit read-side section until they return.        *)
NoUseAfterFree == \A t \in Threads : \A n \in Derefs(t) : mem[n] # "free"

(* The update thread t has started and not yet applied. *)
Busy(t) ==
    IF \/ pc[t] = "idle"
       \/ op[t] = "contains"
       \/ res[t] \in {"inserted", "removed"}
    THEN NULL
    ELSE [op |-> op[t], key |-> key[t]]

(* The update of t has applied and reports a change: the result of an    *)
(* add or a remove that the caller counts as done (the hash_list wrappers *)
(* return 0 for it and sync_test.c counts it in nb_insert / nb_delete).   *)
Told(t) ==
    /\ Busy(t) = NULL
    /\ op[t] # "contains"
    /\ res[t] \in {"inserted", "removed"}

OS == INSTANCE OrderedSet
        WITH set <- AbsSet, busy <- [t \in Threads |-> Busy(t)],
             told <- [t \in Threads |-> Told(t)], NoOp <- NULL

(* The bucket implements the abstract ordered set: the keys reachable     *)
(* from p_head change only by the one commit of a running add of an       *)
(* absent key or remove of a present key, whether that commit is a        *)
(* transaction, a store under flag locks or a store under rcuspin.        *)
RefinesOrderedSet == OS!Spec

(* Every read-only outcome (found, notfound, present, absent) was the     *)
(* truth in some state while the operation ran.                           *)
ReturnsLinearizable ==
    [][\A t \in Threads : pc[t] # "idle" /\ pc'[t] = "idle" => ResultOK(t, res'[t])]_vars

(* Spec section 8, scenario 4: when every thread is between operations,   *)
(* no htmlock or pnodelock flag is set and no spinlock is held, and a node *)
(* is marked removed exactly when it has been unlinked and is waiting for *)
(* its grace period.                                                      *)
QuiescentClean ==
    (\A t \in Threads : pc[t] = "idle") =>
        /\ rcuspin = NULL
        /\ \A n \in Nodes : ~htmflag[n] /\ pflag[n] = {} /\ glock[n] = NULL
        /\ \A n \in Nodes : removed[n] <=> mem[n] = "retired"

(* Every operation a kthread starts returns. *)
OpCompletes == \A t \in Threads : pc[t] # "idle" ~> pc[t] = "idle"

PoolAvailable == \E n \in Pool : mem[n] = "free"
=============================================================================
