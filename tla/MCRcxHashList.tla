---------------------------- MODULE MCRcxHashList ----------------------------
(* Model-checking instance of RcxHashList: two kthreads, model values  *)
(* for the cells, and the benchmark and NUMA placement each run checks.   *)
EXTENDS RcxHashList, TLC

CONSTANTS t1, t2, c1, c2, c3, c4

MCThreads == {t1, t2}
MCPool == {c1, c2, c3}
(* the cells of a bucket prefilled with two keys, and one new node for    *)
(* each kthread's single operation, so that kmalloc never waits            *)
MCPoolLive == {c1, c2, c3, c4}
MCNumaIds == {0, 1}
(* t1 is bound to a CPU of node 0, t2 to one of node 1 *)
MCNumaOf == (t1 :> 0) @@ (t2 :> 1)
(* both kthreads on CPUs of the same node *)
MCNumaOfSame == (t1 :> 0) @@ (t2 :> 0)

(* The setups of each run.  hhtmlock runs with both kthreads on one node, *)
(* where its per-NUMA flags exclude each other; rcx with them on two       *)
(* nodes, where only its global_locks do.                                  *)
MCTxFlagSetups ==
    ({"forgive", "retry", "rcx-htmlock", "rcx"} \X {MCNumaOf} \X {TRUE})
        \cup {<<"rcx-hhtmlock", MCNumaOfSame, TRUE>>}
MCFallbackSetups == {"rcuhtm", "hwa"} \X {MCNumaOf} \X {TRUE}
MCLfSetups == {"rcuhtm"} \X {MCNumaOf} \X {FALSE}
(* rcuhtm and retry terminate whatever the hardware does; hwa and the     *)
(* flag-lock protocols are checked with aborts caused by conflicts only.  *)
MCLiveSetups ==
    ({"rcuhtm", "retry"} \X {MCNumaOf} \X {TRUE})
        \cup ({"hwa", "rcx-htmlock", "rcx"} \X {MCNumaOf} \X {FALSE})
        \cup {<<"rcx-hhtmlock", MCNumaOfSame, FALSE>>}

(* The state as TLC fingerprints it.  A returned operation's arguments and *)
(* result (op, key, res of an idle thread) are dead: every operation       *)
(* writes them before it reads them, and no guard or invariant reads them  *)
(* while the thread is idle; the return step itself is still checked with  *)
(* its real result.  So states that differ only there are merged.         *)
Idle(t) == pc[t] = "idle"
IdleView ==
    <<heapVars, pc, prev, cur, ops, seen, lockVars, localVars, ended, setup,
      [t \in Threads |-> IF Idle(t) THEN <<>> ELSE <<op[t], key[t], res[t]>>]>>

PoolSymmetry == Permutations(MCPool)
=============================================================================
