----------------------------- MODULE ListDestroy -----------------------------
(***************************************************************************)
(* Teardown of the hash list after the benchmark: sync_test_init() calls  *)
(* bench->destroy(), which is rcu_hash_list_destroy() or                  *)
(* rcx_hash_list_destroy() (src/rcu-hash-list.c, src/rcx-hash-list.c; the *)
(* two are the same code).  For every bucket it empties the list with     *)
(* rcu_list_destroy() / rcx_list_destroy():                               *)
(*                                                                         *)
(*   for (iter = list->p_head; iter != NULL; iter = iter->p_next) {        *)
(*       list->p_head = iter->p_next;                                      *)
(*       kfree(iter);                                                      *)
(*   }                                                                     *)
(*                                                                         *)
(* then frees the list and finally g_hash_list.  The threads have all     *)
(* finished, so the loop runs alone.  Each bucket holds what              *)
(* rcx_new_list() made of it, the two sentinels, with the keys the run    *)
(* left between them; only the p_next links matter here.                  *)
(*                                                                         *)
(* The increment iter = iter->p_next reads an object kfree() has just     *)
(* returned to the allocator.  What such a read yields is up to the       *)
(* build: the old contents while the slab object is untouched, or         *)
(* anything (Garbage) once the allocator has reused it for another        *)
(* kmalloc on this CPU or a debug build has poisoned it.                  *)
(***************************************************************************)
EXTENDS Naturals

CONSTANTS
    NBuckets,  \* g_hash_list->n_buckets
    MaxLen,    \* the most keys a bucket holds at the end of the run
    NULL,
    Garbage    \* a pointer read from reused or poisoned memory

ASSUME NBuckets \in Nat \ {0} /\ MaxLen \in Nat

Buckets == 0 .. NBuckets - 1

(* Node <<b, i>> is the i-th node of bucket b: 0 the LIST_VAL_MIN         *)
(* sentinel, then the keys, then the LIST_VAL_MAX sentinel.               *)
Nodes == Buckets \X (0 .. MaxLen + 1)

VARIABLES
    nodes,  \* the nodes allocated and not yet kfree'd
    lists,  \* the buckets whose list_t is allocated
    table,  \* g_hash_list is allocated
    next,   \* the p_next field of every node, as its memory holds it
    head,   \* list->p_head of every bucket
    hash,   \* the loop index of *_hash_list_destroy()
    iter,   \* iter of *_list_destroy()
    pc      \* where the teardown is: "outer", "test", "body", "step",
            \* "done", or "oops" after a wild dereference

vars == <<nodes, lists, table, next, head, hash, iter, pc>>

(* rcx_new_list() links the min sentinel to the max sentinel, and the run *)
(* leaves len[b] keys between them, each node linked to the next.         *)
Init ==
    \E len \in [Buckets -> 0 .. MaxLen] :
        /\ nodes = {<<b, i>> \in Nodes : i <= len[b] + 1}
        /\ next = [n \in Nodes |-> IF n[2] <= len[n[1]] THEN <<n[1], n[2] + 1>>
                                                          ELSE NULL]
    /\ lists = Buckets
    /\ table = TRUE
    /\ head = [b \in Buckets |-> <<b, 0>>]
    /\ hash = 0
    /\ iter = NULL
    /\ pc = "outer"

(* The loop of *_hash_list_destroy(): start on the next bucket, or free   *)
(* g_hash_list once every bucket is done.                                 *)
NextBucket ==
    /\ pc = "outer"
    /\ IF hash < NBuckets
       THEN /\ iter' = head[hash]
            /\ pc' = "test"
            /\ UNCHANGED table
       ELSE /\ table' = FALSE
            /\ pc' = "done"
            /\ UNCHANGED iter
    /\ UNCHANGED <<nodes, lists, next, head, hash>>

(* iter != NULL: go round the body again; or the list is empty and        *)
(* kfree(g_hash_list->buckets[hash]) frees it.                            *)
LoopTest ==
    /\ pc = "test"
    /\ IF iter # NULL
       THEN /\ pc' = "body"
            /\ UNCHANGED <<lists, hash>>
       ELSE /\ lists' = lists \ {hash}
            /\ hash' = hash + 1
            /\ pc' = "outer"
    /\ UNCHANGED <<nodes, table, next, head, iter>>

(* list->p_head = iter->p_next; kfree(iter); *)
FreeNode ==
    /\ pc = "body"
    /\ iter # Garbage
    /\ head' = [head EXCEPT ![hash] = next[iter]]
    /\ nodes' = nodes \ {iter}
    /\ pc' = "step"
    /\ UNCHANGED <<lists, table, next, hash, iter>>

(* The body dereferences a garbage pointer: the kernel oopses. *)
WildDeref ==
    /\ pc = "body"
    /\ iter = Garbage
    /\ pc' = "oops"
    /\ UNCHANGED <<nodes, lists, table, next, head, hash, iter>>

(* What reading the p_next field of node n can yield. *)
ReadNext(n) == IF n \in nodes THEN {next[n]} ELSE {next[n], Garbage}

(* iter = iter->p_next, the increment of the for loop. *)
Advance ==
    /\ pc = "step"
    /\ \E p \in ReadNext(iter) : iter' = p
    /\ pc' = "test"
    /\ UNCHANGED <<nodes, lists, table, next, head, hash>>

Next ==
    \/ NextBucket
    \/ LoopTest
    \/ FreeNode
    \/ WildDeref
    \/ Advance

Spec == Init /\ [][Next]_vars

-----------------------------------------------------------------------------

TypeOK ==
    /\ nodes \subseteq Nodes
    /\ lists \subseteq Buckets
    /\ table \in BOOLEAN
    /\ head \in [Buckets -> Nodes \cup {NULL}]
    /\ hash \in 0 .. NBuckets
    /\ iter \in Nodes \cup {NULL, Garbage}
    /\ pc \in {"outer", "test", "body", "step", "done", "oops"}

(* The destroy loop only dereferences live nodes: every node whose p_next *)
(* it reads, in the body and in the increment of the for loop of          *)
(* rcu_list_destroy() / rcx_list_destroy(), is still allocated.           *)
DerefsLive == pc \in {"body", "step"} => iter \in nodes
=============================================================================
