------------------------------- MODULE CpuBind -------------------------------
(***************************************************************************)
(* The CPU binding of the benchmark threads: cpubind_numa_arr() in        *)
(* src/sync_test.c (BIND_CPU == BIND_CPU_NUMA, the default) computes      *)
(* thread_cpu_map[thr] for every thread, and sync_test_init() passes      *)
(* thread_cpu_map[i] to kthread_bind() for the kthreads i = 1..threads_nb-1 *)
(* (thread 0 is the module's own thread and is not bound).                *)
(*                                                                         *)
(* The machine is a setup chosen in Init: which NUMA nodes are online and *)
(* the node of each CPU.  Every CPU id below nr_cpu_ids is online, so     *)
(* num_online_cpus() = nr_cpu_ids, and sync_test_init() has already       *)
(* refused threads_nb > num_online_cpus().  The kernel helpers the loop   *)
(* calls are modelled by what they return: the lowest online node, the    *)
(* next online node or MAX_NUMNODES, and the next CPU of a mask or        *)
(* nr_cpu_ids when there is none.  The loop body runs alone in the        *)
(* module's init, so one iteration is one step.                           *)
(***************************************************************************)
EXTENDS Naturals, Sequences, SequencesExt

CONSTANTS
    NrCpuIds,     \* nr_cpu_ids
    MAX_NUMNODES  \* node ids are 0 .. MAX_NUMNODES - 1

ASSUME NrCpuIds \in Nat \ {0} /\ MAX_NUMNODES \in Nat \ {0}

CpuIds == 0 .. NrCpuIds - 1
NodeIds == 0 .. MAX_NUMNODES - 1

VARIABLES
    nodeOf,     \* cpu_to_node(): the node of every CPU
    online,     \* the online NUMA nodes
    nrThreads,  \* the nr_threads argument, threads_nb
    array,      \* thread_cpu_map[0 .. thr-1], as a sequence
    node, capa, cpus, cpu, thr  \* the locals of cpubind_numa_arr()

machine == <<nodeOf, online, nrThreads>>
vars == <<nodeOf, online, nrThreads, array, node, capa, cpus, cpu, thr>>

(* The kernel's node and cpumask helpers. *)
first_online_node == Min(online)
next_online_node(n) ==
    IF \E m \in online : m > n THEN Min({m \in online : m > n}) ELSE MAX_NUMNODES
cpumask_of_node(n) == {c \in CpuIds : nodeOf[c] = n}
nr_cpus_node(n) == Cardinality(cpumask_of_node(n))
cpumask_first(mask) == IF mask = {} THEN NrCpuIds ELSE Min(mask)
cpumask_next(c, mask) == cpumask_first({x \in mask : x > c})

(* Every machine and thread count sync_test_init() lets through, and the  *)
(* statements of cpubind_numa_arr() before its loop.                      *)
Init ==
    /\ online \in SUBSET NodeIds \ {{}}
    /\ nodeOf \in [CpuIds -> online]
    /\ nrThreads \in 1 .. NrCpuIds
    /\ array = <<>>
    /\ node = first_online_node
    /\ capa = nr_cpus_node(node)
    /\ cpus = cpumask_of_node(node)
    /\ cpu = cpumask_first(cpus)
    /\ thr = 0

(* The node the iteration moves to once the threads bound so far fill     *)
(* capa, wrapping at MAX_NUMNODES.                                         *)
NextNode(n) ==
    IF next_online_node(n) = MAX_NUMNODES THEN first_online_node
                                          ELSE next_online_node(n)

(* One iteration of the for loop: move to the next node when capa is      *)
(* used up, reload the mask when cpu has run past its last CPU, record    *)
(* the CPU of thread thr and step to the next one of the mask.            *)
Iterate ==
    /\ thr < nrThreads
    /\ LET full == capa <= thr
           n    == IF full THEN NextNode(node) ELSE node
           m    == IF cpu >= NrCpuIds THEN cpumask_of_node(n) ELSE cpus
           c    == IF cpu >= NrCpuIds THEN cpumask_first(m) ELSE cpu
       IN  /\ node' = n
           /\ capa' = IF full THEN capa + nr_cpus_node(n) ELSE capa
           /\ cpus' = m
           /\ array' = Append(array, c)
           /\ cpu' = cpumask_next(c, m)
           /\ thr' = thr + 1
    /\ UNCHANGED machine

Next == Iterate

Spec == Init /\ [][Next]_vars

-----------------------------------------------------------------------------

TypeOK ==
    /\ online \subseteq NodeIds
    /\ nodeOf \in [CpuIds -> online]
    /\ array \in Seq(CpuIds \cup {NrCpuIds})
    /\ thr = Len(array) /\ thr \in 0 .. nrThreads
    /\ capa \in 0 .. NrCpuIds
    /\ cpu \in CpuIds \cup {NrCpuIds}

(* The NUMA-compact policy of the spec (section 5, step 6, and the        *)
(* iteration over NUMA nodes with CPUs of section 6): the CPUs of the     *)
(* online nodes in node order, each node's in id order.                   *)
CompactOrder ==
    SetToSortSeq(CpuIds, LAMBDA a, b : \/ nodeOf[a] < nodeOf[b]
                                       \/ nodeOf[a] = nodeOf[b] /\ a < b)

(* Every kthread that sync_test_init() passes to kthread_bind() gets the  *)
(* CPU of the compact policy: kthread i the i-th CPU after the first in   *)
(* CompactOrder, a real CPU, and no two kthreads the same one.            *)
BindsCompactly == \A i \in 1 .. thr - 1 : array[i + 1] = CompactOrder[i + 1]
=============================================================================
