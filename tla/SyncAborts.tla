----------------------------- MODULE SyncAborts -----------------------------
(***************************************************************************)
(* The driver of src/sync_test.c composed with the abort accounting of    *)
(* src/rtm_debug.c.  Every insert or delete of an rcx benchmark, in the   *)
(* half fill and in the measured loop, runs hardware transactions whose   *)
(* aborts its list function hands to record_abort() before it gives up,   *)
(* retries or takes its lock, and the driver then counts the update by    *)
(* what the wrapper returns.  An update is modelled as the aborts it      *)
(* records (TxAbort, one per step) followed by the step of SyncTest that  *)
(* ends it; how many aborts an update may take before it ends, and how it *)
(* ends after them, is translated from the list functions and wrappers of *)
(* src/rcx-hash-list.c.  The aborts are caused by the other threads and   *)
(* by the hardware, so which ones happen is left open.                    *)
(***************************************************************************)
EXTENDS Integers

CONSTANTS Benchmarks, Range, MaxIter, MaxAborts

VARIABLES
    bench, phase, filled, set, cnt, iter, fails,  \* the driver (SyncTest)
    counts, nr_aborts, raised,                     \* abort_cnt (RtmAbort)
    pending,  \* aborts recorded by the update in progress
    txDone,   \* the update in progress will run no further transaction
    aborts0   \* history: nr_aborts when the measured loop starts

D == INSTANCE SyncTest
R == INSTANCE RtmAbort

driver == <<bench, phase, filled, set, cnt, iter, fails>>
abortCnt == <<counts, nr_aborts, raised>>
vars == <<driver, abortCnt, pending, txDone, aborts0>>

(* rcx-hash-list.c *)
LF_RETRY_LIMIT == 10

FlagLock == {"rcx-htmlock", "rcx-hhtmlock", "rcx"}

(* The codes the _xabort() calls of a benchmark's list functions raise:   *)
(* rcx_list_add/remove check the successor and the removed flags,         *)
(* the lf and fb1 functions also the bucket lock, and the flag-lock       *)
(* functions only the flags they take.                                    *)
XabortCodes(b) ==
    CASE b \in {"forgive", "retry"} -> {R!ABORT_CONFLICT, R!ABORT_DOUBLE_FREE}
      [] b \in {"rcuhtm", "hwa"} -> R!AppCodes
      [] OTHER -> {R!ABORT_CONFLICT}

(* The codes the flag-lock functions pass to record_abort() when the      *)
(* validation after the flag transaction fails.                           *)
RawCodes(b) ==
    IF b \in FlagLock THEN {R!ABORT_CONFLICT, R!ABORT_DOUBLE_FREE} ELSE {}

(* An update of the driver is under way: an iteration of the fill loop or *)
(* of the measured loop that has not ended yet.                           *)
Updating ==
    \/ phase = "fill" /\ filled < Range \div 2
    \/ phase = "run" /\ iter < MaxIter

Init ==
    /\ D!Init
    /\ R!Init
    /\ pending = 0
    /\ txDone = FALSE
    /\ aborts0 = 0

(* mutant: rcx_list_add/remove retry once before they return 2 *)
TxExhaustedLate(b, n, retried, deadline) ==
    \/ b = "forgive" /\ n >= 2
    \/ b = "retry" /\ (phase = "fill" \/ deadline)
    \/ b = "rcuhtm" /\ n > LF_RETRY_LIMIT
    \/ b = "hwa" /\ ~retried

(* After its n-th abort, the update runs no further transaction:          *)
(* rcx_list_add/remove return 2 (forgive); the retry wrapper gives up     *)
(* once benchmark_endtime() is true, which it already is during the fill, *)
(* where bench_start_time is still 0; rcx_list_lf_* take the bucket lock  *)
(* once retries++ > LF_RETRY_LIMIT; rcx_list_fb1_* take it at the first   *)
(* abort whose status lacks _XABORT_RETRY; the flag-lock functions go on. *)
TxExhausted(b, n, retried, deadline) ==
    \/ b = "forgive"
    \/ b = "retry" /\ (phase = "fill" \/ deadline)
    \/ b = "rcuhtm" /\ n > LF_RETRY_LIMIT
    \/ b = "hwa" /\ ~retried

(* A transaction of the update in progress aborts and the else branch of  *)
(* _xbegin() (or the failed validation after a flag transaction) records  *)
(* it.  The hardware may abort any transaction; an _xabort() or a failed  *)
(* validation needs another thread to have changed the bucket or to hold  *)
(* its flags, which only happens once the kthreads run: the half fill is  *)
(* done by the loading thread alone.                                      *)
TxAbort ==
    /\ bench \in D!RcxNames
    /\ Updating
    /\ ~txDone
    /\ \/ R!HardwareAbort
       \/ phase = "run" /\ R!ExplicitAbort(XabortCodes(bench))
       \/ phase = "run" /\ R!ValidationAbort(RawCodes(bench))
    /\ pending' = pending + 1
    /\ \E deadline \in BOOLEAN :
          txDone' = TxExhausted(bench, pending', counts'[R!ABORT_RTM_RETRY] # counts[R!ABORT_RTM_RETRY], deadline)
    /\ UNCHANGED <<driver, aborts0>>

(* What the list function of an rcx benchmark returns after the aborts    *)
(* its update recorded: 2 (forgive), or the -1 of the retry wrapper,      *)
(* exactly when its transactions ran out; otherwise what the set          *)
(* dictates, the other functions finishing on their lock path.  Only an   *)
(* update that links or unlinks a node runs a transaction.                *)
AfterAborts(out) ==
    bench \in D!RcxNames =>
        /\ (out \in D!Failures) = (txDone /\ bench \in {"forgive", "retry"})
        /\ pending > 0 => out \notin {"present", "absent"}

FillInsert ==
    /\ \E k \in D!Keys : \E out \in D!UpdateOutcomes(bench, "add", k, set) :
          AfterAborts(out) /\ D!FillBy(k, out)
    /\ pending' = 0 /\ txDone' = FALSE
    /\ UNCHANGED <<abortCnt, aborts0>>

StartThreads ==
    /\ D!StartRun
    /\ aborts0' = nr_aborts
    /\ UNCHANGED <<abortCnt, pending, txDone>>

LookupOp ==
    /\ pending = 0
    /\ D!Lookup
    /\ UNCHANGED <<abortCnt, pending, txDone, aborts0>>

UpdateOp(o, ok, ab) ==
    /\ \E k \in D!Keys : \E out \in D!UpdateOutcomes(bench, o, k, set) :
          AfterAborts(out) /\ D!UpdateBy(o, ok, ab, k, out)
    /\ pending' = 0 /\ txDone' = FALSE
    /\ UNCHANGED <<abortCnt, aborts0>>

Next ==
    \/ TxAbort
    \/ FillInsert
    \/ StartThreads
    \/ LookupOp
    \/ UpdateOp("add", "nb_insert", "nb_ins_abort")
    \/ UpdateOp("remove", "nb_delete", "nb_del_abort")

Spec == Init /\ [][Next]_vars

-----------------------------------------------------------------------------

TypeOK ==
    /\ D!TypeOK
    /\ R!TypeOK
    /\ pending \in 0 .. MaxAborts
    /\ txDone \in BOOLEAN

(* SyncTest's property, now with the aborts that end forgive and retry   *)
(* updates taken from the transactions: the driver's nb_ins_abort and     *)
(* nb_del_abort count exactly the updates that failed.                    *)
AbortsAreFailures == D!AbortsAreFailures

(* Spec section 4.4, under the benchmarks: the "double free", "conflict"  *)
(* and "lfconflict" lines count every abort raised for that reason,       *)
(* including the failed validations of the flag-lock functions.           *)
AppReasonsCounted == R!AppReasonsCounted

(* The driver's abort counters and the per-CPU abort counters that        *)
(* pr_abort_stat() sums agree over the measured loop: every update an rcx *)
(* wrapper reports as an abort (return -1) recorded at least one abort in *)
(* record_abort(), and under forgive exactly one, so that the             *)
(* nr_total_aborts of a forgive run minus the aborts of the fill is       *)
(* nb_ins_abort + nb_del_abort.                                           *)
DriverAbortsRecorded ==
    LET reported == cnt["nb_ins_abort"] + cnt["nb_del_abort"]
        recorded == nr_aborts - aborts0 - pending
    IN  phase = "run" /\ bench \in D!RcxNames =>
           /\ reported <= recorded
           /\ bench = "forgive" => reported = recorded
=============================================================================
