------------------------------ MODULE RtmAbort ------------------------------
(***************************************************************************)
(* Abort-reason accounting, src/rtm_debug.c: record_abort(stat) tests the  *)
(* bits of an RTM abort status word and counts the abort under each reason *)
(* it finds.  The callers in src/rcx-hash-list.c pass it three kinds of    *)
(* value:                                                                  *)
(*   - the status _xbegin() returns after a hardware abort (conflict,      *)
(*     capacity, interrupt ...);                                           *)
(*   - the status it returns after the code's own _xabort(code), which     *)
(*     carries the code in bits 31:24;                                     *)
(*   - in the flag-lock protocols, a bare application code passed          *)
(*     straight to record_abort when the validation after the flag         *)
(*     transaction fails.                                                  *)
(* The counters are per CPU and updated with preemption off               *)
(* (get_cpu_var), so one CPU's counters are modelled, one abort per step. *)
(***************************************************************************)
EXTENDS Naturals, Bitwise, FiniteSetsExt, Functions

CONSTANT MaxAborts  \* bound on the aborts of one behaviour

ASSUME MaxAborts \in Nat

(* rtm_debug.h *)
ABORT_RTM_EXPLICIT == 0
ABORT_RTM_RETRY == 1
ABORT_DOUBLE_FREE == 6
ABORT_CONFLICT == 7
ABORT_LF_CONFLICT == 8
NR_ABORT_REASONS == 9

Reasons == 0 .. NR_ABORT_REASONS - 1
AppCodes == {ABORT_DOUBLE_FREE, ABORT_CONFLICT, ABORT_LF_CONFLICT}

(* The RTM status word (Intel SDM; the rtm.h accessors): bit i of the     *)
(* status is the hardware reason i for i in 0..5 (explicit, retry,        *)
(* conflict, capacity, debug, nested), and _XABORT_CODE is bits 31:24.    *)
XABORT_BIT(i) == 2^i

XABORT_CODE(stat) == shiftR(stat, 24) & 255

(* What _xbegin() returns after _xabort(code): the explicit bit and the   *)
(* code; never the retry bit.                                             *)
XAbortStatus(code) == (code * 2^24) | XABORT_BIT(0)

(* What it returns after a hardware abort: any mix of the retry,          *)
(* conflict, capacity, debug and nested bits, with no code.               *)
HardwareStatuses ==
    {FoldSet(+, 0, {XABORT_BIT(i) : i \in S}) : S \in SUBSET (1 .. 5)}

VARIABLES
    counts,     \* cnt->counts[]
    nr_aborts,  \* cnt->nr_aborts
    raised      \* history: raised[how][code], the aborts the code raised for
                \* an application code, by _xabort or by a bare record_abort

vars == <<counts, nr_aborts, raised>>

(* if (stat & _XABORT_...) and if (_XABORT_CODE(stat) == ABORT_...) *)
Counted(stat, i) ==
    IF i < 6 THEN (stat & XABORT_BIT(i)) # 0 ELSE XABORT_CODE(stat) = i

(* record_abort(stat) *)
RecordAbort(stat) ==
    /\ nr_aborts' = nr_aborts + 1
    /\ counts' = [i \in Reasons |-> counts[i] + IF Counted(stat, i) THEN 1 ELSE 0]

Init ==
    /\ counts = [i \in Reasons |-> 0]
    /\ nr_aborts = 0
    /\ raised = [how \in {"xabort", "raw"} |-> [c \in AppCodes |-> 0]]

(* A transaction aborts for a reason of the hardware; record_abort(tx_stat) *)
(* in the else branch of every _xbegin() of rcx-hash-list.c.               *)
HardwareAbort ==
    /\ nr_aborts < MaxAborts
    /\ \E stat \in HardwareStatuses : RecordAbort(stat)
    /\ UNCHANGED raised

(* A check inside a transaction calls _xabort(code) for one of the codes  *)
(* its call site raises; the else branch of _xbegin() then calls          *)
(* record_abort(tx_stat).                                                  *)
ExplicitAbort(codes) ==
    /\ nr_aborts < MaxAborts
    /\ \E code \in codes :
          /\ raised' = [raised EXCEPT !["xabort"][code] = @ + 1]
          /\ RecordAbort(XAbortStatus(code))

(* The validation after a flag transaction fails:                          *)
(* record_abort(ABORT_CONFLICT) or record_abort(ABORT_DOUBLE_FREE).        *)
ValidationAbort(codes) ==
    /\ nr_aborts < MaxAborts
    /\ \E code \in codes :
          /\ raised' = [raised EXCEPT !["raw"][code] = @ + 1]
          /\ RecordAbort(code)

Next ==
    \/ HardwareAbort
    \/ ExplicitAbort(AppCodes)
    \/ ValidationAbort({ABORT_CONFLICT, ABORT_DOUBLE_FREE})

Spec == Init /\ [][Next]_vars

-----------------------------------------------------------------------------

TypeOK ==
    /\ counts \in [Reasons -> 0 .. MaxAborts]
    /\ nr_aborts \in 0 .. MaxAborts
    /\ raised \in [{"xabort", "raw"} -> [AppCodes -> 0 .. MaxAborts]]

(* Spec section 4.4: the code of an application-level abort selects       *)
(* exactly its own counter, so the "double free", "conflict" and          *)
(* "lfconflict" lines of pr_abort_stat count exactly the aborts the code  *)
(* raised for those reasons, and the rtm_explicit line counts exactly the *)
(* aborts raised by _xabort.                                               *)
AppReasonsCounted ==
    /\ \A c \in AppCodes : counts[c] = raised["xabort"][c] + raised["raw"][c]
    /\ counts[ABORT_RTM_EXPLICIT] = FoldFunction(+, 0, raised["xabort"])
=============================================================================
