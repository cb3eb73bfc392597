----------------------------- MODULE OrderedSet -----------------------------
(***************************************************************************)
(* What every synchronization protocol of the hash list promises of one    *)
(* bucket: a set of integer keys, and threads whose add and remove         *)
(* operations each take effect atomically at most once, between their     *)
(* start and their return, and only as the operation says: an add puts an *)
(* absent key in, a remove takes a present key out.  An operation may also *)
(* end without effect (the key was already there, was not there, or the   *)
(* protocol reported a conflict), but then it does not tell its caller    *)
(* that it changed the set.  Lookups change nothing.                       *)
(***************************************************************************)
CONSTANTS Keys, Threads, NoOp

VARIABLES
    set,
    busy,   \* busy[t]: the update t has started and not applied
    told    \* told[t]: t's update has applied and reports that it changed the set

Updates == [op : {"add", "remove"}, key : Keys]

TypeOK ==
    /\ set \subseteq Keys
    /\ busy \in [Threads -> Updates \cup {NoOp}]
    /\ told \in [Threads -> BOOLEAN]

(* Any keys may be in the set when the threads start. *)
Init ==
    /\ set \in SUBSET Keys
    /\ busy = [t \in Threads |-> NoOp]
    /\ told = [t \in Threads |-> FALSE]

Start(t) ==
    /\ busy[t] = NoOp
    /\ \E u \in Updates : busy' = [busy EXCEPT ![t] = u]
    /\ told' = [told EXCEPT ![t] = FALSE]
    /\ UNCHANGED set

Insert(t) ==
    /\ busy[t] # NoOp
    /\ busy[t].op = "add"
    /\ busy[t].key \notin set
    /\ set' = set \cup {busy[t].key}
    /\ busy' = [busy EXCEPT ![t] = NoOp]
    /\ told' = [told EXCEPT ![t] = TRUE]

Delete(t) ==
    /\ busy[t] # NoOp
    /\ busy[t].op = "remove"
    /\ busy[t].key \in set
    /\ set' = set \ {busy[t].key}
    /\ busy' = [busy EXCEPT ![t] = NoOp]
    /\ told' = [told EXCEPT ![t] = TRUE]

(* The update ends without effect and says so. *)
Abandon(t) ==
    /\ busy[t] # NoOp
    /\ busy' = [busy EXCEPT ![t] = NoOp]
    /\ told' = [told EXCEPT ![t] = FALSE]
    /\ UNCHANGED set

(* A lookup by an idle thread: it changes nothing and reports no change. *)
Lookup(t) ==
    /\ busy[t] = NoOp
    /\ told' = [told EXCEPT ![t] = FALSE]
    /\ UNCHANGED <<set, busy>>

Next ==
    \E t \in Threads : Start(t) \/ Insert(t) \/ Delete(t) \/ Abandon(t) \/ Lookup(t)

Spec == Init /\ [][Next]_<<set, busy, told>>
=============================================================================
